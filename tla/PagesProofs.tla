---------------------------- MODULE PagesProofs ----------------------------
(***************************************************************************)
(* Proofs about the page allocator and the section table, for any sizes of *)
(* the two regions, any layouts of the buffers and any number of tasks.    *)
(*                                                                         *)
(* The reference counts are exact whatever the allocator does.  What the   *)
(* table says of an address rests on one fact: as long as no page beyond   *)
(* the secure RAM was handed out, the two bitmaps are equal, so the search *)
(* finds the same page in both and every section is mapped at its own      *)
(* address or not at all.                                                  *)
(***************************************************************************)
EXTENDS Pages, FiniteSetTheorems, TLAPS

-----------------------------------------------------------------------------
(* Division. *)

(* The quotient and the remainder make up the number. *)
LEMMA DivMod ==
  ASSUME NEW d \in Nat \ {0}, NEW i \in Nat
  PROVE  /\ i \div d \in Nat /\ i % d \in 0 .. d - 1
         /\ (i \div d) * d + (i % d) = i
  <1>1. i \div d \in Int /\ i % d \in 0 .. d - 1
    OBVIOUS
  <1>2. (i \div d) * d + (i % d) = i
    OBVIOUS
  <1>3. i \div d >= 0
    BY <1>1, <1>2
  <1> QED BY <1>1, <1>2, <1>3

(* A larger page lies in no smaller section. *)
LEMMA DivMono ==
  ASSUME NEW d \in Nat \ {0}, NEW i \in Nat, NEW j \in Nat, i <= j
  PROVE  i \div d <= j \div d
  <1> DEFINE x == i \div d
             y == j \div d
  <1>1. x \in Nat /\ y \in Nat /\ x * d <= i /\ j < y * d + d
    BY DivMod
  <1>2. x * d < (y + 1) * d
    BY <1>1
  <1> HIDE DEF x, y
  <1>3. ASSUME x > y PROVE FALSE
    <2>1. PICK z \in Nat : x = y + 1 + z
      BY <1>1, <1>3
    <2>2. x * d = (y + 1) * d + z * d
      BY <2>1, <1>1
    <2>3. z * d >= 0
      BY <2>1
    <2> QED BY <2>2, <2>3, <1>2, <1>1, <2>1
  <1>4. x <= y
    BY <1>3, <1>1
  <1> QED BY <1>4 DEF x, y

(* A request has at least one page. *)
LEMMA PagesPositive ==
  ASSUME NEW size \in Sizes
  PROVE  Pages(size) \in Nat \ {0} /\ size \div 2 \in Nat /\ size \div 2 <= Pages(size)
  BY PagesAssumption DEF Pages

(* A page of a region lies in a section of the table. *)
LEMMA PageSection ==
  ASSUME NEW i \in 0 .. VirBits
  PROVE  i \div SecSize \in Secs /\ i \div SecSize \in Nat
  <1>1. i \div SecSize <= VirBits \div SecSize /\ i \div SecSize \in Nat
    BY DivMono, DivMod, PagesAssumption
  <1> QED BY <1>1, DivMod, PagesAssumption DEF Secs

(* A page of the secure RAM lies in a section of its own, not in a buffer's. *)
LEMMA RamSection ==
  ASSUME NEW i \in 0 .. PhyPages - 1
  PROVE  i \div SecSize \in Secs \ NsSecs
  <1>1. i \div SecSize <= (PhyPages - 1) \div SecSize /\ i \div SecSize \in Nat
    BY DivMono, DivMod, PagesAssumption
  <1>2. i \div SecSize \in RamSecs
    BY <1>1, DivMod, PagesAssumption DEF RamSecs
  <1>3. i \in 0 .. VirBits
    BY PagesAssumption
  <1>4. i \div SecSize \in Secs
    BY <1>3, PageSection
  <1> QED BY <1>2, <1>4, PagesAssumption

-----------------------------------------------------------------------------
(* The mappings of non-secure memory. *)

(* A table with its references. *)
Table == [tab : [Secs -> [pa : Secs \cup {None}, ns : BOOLEAN]], refs : [Secs -> Nat]]

(* The named buffers of a command that are mapped together. *)
Maps == UNION {[D -> NsSecs] : D \in SUBSET Buffers}

(* A command has four buffers. *)
LEMMA BuffersFinite == IsFiniteSet(Buffers)
  <1>1. IsFiniteSet({"cmd"})
    BY FS_Singleton
  <1>2. IsFiniteSet({"cmd"} \cup {"req"})
    BY <1>1, FS_AddElement
  <1>3. IsFiniteSet(({"cmd"} \cup {"req"}) \cup {"res"})
    BY <1>2, FS_AddElement
  <1>4. IsFiniteSet((({"cmd"} \cup {"req"}) \cup {"res"}) \cup {"meta"})
    BY <1>3, FS_AddElement
  <1>5. Buffers = (({"cmd"} \cup {"req"}) \cup {"res"}) \cup {"meta"}
    BY DEF Buffers
  <1> QED BY <1>4, <1>5

(* How often a section is named is a number, and zero outside the buffers.  *)
LEMMA TimesFacts ==
  ASSUME NEW m \in Maps, NEW s
  PROVE  /\ Times(m, s) \in Nat
         /\ s \notin NsSecs => Times(m, s) = 0
  <1>1. PICK D \in SUBSET Buffers : m \in [D -> NsSecs]
    BY DEF Maps
  <1>2. {b \in DOMAIN m : m[b] = s} \in SUBSET Buffers
    BY <1>1
  <1>3. Times(m, s) \in Nat
    BY <1>2, BuffersFinite, FS_Subset, FS_CardinalityType DEF Times
  <1>4. ASSUME s \notin NsSecs PROVE Times(m, s) = 0
    <2>1. {b \in DOMAIN m : m[b] = s} = {}
      BY <1>1, <1>4
    <2> QED BY <2>1, FS_EmptySet DEF Times
  <1> QED BY <1>3, <1>4

(* One section, and the buffers of a layout, are mapped as such.            *)
LEMMA OneFacts ==
  ASSUME NEW s \in NsSecs
  PROVE  One(s) \in Maps /\ \A r : Times(One(s), r) = IF r = s THEN 1 ELSE 0
  <1>1. One(s) \in Maps
    <2>1. One(s) \in [{"cmd"} -> NsSecs] /\ {"cmd"} \in SUBSET Buffers
      BY DEF One, Buffers
    <2> QED BY <2>1 DEF Maps
  <1>2. ASSUME NEW r PROVE Times(One(s), r) = IF r = s THEN 1 ELSE 0
    <2>1. {b \in DOMAIN One(s) : One(s)[b] = r} = IF r = s THEN {"cmd"} ELSE {}
      BY DEF One
    <2> QED BY <2>1, FS_EmptySet, FS_Singleton DEF Times
  <1> QED BY <1>1, <1>2

(* Mapping some buffers of a layout counts each section as often as they    *)
(* name it.                                                                 *)
LEMMA OnlyFacts ==
  ASSUME NEW l \in [Buffers -> NsSecs \cup {None}], NEW B \in SUBSET Buffers
  PROVE  /\ Only(l, B) \in Maps
         /\ \A s \in NsSecs : Times(Only(l, B), s) = Cardinality({b \in B : l[b] = s})
  <1>1. Only(l, B) \in [{x \in B : l[x] # None} -> NsSecs]
    BY DEF Only
  <1>2. Only(l, B) \in Maps
    BY <1>1 DEF Maps
  <1>3. ASSUME NEW s \in NsSecs
        PROVE  Times(Only(l, B), s) = Cardinality({b \in B : l[b] = s})
    <2>1. s # None
      BY PagesAssumption DEF None
    <2>2. {b \in DOMAIN Only(l, B) : Only(l, B)[b] = s} = {b \in B : l[b] = s}
      BY <2>1 DEF Only
    <2> QED BY <2>2 DEF Times
  <1> QED BY <1>2, <1>3

(* The table that is left after mapping or unmapping q is like p outside    *)
(* the sections of the buffers, and inside them every section that is       *)
(* mapped at its own address or not at all in p is so in q.                 *)
Quiet(p, q) ==
    /\ q \in Table
    /\ \A s \in Secs \ NsSecs : q.tab[s] = p.tab[s]
    /\ \A s \in Secs : (p.tab[s] = Fault \/ p.tab[s].pa = s)
                          => (q.tab[s] = Fault \/ q.tab[s].pa = s)

(* A section can be seen by the non-secure world while it has references.   *)
Visible(p) == \A s \in NsSecs : p.tab[s].ns <=> p.refs[s] > 0

(* Sections are numbers, -1 is none of them, and an empty entry is an       *)
(* entry.                                                                   *)
LEMMA SecsFacts == /\ NsSecs \subseteq Secs /\ Secs \subseteq Nat /\ None \notin Secs
                   /\ Fault \in [pa : Secs \cup {None}, ns : BOOLEAN]
  <1>0. VirBits \div SecSize \in Nat /\ NsSecs \subseteq Nat
    BY DivMod, PagesAssumption
  <1>2. \A i \in Nat : 0 .. i \subseteq Nat
    OBVIOUS
  <1>3. NsSecs \subseteq Secs
    BY DEF Secs
  <1>4. Secs \subseteq Nat
    BY <1>0, <1>2 DEF Secs
  <1>5. None \notin Nat
    BY DEF None
  <1>1. NsSecs \subseteq Secs /\ Secs \subseteq Nat /\ None \notin Secs
    BY <1>3, <1>4, <1>5
  <1> QED BY <1>1 DEF Fault

(* map_to_ns: the sections named are visible, and count their references    *)
(* when the nodes could be allocated.                                       *)
LEMMA MapFacts ==
  ASSUME NEW p \in Table, NEW m \in Maps, NEW lost
  PROVE  /\ MapNs(p, m, lost) \in Table
         /\ Quiet(p, MapNs(p, m, lost))
         /\ lost = None =>
              /\ \A s \in Secs : MapNs(p, m, lost).refs[s] = p.refs[s] + Times(m, s)
              /\ Visible(p) => Visible(MapNs(p, m, lost))
  <1> DEFINE q == MapNs(p, m, lost)
  <1>t. \A s \in Secs : Times(m, s) \in Nat /\ (s \notin NsSecs => Times(m, s) = 0)
    BY TimesFacts
  <1>1. \A s \in Secs :
          /\ Times(m, s) = 0 => q.tab[s] = p.tab[s]
          /\ Times(m, s) # 0 =>
               /\ q.tab[s].pa = IF p.tab[s] = Fault THEN s ELSE p.tab[s].pa
               /\ q.tab[s].ns = TRUE
    BY DEF MapNs
  <1>2. \A s \in Secs : q.refs[s] = page_ref_add(p.refs[s], Times(m, s), s = lost)
    BY DEF MapNs
  <1>3. q \in Table
    <2>1. \A s \in Secs : (IF Times(m, s) = 0 THEN p.tab[s]
                ELSE [pa |-> IF p.tab[s] = Fault THEN s ELSE p.tab[s].pa, ns |-> TRUE])
              \in [pa : Secs \cup {None}, ns : BOOLEAN]
      BY DEF Table
    <2>2. \A s \in Secs : p.refs[s] \in Nat
      BY DEF Table
    <2>3. \A s \in Secs : page_ref_add(p.refs[s], Times(m, s), s = lost) \in Nat
      BY <1>t, <2>2 DEF page_ref_add
    <2> QED BY <2>1, <2>3 DEF MapNs, Table
  <1> HIDE DEF q
  <1>4. Quiet(p, q)
    <2>1. \A s \in Secs \ NsSecs : q.tab[s] = p.tab[s]
      BY <1>t, <1>1
    <2>2. ASSUME NEW s \in Secs, p.tab[s] = Fault \/ p.tab[s].pa = s
          PROVE  q.tab[s] = Fault \/ q.tab[s].pa = s
      <3>1. CASE Times(m, s) = 0
        BY <2>2, <3>1, <1>1
      <3>2. CASE Times(m, s) # 0
        <4>1. q.tab[s].pa = IF p.tab[s] = Fault THEN s ELSE p.tab[s].pa
          BY <3>2, <1>1
        <4> QED BY <4>1, <2>2
      <3> QED BY <3>1, <3>2
    <2> QED BY <1>3, <2>1, <2>2 DEF Quiet
  <1>5. ASSUME lost = None
        PROVE  /\ \A s \in Secs : q.refs[s] = p.refs[s] + Times(m, s)
               /\ Visible(p) => Visible(q)
    <2>1. \A s \in Secs : s # lost /\ p.refs[s] \in Nat
      BY <1>5, SecsFacts DEF Table
    <2>2. \A s \in Secs : q.refs[s] = p.refs[s] + Times(m, s)
      BY <2>1, <1>2, <1>t DEF page_ref_add
    <2>3. ASSUME Visible(p), NEW s \in NsSecs
          PROVE  q.tab[s].ns <=> q.refs[s] > 0
      <3>1. s \in Secs /\ p.refs[s] \in Nat /\ (p.tab[s].ns <=> p.refs[s] > 0)
        BY <2>3, <2>1, SecsFacts DEF Visible
      <3>2. CASE Times(m, s) = 0
        <4>1. q.tab[s] = p.tab[s] /\ q.refs[s] = p.refs[s]
          BY <3>1, <3>2, <1>1, <2>2
        <4> QED BY <4>1, <3>1
      <3>3. CASE Times(m, s) # 0
        <4>1. q.tab[s].ns
          BY <3>1, <3>3, <1>1
        <4>2. q.refs[s] > 0
          BY <3>1, <3>3, <2>2, <1>t
        <4> QED BY <4>1, <4>2
      <3> QED BY <3>2, <3>3
    <2> QED BY <2>2, <2>3 DEF Visible
  <1> QED BY <1>3, <1>4, <1>5 DEF q

(* unmap_from_ns: a section is gone exactly with its last reference.        *)
LEMMA UnmapFacts ==
  ASSUME NEW p \in Table, NEW m \in Maps
  PROVE  /\ UnmapNs(p, m) \in Table
         /\ Quiet(p, UnmapNs(p, m))
         /\ \A s \in Secs : p.refs[s] >= Times(m, s)
                            => UnmapNs(p, m).refs[s] = p.refs[s] - Times(m, s)
         /\ Visible(p) => Visible(UnmapNs(p, m))
  <1> DEFINE q == UnmapNs(p, m)
  <1>t. \A s \in Secs : /\ Times(m, s) \in Nat /\ (s \notin NsSecs => Times(m, s) = 0)
                        /\ p.refs[s] \in Nat
    BY TimesFacts DEF Table
  <1>1. \A s \in Secs : q.tab[s] = IF p.refs[s] > 0 /\ p.refs[s] <= Times(m, s)
                                    THEN Fault ELSE p.tab[s]
    BY DEF UnmapNs
  <1>2. \A s \in Secs : q.refs[s] = page_ref_release(p.refs[s], Times(m, s))
    BY DEF UnmapNs
  <1>3. q \in Table
    <2>1. \A s \in Secs : (IF p.refs[s] > 0 /\ p.refs[s] <= Times(m, s)
                                    THEN Fault ELSE p.tab[s])
              \in [pa : Secs \cup {None}, ns : BOOLEAN]
      BY SecsFacts DEF Table
    <2>3. \A s \in Secs : page_ref_release(p.refs[s], Times(m, s)) \in Nat
      BY <1>t DEF page_ref_release
    <2> QED BY <2>1, <2>3 DEF UnmapNs, Table
  <1>4. Quiet(p, q)
    <2>1. \A s \in Secs \ NsSecs : q.tab[s] = p.tab[s]
      BY <1>t, <1>1
    <2>2. \A s \in Secs : (p.tab[s] = Fault \/ p.tab[s].pa = s)
                          => (q.tab[s] = Fault \/ q.tab[s].pa = s)
      BY <1>1
    <2> HIDE DEF q
    <2> QED BY <1>3, <2>1, <2>2 DEF Quiet
  <1>5. \A s \in Secs : p.refs[s] >= Times(m, s) => q.refs[s] = p.refs[s] - Times(m, s)
    BY <1>2, <1>t DEF page_ref_release
  <1>6. ASSUME Visible(p), NEW s \in NsSecs
        PROVE  q.tab[s].ns <=> q.refs[s] > 0
    <2>1. s \in Secs /\ p.refs[s] \in Nat /\ (p.tab[s].ns <=> p.refs[s] > 0)
      BY <1>6, <1>t, SecsFacts DEF Visible
    <2>2. CASE p.refs[s] > 0 /\ p.refs[s] <= Times(m, s)
      <3>1. ~q.tab[s].ns
        BY <2>1, <2>2, <1>1 DEF Fault
      <3>2. q.refs[s] = 0
        BY <2>1, <2>2, <1>2, <1>t DEF page_ref_release
      <3> QED BY <3>1, <3>2
    <2>3. CASE ~(p.refs[s] > 0 /\ p.refs[s] <= Times(m, s))
      <3>1. q.tab[s] = p.tab[s]
        BY <2>1, <2>3, <1>1
      <3>2. q.refs[s] > 0 <=> p.refs[s] > 0
        BY <2>1, <2>3, <1>2, <1>t DEF page_ref_release
      <3> QED BY <3>1, <3>2, <2>1
    <2> QED BY <2>2, <2>3
  <1> HIDE DEF q
  <1>7. Visible(p) => Visible(q)
    BY <1>6 DEF Visible
  <1> QED BY <1>3, <1>4, <1>5, <1>7 DEF q

(* Two quiet steps make a quiet step. *)
LEMMA QuietTrans ==
  ASSUME NEW p, NEW q, NEW r, Quiet(p, q), Quiet(q, r)
  PROVE  Quiet(p, r)
  BY DEF Quiet

(* Reading a command leaves the references as they were.                    *)
LEMMA AccessFacts ==
  ASSUME NEW p \in Table, NEW m \in Maps, NEW lost
  PROVE  /\ Access(p, m, lost) \in Table
         /\ Quiet(p, Access(p, m, lost))
         /\ lost = None =>
              /\ \A s \in Secs : Access(p, m, lost).refs[s] = p.refs[s]
              /\ Visible(p) => Visible(Access(p, m, lost))
  <1> DEFINE q == MapNs(p, m, lost)
             r == UnmapNs(q, m)
  <1>1. /\ q \in Table /\ Quiet(p, q)
        /\ lost = None =>
              /\ \A s \in Secs : q.refs[s] = p.refs[s] + Times(m, s)
              /\ Visible(p) => Visible(q)
    BY MapFacts
  <1>2. /\ r \in Table /\ Quiet(q, r)
        /\ \A s \in Secs : q.refs[s] >= Times(m, s) => r.refs[s] = q.refs[s] - Times(m, s)
        /\ Visible(q) => Visible(r)
    <2> HIDE DEF q
    <2> QED BY <1>1, UnmapFacts
  <1>3. \A s \in Secs : Times(m, s) \in Nat /\ p.refs[s] \in Nat
    BY TimesFacts DEF Table
  <1>4. Access(p, m, lost) = r
    BY DEF Access
  <1> HIDE DEF q, r
  <1>5. Quiet(p, r)
    BY <1>1, <1>2, QuietTrans
  <1>6. ASSUME lost = None, NEW s \in Secs PROVE r.refs[s] = p.refs[s]
    BY <1>1, <1>2, <1>3, <1>6
  <1> QED BY <1>1, <1>2, <1>4, <1>5, <1>6
-----------------------------------------------------------------------------
(* The page allocator. *)

(* A search that succeeds gives the lowest run. *)
LEMMA LeastPage ==
  ASSUME NEW S, S \subseteq Nat, S # {}
  PROVE  Min(S) \in S /\ \A y \in S : Min(S) <= y
  <1>1. PICK x \in S : \A y \in S : ~(<<y, x>> \in OpToRel(<, Nat))
    BY NatLessThanWellFounded, WFMin
  <1>2. \A y \in S : <<y, x>> \notin {ss \in Nat \X Nat : ss[1] < ss[2]}
    BY <1>1, Zenon DEF OpToRel
  <1>3. ASSUME NEW y \in S PROVE x <= y
    <2>1. x \in Nat /\ y \in Nat /\ <<y, x>> \in Nat \X Nat
      OBVIOUS
    <2>2. ~(<<y, x>>[1] < <<y, x>>[2])
      BY <1>2, <2>1
    <2> QED BY <2>1, <2>2
  <1> QED BY <1>3 DEF Min

(* v is the lowest page where the search of n clear bits succeeds. *)
Found(v, bm, bits, n) ==
    /\ v \in Nat /\ v + n < bits
    /\ \A i \in v .. v + n - 1 : i \notin bm
    /\ \A s \in Nat : (s + n < bits /\ \A i \in s .. s + n - 1 : i \notin bm) => v <= s

(* The search finds the first run of free pages that is long enough. *)
LEMMA RunsFacts ==
  ASSUME NEW bm, NEW bits \in Nat, NEW n \in Nat, Runs(bm, bits, n) # {}
  PROVE  Found(Min(Runs(bm, bits, n)), bm, bits, n)
  <1> DEFINE S == Runs(bm, bits, n)
  <1>1. S = {s \in 0 .. bits - n - 1 : \A i \in s .. s + n - 1 : i \notin bm}
    BY DEF Runs
  <1> HIDE DEF S
  <1>2. S \subseteq Nat
    BY <1>1
  <1>3. Min(S) \in S /\ \A y \in S : Min(S) <= y
    BY <1>2, LeastPage DEF S
  <1> DEFINE v == Min(S)
  <1> HIDE DEF v
  <1>4. v \in S /\ \A y \in S : v <= y
    BY <1>3 DEF v
  <1>5. v \in Nat /\ v + n < bits /\ \A i \in v .. v + n - 1 : i \notin bm
    BY <1>4, <1>1
  <1>6. ASSUME NEW s \in Nat, s + n < bits, \A i \in s .. s + n - 1 : i \notin bm
        PROVE  v <= s
    <2>1. s \in S
      BY <1>6, <1>1
    <2> QED BY <2>1, <1>4
  <1>7. Found(v, bm, bits, n)
    BY <1>5, <1>6 DEF Found
  <1> QED BY <1>7 DEF v, S

(* What sw_vir_page_alloc does with the pages it finds. *)
AllocAt(size, v, p) ==
    LET n == Pages(size) IN
    /\ Found(v, vbm, VirBits, n) /\ Found(p, pbm, PhyBits, n)
    /\ n <= vfree /\ n <= pfree
    /\ vbm' = vbm \cup (v .. v + n - 1) /\ vfree' = vfree - n
    /\ pbm' = pbm \cup (p .. p + n - 1) /\ pfree' = pfree - n
    /\ pt' = [pt EXCEPT !.tab = MapSecure(@, v, p, n)]
    /\ owned' = owned \cup {[start |-> v, size |-> size]}
    /\ spilled' = (spilled \/ v + n > PhyPages)
    /\ freed' = freed /\ named' = named /\ UNCHANGED nsVars

(* sw_vir_page_alloc takes the first runs of both bitmaps. *)
LEMMA AllocFacts ==
  ASSUME PageAlloc
  PROVE  \E size \in Sizes : \E v, p : AllocAt(size, v, p)
  <1> DEFINE V(size) == Min(Runs(vbm, VirBits, Pages(size)))
             P(size) == Min(Runs(pbm, PhyBits, Pages(size)))
  <1>1. PICK size \in Sizes :
          LET n  == Pages(size)
              vs == Runs(vbm, VirBits, n)
              ps == Runs(pbm, PhyBits, n)
          IN  /\ n <= vfree /\ vs # {}
              /\ n <= pfree /\ ps # {}
              /\ vbm' = vbm \cup (Min(vs) .. Min(vs) + n - 1) /\ vfree' = vfree - n
              /\ pbm' = pbm \cup (Min(ps) .. Min(ps) + n - 1) /\ pfree' = pfree - n
              /\ pt' = [pt EXCEPT !.tab = MapSecure(@, Min(vs), Min(ps), n)]
              /\ owned' = owned \cup {[start |-> Min(vs), size |-> size]}
              /\ spilled' = (spilled \/ Min(vs) + n > PhyPages)
              /\ UNCHANGED <<freed, nsVars, named>>
    BY DEF PageAlloc
  <1>2. Pages(size) \in Nat /\ VirBits \in Nat /\ PhyBits \in Nat
    BY PagesPositive, PagesAssumption
  <1>3. Found(V(size), vbm, VirBits, Pages(size)) /\ Found(P(size), pbm, PhyBits, Pages(size))
    BY <1>1, <1>2, RunsFacts
  <1>4. AllocAt(size, V(size), P(size))
    BY <1>1, <1>3 DEF AllocAt
  <1> QED BY <1>4

(* The pages found lie within the regions. *)
LEMMA FoundRange ==
  ASSUME NEW size \in Sizes, NEW v, NEW bm, NEW bits \in Nat, bits <= VirBits,
         Found(v, bm, bits, Pages(size))
  PROVE  /\ v \in Nat /\ Pages(size) \in Nat \ {0} /\ v + Pages(size) < bits
         /\ v \in 0 .. VirBits /\ v + Pages(size) \in 0 .. VirBits
  BY PagesPositive, PagesAssumption DEF Found

(* The sections from the first page to the one behind the last are mapped.  *)
LEMMA MapSecureFacts ==
  ASSUME NEW tab \in [Secs -> [pa : Secs \cup {None}, ns : BOOLEAN]],
         NEW size \in Sizes, NEW v \in Nat, NEW p \in Nat,
         v + Pages(size) < VirBits, p + Pages(size) < VirBits
  PROVE  LET q == MapSecure(tab, v, p, Pages(size)) IN
         /\ q \in [Secs -> [pa : Secs \cup {None}, ns : BOOLEAN]]
         /\ \A s \in Secs : tab[s] # Fault => q[s] = tab[s]
         /\ \A s \in Secs : q[s].ns => tab[s].ns
         /\ \A s \in Secs : tab[s].ns => q[s].ns
         /\ v = p => /\ \A s \in Secs : tab[s] = Fault => (q[s] = Fault \/ q[s].pa = s)
                     /\ \A i \in v .. v + Pages(size) - 1 :
                           tab[i \div SecSize] = Fault => q[i \div SecSize].pa = i \div SecSize
  <1> DEFINE n == Pages(size)
             d == SecSize
             last == (p + n) \div d - p \div d
             new(s) == p \div d + (s - v \div d)
             q == MapSecure(tab, v, p, n)
  <1>1. n \in Nat \ {0} /\ d \in Nat \ {0}
    BY PagesPositive, PagesAssumption
  <1>2. /\ p \div d \in Nat /\ (p + n) \div d \in Nat /\ v \div d \in Nat /\ last \in Int
        /\ \A j \in 0 .. (p + n) \div d : j \in Secs
    <2>1. p \in 0 .. VirBits /\ p + n \in 0 .. VirBits /\ v \in 0 .. VirBits
      BY <1>1, PagesAssumption
    <2>2. p \div d \in Nat /\ (p + n) \div d \in Nat /\ v \div d \in Nat
      BY <2>1, PageSection
    <2>4. p + n \in Nat /\ VirBits \in Nat /\ p + n <= VirBits
      BY <2>1, PagesAssumption
    <2> HIDE DEF n, d
    <2>3. (p + n) \div d <= VirBits \div d /\ VirBits \div d \in Nat
      BY <2>4, <1>1, DivMono, DivMod
    <2> USE DEF n, d
    <2> QED BY <2>2, <2>3 DEF Secs
  <1>3. q = [s \in Secs |-> IF tab[s] = Fault /\ s - v \div d \in 0 .. last
                            THEN [pa |-> new(s), ns |-> FALSE] ELSE tab[s]]
    BY DEF MapSecure
  <1> HIDE DEF n, d, last, q
  <1>4. \A s \in Secs : s - v \div d \in 0 .. last => new(s) \in Secs
    <2> TAKE s \in Secs
    <2> HAVE s - v \div d \in 0 .. last
    <2>1. s \in Int /\ s - v \div d \in Int
      BY SecsFacts, <1>2
    <2>2. new(s) \in 0 .. (p + n) \div d
      BY <2>1, <1>2 DEF last
    <2> QED BY <2>2, <1>2
  <1>5. \A s \in Secs : (IF tab[s] = Fault /\ s - v \div d \in 0 .. last
                         THEN [pa |-> new(s), ns |-> FALSE] ELSE tab[s])
                           \in [pa : Secs \cup {None}, ns : BOOLEAN]
    BY <1>4
  <1>6. q \in [Secs -> [pa : Secs \cup {None}, ns : BOOLEAN]]
    BY <1>3, <1>5
  <1>7. \A s \in Secs : /\ (tab[s] # Fault \/ s - v \div d \notin 0 .. last) => q[s] = tab[s]
                        /\ (tab[s] = Fault /\ s - v \div d \in 0 .. last) =>
                              q[s].pa = new(s) /\ q[s].ns = FALSE
    BY <1>3
  <1>8. Fault.ns = FALSE
    BY DEF Fault
  <1>9. \A s \in Secs : q[s].ns = tab[s].ns
    <2> TAKE s \in Secs
    <2>1. CASE tab[s] # Fault \/ s - v \div d \notin 0 .. last
      BY <2>1, <1>7
    <2>2. CASE tab[s] = Fault /\ s - v \div d \in 0 .. last
      <3>1. q[s].ns = FALSE
        BY <2>2, <1>7
      <3> QED BY <3>1, <2>2, <1>8
    <2> QED BY <2>1, <2>2
  <1>10. ASSUME v = p, NEW s \in Secs PROVE tab[s] = Fault => (q[s] = Fault \/ q[s].pa = s)
    <2>1. s \in Int
      BY SecsFacts
    <2>2. new(s) = s
      BY <1>10, <2>1, <1>2
    <2> QED BY <2>2, <1>7
  <1>11. ASSUME v = p, NEW i \in v .. v + n - 1, tab[i \div d] = Fault
         PROVE  q[i \div d].pa = i \div d
    <2>1. i \in Nat /\ v <= i /\ i <= p + n /\ i \in 0 .. VirBits /\ p + n \in Nat
      BY <1>11, <1>1, PagesAssumption DEF n
    <2>2. v \div d <= i \div d /\ i \div d <= (p + n) \div d
      BY <2>1, <1>1, DivMono
    <2>3. i \div d \in Secs /\ i \div d \in Nat
      BY <2>1, PageSection DEF d
    <2>4. i \div d - v \div d \in 0 .. last
      BY <2>2, <2>3, <1>2, <1>11 DEF last
    <2>5. new(i \div d) = i \div d
      BY <2>3, <1>11, <1>2
    <2> QED BY <2>3, <2>4, <2>5, <1>7, <1>11
  <1>12. \A s \in Secs : tab[s] # Fault => q[s] = tab[s]
    BY <1>7
  <1> QED BY <1>6, <1>9, <1>10, <1>11, <1>12 DEF q, n, d
-----------------------------------------------------------------------------
(* The users of a section. *)

(* What a task holds; the users, of any calls c and notification page nt.   *)
Call == [lay : [Buffers -> NsSecs \cup {None}], ref : Secs \cup {None}, on : BOOLEAN]

(* The users of section s: buffers, references and the notification page. *)
UserSet(c, nt, s) ==
    {u \in Tasks \X Buffers : c[u[1]].lay[u[2]] = s}
        \cup {<<t, "ref">> : t \in {u \in Tasks : c[u].ref = s}}
        \cup (IF nt = s THEN {<<None, "notify">>} ELSE {})

(* A user is one of the three kinds. *)
LEMMA UserSetMember ==
  ASSUME NEW c, NEW nt, NEW s, NEW x
  PROVE  x \in UserSet(c, nt, s) <=>
            \/ \E t \in Tasks, b \in Buffers : x = <<t, b>> /\ c[t].lay[b] = s
            \/ \E t \in Tasks : x = <<t, "ref">> /\ c[t].ref = s
            \/ x = <<None, "notify">> /\ nt = s
  <1>1. x \in {u \in Tasks \X Buffers : c[u[1]].lay[u[2]] = s} <=>
           \E t \in Tasks, b \in Buffers : x = <<t, b>> /\ c[t].lay[b] = s
    OBVIOUS
  <1>2. x \in {<<t, "ref">> : t \in {u \in Tasks : c[u].ref = s}} <=>
           \E t \in Tasks : x = <<t, "ref">> /\ c[t].ref = s
    OBVIOUS
  <1>3. x \in (IF nt = s THEN {<<None, "notify">>} ELSE {}) <=>
           x = <<None, "notify">> /\ nt = s
    OBVIOUS
  <1> QED BY <1>1, <1>2, <1>3 DEF UserSet

(* There are finitely many users. *)
LEMMA UserSetFinite ==
  ASSUME NEW c, NEW nt, NEW s
  PROVE  IsFiniteSet(UserSet(c, nt, s)) /\ Cardinality(UserSet(c, nt, s)) \in Nat
  <1> DEFINE T == Tasks \cup {None}
             B == (Buffers \cup {"ref"}) \cup {"notify"}
  <1>1. IsFiniteSet(T) /\ IsFiniteSet(B)
    BY PagesAssumption, BuffersFinite, FS_AddElement
  <1>2. IsFiniteSet(T \X B)
    BY <1>1, FS_Product
  <1>3. UserSet(c, nt, s) \in SUBSET (T \X B)
    <2> SUFFICES ASSUME NEW x \in UserSet(c, nt, s) PROVE x \in T \X B
      OBVIOUS
    <2> QED BY UserSetMember
  <1> QED BY <1>2, <1>3, FS_Subset, FS_CardinalityType

(* Two sets of users that differ in a set of new ones.                      *)
LEMMA MoreUsers ==
  ASSUME NEW S, NEW T, NEW D, IsFiniteSet(S), IsFiniteSet(D),
         \A x : x \in T <=> x \in S \/ x \in D, \A x : ~(x \in S /\ x \in D)
  PROVE  Cardinality(T) = Cardinality(S) + Cardinality(D)
  <1>1. T = S \cup D /\ S \cap D = {}
    OBVIOUS
  <1>2. Cardinality(S) \in Nat /\ Cardinality(D) \in Nat
    BY FS_CardinalityType
  <1>3. Cardinality(S \cup D) = Cardinality(S) + Cardinality(D) - Cardinality(S \cap D)
    BY FS_Union
  <1>4. Cardinality(S \cap D) = 0
    BY <1>1, FS_EmptySet
  <1> QED BY <1>1, <1>2, <1>3, <1>4

(* As many pairs as names.                                                  *)
LEMMA Tagged ==
  ASSUME NEW t, NEW B \in SUBSET Buffers
  PROVE  /\ IsFiniteSet({<<t, b>> : b \in B})
         /\ Cardinality({<<t, b>> : b \in B}) = Cardinality(B)
  <1> DEFINE T == {<<t, b>> : b \in B}
             f == [b \in B |-> <<t, b>>]
  <1>1. IsFiniteSet(B)
    BY BuffersFinite, FS_Subset
  <1>2. f \in [B -> T]
    OBVIOUS
  <1>3. \A a, b \in B : f[a] = f[b] => a = b
    OBVIOUS
  <1>4. \A y \in T : \E x \in B : f[x] = y
    OBVIOUS
  <1>5. f \in Bijection(B, T)
    <2> HIDE DEF f, T
    <2> QED BY <1>2, <1>3, <1>4 DEF Bijection, Injection, Surjection, IsInjective
  <1>6. ExistsBijection(B, T)
    BY <1>5 DEF ExistsBijection
  <1> HIDE DEF T
  <1>7. IsFiniteSet(T) /\ Cardinality(T) = Cardinality(B)
    BY <1>1, <1>6, FS_Bijection
  <1> QED BY <1>7 DEF T

(* A task that held no buffer takes those of a layout.                      *)
LEMMA TakeLayout ==
  ASSUME NEW c \in [Tasks -> Call], NEW d \in [Tasks -> Call], NEW nt, NEW t \in Tasks,
         NEW s \in NsSecs,
         \A u \in Tasks : u # t => d[u] = c[u],
         \A b \in Buffers : c[t].lay[b] = None,
         d[t].ref = c[t].ref
  PROVE  Cardinality(UserSet(d, nt, s)) =
            Cardinality(UserSet(c, nt, s)) + Cardinality({b \in Buffers : d[t].lay[b] = s})
  <1> DEFINE B == {b \in Buffers : d[t].lay[b] = s}
             D == {<<t, b>> : b \in B}
  <1>0. s # None
    BY PagesAssumption DEF None
  <1>1. IsFiniteSet(D) /\ Cardinality(D) = Cardinality(B)
    <2>1. B \in SUBSET Buffers
      OBVIOUS
    <2> HIDE DEF B
    <2> QED BY <2>1, Tagged
  <1>2. ASSUME NEW x PROVE x \in UserSet(d, nt, s) <=> x \in UserSet(c, nt, s) \/ x \in D
    <2>1. (\E u \in Tasks, b \in Buffers : x = <<u, b>> /\ d[u].lay[b] = s) <=>
             \/ \E u \in Tasks, b \in Buffers : x = <<u, b>> /\ c[u].lay[b] = s
             \/ x \in D
      <3>1. ASSUME NEW u \in Tasks, NEW b \in Buffers
            PROVE  d[u].lay[b] = s <=> c[u].lay[b] = s \/ (u = t /\ b \in B)
        BY <1>0
      <3>2. x \in D <=> \E u \in Tasks, b \in Buffers : x = <<u, b>> /\ u = t /\ b \in B
        OBVIOUS
      <3> HIDE DEF B, D
      <3> QED BY <3>1, <3>2
    <2>2. \A u \in Tasks : d[u].ref = c[u].ref
      OBVIOUS
    <2> HIDE DEF D
    <2> QED BY <2>1, <2>2, UserSetMember
  <1>3. ASSUME NEW x PROVE ~(x \in UserSet(c, nt, s) /\ x \in D)
    <2> SUFFICES ASSUME x \in UserSet(c, nt, s), x \in D PROVE FALSE
      OBVIOUS
    <2>1. PICK b \in Buffers : x = <<t, b>>
      OBVIOUS
    <2>2. b # "ref" /\ b # "notify"
      BY DEF Buffers
    <2>3. \E u \in Tasks, e \in Buffers : x = <<u, e>> /\ c[u].lay[e] = s
      BY <2>1, <2>2, UserSetMember
    <2>4. c[t].lay[b] = s
      BY <2>1, <2>3
    <2> QED BY <2>4, <1>0
  <1> HIDE DEF B, D
  <1>4. Cardinality(UserSet(d, nt, s)) = Cardinality(UserSet(c, nt, s)) + Cardinality(D)
    BY <1>1, <1>2, <1>3, UserSetFinite, MoreUsers
  <1> QED BY <1>1, <1>4 DEF B

(* A task that held no reference takes one.                                 *)
LEMMA TakeRef ==
  ASSUME NEW c \in [Tasks -> Call], NEW d \in [Tasks -> Call], NEW nt, NEW t \in Tasks,
         NEW s \in NsSecs,
         \A u \in Tasks : u # t => d[u] = c[u],
         d[t].lay = c[t].lay, c[t].ref = None
  PROVE  Cardinality(UserSet(d, nt, s)) =
            Cardinality(UserSet(c, nt, s)) + (IF d[t].ref = s THEN 1 ELSE 0)
  <1> DEFINE D == IF d[t].ref = s THEN {<<t, "ref">>} ELSE {}
  <1>0. s # None
    BY PagesAssumption DEF None
  <1>1. IsFiniteSet(D) /\ Cardinality(D) = IF d[t].ref = s THEN 1 ELSE 0
    BY FS_EmptySet, FS_Singleton
  <1>2. ASSUME NEW x PROVE x \in UserSet(d, nt, s) <=> x \in UserSet(c, nt, s) \/ x \in D
    <2>1. (\E u \in Tasks : x = <<u, "ref">> /\ d[u].ref = s) <=>
             \/ \E u \in Tasks : x = <<u, "ref">> /\ c[u].ref = s
             \/ x \in D
      BY <1>0
    <2>2. \A u \in Tasks : d[u].lay = c[u].lay
      OBVIOUS
    <2> HIDE DEF D
    <2> QED BY <2>1, <2>2, UserSetMember
  <1>3. ASSUME NEW x PROVE ~(x \in UserSet(c, nt, s) /\ x \in D)
    <2> SUFFICES ASSUME x \in UserSet(c, nt, s), x \in D PROVE FALSE
      OBVIOUS
    <2>1. x = <<t, "ref">>
      OBVIOUS
    <2>2. "ref" \notin Buffers
      BY DEF Buffers
    <2>3. \E u \in Tasks : x = <<u, "ref">> /\ c[u].ref = s
      BY <2>1, <2>2, UserSetMember
    <2> QED BY <2>1, <2>3, <1>0
  <1> HIDE DEF D
  <1>4. Cardinality(UserSet(d, nt, s)) = Cardinality(UserSet(c, nt, s)) + Cardinality(D)
    BY <1>1, <1>2, <1>3, UserSetFinite, MoreUsers
  <1> QED BY <1>1, <1>4

(* The notification page is one user.                                       *)
LEMMA TakeNotify ==
  ASSUME NEW c, NEW nt, NEW s \in NsSecs
  PROVE  Cardinality(UserSet(c, nt, s)) =
            Cardinality(UserSet(c, None, s)) + (IF nt = s THEN 1 ELSE 0)
  <1> DEFINE D == IF nt = s THEN {<<None, "notify">>} ELSE {}
  <1>0. s # None
    BY PagesAssumption DEF None
  <1>1. IsFiniteSet(D) /\ Cardinality(D) = IF nt = s THEN 1 ELSE 0
    BY FS_EmptySet, FS_Singleton
  <1>2. ASSUME NEW x PROVE x \in UserSet(c, nt, s) <=> x \in UserSet(c, None, s) \/ x \in D
    <2>1. x \in D <=> (x = <<None, "notify">> /\ nt = s)
      OBVIOUS
    <2> HIDE DEF D
    <2> QED BY <2>1, <1>0, UserSetMember
  <1>3. ASSUME NEW x PROVE ~(x \in UserSet(c, None, s) /\ x \in D)
    <2> SUFFICES ASSUME x \in UserSet(c, None, s), x \in D PROVE FALSE
      OBVIOUS
    <2>1. x = <<None, "notify">>
      OBVIOUS
    <2>2. "notify" \notin Buffers
      BY DEF Buffers
    <2> QED BY <2>1, <2>2, <1>0, UserSetMember
  <1> HIDE DEF D
  <1>4. Cardinality(UserSet(c, nt, s)) = Cardinality(UserSet(c, None, s)) + Cardinality(D)
    BY <1>1, <1>2, <1>3, UserSetFinite, MoreUsers
  <1> QED BY <1>1, <1>4
-----------------------------------------------------------------------------
(* The references are exact. *)

BmType ==
    /\ vbm \subseteq 0 .. VirBits - 1 /\ pbm \subseteq 0 .. PhyBits - 1
    /\ vfree \in Int /\ pfree \in Int
    /\ owned \subseteq [start : 0 .. VirBits - 1, size : Sizes]
    /\ freed \in BOOLEAN /\ spilled \in BOOLEAN

(* The types of the table and of the commands. *)
NsType ==
    /\ pt \in Table
    /\ call \in [Tasks -> Call]
    /\ notify \in NsSecs \cup {None}
    /\ leaked \in [NsSecs -> Nat]
    /\ short \in BOOLEAN
    /\ named \subseteq Secs \ NsSecs

(* A task that serves no command holds nothing; one that does, its command; *)
(* and the reference it holds, if not of the non-secure RAM, is recorded.   *)
CallsIdle ==
    \A t \in Tasks : /\ ~call[t].on => call[t] = Idle
                     /\ call[t].on => call[t].lay["cmd"] \in NsSecs
                     /\ call[t].ref \in NsSecs \cup named \cup {None}

(* A section is counted once for each user and each mapping left behind. *)
Counted == \A s \in NsSecs : pt.refs[s] = Cardinality(Users(s)) + leaked[s]

(* The invariant of the mappings of non-secure memory. *)
NsInv == CallsIdle /\ (~short => Counted /\ Visible(pt))

(* A step of the commands within the non-secure RAM keeps all that, and the *)
(* rest of the table.                                                       *)
NsKept == NsType' /\ NsInv' /\ Quiet(pt, pt') /\ UNCHANGED <<bmVars, named>>

(* The type invariant in its two parts. *)
LEMMA TypeParts == TypeOK <=> BmType /\ NsType
  BY DEF TypeOK, BmType, NsType, Table, Call

(* A task that is idle holds no buffer and no reference. *)
LEMMA IdleFacts == Idle \in Call /\ Idle.on = FALSE /\ Idle.ref = None
                     /\ \A b \in Buffers : Idle.lay[b] = None
  BY DEF Idle, Call

(* A layout, the command in it and the buffers of a task can be mapped. *)
LEMMA LayoutFacts ==
  ASSUME NEW l \in Layouts
  PROVE  /\ l \in [Buffers -> NsSecs \cup {None}]
         /\ l["cmd"] \in NsSecs
         /\ \A B \in SUBSET Buffers : Only(l, B) \in Maps
  <1>1. l \in [Buffers -> NsSecs \cup {None}] /\ l["cmd"] \in NsSecs
    BY PagesAssumption
  <1> QED BY <1>1, OnlyFacts

(* The references follow the users and the mappings left behind.            *)
LEMMA Settle ==
  ASSUME NsType, NsInv, NsType', CallsIdle', Quiet(pt, pt'), UNCHANGED <<bmVars, named>>,
         short => short',
         ~short' => /\ Visible(pt) => Visible(pt')
                    /\ \A s \in NsSecs :
                         pt'.refs[s] = pt.refs[s]
                             + (Cardinality(UserSet(call', notify', s))
                                  - Cardinality(UserSet(call, notify, s)))
                             + (leaked'[s] - leaked[s])
  PROVE  NsKept
  <1>1. ASSUME ~short' PROVE Counted' /\ Visible(pt)'
    <2>1. ~short /\ Counted /\ Visible(pt)
      BY <1>1 DEF NsInv
    <2>2. ASSUME NEW s \in NsSecs
          PROVE  pt'.refs[s] = Cardinality(Users(s)') + leaked'[s]
      <3>1. pt.refs[s] = Cardinality(UserSet(call, notify, s)) + leaked[s]
        BY <2>1 DEF Counted, Users, UserSet
      <3>2. Cardinality(UserSet(call, notify, s)) \in Nat
              /\ Cardinality(UserSet(call', notify', s)) \in Nat
        BY UserSetFinite
      <3>3. leaked[s] \in Nat /\ leaked'[s] \in Nat
        BY DEF NsType
      <3>4. pt'.refs[s] = Cardinality(UserSet(call', notify', s)) + leaked'[s]
        BY <1>1, <3>1, <3>2, <3>3
      <3> QED BY <3>4 DEF Users, UserSet
    <2> QED BY <1>1, <2>1, <2>2 DEF Counted, Visible
  <1> QED BY <1>1 DEF NsKept, NsInv

(* Session calls unmap what they map. *)
LEMMA SessionCallKept == ASSUME NsType, NsInv, SessionCall PROVE NsKept
  <1>1. PICK l \in Layouts : \E lost \in {l["cmd"], l["req"], l["res"], None} :
          /\ pt' = Access(Access(pt, One(l["cmd"]), None), Only(l, {"cmd", "req", "res"}), lost)
          /\ short' = (short \/ lost # None)
          /\ UNCHANGED <<bmVars, named, call, notify, leaked>>
    BY DEF SessionCall, Losing
  <1>2. PICK lost :
          /\ pt' = Access(Access(pt, One(l["cmd"]), None), Only(l, {"cmd", "req", "res"}), lost)
          /\ short' = (short \/ lost # None)
          /\ UNCHANGED <<bmVars, named, call, notify, leaked>>
    BY <1>1
  <1> DEFINE a == Access(pt, One(l["cmd"]), None)
             m == Only(l, {"cmd", "req", "res"})
  <1>3. One(l["cmd"]) \in Maps /\ m \in Maps
    <2>1. {"cmd", "req", "res"} \in SUBSET Buffers
      BY DEF Buffers
    <2> QED BY <2>1, LayoutFacts, OneFacts
  <1>4. /\ a \in Table /\ Quiet(pt, a) /\ (Visible(pt) => Visible(a))
        /\ \A s \in Secs : a.refs[s] = pt.refs[s]
    BY <1>3, AccessFacts DEF NsType
  <1> HIDE DEF a, m
  <1>5. pt' = Access(a, m, lost)
    BY <1>2 DEF a, m
  <1>6. /\ pt' \in Table /\ Quiet(a, pt')
        /\ lost = None => /\ Visible(a) => Visible(pt')
                          /\ \A s \in Secs : pt'.refs[s] = a.refs[s]
    BY <1>3, <1>4, <1>5, AccessFacts
  <1>7. Quiet(pt, pt')
    BY <1>4, <1>6, QuietTrans
  <1>8. NsType' /\ CallsIdle' /\ UNCHANGED <<bmVars, named>> /\ (short => short')
    BY <1>2, <1>6 DEF NsType, NsInv, CallsIdle
  <1>9. ASSUME ~short', NEW s \in NsSecs
        PROVE  pt'.refs[s] = pt.refs[s]
                 + (Cardinality(UserSet(call', notify', s))
                                  - Cardinality(UserSet(call, notify, s)))
                             + (leaked'[s] - leaked[s])
    <2>1. pt'.refs[s] = pt.refs[s] /\ pt.refs[s] \in Nat
      BY <1>2, <1>4, <1>6, <1>9, SecsFacts DEF NsType, Table
    <2>2. Cardinality(UserSet(call, notify, s)) \in Nat /\ leaked[s] \in Nat
      BY UserSetFinite DEF NsType
    <2>3. call' = call /\ notify' = notify /\ leaked' = leaked
      BY <1>2
    <2> QED BY <2>1, <2>2, <2>3
  <1>10. ~short' => (Visible(pt) => Visible(pt'))
    BY <1>2, <1>4, <1>6
  <1> QED BY <1>7, <1>8, <1>9, <1>10, Settle

(* The command is read first: get_api_context.                              *)
LEMMA ReadFirst ==
  ASSUME NsType, NEW l \in Layouts
  PROVE  LET a == Access(pt, One(l["cmd"]), None) IN
         /\ a \in Table /\ Quiet(pt, a) /\ (Visible(pt) => Visible(a))
         /\ \A s \in Secs : a.refs[s] = pt.refs[s]
  <1>1. One(l["cmd"]) \in Maps
    BY LayoutFacts, OneFacts
  <1> QED BY <1>1, AccessFacts DEF NsType

(* What is mapped before a failure is some of the buffers. *)
LEMMA BeforeFacts ==
  ASSUME NEW l
  PROVE  Before(l) \in SUBSET Buffers
  <1>1. \A i \in 1 .. 4 : Order[i] \in Buffers
    BY DEF Order, Buffers
  <1> QED BY <1>1 DEF Before

(* A step that leaves every user and every leak alone.                      *)
LEMMA SameUsers ==
  ASSUME NsType, NsInv, Quiet(pt, pt'), UNCHANGED <<bmVars, named, nsVars>>,
         Visible(pt) => Visible(pt'), \A s \in Secs : pt'.refs[s] = pt.refs[s]
  PROVE  NsKept
  <1>1. call' = call /\ notify' = notify /\ leaked' = leaked /\ short' = short
          /\ UNCHANGED <<bmVars, named>>
    BY DEF nsVars
  <1>2. NsType' /\ CallsIdle'
    BY <1>1 DEF NsType, NsInv, CallsIdle, Quiet
  <1>3. ASSUME NEW s \in NsSecs
        PROVE  pt'.refs[s] = pt.refs[s]
                 + (Cardinality(UserSet(call', notify', s))
                                  - Cardinality(UserSet(call, notify, s)))
                             + (leaked'[s] - leaked[s])
    <2>1. pt'.refs[s] = pt.refs[s] /\ pt.refs[s] \in Nat
      BY SecsFacts DEF NsType, Table
    <2>2. Cardinality(UserSet(call, notify, s)) \in Nat /\ leaked[s] \in Nat
      BY UserSetFinite DEF NsType
    <2> QED BY <1>1, <2>1, <2>2
  <1> QED BY <1>1, <1>2, <1>3, Settle

(* A command whose mapping fails half way gives back what it mapped. *)
LEMMA CallFailsKept ==
  ASSUME NsType, NsInv, NEW t \in Tasks, CallFails(t)
  PROVE  NsKept
  <1>1. PICK l \in Layouts :
          /\ pt' = Access(Access(pt, One(l["cmd"]), None), Only(l, Before(l)), None)
          /\ UNCHANGED <<bmVars, named, nsVars>>
    BY DEF CallFails
  <1> DEFINE a == Access(pt, One(l["cmd"]), None)
             m == Only(l, Before(l))
  <1>2. /\ a \in Table /\ Quiet(pt, a) /\ (Visible(pt) => Visible(a))
        /\ \A s \in Secs : a.refs[s] = pt.refs[s]
    BY ReadFirst
  <1>3. m \in Maps
    BY BeforeFacts, LayoutFacts
  <1> HIDE DEF a, m
  <1>4. pt' = Access(a, m, None)
    BY <1>1 DEF a, m
  <1>5. /\ Quiet(a, pt') /\ (Visible(a) => Visible(pt'))
        /\ \A s \in Secs : pt'.refs[s] = a.refs[s]
    BY <1>2, <1>3, <1>4, AccessFacts
  <1>6. Quiet(pt, pt')
    BY <1>2, <1>5, QuietTrans
  <1> QED BY <1>1, <1>2, <1>5, <1>6, SameUsers

(* A command that begins is counted once for each of its buffers. *)
LEMMA CallBeginKept ==
  ASSUME NsType, NsInv, NEW t \in Tasks, CallBegin(t)
  PROVE  NsKept
  <1>1. PICK l \in Layouts : \E lost \in {l[b] : b \in Buffers} \cup {None} :
          /\ ~call[t].on
          /\ pt' = MapNs(Access(pt, One(l["cmd"]), None), Only(l, Buffers), lost)
          /\ call' = [call EXCEPT ![t] = [lay |-> l, ref |-> None, on |-> TRUE]]
          /\ short' = (short \/ lost # None)
          /\ UNCHANGED <<bmVars, named, notify, leaked>>
    BY DEF CallBegin, Losing
  <1>2. PICK lost :
          /\ ~call[t].on
          /\ pt' = MapNs(Access(pt, One(l["cmd"]), None), Only(l, Buffers), lost)
          /\ call' = [call EXCEPT ![t] = [lay |-> l, ref |-> None, on |-> TRUE]]
          /\ short' = (short \/ lost # None)
          /\ UNCHANGED <<bmVars, named, notify, leaked>>
    BY <1>1
  <1> DEFINE a == Access(pt, One(l["cmd"]), None)
             m == Only(l, Buffers)
  <1>3. /\ a \in Table /\ Quiet(pt, a) /\ (Visible(pt) => Visible(a))
        /\ \A s \in Secs : a.refs[s] = pt.refs[s]
    BY ReadFirst
  <1>4. /\ l \in [Buffers -> NsSecs \cup {None}] /\ m \in Maps
        /\ \A s \in NsSecs : Times(m, s) = Cardinality({b \in Buffers : l[b] = s})
    BY LayoutFacts, OnlyFacts
  <1> HIDE DEF a, m
  <1>5. pt' = MapNs(a, m, lost)
    BY <1>2 DEF a, m
  <1>6. /\ pt' \in Table /\ Quiet(a, pt')
        /\ lost = None => /\ Visible(a) => Visible(pt')
                          /\ \A s \in Secs : pt'.refs[s] = a.refs[s] + Times(m, s)
    BY <1>3, <1>4, <1>5, MapFacts
  <1>7. Quiet(pt, pt')
    BY <1>3, <1>6, QuietTrans
  <1>8. [lay |-> l, ref |-> None, on |-> TRUE] \in Call
    BY <1>4 DEF Call
  <1>9. /\ call' \in [Tasks -> Call] /\ call[t] = Idle
        /\ \A u \in Tasks : u # t => call'[u] = call[u]
        /\ call'[t].lay = l /\ call'[t].ref = None /\ call'[t].on = TRUE
    BY <1>2, <1>8 DEF NsType, NsInv, CallsIdle
  <1>10. NsType' /\ CallsIdle' /\ UNCHANGED <<bmVars, named>> /\ (short => short')
    BY <1>2, <1>6, <1>9, LayoutFacts DEF NsType, NsInv, CallsIdle
  <1>11. ASSUME ~short', NEW s \in NsSecs
        PROVE  pt'.refs[s] = pt.refs[s]
                 + (Cardinality(UserSet(call', notify', s))
                                  - Cardinality(UserSet(call, notify, s)))
                             + (leaked'[s] - leaked[s])
    <2>1. pt'.refs[s] = pt.refs[s] + Cardinality({b \in Buffers : l[b] = s}) /\ pt.refs[s] \in Nat
      BY <1>2, <1>3, <1>4, <1>6, <1>11, SecsFacts DEF NsType, Table
    <2>2. Cardinality(UserSet(call', notify, s)) =
            Cardinality(UserSet(call, notify, s)) + Cardinality({b \in Buffers : l[b] = s})
      BY <1>9, IdleFacts, TakeLayout DEF NsType
    <2>3. /\ Cardinality(UserSet(call, notify, s)) \in Nat /\ leaked[s] \in Nat
          /\ Cardinality({b \in Buffers : l[b] = s}) \in Nat
      BY <1>4, UserSetFinite, TimesFacts DEF NsType
    <2>4. notify' = notify /\ leaked' = leaked
      BY <1>2
    <2> QED BY <2>1, <2>2, <2>3, <2>4
  <1>12. ~short' => (Visible(pt) => Visible(pt'))
    BY <1>2, <1>3, <1>6
  <1> QED BY <1>7, <1>10, <1>11, <1>12, Settle

(* The mappings a path leaves behind are counted as such.                   *)
LEMMA LeakFacts ==
  ASSUME NsType, NEW m \in Maps, Leak(m)
  PROVE  leaked' \in [NsSecs -> Nat] /\ \A s \in NsSecs : leaked'[s] = leaked[s] + Times(m, s)
  <1>1. \A s \in NsSecs : leaked[s] \in Nat /\ Times(m, s) \in Nat
    BY TimesFacts DEF NsType
  <1> QED BY <1>1 DEF Leak

(* A step that maps more and leaves it behind.                              *)
LEMMA LeftBehind ==
  ASSUME NsType, NsInv, NEW a \in Table, NEW m \in Maps,
         Quiet(pt, a), Visible(pt) => Visible(a), \A s \in Secs : a.refs[s] = pt.refs[s],
         pt' = MapNs(a, m, None), Leak(m), UNCHANGED <<bmVars, named, call, notify, short>>
  PROVE  NsKept
  <1>1. /\ pt' \in Table /\ Quiet(a, pt') /\ (Visible(a) => Visible(pt'))
        /\ \A s \in Secs : pt'.refs[s] = a.refs[s] + Times(m, s)
    BY MapFacts
  <1>2. Quiet(pt, pt')
    BY <1>1, QuietTrans
  <1>3. leaked' \in [NsSecs -> Nat] /\ \A s \in NsSecs : leaked'[s] = leaked[s] + Times(m, s)
    BY LeakFacts
  <1>4. NsType' /\ CallsIdle' /\ UNCHANGED <<bmVars, named>> /\ (short => short')
    BY <1>1, <1>3 DEF NsType, NsInv, CallsIdle
  <1>5. ASSUME NEW s \in NsSecs
        PROVE  pt'.refs[s] = pt.refs[s]
                 + (Cardinality(UserSet(call', notify', s))
                                  - Cardinality(UserSet(call, notify, s)))
                             + (leaked'[s] - leaked[s])
    <2>1. pt'.refs[s] = pt.refs[s] + Times(m, s) /\ pt.refs[s] \in Nat
      BY <1>1, SecsFacts DEF NsType, Table
    <2>2. Cardinality(UserSet(call, notify, s)) \in Nat /\ leaked[s] \in Nat /\ Times(m, s) \in Nat
      BY UserSetFinite, TimesFacts DEF NsType
    <2> QED BY <1>3, <2>1, <2>2
  <1> QED BY <1>1, <1>2, <1>4, <1>5, Settle

(* A command refused for its context leaves its mappings behind. *)
LEMMA CallMismatchKept ==
  ASSUME NsType, NsInv, NEW t \in Tasks, CallMismatch(t)
  PROVE  NsKept
  <1>1. PICK l \in Layouts :
          /\ pt' = MapNs(Access(pt, One(l["cmd"]), None), Only(l, Buffers), None)
          /\ Leak(Only(l, Buffers))
          /\ UNCHANGED <<bmVars, named, call, notify, short>>
    BY DEF CallMismatch
  <1>2. Only(l, Buffers) \in Maps
    BY LayoutFacts
  <1> QED BY <1>1, <1>2, ReadFirst, LeftBehind

(* A table is quiet when nothing happens to it. *)
LEMMA QuietSelf == ASSUME NsType PROVE Quiet(pt, pt)
  BY DEF Quiet, NsType

(* A notification leaves one mapping of the command behind. *)
LEMMA NotifyNsKept ==
  ASSUME NsType, NsInv, NEW t \in Tasks, NotifyNs(t)
  PROVE  NsKept
  <1>1. /\ pt' = MapNs(pt, One(call[t].lay["cmd"]), None)
        /\ Leak(One(call[t].lay["cmd"])) /\ UNCHANGED <<bmVars, named, call, notify, short>>
    BY DEF NotifyNs
  <1>2. One(call[t].lay["cmd"]) \in Maps
    BY OneFacts DEF NotifyNs, NsInv, CallsIdle
  <1>3. pt \in Table /\ Quiet(pt, pt)
    BY QuietSelf DEF NsType
  <1> QED BY <1>1, <1>2, <1>3, LeftBehind

(* What decode_data does with a reference to section r. *)
RefAt(t, r, lost) ==
    /\ call[t].on /\ call[t].ref = None
    /\ pt' = MapNs(pt, One(r), lost)
    /\ call' = [call EXCEPT ![t].ref = r]
    /\ named' = named \cup ({r} \ NsSecs)
    /\ short' = (short \/ lost # None)
    /\ UNCHANGED <<bmVars, notify, leaked>>

(* A reference parameter names some section of the table. *)
LEMMA RefMapFacts ==
  ASSUME NEW t \in Tasks, RefMap(t)
  PROVE  \E r \in Secs : \E lost \in {r, None} : RefAt(t, r, lost)
  BY DEF RefMap, RefAt, Losing

(* In the non-secure RAM it is one more user of its section. *)
LEMMA RefMapKept ==
  ASSUME NsType, NsInv, NEW t \in Tasks, NEW r \in NsSecs, NEW lost, RefAt(t, r, lost)
  PROVE  NsKept
  <1>2. /\ call[t].on /\ call[t].ref = None
        /\ pt' = MapNs(pt, One(r), lost)
        /\ call' = [call EXCEPT ![t].ref = r]
        /\ short' = (short \/ lost # None)
        /\ UNCHANGED <<bmVars, named, notify, leaked>>
    BY DEF RefAt
  <1>s. r \in Secs
    BY SecsFacts
  <1>3. One(r) \in Maps /\ \A s : Times(One(r), s) = IF s = r THEN 1 ELSE 0
    BY OneFacts
  <1>4. /\ pt' \in Table /\ Quiet(pt, pt')
        /\ lost = None => /\ Visible(pt) => Visible(pt')
                          /\ \A s \in Secs : pt'.refs[s] = pt.refs[s] + Times(One(r), s)
    BY <1>2, <1>3, MapFacts DEF NsType
  <1>5. /\ call' \in [Tasks -> Call]
        /\ \A u \in Tasks : u # t => call'[u] = call[u]
        /\ call'[t].lay = call[t].lay /\ call'[t].ref = r /\ call'[t].on = TRUE
    BY <1>2, <1>s DEF NsType, Call
  <1>6. NsType' /\ CallsIdle' /\ UNCHANGED <<bmVars, named>> /\ (short => short')
    BY <1>2, <1>4, <1>5 DEF NsType, NsInv, CallsIdle
  <1>7. ASSUME ~short', NEW s \in NsSecs
        PROVE  pt'.refs[s] = pt.refs[s]
                 + (Cardinality(UserSet(call', notify', s))
                                  - Cardinality(UserSet(call, notify, s)))
                             + (leaked'[s] - leaked[s])
    <2>0. lost = None /\ s \in Secs /\ call \in [Tasks -> Call] /\ call[t].ref = None
      BY <1>2, <1>7, SecsFacts DEF NsType
    <2>5. pt'.refs[s] = pt.refs[s] + Times(One(r), s) /\ pt.refs[s] \in Nat
      BY <2>0, <1>4 DEF NsType, Table
    <2>1. pt'.refs[s] = pt.refs[s] + (IF r = s THEN 1 ELSE 0) /\ pt.refs[s] \in Nat
      BY <2>5, <1>3
    <2>2. Cardinality(UserSet(call', notify, s)) =
            Cardinality(UserSet(call, notify, s)) + (IF r = s THEN 1 ELSE 0)
      <3>1. Cardinality(UserSet(call', notify, s)) =
              Cardinality(UserSet(call, notify, s)) + (IF call'[t].ref = s THEN 1 ELSE 0)
        BY <2>0, <1>5, TakeRef
      <3> QED BY <3>1, <1>5
    <2>3. Cardinality(UserSet(call, notify, s)) \in Nat /\ leaked[s] \in Nat
      BY UserSetFinite DEF NsType
    <2>4. notify' = notify /\ leaked' = leaked
      BY <1>2
    <2> QED BY <2>1, <2>2, <2>3, <2>4
  <1>8. ~short' => (Visible(pt) => Visible(pt'))
    BY <1>2, <1>4
  <1> QED BY <1>4, <1>6, <1>7, <1>8, Settle

(* A user that leaves had its references.                                   *)
LEMMA GiveBack ==
  ASSUME NsType, NsInv, NEW m \in Maps, pt' = UnmapNs(pt, m),
         call' \in [Tasks -> Call], CallsIdle', UNCHANGED <<bmVars, named, notify, leaked, short>>,
         \A s \in NsSecs : Cardinality(UserSet(call, notify, s)) =
                              Cardinality(UserSet(call', notify, s)) + Times(m, s)
  PROVE  NsKept
  <1>1. /\ pt' \in Table /\ Quiet(pt, pt') /\ (Visible(pt) => Visible(pt'))
        /\ \A s \in Secs : pt.refs[s] >= Times(m, s) => pt'.refs[s] = pt.refs[s] - Times(m, s)
    BY UnmapFacts DEF NsType
  <1>2. NsType' /\ UNCHANGED <<bmVars, named>> /\ (short => short')
    BY <1>1 DEF NsType
  <1>3. ASSUME ~short', NEW s \in NsSecs
        PROVE  pt'.refs[s] = pt.refs[s]
                 + (Cardinality(UserSet(call', notify', s))
                                  - Cardinality(UserSet(call, notify, s)))
                             + (leaked'[s] - leaked[s])
    <2>1. pt.refs[s] = Cardinality(UserSet(call, notify, s)) + leaked[s]
      BY <1>3 DEF NsInv, Counted, Users, UserSet
    <2>2. /\ Cardinality(UserSet(call, notify, s)) \in Nat /\ leaked[s] \in Nat
          /\ Cardinality(UserSet(call', notify, s)) \in Nat /\ Times(m, s) \in Nat
      BY UserSetFinite, TimesFacts DEF NsType
    <2>3. s \in Secs
      BY SecsFacts
    <2>4. notify' = notify /\ leaked' = leaked
      OBVIOUS
    <2>5. pt.refs[s] >= Times(m, s)
      BY <2>1, <2>2
    <2>6. pt'.refs[s] = pt.refs[s] - Times(m, s)
      BY <1>1, <2>3, <2>5
    <2> QED BY <2>1, <2>2, <2>4, <2>6
  <1> QED BY <1>1, <1>2, <1>3, Settle

(* Unmapping it takes that user away. *)
LEMMA RefUnmapKept ==
  ASSUME NsType, NsInv, NEW t \in Tasks, RefUnmap(t), call[t].ref \in NsSecs
  PROVE  NsKept
  <1> DEFINE r == call[t].ref
  <1>1. /\ call[t].on /\ r # None /\ r \in NsSecs
        /\ pt' = UnmapNs(pt, One(r))
        /\ call' = [call EXCEPT ![t].ref = None]
        /\ UNCHANGED <<bmVars, named, notify, leaked, short>>
    BY DEF RefUnmap, NsType, Call
  <1> HIDE DEF r
  <1>2. One(r) \in Maps /\ \A s : Times(One(r), s) = IF s = r THEN 1 ELSE 0
    BY <1>1, OneFacts
  <1>3. /\ call' \in [Tasks -> Call]
        /\ \A u \in Tasks : u # t => call'[u] = call[u]
        /\ call'[t].lay = call[t].lay /\ call'[t].ref = None /\ call'[t].on = TRUE
    BY <1>1 DEF NsType, Call
  <1>4. CallsIdle'
    BY <1>1, <1>3 DEF NsInv, CallsIdle
  <1>5. ASSUME NEW s \in NsSecs
        PROVE  Cardinality(UserSet(call, notify, s)) =
                  Cardinality(UserSet(call', notify, s)) + Times(One(r), s)
    <2>1. call \in [Tasks -> Call] /\ \A u \in Tasks : u # t => call[u] = call'[u]
      BY <1>3 DEF NsType
    <2>2. Cardinality(UserSet(call, notify, s)) =
            Cardinality(UserSet(call', notify, s)) + (IF r = s THEN 1 ELSE 0)
      BY <1>3, <2>1, TakeRef DEF r
    <2> QED BY <2>2, <1>2
  <1> QED BY <1>1, <1>2, <1>3, <1>4, <1>5, GiveBack

(* A mapping of a section outside the non-secure RAM, made or given back:   *)
(* nothing changes in the sections of the buffers, nor in those no          *)
(* reference named.                                                         *)
ForeignKept ==
    /\ NsType' /\ NsInv' /\ UNCHANGED bmVars
    /\ named' # {} /\ named \subseteq named'
    /\ \A s \in Secs \ NsSecs : s \notin named' => pt'.tab[s] = pt.tab[s]

(* One section is named once, wherever it lies. *)
LEMMA OneTimes ==
  ASSUME NEW r, NEW s
  PROVE  Times(One(r), s) = IF s = r THEN 1 ELSE 0
  <1>1. {b \in DOMAIN One(r) : One(r)[b] = s} = IF s = r THEN {"cmd"} ELSE {}
    BY DEF One
  <1> QED BY <1>1, FS_EmptySet, FS_Singleton DEF Times

(* Mapping and unmapping one section leaves the others as they are. *)
LEMMA OneElsewhere ==
  ASSUME NEW p \in Table, NEW r \in Secs, NEW lost \in {r, None}
  PROVE  /\ MapNs(p, One(r), lost) \in Table /\ UnmapNs(p, One(r)) \in Table
         /\ \A s \in Secs \ {r} :
              /\ MapNs(p, One(r), lost).tab[s] = p.tab[s]
              /\ MapNs(p, One(r), lost).refs[s] = p.refs[s]
              /\ UnmapNs(p, One(r)).tab[s] = p.tab[s]
              /\ UnmapNs(p, One(r)).refs[s] = p.refs[s]
  <1> DEFINE k(s) == Times(One(r), s)
  <1>1. \A s : k(s) = IF s = r THEN 1 ELSE 0
    BY OneTimes
  <1> HIDE DEF k
  <1>2. \A s \in Secs : p.refs[s] \in Nat /\ p.tab[s] \in [pa : Secs \cup {None}, ns : BOOLEAN]
    BY DEF Table
  <1>3. \A s \in Secs : /\ page_ref_add(p.refs[s], k(s), s = lost) \in Nat
                        /\ page_ref_release(p.refs[s], k(s)) \in Nat
    BY <1>1, <1>2 DEF page_ref_add, page_ref_release
  <1>4. \A s \in Secs \ {r} : /\ page_ref_add(p.refs[s], k(s), s = lost) = p.refs[s]
                              /\ page_ref_release(p.refs[s], k(s)) = p.refs[s]
    BY <1>1, <1>2 DEF page_ref_add, page_ref_release
  <1>5. \A s \in Secs :
          /\ (IF k(s) = 0 THEN p.tab[s]
              ELSE [pa |-> IF p.tab[s] = Fault THEN s ELSE p.tab[s].pa, ns |-> TRUE])
                 \in [pa : Secs \cup {None}, ns : BOOLEAN]
          /\ (IF p.refs[s] > 0 /\ p.refs[s] <= k(s) THEN Fault ELSE p.tab[s])
                 \in [pa : Secs \cup {None}, ns : BOOLEAN]
    BY <1>2, SecsFacts
  <1>6. MapNs(p, One(r), lost) \in Table /\ UnmapNs(p, One(r)) \in Table
    BY <1>3, <1>5 DEF MapNs, UnmapNs, Table, k
  <1>7. ASSUME NEW s \in Secs \ {r}
        PROVE  /\ MapNs(p, One(r), lost).tab[s] = p.tab[s]
               /\ MapNs(p, One(r), lost).refs[s] = p.refs[s]
    <2>1. k(s) = 0
      BY <1>1
    <2> QED BY <1>4, <2>1 DEF MapNs, k
  <1>8. ASSUME NEW s \in Secs \ {r}
        PROVE  /\ UnmapNs(p, One(r)).tab[s] = p.tab[s]
               /\ UnmapNs(p, One(r)).refs[s] = p.refs[s]
    <2>1. k(s) = 0 /\ ~(p.refs[s] > 0 /\ p.refs[s] <= k(s))
      BY <1>1, <1>2
    <2> QED BY <1>4, <2>1 DEF UnmapNs, k
  <1> QED BY <1>6, <1>7, <1>8

(* The references and the visibility of the buffers' sections do not notice *)
(* a task that takes or gives back a reference elsewhere.                   *)
LEMMA Unnoticed ==
  ASSUME NsType, NsInv, NEW t \in Tasks,
         \A s \in NsSecs : pt'.tab[s] = pt.tab[s] /\ pt'.refs[s] = pt.refs[s],
         \A u \in Tasks : u # t => call'[u] = call[u],
         call'[t].lay = call[t].lay, call'[t].ref \notin NsSecs, call[t].ref \notin NsSecs,
         UNCHANGED <<notify, leaked>>, short => short'
  PROVE  ~short' => Counted' /\ Visible(pt)'
  <1>1. ASSUME NEW s \in NsSecs PROVE UserSet(call', notify, s) = UserSet(call, notify, s)
    <2>1. ASSUME NEW x PROVE x \in UserSet(call', notify, s) <=> x \in UserSet(call, notify, s)
      <3>1. \A u \in Tasks : call'[u].lay = call[u].lay
        OBVIOUS
      <3>2. \A u \in Tasks : call'[u].ref = s <=> call[u].ref = s
        OBVIOUS
      <3> QED BY <3>1, <3>2, UserSetMember
    <2> QED BY <2>1
  <1>2. ASSUME ~short' PROVE Counted' /\ Visible(pt)'
    <2>1. Counted /\ Visible(pt)
      BY <1>2 DEF NsInv
    <2>2. ASSUME NEW s \in NsSecs PROVE pt'.refs[s] = Cardinality(Users(s)') + leaked'[s]
      <3>1. pt.refs[s] = Cardinality(UserSet(call, notify, s)) + leaked[s]
        BY <2>1 DEF Counted, Users, UserSet
      <3>2. pt'.refs[s] = Cardinality(UserSet(call', notify', s)) + leaked'[s]
        BY <1>1, <3>1
      <3> QED BY <3>2 DEF Users, UserSet
    <2> QED BY <2>1, <2>2 DEF Counted, Visible
  <1> QED BY <1>2

(* A reference outside the non-secure RAM is mapped, and recorded. *)
LEMMA ForeignMapKept ==
  ASSUME NsType, NsInv, NEW t \in Tasks, NEW r \in Secs \ NsSecs, NEW lost \in {r, None},
         RefAt(t, r, lost)
  PROVE  ForeignKept
  <1>1. /\ call[t].on /\ call[t].ref = None
        /\ pt' = MapNs(pt, One(r), lost)
        /\ call' = [call EXCEPT ![t].ref = r]
        /\ named' = named \cup {r}
        /\ short' = (short \/ lost # None)
        /\ UNCHANGED <<bmVars, notify, leaked>>
    BY DEF RefAt
  <1>2. pt' \in Table /\ \A s \in Secs \ {r} : pt'.tab[s] = pt.tab[s] /\ pt'.refs[s] = pt.refs[s]
    <2>1. pt \in Table
      BY DEF NsType
    <2>2. /\ MapNs(pt, One(r), lost) \in Table
          /\ \A s \in Secs \ {r} : /\ MapNs(pt, One(r), lost).tab[s] = pt.tab[s]
                                   /\ MapNs(pt, One(r), lost).refs[s] = pt.refs[s]
      BY <2>1, OneElsewhere
    <2> QED BY <2>2, <1>1
  <1>3. /\ call' \in [Tasks -> Call]
        /\ \A u \in Tasks : u # t => call'[u] = call[u]
        /\ call'[t].lay = call[t].lay /\ call'[t].ref = r /\ call'[t].on = TRUE
    BY <1>1 DEF NsType, Call
  <1>4. NsType' /\ CallsIdle' /\ (short => short')
    BY <1>1, <1>2, <1>3 DEF NsType, NsInv, CallsIdle
  <1>5. \A s \in NsSecs : s \in Secs \ {r} /\ r # s /\ None # s
    BY SecsFacts
  <1>6. \A s \in NsSecs : pt'.tab[s] = pt.tab[s] /\ pt'.refs[s] = pt.refs[s]
    BY <1>2, <1>5
  <1>7. call'[t].ref \notin NsSecs /\ call[t].ref \notin NsSecs
    BY <1>1, <1>3, <1>5
  <1>8. ~short' => Counted' /\ Visible(pt)'
    BY <1>1, <1>2, <1>3, <1>4, <1>6, <1>7, Unnoticed
  <1> QED BY <1>1, <1>2, <1>4, <1>8 DEF ForeignKept, NsInv

(* And given back. *)
LEMMA ForeignUnmapKept ==
  ASSUME NsType, NsInv, NEW t \in Tasks, RefUnmap(t), call[t].ref \notin NsSecs
  PROVE  ForeignKept
  <1> DEFINE r == call[t].ref
  <1>1. /\ call[t].on /\ r # None
        /\ pt' = UnmapNs(pt, One(r))
        /\ call' = [call EXCEPT ![t].ref = None]
        /\ UNCHANGED <<bmVars, named, notify, leaked, short>>
    BY DEF RefUnmap
  <1>2. r \in named /\ r \in Secs \ NsSecs
    BY <1>1 DEF NsInv, CallsIdle, NsType
  <1> HIDE DEF r
  <1>3. pt' \in Table /\ \A s \in Secs \ {r} : pt'.tab[s] = pt.tab[s] /\ pt'.refs[s] = pt.refs[s]
    BY <1>1, <1>2, OneElsewhere DEF NsType
  <1>4. /\ call' \in [Tasks -> Call]
        /\ \A u \in Tasks : u # t => call'[u] = call[u]
        /\ call'[t].lay = call[t].lay /\ call'[t].ref = None /\ call'[t].on = TRUE
    BY <1>1 DEF NsType, Call
  <1>5. NsType' /\ CallsIdle'
    BY <1>1, <1>3, <1>4 DEF NsType, NsInv, CallsIdle
  <1>6. \A s \in NsSecs : s \in Secs \ {r} /\ None # s
    BY <1>2, SecsFacts
  <1>7. \A s \in NsSecs : pt'.tab[s] = pt.tab[s] /\ pt'.refs[s] = pt.refs[s]
    BY <1>3, <1>6
  <1>8. call'[t].ref \notin NsSecs /\ call[t].ref \notin NsSecs
    BY <1>4, <1>6
  <1>9. ~short' => Counted' /\ Visible(pt)'
    BY <1>1, <1>3, <1>4, <1>7, <1>8, Unnoticed
  <1> QED BY <1>1, <1>2, <1>3, <1>5, <1>9 DEF ForeignKept, NsInv

(* The buffers of a task that returns or is dropped.                        *)
LEMMA LeaveFacts ==
  ASSUME NsType, NsInv, NEW t \in Tasks, call[t].ref = None,
         call' = [call EXCEPT ![t] = Idle], named' = named
  PROVE  /\ call' \in [Tasks -> Call] /\ CallsIdle'
         /\ Only(call[t].lay, Buffers) \in Maps
         /\ \A s \in NsSecs : Cardinality(UserSet(call, notify, s)) =
              Cardinality(UserSet(call', notify, s)) + Times(Only(call[t].lay, Buffers), s)
  <1> DEFINE l == call[t].lay
  <1>1. l \in [Buffers -> NsSecs \cup {None}]
    BY DEF NsType, Call
  <1>2. /\ Only(l, Buffers) \in Maps
        /\ \A s \in NsSecs : Times(Only(l, Buffers), s) = Cardinality({b \in Buffers : l[b] = s})
    <2> HIDE DEF l
    <2> QED BY <1>1, OnlyFacts
  <1>3. /\ call' \in [Tasks -> Call] /\ call'[t] = Idle
        /\ \A u \in Tasks : u # t => call[u] = call'[u]
    BY IdleFacts DEF NsType
  <1>4. CallsIdle'
    BY <1>3, IdleFacts DEF NsInv, CallsIdle
  <1>5. ASSUME NEW s \in NsSecs
        PROVE  Cardinality(UserSet(call, notify, s)) =
                  Cardinality(UserSet(call', notify, s)) + Times(Only(l, Buffers), s)
    <2>1. call \in [Tasks -> Call] /\ call[t].ref = call'[t].ref
      BY <1>3, IdleFacts DEF NsType
    <2>2. Cardinality(UserSet(call, notify, s)) =
            Cardinality(UserSet(call', notify, s)) + Cardinality({b \in Buffers : l[b] = s})
      <3>1. \A b \in Buffers : call'[t].lay[b] = None
        BY <1>3, IdleFacts
      <3>2. call' \in [Tasks -> Call] /\ \A u \in Tasks : u # t => call[u] = call'[u]
        BY <1>3
      <3> DEFINE d == call'
      <3> HIDE DEF d
      <3>4. /\ d \in [Tasks -> Call] /\ call \in [Tasks -> Call] /\ call[t].ref = d[t].ref
            /\ \A u \in Tasks : u # t => call[u] = d[u]
            /\ \A b \in Buffers : d[t].lay[b] = None
        BY <3>1, <3>2, <2>1 DEF d
      <3>5. Cardinality(UserSet(call, notify, s)) =
              Cardinality(UserSet(d, notify, s)) + Cardinality({b \in Buffers : call[t].lay[b] = s})
        BY ONLY <3>4, t \in Tasks, s \in NsSecs, TakeLayout
      <3>3. Cardinality(UserSet(call, notify, s)) =
              Cardinality(UserSet(call', notify, s)) + Cardinality({b \in Buffers : call[t].lay[b] = s})
        BY <3>5 DEF d
      <3> QED BY <3>3
    <2> QED BY <2>2, <1>2
  <1> QED BY <1>2, <1>3, <1>4, <1>5

(* A command that ends gives back its buffers. *)
LEMMA CallEndKept ==
  ASSUME NsType, NsInv, NEW t \in Tasks, CallEnd(t)
  PROVE  NsKept
  <1>1. /\ call[t].ref = None /\ call' = [call EXCEPT ![t] = Idle]
        /\ pt' = UnmapNs(pt, Only(call[t].lay, Buffers))
        /\ UNCHANGED <<bmVars, named, notify, leaked, short>>
    BY DEF CallEnd
  <1> QED BY <1>1, LeaveFacts, GiveBack

(* A task destroyed with its command leaves the mappings behind. *)
LEMMA CallDroppedKept ==
  ASSUME NsType, NsInv, NEW t \in Tasks, CallDropped(t)
  PROVE  NsKept
  <1> DEFINE m == Only(call[t].lay, Buffers)
  <1>1. /\ call[t].ref = None /\ call' = [call EXCEPT ![t] = Idle]
        /\ Leak(m) /\ UNCHANGED <<bmVars, named, pt, notify, short>>
    BY DEF CallDropped
  <1>2. /\ call' \in [Tasks -> Call] /\ CallsIdle' /\ m \in Maps
        /\ \A s \in NsSecs : Cardinality(UserSet(call, notify, s)) =
              Cardinality(UserSet(call', notify, s)) + Times(m, s)
    BY <1>1, LeaveFacts
  <1> HIDE DEF m
  <1>3. leaked' \in [NsSecs -> Nat] /\ \A s \in NsSecs : leaked'[s] = leaked[s] + Times(m, s)
    BY <1>1, <1>2, LeakFacts
  <1>4. /\ Quiet(pt, pt') /\ (Visible(pt) => Visible(pt')) /\ NsType' /\ UNCHANGED <<bmVars, named>>
        /\ (short => short')
    BY <1>1, <1>2, <1>3, QuietSelf DEF NsType
  <1>5. ASSUME NEW s \in NsSecs
        PROVE  pt'.refs[s] = pt.refs[s]
                 + (Cardinality(UserSet(call', notify', s))
                                  - Cardinality(UserSet(call, notify, s)))
                             + (leaked'[s] - leaked[s])
    <2>1. pt'.refs[s] = pt.refs[s] /\ pt.refs[s] \in Nat /\ notify' = notify
      BY <1>1, SecsFacts DEF NsType, Table
    <2>2. /\ Cardinality(UserSet(call, notify, s)) \in Nat /\ leaked[s] \in Nat
          /\ Cardinality(UserSet(call', notify, s)) \in Nat /\ Times(m, s) \in Nat
      BY <1>2, UserSetFinite, TimesFacts DEF NsType
    <2> QED BY <1>2, <1>3, <2>1, <2>2
  <1> QED BY <1>2, <1>4, <1>5, Settle

(* Registration maps the page of the notifications and releases the old     *)
(* one.                                                                     *)
LEMMA RegisterKept == ASSUME NsType, NsInv, Register PROVE NsKept
  <1>1. PICK l \in Layouts, r \in NsSecs :
          /\ pt' = UnmapNs(MapNs(MapNs(Access(pt, One(l["cmd"]), None), One(l["cmd"]), None),
                                 One(r), None), One(l["cmd"]))
          /\ notify' = r
          /\ IF notify = None THEN UNCHANGED leaked ELSE Leak(One(notify))
          /\ UNCHANGED <<bmVars, named, call, short>>
    BY DEF Register
  <1> DEFINE a == Access(pt, One(l["cmd"]), None)
             c == One(l["cmd"])
             b == MapNs(a, c, None)
             e == MapNs(b, One(r), None)
  <1>2. /\ a \in Table /\ Quiet(pt, a) /\ (Visible(pt) => Visible(a))
        /\ \A s \in Secs : a.refs[s] = pt.refs[s]
    BY ReadFirst
  <1>3. /\ c \in Maps /\ One(r) \in Maps
        /\ \A s : Times(One(r), s) = IF s = r THEN 1 ELSE 0
    BY LayoutFacts, OneFacts
  <1>4. pt' = UnmapNs(e, c)
    BY <1>1
  <1> HIDE DEF a, c
  <1>5. /\ b \in Table /\ Quiet(a, b) /\ (Visible(a) => Visible(b))
        /\ \A s \in Secs : b.refs[s] = a.refs[s] + Times(c, s)
    BY <1>2, <1>3, MapFacts
  <1> HIDE DEF b
  <1>6. /\ e \in Table /\ Quiet(b, e) /\ (Visible(b) => Visible(e))
        /\ \A s \in Secs : e.refs[s] = b.refs[s] + Times(One(r), s)
    BY <1>3, <1>5, MapFacts
  <1> HIDE DEF e
  <1>7. /\ pt' \in Table /\ Quiet(e, pt') /\ (Visible(e) => Visible(pt'))
        /\ \A s \in Secs : e.refs[s] >= Times(c, s) => pt'.refs[s] = e.refs[s] - Times(c, s)
    BY <1>3, <1>4, <1>6, UnmapFacts
  <1>8. Quiet(pt, b)
    BY <1>2, <1>5, QuietTrans
  <1>9. Quiet(pt, e)
    BY <1>8, <1>6, QuietTrans
  <1>10. Quiet(pt, pt')
    BY <1>9, <1>7, QuietTrans
  <1>11. /\ leaked' \in [NsSecs -> Nat]
         /\ \A s \in NsSecs : leaked'[s] = leaked[s] + (IF notify = s THEN 1 ELSE 0)
    <2>1. CASE notify = None
      <3>1. \A s \in NsSecs : s # notify /\ leaked[s] \in Nat
        BY <2>1, SecsFacts DEF NsType
      <3> QED BY <1>1, <2>1, <3>1 DEF NsType
    <2>2. CASE notify # None
      <3>1. notify \in NsSecs /\ Leak(One(notify))
        BY <1>1, <2>2 DEF NsType
      <3>2. One(notify) \in Maps /\ \A s : Times(One(notify), s) = IF s = notify THEN 1 ELSE 0
        BY <3>1, OneFacts
      <3>3. /\ leaked' \in [NsSecs -> Nat]
            /\ \A s \in NsSecs : leaked'[s] = leaked[s] + Times(One(notify), s)
        BY <3>1, <3>2, LeakFacts
      <3> QED BY <3>2, <3>3
    <2> QED BY <2>1, <2>2
  <1>12. NsType' /\ CallsIdle' /\ UNCHANGED <<bmVars, named>> /\ (short => short')
    BY <1>1, <1>7, <1>11 DEF NsType, NsInv, CallsIdle
  <1>13. ASSUME NEW s \in NsSecs
        PROVE  pt'.refs[s] = pt.refs[s]
                 + (Cardinality(UserSet(call', notify', s))
                                  - Cardinality(UserSet(call, notify, s)))
                             + (leaked'[s] - leaked[s])
    <2>1. /\ s \in Secs /\ pt.refs[s] \in Nat /\ Times(c, s) \in Nat
          /\ Times(One(r), s) = IF s = r THEN 1 ELSE 0
      BY <1>3, SecsFacts, TimesFacts DEF NsType, Table
    <2>2. e.refs[s] = pt.refs[s] + Times(c, s) + (IF s = r THEN 1 ELSE 0)
      BY <2>1, <1>2, <1>5, <1>6
    <2>3. pt'.refs[s] = pt.refs[s] + (IF s = r THEN 1 ELSE 0)
      BY <2>1, <2>2, <1>7
    <2>4. Cardinality(UserSet(call, notify, s)) =
             Cardinality(UserSet(call, None, s)) + (IF notify = s THEN 1 ELSE 0)
      BY TakeNotify
    <2>5. Cardinality(UserSet(call, r, s)) =
             Cardinality(UserSet(call, None, s)) + (IF r = s THEN 1 ELSE 0)
      BY TakeNotify
    <2>6. Cardinality(UserSet(call, None, s)) \in Nat /\ leaked[s] \in Nat
      BY UserSetFinite DEF NsType
    <2>7. call' = call /\ notify' = r /\ leaked'[s] = leaked[s] + (IF notify = s THEN 1 ELSE 0)
      BY <1>1, <1>11
    <2> QED BY <2>1, <2>3, <2>4, <2>5, <2>6, <2>7
  <1> QED BY <1>2, <1>5, <1>6, <1>7, <1>10, <1>12, <1>13, Settle

(* The end of the registration releases it. *)
LEMMA UnregisterKept == ASSUME NsType, NsInv, Unregister PROVE NsKept
  <1>1. PICK l \in Layouts :
          /\ pt' = IF notify = None THEN Access(pt, One(l["cmd"]), None)
                   ELSE UnmapNs(Access(pt, One(l["cmd"]), None), One(notify))
          /\ notify' = None
          /\ UNCHANGED <<bmVars, named, call, leaked, short>>
    BY DEF Unregister
  <1> DEFINE a == Access(pt, One(l["cmd"]), None)
  <1>2. /\ a \in Table /\ Quiet(pt, a) /\ (Visible(pt) => Visible(a))
        /\ \A s \in Secs : a.refs[s] = pt.refs[s]
    BY ReadFirst
  <1>3. pt' = IF notify = None THEN a ELSE UnmapNs(a, One(notify))
    BY <1>1
  <1> HIDE DEF a
  <1>4. CASE notify = None
    <2>1. UNCHANGED <<bmVars, named, nsVars>> /\ pt' = a
      BY <1>1, <1>3, <1>4 DEF nsVars
    <2> QED BY <1>2, <2>1, SameUsers
  <1>5. CASE notify # None
    <2>1. /\ notify \in NsSecs /\ One(notify) \in Maps
          /\ \A s : Times(One(notify), s) = IF s = notify THEN 1 ELSE 0
      BY <1>5, OneFacts DEF NsType
    <2>2. /\ pt' \in Table /\ Quiet(a, pt') /\ (Visible(a) => Visible(pt'))
          /\ \A s \in Secs : a.refs[s] >= Times(One(notify), s)
                              => pt'.refs[s] = a.refs[s] - Times(One(notify), s)
      BY <1>2, <1>3, <1>5, <2>1, UnmapFacts
    <2>3. Quiet(pt, pt')
      BY <1>2, <2>2, QuietTrans
    <2>4. NsType' /\ CallsIdle' /\ UNCHANGED <<bmVars, named>> /\ (short => short')
      BY <1>1, <2>2 DEF NsType, NsInv, CallsIdle
    <2>5. ASSUME ~short', NEW s \in NsSecs
          PROVE  pt'.refs[s] = pt.refs[s]
                   + (Cardinality(UserSet(call', notify', s))
                                    - Cardinality(UserSet(call, notify, s)))
                               + (leaked'[s] - leaked[s])
      <3>1. s \in Secs /\ pt.refs[s] = Cardinality(UserSet(call, notify, s)) + leaked[s]
        BY <1>1, <2>5, SecsFacts DEF NsInv, Counted, Users, UserSet
      <3>2. Cardinality(UserSet(call, notify, s)) =
               Cardinality(UserSet(call, None, s)) + (IF notify = s THEN 1 ELSE 0)
        BY TakeNotify
      <3>3. Cardinality(UserSet(call, None, s)) \in Nat /\ leaked[s] \in Nat
        BY UserSetFinite DEF NsType
      <3>4. a.refs[s] = pt.refs[s] /\ Times(One(notify), s) = IF notify = s THEN 1 ELSE 0
        BY <1>2, <2>1, <3>1
      <3>5. pt'.refs[s] = pt.refs[s] - (IF notify = s THEN 1 ELSE 0)
        BY <2>2, <3>1, <3>2, <3>3, <3>4
      <3>6. call' = call /\ notify' = None /\ leaked' = leaked
        BY <1>1
      <3> QED BY <3>1, <3>2, <3>3, <3>5, <3>6
    <2> QED BY <1>2, <2>2, <2>3, <2>4, <2>5, Settle
  <1> QED BY <1>4, <1>5
-----------------------------------------------------------------------------
(* The bitmaps and the table. *)

(* What is handed out is taken, and handed out once. *)
Disjoint ==
    /\ \A a \in owned : Extent(a) \subseteq vbm
    /\ \A a, b \in owned : a # b => Extent(a) \cap Extent(b) = {}

(* As long as nothing beyond the secure RAM was handed out and no reference *)
(* named one of its sections: the same pages are taken in both regions,     *)
(* every section that is mapped is mapped at its own address, and the taken *)
(* pages are mapped.                                                        *)
Aligned ==
    /\ vbm = pbm
    /\ \A s \in Secs : pt.tab[s] = Fault \/ pt.tab[s].pa = s
    /\ \A i \in vbm : pt.tab[i \div SecSize].pa = i \div SecSize

(* Before anything is given back the pages taken are the first ones.        *)
Packed == pfree \in 0 .. PhyPages /\ vbm = 0 .. PhyPages - pfree - 1 /\ pbm = vbm

(* The invariant of the allocator. *)
SpaceInv ==
    /\ Disjoint
    /\ ~spilled => vbm \subseteq 0 .. PhyPages - 1
    /\ ~spilled /\ named = {} => Aligned
    /\ \A s \in Secs \ NsSecs : pt.tab[s].ns => s \in named
    /\ ~freed => ~spilled /\ Packed

(* The inductive invariant of the module. *)
PagesInv == TypeOK /\ NsInv /\ SpaceInv

(* A page whose section is mapped at its own address is its own frame. *)
LEMMA OwnFrame ==
  ASSUME NEW i \in Nat, pt.tab[i \div SecSize].pa = i \div SecSize
  PROVE  Frame(i) = i
  BY DivMod, PagesAssumption DEF Frame

(* Commands leave the allocator and the secure entries alone. *)
LEMMA NsSpace ==
  ASSUME SpaceInv, NsKept
  PROVE  SpaceInv'
  <1>1. /\ vbm' = vbm /\ pbm' = pbm /\ pfree' = pfree /\ owned' = owned
        /\ freed' = freed /\ spilled' = spilled /\ named' = named
    BY DEF NsKept, bmVars
  <1>2. Quiet(pt, pt')
    BY DEF NsKept
  <1>3. ASSUME ~spilled', named' = {} PROVE Aligned'
    <2>1. Aligned /\ vbm \subseteq 0 .. PhyPages - 1
      BY <1>1, <1>3 DEF SpaceInv
    <2>2. \A s \in Secs : pt'.tab[s] = Fault \/ pt'.tab[s].pa = s
      BY <2>1, <1>2 DEF Aligned, Quiet
    <2>3. ASSUME NEW i \in vbm PROVE pt'.tab[i \div SecSize].pa = i \div SecSize
      <3>1. i \in 0 .. PhyPages - 1 /\ pt.tab[i \div SecSize].pa = i \div SecSize
        BY <2>1, <2>3 DEF Aligned
      <3>2. pt'.tab[i \div SecSize] = pt.tab[i \div SecSize]
        BY <3>1, <1>2, RamSection DEF Quiet
      <3> QED BY <3>1, <3>2
    <2>4. vbm' = pbm'
      BY <2>1, <1>1 DEF Aligned
    <2> QED BY <2>2, <2>3, <2>4, <1>1 DEF Aligned
  <1>4. \A s \in Secs \ NsSecs : pt'.tab[s].ns => s \in named'
    BY <1>1, <1>2 DEF SpaceInv, Quiet
  <1> QED BY <1>1, <1>3, <1>4 DEF SpaceInv, Packed, Disjoint, Extent

(* A reference to a section outside the non-secure RAM leaves the allocator *)
(* alone, and the secure entries no reference named.                        *)
LEMMA ForeignSpace ==
  ASSUME SpaceInv, ForeignKept
  PROVE  SpaceInv'
  <1>1. /\ vbm' = vbm /\ pbm' = pbm /\ pfree' = pfree /\ owned' = owned
        /\ freed' = freed /\ spilled' = spilled /\ named' # {} /\ named \subseteq named'
    BY DEF ForeignKept, bmVars
  <1>2. \A s \in Secs \ NsSecs : pt'.tab[s].ns => s \in named'
    BY <1>1 DEF SpaceInv, ForeignKept
  <1> QED BY <1>1, <1>2 DEF SpaceInv, Packed, Disjoint, Extent

(* The two searches meet the same page. *)
LEMMA SamePage ==
  ASSUME vbm = pbm, NEW size \in Sizes, NEW v, NEW p,
         Found(v, vbm, VirBits, Pages(size)), Found(p, pbm, PhyBits, Pages(size))
  PROVE  v = p
  <1> DEFINE n == Pages(size)
  <1>1. v \in Nat /\ p \in Nat /\ n \in Nat \ {0} /\ v + n < VirBits /\ p + n < PhyBits
    BY PagesPositive DEF Found
  <1>2. PhyBits <= VirBits /\ PhyBits \in Nat /\ VirBits \in Nat /\ vbm = pbm
    BY PagesAssumption
  <1> HIDE DEF n
  <1>3. /\ \A i \in v .. v + n - 1 : i \notin vbm
        /\ \A i \in p .. p + n - 1 : i \notin vbm
        /\ \A s \in Nat : (s + n < VirBits /\ \A i \in s .. s + n - 1 : i \notin vbm) => v <= s
        /\ \A s \in Nat : (s + n < PhyBits /\ \A i \in s .. s + n - 1 : i \notin vbm) => p <= s
    BY <1>2 DEF Found, n
  <1>4. v <= p
    BY <1>1, <1>2, <1>3
  <1>6. v + n < PhyBits
    BY <1>1, <1>2, <1>4
  <1>5. p <= v
    BY <1>1, <1>3, <1>6
  <1> QED BY <1>1, <1>4, <1>5

(* An allocation keeps the invariants. *)
LEMMA AllocSpace ==
  ASSUME TypeOK, NsInv, SpaceInv, NEW size \in Sizes, NEW v, NEW p, AllocAt(size, v, p)
  PROVE  TypeOK' /\ NsInv' /\ SpaceInv'
  <1> DEFINE n == Pages(size)
             q == MapSecure(pt.tab, v, p, n)
  <1>1. /\ v \in Nat /\ p \in Nat /\ n \in Nat \ {0} /\ v + n < VirBits /\ p + n < PhyBits
        /\ p + n < VirBits
    BY PagesPositive, PagesAssumption DEF AllocAt, Found
  <1>2. BmType /\ NsType
    BY TypeParts
  <1>3. pt.tab \in [Secs -> [pa : Secs \cup {None}, ns : BOOLEAN]]
    BY <1>2 DEF NsType, Table
  <1>4. pt' = [pt EXCEPT !.tab = q]
    BY DEF AllocAt
  <1>5. /\ q \in [Secs -> [pa : Secs \cup {None}, ns : BOOLEAN]]
        /\ \A s \in Secs : pt.tab[s] # Fault => q[s] = pt.tab[s]
        /\ \A s \in Secs : q[s].ns => pt.tab[s].ns
        /\ \A s \in Secs : pt.tab[s].ns => q[s].ns
        /\ v = p => /\ \A s \in Secs : pt.tab[s] = Fault => (q[s] = Fault \/ q[s].pa = s)
                    /\ \A i \in v .. v + n - 1 :
                           pt.tab[i \div SecSize] = Fault => q[i \div SecSize].pa = i \div SecSize
    BY <1>1, <1>3, MapSecureFacts
  <1>6. /\ n <= pfree
        /\ vbm' = vbm \cup (v .. v + n - 1) /\ vfree' = vfree - n
        /\ pbm' = pbm \cup (p .. p + n - 1) /\ pfree' = pfree - n
        /\ owned' = owned \cup {[start |-> v, size |-> size]}
        /\ spilled' = (spilled \/ v + n > PhyPages)
        /\ freed' = freed /\ named' = named /\ UNCHANGED nsVars
    BY DEF AllocAt
  <1>7. Found(v, vbm, VirBits, n) /\ Found(p, pbm, PhyBits, n)
    BY DEF AllocAt
  <1> HIDE DEF q
  <1>8. pt' \in Table /\ pt'.tab = q /\ pt'.refs = pt.refs
    BY <1>2, <1>4, <1>5 DEF NsType, Table
  <1>9. NsType'
    BY <1>2, <1>6, <1>8 DEF NsType, nsVars
  <1>10. BmType'
    <2>1. (v .. v + n - 1) \subseteq 0 .. VirBits - 1 /\ (p .. p + n - 1) \subseteq 0 .. PhyBits - 1
      BY <1>1, PagesAssumption
    <2>2. vbm' \subseteq 0 .. VirBits - 1 /\ pbm' \subseteq 0 .. PhyBits - 1
      BY <2>1, <1>2, <1>6 DEF BmType
    <2>3. vfree' \in Int /\ pfree' \in Int
      BY <1>1, <1>2, <1>6 DEF BmType
    <2>4. [start |-> v, size |-> size] \in [start : 0 .. VirBits - 1, size : Sizes]
      BY <1>1, PagesAssumption
    <2>5. owned' \subseteq [start : 0 .. VirBits - 1, size : Sizes]
      BY <2>4, <1>2, <1>6 DEF BmType
    <2>6. freed' \in BOOLEAN /\ spilled' \in BOOLEAN
      BY <1>2, <1>6 DEF BmType
    <2> QED BY <2>2, <2>3, <2>5, <2>6 DEF BmType
  <1>11. TypeOK'
    BY <1>9, <1>10 DEF TypeOK, BmType, NsType, Table, Call
  <1>12. NsInv'
    <2>1. \A s \in NsSecs : s \in Secs
      BY SecsFacts
    <2>2. /\ call' = call /\ notify' = notify /\ leaked' = leaked /\ short' = short
          /\ named' = named
      BY <1>6 DEF nsVars
    <2>3. CallsIdle'
      BY <2>2 DEF NsInv, CallsIdle
    <2>4. ASSUME ~short' PROVE Counted' /\ Visible(pt)'
      <3>1. Counted /\ Visible(pt)
        BY <2>2, <2>4 DEF NsInv
      <3>2. Counted'
        BY <3>1, <2>2, <1>8 DEF Counted, Users
      <3>3. ASSUME NEW s \in NsSecs PROVE pt'.tab[s].ns <=> pt'.refs[s] > 0
        <4>1. pt.tab[s].ns <=> pt.refs[s] > 0
          BY <3>1 DEF Visible
        <4>2. q[s].ns <=> pt.tab[s].ns
          BY <1>5, <2>1
        <4> QED BY <4>1, <4>2, <1>8
      <3> QED BY <3>2, <3>3 DEF Visible
    <2> QED BY <2>3, <2>4 DEF NsInv
  <1>13. \A s \in Secs \ NsSecs : pt'.tab[s].ns => s \in named'
    BY <1>5, <1>6, <1>8 DEF SpaceInv
  <1>14. ASSUME ~freed' PROVE ~spilled' /\ Packed'
    <2>1. ~spilled /\ pfree \in 0 .. PhyPages /\ vbm = 0 .. PhyPages - pfree - 1 /\ pbm = vbm
      BY <1>6, <1>14 DEF SpaceInv, Packed
    <2> DEFINE k == PhyPages - pfree
    <2>2. k \in Nat /\ k + n <= PhyPages /\ PhyPages < VirBits /\ vbm = 0 .. k - 1 /\ PhyPages \in Nat
      BY <2>1, <1>1, <1>6, PagesAssumption
    <2> HIDE DEF k
    <2>3. v <= k
      <3>1. \A i \in k .. k + n - 1 : i \notin vbm
        BY <2>2, <1>1
      <3>2. k + n < VirBits
        BY <2>2, <1>1, PagesAssumption
      <3> QED BY <3>1, <3>2, <2>2, <1>7 DEF Found
    <2>4. v \notin vbm
      BY <1>1, <1>7 DEF Found
    <2>5. v = k
      BY <2>2, <2>3, <2>4, <1>1
    <2>6. ~spilled'
      <3>1. ~(v + n > PhyPages)
        BY <2>2, <2>5, <1>1
      <3> QED BY <3>1, <2>1, <1>6
    <2>7. pfree' \in 0 .. PhyPages
      BY <2>1, <1>1, <1>6, PagesAssumption
    <2>8. vbm' = 0 .. k + n - 1
      BY <2>2, <2>5, <1>1, <1>6
    <2>9. PhyPages - pfree' - 1 = k + n - 1
      BY <2>1, <1>1, <1>6, PagesAssumption DEF k
    <2>10. v = p
      BY <2>1, <1>7, SamePage
    <2>11. pbm' = vbm'
      BY <2>1, <2>10, <1>6
    <2> QED BY <2>6, <2>7, <2>8, <2>9, <2>11 DEF Packed
  <1>16. ASSUME ~spilled' PROVE ~spilled /\ vbm' \subseteq 0 .. PhyPages - 1
    <2>1. ~spilled /\ ~(v + n > PhyPages)
      BY <1>6, <1>16
    <2>2. v + n <= PhyPages
      BY <2>1, <1>1, PagesAssumption
    <2>3. (v .. v + n - 1) \subseteq 0 .. PhyPages - 1
      BY <2>2, <1>1, PagesAssumption
    <2>4. vbm \subseteq 0 .. PhyPages - 1
      BY <2>1 DEF SpaceInv
    <2> QED BY <2>1, <2>3, <2>4, <1>6
  <1>15. ASSUME ~spilled', named' = {} PROVE Aligned'
    <2>1. Aligned
      BY <1>6, <1>15, <1>16 DEF SpaceInv
    <2>2. v = p
      BY <2>1, <1>7, SamePage DEF Aligned
    <2>3. vbm' = pbm' /\ vbm' \subseteq 0 .. PhyPages - 1
      BY <2>1, <2>2, <1>6, <1>15, <1>16 DEF Aligned
    <2>4. ASSUME NEW s \in Secs PROVE pt'.tab[s] = Fault \/ pt'.tab[s].pa = s
      <3>1. pt.tab[s] = Fault \/ pt.tab[s].pa = s
        BY <2>1 DEF Aligned
      <3>2. CASE pt.tab[s] = Fault
        BY <3>2, <2>2, <1>5, <1>8
      <3>3. CASE pt.tab[s] # Fault
        BY <3>1, <3>3, <1>5, <1>8
      <3> QED BY <3>2, <3>3
    <2>5. ASSUME NEW i \in vbm' PROVE pt'.tab[i \div SecSize].pa = i \div SecSize
      <3>1. i \in 0 .. PhyPages - 1
        BY <2>3, <2>5
      <3>2. i \div SecSize \in Secs /\ i \div SecSize \in Nat
        BY <3>1, PageSection, PagesAssumption
      <3>3. pt.tab[i \div SecSize] = Fault \/ pt.tab[i \div SecSize].pa = i \div SecSize
        BY <2>1, <3>2 DEF Aligned
      <3>4. CASE pt.tab[i \div SecSize] # Fault
        BY <3>2, <3>3, <3>4, <1>5, <1>8
      <3>5. CASE pt.tab[i \div SecSize] = Fault
        <4>1. i \notin vbm
          <5>1. Fault.pa \notin Nat
            BY DEF Fault, None
          <5> QED BY <5>1, <3>2, <3>5, <2>1 DEF Aligned
        <4>2. i \in v .. v + n - 1
          BY <4>1, <2>5, <1>6
        <4> QED BY <4>2, <3>5, <2>2, <1>5, <1>8
      <3> QED BY <3>4, <3>5
    <2> QED BY <2>3, <2>4, <2>5 DEF Aligned
  <1>17. Disjoint'
    <2> DEFINE x == [start |-> v, size |-> size]
    <2>1. Extent(x) = v .. v + n - 1
      BY DEF Extent
    <2>2. \A a \in owned : Extent(a) \subseteq vbm /\ Extent(a) \cap Extent(x) = {}
      <3>1. \A i \in v .. v + n - 1 : i \notin vbm
        BY <1>7 DEF Found
      <3> HIDE DEF x
      <3> QED BY <3>1, <2>1 DEF SpaceInv, Disjoint
    <2>3. \A a \in owned' : a \in owned \/ a = x
      BY <1>6
    <2>4. \A a \in owned' : Extent(a) \subseteq vbm'
      <3> HIDE DEF x
      <3> QED BY <2>1, <2>2, <2>3, <1>6
    <2>5. \A a, b \in owned' : a # b => Extent(a) \cap Extent(b) = {}
      <3> HIDE DEF x
      <3>1. \A a, b \in owned : a # b => Extent(a) \cap Extent(b) = {}
        BY DEF SpaceInv, Disjoint
      <3> QED BY <3>1, <2>2, <2>3
    <2> HIDE DEF x
    <2> QED BY <2>4, <2>5 DEF Disjoint, Extent
  <1> QED BY <1>11, <1>12, <1>13, <1>14, <1>15, <1>16, <1>17 DEF SpaceInv

(* What a failed load gives back, of both regions. *)
LEMMA FreeSpace ==
  ASSUME TypeOK, NsInv, SpaceInv, PageFree
  PROVE  TypeOK' /\ NsInv' /\ SpaceInv'
  <1>0. PICK a \in owned : \E left \in 0 .. a.size :
          LET v  == a.start
              p  == Frame(v)
              vn == IF v <= VirPages THEN left \div 2 ELSE 0
              pn == IF p \in 0 .. PhyPages THEN vn ELSE 0
          IN  /\ vbm' = vbm \ (v .. v + vn - 1) /\ vfree' = vfree + vn
              /\ pbm' = pbm \ (p .. p + pn - 1) /\ pfree' = pfree + pn
              /\ owned' = owned \ {a}
              /\ freed' = (freed \/ vn > 0)
              /\ UNCHANGED <<spilled, pt, nsVars, named>>
    BY DEF PageFree
  <1>1. PICK left \in 0 .. a.size :
          LET v  == a.start
              p  == Frame(v)
              vn == IF v <= VirPages THEN left \div 2 ELSE 0
              pn == IF p \in 0 .. PhyPages THEN vn ELSE 0
          IN  /\ vbm' = vbm \ (v .. v + vn - 1) /\ vfree' = vfree + vn
              /\ pbm' = pbm \ (p .. p + pn - 1) /\ pfree' = pfree + pn
              /\ owned' = owned \ {a}
              /\ freed' = (freed \/ vn > 0)
              /\ UNCHANGED <<spilled, pt, nsVars, named>>
    BY <1>0
  <1> DEFINE v  == a.start
             p  == Frame(v)
             vn == IF v <= VirPages THEN left \div 2 ELSE 0
             pn == IF p \in 0 .. PhyPages THEN vn ELSE 0
  <1>2. BmType /\ NsType
    BY TypeParts
  <1>3. a.start \in 0 .. VirBits - 1 /\ a.size \in Sizes /\ a.size \in Nat \ {0}
    BY <1>2, PagesAssumption DEF BmType
  <1>4. left \in Nat /\ left \div 2 \in Nat /\ left \div 2 <= a.size \div 2
    BY <1>3
  <1>5. left \div 2 <= Pages(a.size) /\ Pages(a.size) \in Nat
    BY <1>3, <1>4, PagesPositive
  <1>6. v \in Nat /\ vn \in Nat /\ pn \in Nat /\ vn <= Pages(a.size)
    BY <1>3, <1>4, <1>5, PagesAssumption
  <1>7. /\ vbm' = vbm \ (v .. v + vn - 1) /\ vfree' = vfree + vn
        /\ pbm' = pbm \ (p .. p + pn - 1) /\ pfree' = pfree + pn
        /\ owned' = owned \ {a}
        /\ freed' = (freed \/ vn > 0)
        /\ spilled' = spilled /\ pt' = pt /\ named' = named /\ UNCHANGED nsVars
    BY <1>1
  <1>8. p = v => pn = IF v <= PhyPages THEN vn ELSE 0
    BY <1>6, PagesAssumption
  <1>9. vn = 0 => pn = 0
    OBVIOUS
  <1>18. p \in Int
    <2>1. v \in 0 .. VirBits
      BY <1>3, PagesAssumption
    <2>2. v \div SecSize \in Secs /\ v % SecSize \in Int
      BY <2>1, PageSection, PagesAssumption
    <2>3. pt.tab[v \div SecSize].pa \in Int
      <3>1. \A x \in Secs : pt.tab[x].pa \in Secs \cup {None}
        BY <1>2 DEF NsType, Table
      <3>2. Secs \cup {None} \subseteq Int
        BY SecsFacts DEF None
      <3> HIDE DEF v
      <3> QED BY <3>1, <3>2, <2>2
    <2> DEFINE f == pt.tab[v \div SecSize].pa
               o == v % SecSize
    <2>4. p = f * SecSize + o
      BY DEF Frame
    <2>5. f \in Int /\ o \in Int /\ SecSize \in Int
      BY <2>2, <2>3, PagesAssumption
    <2> HIDE DEF f, o, p
    <2> QED BY <2>4, <2>5
  <1> HIDE DEF vn, pn, p
  <1>10. BmType'
    <2>1. vbm' \subseteq vbm /\ pbm' \subseteq pbm /\ owned' \subseteq owned
      BY <1>7
    <2>2. vfree' \in Int /\ pfree' \in Int
      BY <1>2, <1>6, <1>7 DEF BmType
    <2>3. freed' \in BOOLEAN /\ spilled' \in BOOLEAN
      BY <1>2, <1>7 DEF BmType
    <2>4. vbm' \subseteq 0 .. VirBits - 1 /\ pbm' \subseteq 0 .. PhyBits - 1
      BY <1>2, <2>1 DEF BmType
    <2>5. owned' \subseteq [start : 0 .. VirBits - 1, size : Sizes]
      BY <1>2, <2>1 DEF BmType
    <2> QED BY <2>2, <2>3, <2>4, <2>5 DEF BmType
  <1>11. NsType' /\ NsInv'
    BY <1>2, <1>7 DEF NsType, NsInv, CallsIdle, Counted, Users, Visible, nsVars
  <1>12. TypeOK'
    BY <1>10, <1>11 DEF TypeOK, BmType, NsType, Table, Call
  <1>13. /\ \A s \in Secs \ NsSecs : pt'.tab[s].ns => s \in named'
         /\ ~spilled' => vbm' \subseteq 0 .. PhyPages - 1
    BY <1>7 DEF SpaceInv
  <1>16. Disjoint'
    <2>1. Disjoint
      BY DEF SpaceInv
    <2>2. Extent(a) = v .. v + Pages(a.size) - 1 /\ Pages(a.size) \in Nat \ {0}
      BY <1>3, PagesPositive DEF Extent
    <2> DEFINE g == v .. v + vn - 1
    <2>3. g \subseteq Extent(a) /\ vbm' = vbm \ g
      BY <2>2, <1>6, <1>7
    <2> HIDE DEF g
    <2>4. ASSUME NEW b \in owned' PROVE Extent(b) \subseteq vbm'
      <3>1. b \in owned /\ b # a
        BY <2>4, <1>7
      <3>2. Extent(b) \subseteq vbm /\ Extent(b) \cap Extent(a) = {}
        BY <3>1, <2>1 DEF Disjoint
      <3> QED BY <3>2, <2>3
    <2>5. \A b, c \in owned' : b # c => Extent(b) \cap Extent(c) = {}
      BY <2>1, <1>7 DEF Disjoint
    <2> QED BY <2>4, <2>5 DEF Disjoint, Extent
  <1>14. ASSUME ~spilled', named' = {} PROVE Aligned'
    <2>1. Aligned /\ vbm \subseteq 0 .. PhyPages - 1
      BY <1>7, <1>14 DEF SpaceInv
    <2>2. Extent(a) = v .. v + Pages(a.size) - 1 /\ Pages(a.size) \in Nat \ {0}
      BY <1>3, PagesPositive DEF Extent
    <2>3. v \in vbm
      <3>1. v \in Extent(a)
        BY <2>2, <1>6
      <3> QED BY <3>1 DEF SpaceInv, Disjoint
    <2>4. v \in 0 .. PhyPages - 1 /\ pt.tab[v \div SecSize].pa = v \div SecSize
      BY <2>1, <2>3 DEF Aligned
    <2>5. p = v
      BY <2>4, <1>6, OwnFrame DEF p
    <2>6. pn = vn
      BY <2>4, <2>5, <1>8, PagesAssumption
    <2>7. vbm' = pbm' /\ vbm' \subseteq vbm
      BY <2>1, <2>5, <2>6, <1>7 DEF Aligned
    <2>8. \A s \in Secs : pt'.tab[s] = Fault \/ pt'.tab[s].pa = s
      BY <2>1, <1>7 DEF Aligned
    <2>9. \A i \in vbm' : pt'.tab[i \div SecSize].pa = i \div SecSize
      BY <2>1, <2>7, <1>7 DEF Aligned
    <2> QED BY <2>7, <2>8, <2>9 DEF Aligned
  <1>15. ASSUME ~freed' PROVE ~spilled' /\ Packed'
    <2>1. ~freed /\ ~(vn > 0)
      BY <1>7, <1>15
    <2>2. vn = 0 /\ pn = 0
      BY <2>1, <1>6, <1>9
    <2>3. ~spilled /\ pfree \in 0 .. PhyPages /\ vbm = 0 .. PhyPages - pfree - 1 /\ pbm = vbm
      BY <2>1 DEF SpaceInv, Packed
    <2>4. v .. v + vn - 1 = {}
      BY <2>2, <1>6
    <2>5. vbm' = vbm /\ pbm' = pbm
      <3>1. p .. p + pn - 1 = {} \/ pbm' = pbm
        BY <2>2, <1>7, <1>18
      <3> QED BY <2>4, <3>1, <1>7
    <2>6. pfree' = pfree
      BY <2>2, <2>3, <1>7, PagesAssumption
    <2> QED BY <2>3, <2>5, <2>6, <1>7 DEF Packed
  <1> QED BY <1>11, <1>12, <1>13, <1>14, <1>15, <1>16 DEF SpaceInv

-----------------------------------------------------------------------------
(* The invariant. *)

LEMMA PagesInit == Init => PagesInv
  <1> SUFFICES ASSUME Init PROVE PagesInv
    OBVIOUS
  <1> DEFINE tab == [s \in Secs |-> IF s * SecSize < Reserved
                                    THEN [pa |-> s, ns |-> FALSE] ELSE Fault]
             refs == [s \in Secs |-> 0]
  <1>1. pt = [tab |-> tab, refs |-> refs]
    BY DEF Init
  <1>2. \A s \in Secs : tab[s] \in [pa : Secs \cup {None}, ns : BOOLEAN] /\ tab[s].ns = FALSE
                          /\ (tab[s] = Fault \/ tab[s].pa = s)
    <2> TAKE s \in Secs
    <2>1. CASE s * SecSize < Reserved
      BY <2>1
    <2>2. CASE ~(s * SecSize < Reserved)
      BY <2>2, SecsFacts DEF Fault
    <2> QED BY <2>1, <2>2
  <1>3. \A s \in Secs : s * SecSize < Reserved => tab[s].pa = s
    OBVIOUS
  <1>4. tab \in [Secs -> [pa : Secs \cup {None}, ns : BOOLEAN]] /\ refs \in [Secs -> Nat]
    BY <1>2
  <1> HIDE DEF tab
  <1>5. pt \in Table /\ pt.tab = tab /\ \A s \in Secs : pt.refs[s] = 0
    BY <1>1, <1>4 DEF Table
  <1>6. NsType
    BY <1>5, IdleFacts DEF Init, NsType
  <1>7. BmType
    <2>1. /\ Reserved \in Nat /\ Reserved <= PhyBits /\ Reserved <= VirBits
          /\ VirPages - Reserved \in Int /\ PhyPages - Reserved \in Int
      BY PagesAssumption
    <2>2. 0 .. Reserved - 1 \subseteq 0 .. VirBits - 1 /\ 0 .. Reserved - 1 \subseteq 0 .. PhyBits - 1
      BY <2>1, PagesAssumption
    <2> QED BY <2>1, <2>2 DEF Init, BmType
  <1>8. TypeOK
    BY <1>6, <1>7, TypeParts
  <1>9. NsInv
    <2>1. CallsIdle
      BY IdleFacts DEF Init, CallsIdle
    <2>2. ASSUME NEW s \in NsSecs
          PROVE  pt.refs[s] = Cardinality(Users(s)) + leaked[s] /\ (pt.tab[s].ns <=> pt.refs[s] > 0)
      <3>1. s \in Secs /\ s # None
        BY SecsFacts
      <3>2. \A t \in Tasks : call[t] = Idle
        BY DEF Init
      <3>3. notify = None /\ leaked[s] = 0
        BY DEF Init
      <3>4. \A x : x \notin UserSet(call, notify, s)
        BY <3>1, <3>2, <3>3, IdleFacts, UserSetMember
      <3>5. UserSet(call, notify, s) = {}
        BY <3>4
      <3>6. Cardinality(Users(s)) = 0
        BY <3>5, FS_EmptySet DEF Users, UserSet
      <3> QED BY <3>1, <3>3, <3>6, <1>2, <1>5
    <2> QED BY <2>1, <2>2 DEF NsInv, Counted, Visible
  <1>10. Aligned
    <2>1. vbm = 0 .. Reserved - 1 /\ pbm = vbm /\ owned = {} /\ Reserved \in 0 .. PhyPages
      BY PagesAssumption DEF Init
    <2>2. ASSUME NEW i \in vbm PROVE pt.tab[i \div SecSize].pa = i \div SecSize
      <3>1. i \in Nat /\ i < Reserved /\ i \in 0 .. PhyPages - 1
        BY <2>1, <2>2, PagesAssumption
      <3>2. i \div SecSize \in Secs
        BY <3>1, RamSection
      <3>3. (i \div SecSize) * SecSize < Reserved
        <4>0. SecSize \in Nat \ {0}
          BY PagesAssumption
        <4>2. /\ (i \div SecSize) * SecSize + (i % SecSize) = i /\ i % SecSize \in 0 .. SecSize - 1
              /\ i \div SecSize \in Nat
          BY ONLY <3>1, <4>0, DivMod
        <4>1. /\ (i \div SecSize) * SecSize + (i % SecSize) = i /\ i % SecSize \in Nat
              /\ i \div SecSize \in Nat /\ SecSize \in Nat
          BY <4>0, <4>2
        <4> QED BY <4>1, <3>1, <2>1
      <3> QED BY <3>2, <3>3, <1>3, <1>5
    <2>3. vbm \subseteq 0 .. PhyPages - 1
      BY <2>1, PagesAssumption
    <2> QED BY <1>2, <1>5, <2>1, <2>2, <2>3 DEF Aligned
  <1>11. Packed /\ ~spilled /\ Disjoint /\ vbm \subseteq 0 .. PhyPages - 1
    BY PagesAssumption DEF Init, Packed, Disjoint
  <1>12. SpaceInv
    BY <1>2, <1>5, <1>10, <1>11 DEF SpaceInv
  <1> QED BY <1>8, <1>9, <1>12 DEF PagesInv

(* Every step keeps the inductive invariant. *)
LEMMA PagesStep == PagesInv /\ [Next]_vars => PagesInv'
  <1> SUFFICES ASSUME PagesInv, [Next]_vars PROVE PagesInv'
    OBVIOUS
  <1>1. TypeOK /\ NsInv /\ SpaceInv /\ BmType /\ NsType
    BY TypeParts DEF PagesInv
  <1>2. ASSUME NsKept PROVE PagesInv'
    <2>1. SpaceInv' /\ NsInv' /\ NsType'
      BY <1>1, <1>2, NsSpace DEF NsKept
    <2>2. BmType'
      BY <1>1, <1>2 DEF NsKept, BmType, bmVars
    <2>3. TypeOK'
      BY <2>1, <2>2 DEF TypeOK, BmType, NsType, Table, Call
    <2> QED BY <2>1, <2>3 DEF PagesInv
  <1>3. CASE PageAlloc
    <2>1. PICK size \in Sizes : \E v, p : AllocAt(size, v, p)
      BY <1>3, AllocFacts
    <2>2. PICK v, p : AllocAt(size, v, p)
      BY <2>1
    <2> QED BY <1>1, <2>2, AllocSpace DEF PagesInv
  <1>4. CASE PageFree
    BY <1>1, <1>4, FreeSpace DEF PagesInv
  <1>5. CASE SessionCall
    BY <1>1, <1>2, <1>5, SessionCallKept
  <1>6. CASE Register
    BY <1>1, <1>2, <1>6, RegisterKept
  <1>7. CASE Unregister
    BY <1>1, <1>2, <1>7, UnregisterKept
  <1>10. ASSUME ForeignKept PROVE PagesInv'
    <2>1. SpaceInv' /\ NsInv' /\ NsType'
      BY <1>1, <1>10, ForeignSpace DEF ForeignKept
    <2>2. BmType'
      BY <1>1, <1>10 DEF ForeignKept, BmType, bmVars
    <2>3. TypeOK'
      BY <2>1, <2>2 DEF TypeOK, BmType, NsType, Table, Call
    <2> QED BY <2>1, <2>3 DEF PagesInv
  <1>8. ASSUME NEW t \in Tasks,
               \/ CallFails(t) \/ CallBegin(t) \/ CallMismatch(t)
               \/ RefMap(t) \/ RefUnmap(t) \/ CallEnd(t)
               \/ NotifyNs(t) \/ CallDropped(t)
        PROVE  PagesInv'
    <2>1. CASE RefMap(t)
      <3>1. PICK r \in Secs : \E lost \in {r, None} : RefAt(t, r, lost)
        BY <2>1, RefMapFacts
      <3>2. PICK lost \in {r, None} : RefAt(t, r, lost)
        BY <3>1
      <3>3. CASE r \in NsSecs
        BY <1>1, <1>2, <3>2, <3>3, RefMapKept
      <3>4. CASE r \notin NsSecs
        BY <1>1, <1>10, <3>2, <3>4, ForeignMapKept
      <3> QED BY <3>3, <3>4
    <2>2. CASE RefUnmap(t)
      <3>1. CASE call[t].ref \in NsSecs
        BY <1>1, <1>2, <2>2, <3>1, RefUnmapKept
      <3>2. CASE call[t].ref \notin NsSecs
        BY <1>1, <1>10, <2>2, <3>2, ForeignUnmapKept
      <3> QED BY <3>1, <3>2
    <2>3. CASE ~RefMap(t) /\ ~RefUnmap(t)
      <3>1. NsKept
        BY <1>1, <1>8, <2>3, CallFailsKept, CallBeginKept, CallMismatchKept, CallEndKept,
           NotifyNsKept, CallDroppedKept
      <3> QED BY <3>1, <1>2
    <2> QED BY <2>1, <2>2, <2>3
  <1>9. CASE UNCHANGED vars
    <2>1. UNCHANGED <<bmVars, named, nsVars>> /\ pt' = pt
      BY <1>9 DEF vars
    <2>2. NsKept
      BY <1>1, <2>1, QuietSelf, SameUsers
    <2> QED BY <2>2, <1>2
  <1> QED BY <1>3, <1>4, <1>5, <1>6, <1>7, <1>8, <1>9 DEF Next

(* The state of the allocator, of the table and of the commands keeps its   *)
(* types; in particular every entry of the table names a section of it.     *)
THEOREM PagesTypeCorrect == Spec => []TypeOK
  <1>1. Spec => []PagesInv
    BY PagesInit, PagesStep, PTL DEF Spec
  <1>2. PagesInv => TypeOK
    BY DEF PagesInv
  <1> QED BY <1>1, <1>2, PTL

(* page_ref_add and page_ref_release count exactly the users of a section   *)
(* and the mappings left behind, on every path of the commands, and the     *)
(* entry is visible exactly while there is one.                             *)
THEOREM ReferencesExact == Spec => []RefsExact
  <1>1. Spec => []PagesInv
    BY PagesInit, PagesStep, PTL DEF Spec
  <1>2. PagesInv => RefsExact
    BY DEF PagesInv, NsInv, Counted, Visible, RefsExact
  <1> QED BY <1>1, <1>2, PTL

(* A buffer in use is mapped, whatever the other commands unmap and the     *)
(* allocator maps; at its own address until a page beyond the RAM is handed *)
(* out.                                                                     *)
THEOREM BufferStaysMapped == Spec => []HeldMapped
  <1>1. Spec => []PagesInv
    BY PagesInit, PagesStep, PTL DEF Spec
  <1>2. PagesInv => HeldMapped
    <2> SUFFICES ASSUME PagesInv, ~short, NEW s \in NsSecs, Users(s) # {}
                 PROVE  pt.tab[s].ns /\ (~spilled /\ named = {} => pt.tab[s].pa = s)
      BY DEF HeldMapped
    <2>1. /\ pt.refs[s] = Cardinality(Users(s)) + leaked[s]
          /\ pt.tab[s].ns <=> pt.refs[s] > 0
          /\ leaked[s] \in Nat
      BY TypeParts DEF PagesInv, NsInv, Counted, Visible, NsType
    <2>6. Users(s) = UserSet(call, notify, s)
      BY DEF Users, UserSet
    <2>2. IsFiniteSet(Users(s)) /\ Cardinality(Users(s)) \in Nat
      BY <2>6, UserSetFinite
    <2>3. Cardinality(Users(s)) # 0
      BY <2>2, FS_EmptySet
    <2>4. pt.tab[s].ns
      BY <2>1, <2>2, <2>3
    <2>5. ASSUME ~spilled, named = {} PROVE pt.tab[s].pa = s
      <3>1. pt.tab[s] = Fault \/ pt.tab[s].pa = s
        BY <2>5, SecsFacts DEF PagesInv, SpaceInv, Aligned
      <3>2. ~Fault.ns
        BY DEF Fault
      <3> QED BY <3>1, <3>2, <2>4
    <2> QED BY <2>4, <2>5
  <1> QED BY <1>1, <1>2, PTL

(* The pages handed out are private: no page is handed out twice, and none  *)
(* of the RAM is visible to the non-secure world unless a reference of a    *)
(* command, whose address nobody checks, named its section; their frames    *)
(* are different and taken, until such a reference comes or a page beyond   *)
(* the RAM is handed out, which does not happen before a failed load has    *)
(* given pages back.                                                        *)
THEOREM PagesArePrivate == Spec => []OwnPages
  <1>1. Spec => []PagesInv
    BY PagesInit, PagesStep, PTL DEF Spec
  <1>2. PagesInv => OwnPages
    <2> SUFFICES ASSUME PagesInv PROVE OwnPages
      OBVIOUS
    <2>1. SpaceInv /\ Disjoint
      BY DEF PagesInv, SpaceInv
    <2>2. ASSUME ~spilled, NEW a \in owned, NEW i \in Extent(a)
          PROVE  i \in vbm /\ i \in 0 .. PhyPages - 1
      BY <2>1, <2>2 DEF Disjoint, SpaceInv
    <2>3. ASSUME ~spilled, NEW a \in owned, NEW i \in Extent(a), pt.tab[i \div SecSize].ns
          PROVE  i \div SecSize \in named
      BY <2>1, <2>2, <2>3, RamSection DEF SpaceInv
    <2>4. ASSUME ~spilled, named = {}, NEW a \in owned, NEW i \in Extent(a)
          PROVE  Frame(i) = i /\ i \in pbm
      <3>1. Aligned /\ i \in vbm /\ i \in 0 .. PhyPages - 1
        BY <2>1, <2>2, <2>4 DEF SpaceInv
      <3> QED BY <3>1, OwnFrame DEF Aligned
    <2>5. ASSUME ~spilled, named = {}, NEW a \in owned, NEW b \in owned,
                 NEW i \in Extent(a), NEW j \in Extent(b)
          PROVE  Frame(i) \in pbm /\ (Frame(i) = Frame(j) => i = j)
      <3>1. Frame(i) = i /\ Frame(j) = j /\ i \in pbm
        BY <2>4, <2>5
      <3> QED BY <3>1
    <2>6. ~freed => ~spilled
      BY <2>1 DEF SpaceInv
    <2>7. \A a \in owned, b \in owned : a # b => Extent(a) \cap Extent(b) = {}
      BY <2>1 DEF Disjoint
    <2> QED BY <2>3, <2>5, <2>6, <2>7 DEF OwnPages
  <1> QED BY <1>1, <1>2, PTL

(* The spare bits of the physical bitmap are all that stands between the    *)
(* allocator and the pages beyond the RAM: without them, whatever is given  *)
(* back, no such page is handed out, as long as no reference named a        *)
(* section outside the non-secure RAM.                                      *)
THEOREM NothingBeyondRam ==
  ASSUME PhyBits = PhyPages + 1
  PROVE  Spec => [](named = {} => ~spilled)
  <1>1. Spec => []PagesInv
    BY PagesInit, PagesStep, PTL DEF Spec
  <1>2. Init => (named = {} => ~spilled)
    BY DEF Init
  <1>3. PagesInv /\ (named = {} => ~spilled) /\ [Next]_vars => (named = {} => ~spilled)'
    <2> SUFFICES ASSUME PagesInv, named = {} => ~spilled, [Next]_vars, named' = {}
                 PROVE  ~spilled'
      OBVIOUS
    <2>5. named = {} /\ ~spilled
      <3>1. ASSUME NEW t \in Tasks, RefMap(t) PROVE named \subseteq named'
        BY <3>1 DEF RefMap
      <3>2. named \subseteq named'
        BY <3>1 DEF Next, PageAlloc, PageFree, SessionCall, Register, Unregister, CallFails,
                    CallBegin, CallMismatch, RefUnmap, CallEnd, NotifyNs, CallDropped, vars
      <3> QED BY <3>2
    <2>1. CASE PageAlloc
      <3>1. PICK size \in Sizes : \E v, p : AllocAt(size, v, p)
        BY <2>1, AllocFacts
      <3>2. PICK v, p : AllocAt(size, v, p)
        BY <3>1
      <3>3. /\ Found(v, vbm, VirBits, Pages(size)) /\ Found(p, pbm, PhyBits, Pages(size))
            /\ spilled' = (spilled \/ v + Pages(size) > PhyPages)
        BY <3>2 DEF AllocAt
      <3>4. v = p
        BY <2>5, <3>3, SamePage DEF PagesInv, SpaceInv, Aligned
      <3>5. p \in Nat /\ p + Pages(size) < PhyBits /\ Pages(size) \in Nat
        BY <3>3, PagesPositive DEF Found
      <3>6. ~(v + Pages(size) > PhyPages)
        BY <3>4, <3>5, PagesAssumption
      <3> QED BY <2>5, <3>3, <3>6
    <2>2. CASE PageFree
      BY <2>2, <2>5 DEF PageFree
    <2>3. ASSUME NEW t \in Tasks,
                 \/ CallFails(t) \/ CallBegin(t) \/ CallMismatch(t)
                 \/ RefMap(t) \/ RefUnmap(t) \/ CallEnd(t)
                 \/ NotifyNs(t) \/ CallDropped(t)
          PROVE  spilled' = spilled
      BY <2>3 DEF CallFails, CallBegin, CallMismatch, RefMap, RefUnmap, CallEnd, NotifyNs,
                  CallDropped, bmVars
    <2>4. CASE SessionCall \/ Register \/ Unregister \/ UNCHANGED vars
      BY <2>4 DEF SessionCall, Register, Unregister, vars, bmVars
    <2> QED BY <2>1, <2>2, <2>3, <2>4, <2>5 DEF Next
  <1> QED BY <1>1, <1>2, <1>3, PTL DEF Spec
=============================================================================
