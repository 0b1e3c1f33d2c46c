------------------------------- MODULE Pages -------------------------------
(***************************************************************************)
(* Secure memory: the page allocator of core/mem_mng.c, which hands out    *)
(* virtual and physical pages from two bitmaps, and the section table of   *)
(* arch/arm/armv7/page_table.c, in which the secure world's own pages and  *)
(* the non-secure buffers of the commands are mapped.                      *)
(*                                                                         *)
(* An address is a page number from the start of the secure RAM; a section *)
(* (1 MB) is SecSize pages.  The virtual window starts at the same address *)
(* as the secure RAM and is longer; the non-secure RAM follows the secure  *)
(* one and its buffers are mapped at their physical address, so they share *)
(* the table with the pages handed out.  A request is in half pages: the   *)
(* allocator rounds it up, and what a failed load gives back is rounded    *)
(* down.                                                                   *)
(*                                                                         *)
(* process_otzapi holds its mappings while the service sleeps or waits, so *)
(* the mappings of several tasks overlap in time and share sections.       *)
(***************************************************************************)
EXTENDS Integers, FiniteSets, FiniteSetsExt

CONSTANTS
    SecSize,    \* pages of a section
    PhyPages,   \* pages of the secure RAM
    PhyBits,    \* bits of its bitmap (rounded up to words: more than PhyPages)
    VirPages,   \* pages of the virtual window
    VirBits,    \* bits of its bitmap
    Reserved,   \* pages of the code and of the bitmaps themselves
    Sizes,      \* sizes requested, in half pages
    MaxAlloc,   \* bound on the allocations
    NsSecs,     \* sections of the non-secure RAM
    Coarse,     \* those whose descriptor is not a section: mapping them fails
    Tasks,      \* service tasks
    Layouts,    \* where the buffers of a command lie: functions from Buffers
    MaxLeak     \* bound on the mappings nobody releases

Buffers == {"cmd", "req", "res", "meta"}
None    == -1                       \* no buffer (length zero), no mapping
Secs    == (0 .. (VirBits \div SecSize)) \cup NsSecs
RamSecs == 0 .. ((PhyPages - 1) \div SecSize)

ASSUME PagesAssumption ==
    /\ SecSize \in Nat \ {0} /\ MaxAlloc \in Nat /\ MaxLeak \in Nat
    /\ PhyPages \in Nat \ {0} /\ VirPages \in Nat /\ PhyBits \in Nat /\ VirBits \in Nat
    /\ PhyPages < PhyBits /\ VirPages < VirBits /\ PhyBits <= VirBits
    /\ Reserved \in 0 .. PhyPages /\ PhyPages <= VirPages
    /\ Sizes \subseteq Nat \ {0}
    /\ NsSecs \subseteq Nat /\ NsSecs \cap RamSecs = {}
    /\ Coarse \subseteq NsSecs /\ IsFiniteSet(Tasks)
    /\ Layouts \subseteq [Buffers -> NsSecs \cup {None}]
    /\ \A l \in Layouts : l["cmd"] \in NsSecs \ Coarse /\ l["meta"] # None

VARIABLES
    vbm,        \* vir_mem_bmap: the virtual pages taken
    pbm,        \* phy_mem_bmap
    vfree,      \* num_vir_pag_free
    pfree,      \* num_phy_pag_free
    pt,         \* secure_page_table and page_ref_list
    owned,      \* the allocations in use
    freed,      \* history: a failed load has given pages back
    spilled,    \* history: a page beyond the secure RAM was handed out
    call,       \* the command each task serves: its layout and reference
    notify,     \* section of global_val.notify_data, or None
    leaked,     \* per section, the mappings whose user is gone
    short,      \* a page reference could not be allocated
    named       \* history: sections outside NsSecs that a reference named

bmVars == <<vbm, pbm, vfree, pfree, owned, freed, spilled>>
nsVars == <<call, notify, leaked, short>>
vars   == <<bmVars, pt, nsVars, named>>

Fault == [pa |-> None, ns |-> FALSE]
Idle  == [lay |-> [b \in Buffers |-> None], ref |-> None, on |-> FALSE]

TypeOK ==
    /\ vbm \subseteq 0 .. VirBits - 1 /\ pbm \subseteq 0 .. PhyBits - 1
    /\ vfree \in Int /\ pfree \in Int
    /\ pt \in [tab : [Secs -> [pa : Secs \cup {None}, ns : BOOLEAN]],
               refs : [Secs -> Nat]]
    /\ owned \subseteq [start : 0 .. VirBits - 1, size : Sizes]
    /\ freed \in BOOLEAN /\ spilled \in BOOLEAN /\ short \in BOOLEAN
    /\ call \in [Tasks -> [lay : [Buffers -> NsSecs \cup {None}],
                           ref : Secs \cup {None}, on : BOOLEAN]]
    /\ notify \in NsSecs \cup {None}
    /\ leaked \in [NsSecs -> Nat] /\ named \subseteq Secs \ NsSecs

(* sw_meminfo_init reserves the code and the bitmaps at the start of both   *)
(* regions; board_map_secure_page_table maps them at their own address.     *)
Init ==
    /\ vbm = 0 .. Reserved - 1 /\ pbm = 0 .. Reserved - 1
    /\ vfree = VirPages - Reserved /\ pfree = PhyPages - Reserved
    /\ pt = [tab |-> [s \in Secs |-> IF s * SecSize < Reserved
                                     THEN [pa |-> s, ns |-> FALSE] ELSE Fault],
             refs |-> [s \in Secs |-> 0]]
    /\ owned = {} /\ freed = FALSE /\ spilled = FALSE /\ short = FALSE
    /\ call = [t \in Tasks |-> Idle]
    /\ notify = None /\ leaked = [s \in NsSecs |-> 0] /\ named = {}

-----------------------------------------------------------------------------
(* The page allocator. *)

Pages(size) == (size + 1) \div 2

(* The search of a run of n clear bits stops one short of the last one. *)
Runs(bm, bits, n) ==
    {s \in 0 .. bits - n - 1 : \A i \in s .. s + n - 1 : i \notin bm}

(* map_to_secure for every section from the first to the one behind the     *)
(* last byte: an entry that is there stays as it is (map_section_entry).    *)
MapSecure(tab, v, p, n) ==
    [s \in Secs |->
        LET i == s - v \div SecSize IN
        IF tab[s] = Fault /\ i \in 0 .. ((p + n) \div SecSize - p \div SecSize)
        THEN [pa |-> p \div SecSize + i, ns |-> FALSE] ELSE tab[s]]

(* Mutant: the virtual pages are taken before the physical ones are known   *)
(* to be there.                                                             *)
PageAllocTakesFirst ==
    \E size \in Sizes :
        LET n  == Pages(size)
            vs == Runs(vbm, VirBits, n)
            ps == Runs(pbm, PhyBits, n)
        IN  /\ Cardinality(owned) < MaxAlloc /\ n <= vfree /\ vs # {}
            /\ vbm' = vbm \cup (Min(vs) .. Min(vs) + n - 1) /\ vfree' = vfree - n
            /\ IF n > pfree \/ ps = {}
               THEN UNCHANGED <<pbm, pfree, pt, owned, spilled>>
               ELSE /\ pbm' = pbm \cup (Min(ps) .. Min(ps) + n - 1)
                    /\ pfree' = pfree - n
                    /\ pt' = [pt EXCEPT !.tab = MapSecure(@, Min(vs), Min(ps), n)]
                    /\ owned' = owned \cup {[start |-> Min(vs), size |-> size]}
                    /\ spilled' = (spilled \/ Min(vs) + n > PhyPages)
            /\ UNCHANGED <<freed, nsVars, named>>

(* sw_vir_page_alloc: the virtual pages are found first, then the physical  *)
(* ones (sw_phy_page_alloc); nothing is taken when either is short.         *)
PageAlloc ==
    \E size \in Sizes :
        LET n  == Pages(size)
            vs == Runs(vbm, VirBits, n)
            ps == Runs(pbm, PhyBits, n)
        IN  /\ Cardinality(owned) < MaxAlloc
            /\ n <= vfree /\ vs # {}
            /\ n <= pfree /\ ps # {}
            /\ vbm' = vbm \cup (Min(vs) .. Min(vs) + n - 1) /\ vfree' = vfree - n
            /\ pbm' = pbm \cup (Min(ps) .. Min(ps) + n - 1) /\ pfree' = pfree - n
            /\ pt' = [pt EXCEPT !.tab = MapSecure(@, Min(vs), Min(ps), n)]
            /\ owned' = owned \cup {[start |-> Min(vs), size |-> size]}
            /\ spilled' = (spilled \/ Min(vs) + n > PhyPages)
            /\ UNCHANGED <<freed, nsVars, named>>

(* va_to_pa, through the table. *)
Frame(p) == pt.tab[p \div SecSize].pa * SecSize + (p % SecSize)

(* load_reloc_object of the ELF loader gives the pages of the file image    *)
(* back with the number of bytes it has not read: none after a successful   *)
(* load, all of them when the first read fails.  sw_vir_addr_free clears    *)
(* the virtual bits and sw_phy_addr_free the physical ones, each unless the *)
(* address is out of its region (as that of a page whose section is not     *)
(* mapped is); the table stays as it is.                                    *)
PageFree ==
    \E a \in owned : \E left \in 0 .. a.size :
        LET v  == a.start
            p  == Frame(v)
            vn == IF v <= VirPages THEN left \div 2 ELSE 0
            pn == IF p \in 0 .. PhyPages THEN vn ELSE 0
        IN  /\ vbm' = vbm \ (v .. v + vn - 1) /\ vfree' = vfree + vn
            /\ pbm' = pbm \ (p .. p + pn - 1) /\ pfree' = pfree + pn
            /\ owned' = owned \ {a}
            /\ freed' = (freed \/ vn > 0)
            /\ UNCHANGED <<spilled, pt, nsVars, named>>

-----------------------------------------------------------------------------
(* The mappings of non-secure memory.  m maps a set of names to sections.   *)

Times(m, s) == Cardinality({b \in DOMAIN m : m[b] = s})

(* n more references of an entry that has r; the node that counts them is   *)
(* allocated with the first one, and short when that fails.                 *)
page_ref_add(r, n, fails) == r + n - (IF fails /\ n > 0 /\ r = 0 THEN 1 ELSE 0)

(* n references less; releasing what has no node does nothing. *)
page_ref_release(r, n) == IF r > n THEN r - n ELSE 0

(* Mutant: a reference is counted only when the section was not mapped. *)
MapNsCountsOnce(p, m, lost) ==
    [tab  |-> [s \in Secs |-> IF Times(m, s) = 0 THEN p.tab[s]
                              ELSE [pa |-> IF p.tab[s] = Fault THEN s ELSE p.tab[s].pa,
                                    ns |-> TRUE]],
     refs |-> [s \in Secs |-> IF Times(m, s) > 0 /\ p.tab[s] = Fault THEN 1 ELSE p.refs[s]]]

(* map_to_ns of every buffer of m (map_ns_section_entry, page_ref_add).     *)
(* lost is the section whose reference could not be allocated, or None: the *)
(* result of page_ref_add is not looked at, so it is mapped all the same.   *)
MapNs(p, m, lost) ==
    [tab  |-> [s \in Secs |-> IF Times(m, s) = 0 THEN p.tab[s]
                              ELSE [pa |-> IF p.tab[s] = Fault THEN s ELSE p.tab[s].pa,
                                    ns |-> TRUE]],
     refs |-> [s \in Secs |-> page_ref_add(p.refs[s], Times(m, s), s = lost)]]

(* Mutant: the entry goes whatever the references left. *)
UnmapNsAlways(p, m) ==
    [tab  |-> [s \in Secs |-> IF Times(m, s) > 0 THEN Fault ELSE p.tab[s]],
     refs |-> [s \in Secs |-> page_ref_release(p.refs[s], Times(m, s))]]

(* unmap_from_ns of every buffer of m: the entry goes with its last         *)
(* reference; without a reference, or without an entry, nothing happens.    *)
UnmapNs(p, m) ==
    [tab  |-> [s \in Secs |-> IF p.refs[s] > 0 /\ p.refs[s] <= Times(m, s)
                              THEN Fault ELSE p.tab[s]],
     refs |-> [s \in Secs |-> page_ref_release(p.refs[s], Times(m, s))]]

Only(m, B) == [b \in {x \in B : m[x] # None} |-> m[b]]
One(s)     == [b \in {"cmd"} |-> s]

(* A command is read through a mapping that is given back at once:          *)
(* get_api_context, the dispatcher's open, close and registration.          *)
Access(p, m, lost) == UnmapNs(MapNs(p, m, lost), m)

(* The references come from the common heap, which may be exhausted. *)
Losing(lost) == short' = (short \/ lost # None)

Leak(m) == leaked' = [s \in NsSecs |-> leaked[s] + Times(m, s)]
LeakFits == \A s \in NsSecs : leaked'[s] <= MaxLeak

(* open_session_from_ns and close_session_from_ns map the command, the      *)
(* response and the request buffer and unmap what was mapped.               *)
SessionCall ==
    \E l \in Layouts : \E lost \in {l["cmd"], l["req"], l["res"], None} :
        LET m == Only(l, {"cmd", "req", "res"}) IN
        /\ \A b \in DOMAIN m : m[b] \notin Coarse
        /\ pt' = Access(Access(pt, One(l["cmd"]), None), m, lost)
        /\ Losing(lost)
        /\ UNCHANGED <<bmVars, named, call, notify, leaked>>

(* process_otzapi maps the buffers in order; when one cannot be mapped the  *)
(* earlier ones are unmapped and the command fails.                         *)
Order == <<"cmd", "req", "res", "meta">>
Before(l) == {Order[i] : i \in {j \in 1 .. 4 : \A k \in 1 .. j : l[Order[k]] \notin Coarse}}

CallFails(t) ==
    \E l \in Layouts :
        LET m == Only(l, Before(l)) IN
        /\ ~call[t].on /\ Before(l) # Buffers
        /\ pt' = Access(Access(pt, One(l["cmd"]), None), m, None)
        /\ UNCHANGED <<bmVars, named, nsVars>>

CallBegin(t) ==
    \E l \in Layouts : \E lost \in {l[b] : b \in Buffers} \cup {None} :
        /\ ~call[t].on /\ Before(l) = Buffers
        /\ pt' = MapNs(Access(pt, One(l["cmd"]), None), Only(l, Buffers), lost)
        /\ call' = [call EXCEPT ![t] = [lay |-> l, ref |-> None, on |-> TRUE]]
        /\ Losing(lost)
        /\ UNCHANGED <<bmVars, named, notify, leaked>>

(* The command names another session: process_otzapi returns without        *)
(* unmapping anything.                                                      *)
CallMismatch(t) ==
    \E l \in Layouts :
        LET m == Only(l, Buffers) IN
        /\ ~call[t].on /\ Before(l) = Buffers
        /\ pt' = MapNs(Access(pt, One(l["cmd"]), None), m, None)
        /\ Leak(m) /\ LeakFits
        /\ UNCHANGED <<bmVars, named, call, notify, short>>

(* decode_data maps a memory reference; the service unmaps it when it is    *)
(* done with it.  The address is a word of the request, and behind other    *)
(* parameters not the one the driver wrote (the offset, in bytes, is added  *)
(* to a pointer to words); neither decode_data nor __map_to_ns looks where  *)
(* it points, so any section may be mapped, the secure RAM's own too.  The  *)
(* buffers of the layouts and the notification page are pages of the        *)
(* driver's own, whose addresses it finds itself with virt_to_phys.         *)
RefMap(t) ==
    \E s \in Secs \ Coarse : \E lost \in {s, None} :
        /\ call[t].on /\ call[t].ref = None
        /\ pt' = MapNs(pt, One(s), lost)
        /\ call' = [call EXCEPT ![t].ref = s]
        /\ named' = named \cup ({s} \ NsSecs)
        /\ Losing(lost)
        /\ UNCHANGED <<bmVars, notify, leaked>>

RefUnmap(t) ==
    /\ call[t].on /\ call[t].ref # None
    /\ pt' = UnmapNs(pt, One(call[t].ref))
    /\ call' = [call EXCEPT ![t].ref = None]
    /\ UNCHANGED <<bmVars, named, notify, leaked, short>>

(* The service returns: process_otzapi unmaps all it has mapped. *)
CallEnd(t) ==
    /\ call[t].on /\ call[t].ref = None
    /\ pt' = UnmapNs(pt, Only(call[t].lay, Buffers))
    /\ call' = [call EXCEPT ![t] = Idle]
    /\ UNCHANGED <<bmVars, named, notify, leaked, short>>

(* notify_ns, in the interrupt of a waiting command's timer, maps the       *)
(* command and never unmaps it.                                             *)
NotifyNs(t) ==
    LET m == One(call[t].lay["cmd"]) IN
    /\ call[t].on
    /\ pt' = MapNs(pt, m, None)
    /\ Leak(m) /\ LeakFits
    /\ UNCHANGED <<bmVars, named, call, notify, short>>

(* The session is closed while its command waits: destroy_task drops the    *)
(* task, its mappings stay.                                                 *)
CallDropped(t) ==
    LET m == Only(call[t].lay, Buffers) IN
    /\ call[t].on /\ call[t].ref = None
    /\ Leak(m) /\ LeakFits
    /\ call' = [call EXCEPT ![t] = Idle]
    /\ UNCHANGED <<bmVars, named, pt, notify, short>>

(* register_notify_data forgets the page registered before. *)
Register ==
    \E l \in Layouts, s \in NsSecs \ Coarse :
        /\ pt' = UnmapNs(MapNs(MapNs(Access(pt, One(l["cmd"]), None), One(l["cmd"]), None),
                               One(s), None), One(l["cmd"]))
        /\ notify' = s
        /\ IF notify = None THEN UNCHANGED leaked ELSE Leak(One(notify)) /\ LeakFits
        /\ UNCHANGED <<bmVars, named, call, short>>

Unregister ==
    \E l \in Layouts :
        LET p == Access(pt, One(l["cmd"]), None) IN
        /\ pt' = IF notify = None THEN p ELSE UnmapNs(p, One(notify))
        /\ notify' = None
        /\ UNCHANGED <<bmVars, named, call, leaked, short>>

Next ==
    \/ PageAlloc \/ PageFree
    \/ SessionCall \/ Register \/ Unregister
    \/ \E t \in Tasks :
        \/ CallFails(t) \/ CallBegin(t) \/ CallMismatch(t)
        \/ RefMap(t) \/ RefUnmap(t) \/ CallEnd(t)
        \/ NotifyNs(t) \/ CallDropped(t)

Spec == Init /\ [][Next]_vars

-----------------------------------------------------------------------------
(* The users of section s: buffers and references of the commands being     *)
(* served, and the notification page.                                       *)
Users(s) ==
    {u \in Tasks \X Buffers : call[u[1]].lay[u[2]] = s}
        \cup {<<t, "ref">> : t \in {u \in Tasks : call[u].ref = s}}
        \cup (IF notify = s THEN {<<None, "notify">>} ELSE {})

(* A non-secure buffer stays mapped as long as a service task or the        *)
(* notification uses it, whatever the other commands in the same section do *)
(* meanwhile, as long as the references could be allocated; and at its own  *)
(* address, as long as no page beyond the secure RAM was handed out (those  *)
(* pages share the sections of the buffers, whose entries are not rewritten)*)
(* and no reference named a section of the secure world (which unmaps the   *)
(* pages there, so that the two bitmaps no longer agree).                   *)
HeldMapped ==
    ~short => \A s \in NsSecs : Users(s) # {} =>
        /\ pt.tab[s].ns
        /\ ~spilled /\ named = {} => pt.tab[s].pa = s

(* The references of a section are its users and the mappings left behind   *)
(* by the paths that do not unmap, and a section no reference is left of is *)
(* out of the secure world's sight.                                         *)
RefsExact ==
    ~short => \A s \in NsSecs :
        /\ pt.refs[s] = Cardinality(Users(s)) + leaked[s]
        /\ pt.tab[s].ns <=> pt.refs[s] > 0

Extent(a) == a.start .. a.start + Pages(a.size) - 1

(* No page is handed out twice, and a page of the secure RAM is hidden from *)
(* the non-secure world unless a reference named its section: map_to_ns     *)
(* trusts the address it is given, and no other path of the commands        *)
(* reaches a secure section.  As long as no reference named one, the frames *)
(* behind the pages handed out, found through section entries that are      *)
(* written once and never changed, are taken in the physical bitmap and     *)
(* different for every page, whatever failed loads have given back in       *)
(* between, as long as no page beyond the secure RAM was handed out; and    *)
(* that does not happen before a failed load has fragmented the bitmaps,    *)
(* whose spare bits lie beyond it.                                          *)
OwnPages ==
    /\ \A a \in owned, b \in owned : a # b => Extent(a) \cap Extent(b) = {}
    /\ ~spilled => \A a \in owned : \A i \in Extent(a) :
                       pt.tab[i \div SecSize].ns => i \div SecSize \in named
    /\ ~spilled /\ named = {} =>
        \A a \in owned, b \in owned : \A i \in Extent(a), j \in Extent(b) :
            /\ Frame(i) \in pbm
            /\ Frame(i) = Frame(j) => i = j
    /\ ~freed => ~spilled
=============================================================================
