--------------------------- MODULE MarshalProofs ---------------------------
(***************************************************************************)
(* Proofs about the parameters of a command, for any size of the buffers,   *)
(* any number of parameters and any lengths of arrays.                      *)
(*                                                                          *)
(* Encoder, service and caller each add up the offsets again.  That they    *)
(* agree is stated with one list of offsets for each buffer, at[d], from    *)
(* which all three walks take theirs.  It also holds when a response array  *)
(* wraps the driver's u32 sum; what it then no longer says is that the      *)
(* parameters lie apart (the clauses under Unwrapped).                      *)
(***************************************************************************)
EXTENDS Marshal, TLAPS

(* How far parameter i of buffer d moves the offset. *)
Size(d, i) == Step(meta[d][i].typ, meta[d][i].len)

(* The offsets of the parameters, in their order; the last one is where the *)
(* next parameter goes.                                                     *)
Laid(at, d) ==
    /\ at[d][1] = 0 /\ at[d][Len(meta[d]) + 1] = offset[d]
    /\ Unwrapped(d) => \A i \in 1 .. Len(meta[d]), j \in 1 .. Len(meta[d]) + 1 :
          i < j => at[d][i] + Size(d, i) <= at[d][j]
    /\ \A i \in 1 .. Len(meta[d]) : at[d][i + 1] = at[d][i] + Size(d, i)
    /\ side = "ipc" => \A i \in 1 .. Len(meta[d]) + 1 : at[d][i] = Word * (i - 1)

(* What encoders put into the meta entries, and services into ret. *)
Entered(d) ==
    /\ Len(meta[d]) <= Limit(d)
    /\ \A i \in 1 .. Len(meta[d]) :
          /\ Unwrapped(d) => meta[d][i].len > 0 /\ meta[d][i].ret <= meta[d][i].len
          /\ meta[d][i].typ # "array" => meta[d][i].len = Word
          /\ side = "ipc" => meta[d][i].typ # "array"

(* The service's walk, and the caller's, are at the offset of their         *)
(* parameter.                                                               *)
Walking(at) ==
    /\ \A d \in Dirs :
          /\ cursor[d].pos \in 1 .. Len(meta[d]) + 1
          /\ cursor[d].off = at[d][cursor[d].pos]
          /\ Len(got[d]) = cursor[d].pos - 1
          /\ phase = "encode" => cursor[d].pos = 1
    /\ back.pos \in 1 .. Len(meta["out"]) + 1
    /\ back.off = at["out"][back.pos]
    /\ phase \in {"encode", "serve"} => back.pos = 1
    /\ phase = "decode" => cursor["out"].pos = Len(meta["out"]) + 1

(* Where the service looks for parameter i. *)
Place(at, d, i) == DecodeAt(meta[d][i].typ, meta[d][i].len, at[d][i])

(* A request that is well placed is where the service will look for it. *)
RequestsHeld(at) ==
    \A i \in 1 .. Len(meta["in"]) :
        WellPlaced("in", i) => Holds(buf["in"], Place(at, "in", i), i)

(* The address of a response reference is in its place until the service    *)
(* has read it, as far as that place is in the buffer.                      *)
ReferencesHeld(at) ==
    Unwrapped("out") =>
        \A i \in cursor["out"].pos .. Len(meta["out"]) : meta["out"][i].typ = "ref" =>
            \A c \in RefAt(at["out"][i]) :
                IF c \in Cells THEN buf["out"][c] = i ELSE c \in wild["out"]

(* An answer the caller has not taken yet is where it will look for it. *)
AnswersHeld(at) ==
    Unwrapped("out") =>
        \A i \in back.pos .. cursor["out"].pos - 1 : meta["out"][i].typ # "ref" =>
            Holds(buf["out"], Range(at["out"][i], meta["out"][i].ret), i)

(* The parts of the invariant, for given offsets. *)
Agree(at) ==
    /\ \A d \in Dirs : Laid(at, d) /\ Entered(d)
    /\ Unwrapped("in")
    /\ Walking(at) /\ RequestsHeld(at) /\ ReferencesHeld(at) /\ AnswersHeld(at)

(* The inductive invariant: there are offsets on which the walks agree. *)
MarshalInv ==
    /\ TypeOK /\ RequestDecoded /\ ResponseLands /\ InBuffer
    /\ \E at \in [Dirs -> [Nat -> Nat]] : Agree(at)
-----------------------------------------------------------------------------
(* Arithmetic of places. *)

(* The constants are numbers. *)
LEMMA ConstantFacts ==
    /\ Word \in Nat /\ Word > 0 /\ BufSize \in Nat /\ Word <= BufSize
    /\ MaxReq \in Nat /\ MaxRes \in Nat /\ Lens \subseteq 1 .. (Mod - 1)
    /\ Mod \in Nat /\ 2 * BufSize < Mod
    /\ \A d \in Dirs : Limit(d) \in Nat /\ Word * Word * Limit(d) <= BufSize
  BY MarshalAssumption DEF Limit, Dirs

(* Multiplication keeps the order. *)
LEMMA Times ==
    ASSUME NEW k \in Nat, NEW a \in Nat, NEW b \in Nat, a <= b
    PROVE  k * a \in Nat /\ k * a <= k * b
  <1>1. PICK z \in Nat : b = a + z
    BY b - a \in Nat, b = a + (b - a)
  <1>2. k * b = k * a + k * z
    BY <1>1
  <1>3. k * z >= 0 /\ k * z \in Nat /\ k * a \in Nat
    BY <1>1
  <1> QED BY <1>2, <1>3

(* An address written through a u32 pointer lies no lower than its byte     *)
(* offset, and above the address of any parameter before it.                *)
LEMMA RefAbove ==
    ASSUME NEW off \in Nat, NEW c \in RefAt(off)
    PROVE  /\ c \in Nat /\ c >= off /\ Word * off \in Nat
           /\ c >= Word * off /\ c < Word * off + Word
  <1>1. Word * off \in Nat /\ off <= Word * off
    <2>1. off * 1 <= off * Word /\ off * Word \in Nat
      BY Times, ConstantFacts
    <2> QED BY <2>1, ConstantFacts
  <1> HIDE DEF RefAt
  <1>2. c \in (Word * off) .. (Word * off + Word - 1)
    BY DEF RefAt, Range
  <1> QED BY <1>1, <1>2, ConstantFacts

(* The addresses of two parameters are disjoint. *)
LEMMA RefsApart ==
    ASSUME NEW a \in Nat, NEW b \in Nat, a + Word <= b
    PROVE  RefAt(a) \cap RefAt(b) = {}
  <1>1. Word * (a + 1) <= Word * b /\ Word * (a + 1) = Word * a + Word
    <2>1. a + 1 <= b /\ a + 1 \in Nat
      BY ConstantFacts
    <2> QED BY <2>1, Times, ConstantFacts
  <1>2. ASSUME NEW c \in RefAt(a), c \in RefAt(b) PROVE FALSE
    <2>1. c \in Nat /\ c < Word * a + Word /\ c >= Word * b
          /\ Word * a \in Nat /\ Word * b \in Nat
      BY <1>2, RefAbove
    <2> QED BY <2>1, <1>1, ConstantFacts
  <1> QED BY <1>2

(* A parameter that is no reference ends where the next one begins. *)
LEMMA StepFacts ==
    ASSUME NEW typ \in Types, NEW len \in Int, typ # "array" => len = Word
    PROVE  /\ Step(typ, len) \in Int /\ Step(typ, len) = len
           /\ typ # "array" => Step(typ, len) = Word
  BY ConstantFacts DEF Step

(* Bytes off to off + len - 1. *)
LEMMA RangeFacts ==
    ASSUME NEW off \in Nat, NEW len \in Nat, NEW c
    PROVE  c \in Range(off, len) <=> c \in Nat /\ off <= c /\ c < off + len
  BY DEF Range

(* The cells of a buffer. *)
LEMMA CellFacts ==
    ASSUME NEW c
    PROVE  c \in Cells <=> c \in Nat /\ c < BufSize
  BY ConstantFacts DEF Cells

(* Positions around position p of L. *)
LEMMA Around ==
    ASSUME NEW L \in Nat, NEW p \in 1 .. L
    PROVE  /\ p \in Nat /\ p + 1 \in Nat /\ (p + 1) - 1 = p /\ p < L + 1
           /\ p + 1 \in 1 .. L + 1 /\ p \in 1 .. L + 1 /\ L + 1 \in 1 .. L + 1
           /\ \A i \in 1 .. p : i \in 1 .. L
           /\ \A i \in p + 1 .. L :
                 i \in Nat /\ i \in p .. L /\ i \in 1 .. L /\ i \in 1 .. L + 1 /\ p < i
  OBVIOUS

(* A sum of two u32 is off by one wrap at most. *)
LEMMA Wrapped ==
    ASSUME NEW x \in Nat, x < 2 * Mod
    PROVE  x % Mod = IF x < Mod THEN x ELSE x - Mod
  BY ConstantFacts

(* Between tasks, where there are no arrays, every length is a word's. *)
LEMMA IpcUnwrapped ==
    ASSUME TypeOK, NEW d \in Dirs, Entered(d), side = "ipc"
    PROVE  Unwrapped(d)
  <1>1. meta[d] \in Seq(Entries)
    BY DEF TypeOK
  <1>2. DOMAIN meta[d] = 1 .. Len(meta[d])
    BY <1>1
  <1>3. ASSUME NEW i \in 1 .. Len(meta[d]) PROVE meta[d][i].len >= 0
    BY ConstantFacts DEF Entered
  <1> QED BY <1>2, <1>3 DEF Unwrapped

-----------------------------------------------------------------------------
(* The start. *)

(* With no parameter all walks are at offset zero. *)
LEMMA MarshalInit == Init => MarshalInv
  <1> SUFFICES ASSUME Init PROVE MarshalInv
    OBVIOUS
  <1> DEFINE at == [d \in Dirs |-> [i \in Nat |-> 0]]
  <1>1. TypeOK
    <2>1. buf \in [Dirs -> [Cells -> 0..(MaxReq + MaxRes)]]
      BY ConstantFacts DEF Init
    <2>2. /\ offset \in [Dirs -> 0..BufSize] /\ wild \in [Dirs -> SUBSET Nat]
          /\ cursor \in [Dirs -> Walk] /\ back \in Walk
      BY ConstantFacts DEF Init, Walk, Start
    <2>3. /\ meta \in [Dirs -> Seq(Entries)] /\ got \in [Dirs -> Seq(BOOLEAN)]
          /\ result \in Seq(BOOLEAN)
      BY DEF Init
    <2> QED BY <2>1, <2>2, <2>3 DEF Init, TypeOK
  <1>2. at \in [Dirs -> [Nat -> Nat]] /\ \A d \in Dirs : \A i \in Nat : at[d][i] = 0
    OBVIOUS
  <1> HIDE DEF at
  <1>3. \A d \in Dirs : Len(meta[d]) = 0 /\ Len(got[d]) = 0 /\ cursor[d] = Start
    BY DEF Init
  <1>4. \A d \in Dirs : Laid(at, d) /\ Entered(d)
    <2>1. ASSUME NEW d \in Dirs PROVE Laid(at, d) /\ Entered(d)
      <3>1. 1 .. Len(meta[d]) = {} /\ 1 .. Len(meta[d]) + 1 = {1}
        BY <1>3
      <3>2. offset[d] = 0 /\ Word * (1 - 1) = 0 /\ Len(meta[d]) <= Limit(d)
        BY <1>3, ConstantFacts DEF Init
      <3>3. /\ \A i \in 1 .. Len(meta[d]) : FALSE
            /\ \A i \in 1 .. Len(meta[d]) + 1 : i = 1
            /\ Len(meta[d]) + 1 = 1
        BY <3>1, <1>3
      <3>4. at[d][1] = 0
        BY <1>2
      <3>5. Entered(d)
        BY <3>2, <3>3 DEF Entered
      <3>6. side = "ipc" => \A i \in 1 .. Len(meta[d]) + 1 : at[d][i] = Word * (i - 1)
        BY <3>2, <3>3, <3>4
      <3> QED BY <3>2, <3>3, <3>4, <3>5, <3>6 DEF Laid
    <2> QED BY <2>1
  <1>5. "in" \in Dirs /\ "out" \in Dirs
    BY DEF Dirs
  <1>6. Walking(at)
    <2>1. Start.pos = 1 /\ Start.off = 0 /\ back = Start /\ phase = "encode"
      BY DEF Init, Start
    <2>2. 1 \in 1 .. 0 + 1 /\ 0 = 1 - 1
      OBVIOUS
    <2>3. \A d \in Dirs : at[d][1] = 0
      BY <1>2
    <2> QED BY <1>3, <1>5, <2>1, <2>2, <2>3 DEF Walking
  <1>7. RequestsHeld(at) /\ ReferencesHeld(at) /\ AnswersHeld(at)
    BY <1>3, <1>5 DEF Init, Start, RequestsHeld, ReferencesHeld, AnswersHeld
  <1>8. RequestDecoded /\ ResponseLands /\ InBuffer
    BY <1>5 DEF Init, RequestDecoded, ResponseLands, InBuffer
  <1>9. Unwrapped("in")
    BY <1>5 DEF Init, Unwrapped
  <1> QED BY <1>1, <1>2, <1>4, <1>6, <1>7, <1>8, <1>9 DEF MarshalInv, Agree

-----------------------------------------------------------------------------
(* Steps that move the command on. *)

(* Only the phase changes. *)
LEMMA PhaseKept ==
    ASSUME MarshalInv,
           UNCHANGED <<side, meta, offset, buf, wild, cursor, got, back, result>>,
           phase' \in {"serve", "decode", "done"},
           phase' = "serve" => phase = "encode",
           phase' = "decode" => phase = "serve" /\ cursor["out"].pos > Len(meta["out"])
    PROVE  MarshalInv'
  <1>1. PICK at \in [Dirs -> [Nat -> Nat]] : Agree(at)
    BY DEF MarshalInv
  <1>2. TypeOK'
    BY DEF MarshalInv, TypeOK
  <1>3. RequestDecoded' /\ ResponseLands' /\ InBuffer'
    BY DEF MarshalInv, RequestDecoded, ResponseLands, InBuffer, WellPlaced, Unwrapped
  <1>4. Unwrapped("in")' /\ \A d \in Dirs : Laid(at, d)' /\ Entered(d)'
    BY <1>1 DEF Agree, Laid, Entered, Size, Unwrapped
  <1>5. RequestsHeld(at)' /\ ReferencesHeld(at)' /\ AnswersHeld(at)'
    BY <1>1 DEF Agree, RequestsHeld, ReferencesHeld, AnswersHeld, WellPlaced, Place, Unwrapped
  <1>6. Walking(at)'
    <2>1. cursor["out"].pos \in 1 .. Len(meta["out"]) + 1 /\ Len(meta["out"]) \in Nat
      BY <1>1 DEF Agree, Walking, MarshalInv, TypeOK, Dirs
    <2>2. phase' = "decode" => cursor["out"].pos = Len(meta["out"]) + 1
      BY <2>1
    <2> QED BY <1>1, <2>2 DEF Agree, Walking
  <1> QED BY <1>1, <1>2, <1>3, <1>4, <1>5, <1>6 DEF MarshalInv, Agree
-----------------------------------------------------------------------------
(* The service. *)

(* A walk that moves on is at the offset of the next parameter. *)
LEMMA NextOffset ==
    ASSUME NEW at \in [Dirs -> [Nat -> Nat]], NEW d \in Dirs, TypeOK, Laid(at, d),
           NEW p \in 1 .. Len(meta[d])
    PROVE  /\ p + 1 \in 1 .. Len(meta[d]) + 1 /\ meta[d][p] \in Entries
           /\ at[d][p + 1] = at[d][p] + Step(meta[d][p].typ, meta[d][p].len)
  <1>1. meta[d] \in Seq(Entries) /\ Len(meta[d]) \in Nat
    BY DEF TypeOK
  <1>2. meta[d][p] \in Entries /\ p + 1 \in 1 .. Len(meta[d]) + 1
    <2>1. meta[d][p] \in Entries
      BY <1>1
    <2> QED BY <1>1, <2>1, Around
  <1> QED BY <1>2 DEF Laid, Size

(* What Append does. *)
LEMMA Appended ==
    ASSUME NEW S, NEW q \in Seq(S), NEW x \in S
    PROVE  /\ Append(q, x) \in Seq(S) /\ Len(q) \in Nat
           /\ Len(Append(q, x)) = Len(q) + 1
           /\ DOMAIN q = 1 .. Len(q) /\ DOMAIN Append(q, x) = 1 .. Len(q) + 1
           /\ Append(q, x)[Len(q) + 1] = x
           /\ \A i \in 1 .. Len(q) : Append(q, x)[i] = q[i]
  OBVIOUS

(* A log of answers, one longer. *)
LEMMA Logged ==
    ASSUME NEW q \in Seq(BOOLEAN), NEW f \in BOOLEAN, NEW r, r = Append(q, f)
    PROVE  /\ r \in Seq(BOOLEAN) /\ Len(q) \in Nat /\ Len(r) = Len(q) + 1
           /\ DOMAIN q = 1 .. Len(q) /\ DOMAIN r = 1 .. Len(q) + 1
           /\ r[Len(q) + 1] = f /\ \A i \in 1 .. Len(q) : r[i] = q[i]
  BY Appended

(* A walk is an offset and a position. *)
LEMMA WalkFacts ==
    ASSUME NEW o \in Nat, NEW p \in Nat
    PROVE  /\ [off |-> o, pos |-> p] \in Walk
           /\ [off |-> o, pos |-> p].off = o /\ [off |-> o, pos |-> p].pos = p
  BY DEF Walk

(* A request that is read is found, if it is well placed. *)
LEMMA ServeRequestKept ==
    ASSUME MarshalInv, ServeRequest
    PROVE  MarshalInv'
  <1>1. PICK at \in [Dirs -> [Nat -> Nat]] : Agree(at)
    BY DEF MarshalInv
  <1> DEFINE w == cursor["in"]
             e == meta["in"][w.pos]
             f == Found("in", e, w)
  <1>2. /\ UNCHANGED <<side, phase, meta, offset, buf, wild, back, result>> /\ phase = "serve"
        /\ w.pos <= Len(meta["in"])
        /\ got' = [got EXCEPT !["in"] = Append(@, f)]
        /\ cursor' = [cursor EXCEPT !["in"] = [off |-> w.off + Step(e.typ, e.len), pos |-> w.pos + 1]]
    BY DEF ServeRequest, More, Entry, Advance
  <1>3. /\ "in" \in Dirs /\ "out" \in Dirs /\ TypeOK /\ w \in Walk
        /\ got["in"] \in Seq(BOOLEAN) /\ got["out"] \in Seq(BOOLEAN)
    BY DEF MarshalInv, TypeOK, Dirs
  <1>4. w.pos \in 1 .. Len(meta["in"]) /\ w.off = at["in"][w.pos] /\ Len(got["in"]) = w.pos - 1
    BY <1>1, <1>2, <1>3 DEF Agree, Walking
  <1>5. /\ w.pos + 1 \in 1 .. Len(meta["in"]) + 1 /\ e \in Entries
        /\ at["in"][w.pos + 1] = w.off + Step(e.typ, e.len)
    BY <1>1, <1>3, <1>4, NextOffset DEF Agree
  <1>6. f \in BOOLEAN
    BY DEF Found, Holds
  <1>7. WellPlaced("in", w.pos) => f
    BY <1>1, <1>4 DEF Agree, RequestsHeld, Place, Found
  <1> HIDE DEF w, e, f
  <1>8. w.off + Step(e.typ, e.len) \in Nat
    <2>1. w.pos + 1 \in Nat
      <3>1. w.pos \in Nat
        BY <1>3 DEF Walk
      <3> QED BY <3>1
    <2> QED BY <1>3, <1>5, <2>1
  <1>9. /\ cursor'["in"].pos = w.pos + 1 /\ cursor'["in"].off = at["in"][w.pos + 1]
        /\ cursor'["out"] = cursor["out"] /\ cursor' \in [Dirs -> Walk]
    <2> DEFINE x == [off |-> w.off + Step(e.typ, e.len), pos |-> w.pos + 1]
    <2>1. w.off \in Nat /\ w.pos \in Nat
      BY <1>3 DEF Walk
    <2>2. w.off + Step(e.typ, e.len) \in Nat /\ w.pos + 1 \in Nat
      BY <2>1, <1>8
    <2>3. x \in Walk /\ x.pos = w.pos + 1 /\ x.off = w.off + Step(e.typ, e.len)
      BY <2>2, WalkFacts
    <2>4. cursor' = [cursor EXCEPT !["in"] = x] /\ cursor \in [Dirs -> Walk]
      BY <1>2, <1>3 DEF TypeOK
    <2> HIDE DEF x
    <2>5. cursor'["in"] = x /\ cursor'["out"] = cursor["out"] /\ cursor' \in [Dirs -> Walk]
      BY <2>3, <2>4, <1>3
    <2> QED BY <2>3, <2>5, <1>5
  <1>10. /\ got'["in"] = Append(got["in"], f) /\ got'["out"] = got["out"]
         /\ got' \in [Dirs -> Seq(BOOLEAN)]
    <2>1. Append(got["in"], f) \in Seq(BOOLEAN)
      BY <1>3, <1>6, Appended
    <2>2. got \in [Dirs -> Seq(BOOLEAN)]
      BY <1>3 DEF TypeOK
    <2> DEFINE x == Append(got["in"], f)
    <2>3. x \in Seq(BOOLEAN) /\ got' = [got EXCEPT !["in"] = x]
      BY <2>1, <1>2
    <2> HIDE DEF x
    <2>4. got'["in"] = x /\ got'["out"] = got["out"] /\ got' \in [Dirs -> Seq(BOOLEAN)]
      BY <2>2, <2>3, <1>3
    <2> QED BY <2>4 DEF x
  <1>11. TypeOK'
    BY <1>2, <1>3, <1>9, <1>10 DEF TypeOK
  <1>12. RequestDecoded'
    <2>1. /\ DOMAIN got["in"] = 1 .. Len(got["in"]) /\ Len(got["in"]) \in Nat
          /\ DOMAIN got'["in"] = 1 .. Len(got["in"]) + 1
          /\ got'["in"][Len(got["in"]) + 1] = f
          /\ \A i \in 1 .. Len(got["in"]) : got'["in"][i] = got["in"][i]
      <3>1. PICK q \in Seq(BOOLEAN) : q = got["in"]
        BY <1>3
      <3>2. PICK g \in BOOLEAN : g = f
        BY <1>6
      <3>3. PICK r : r = Append(q, g)
        OBVIOUS
      <3>4. /\ Len(q) \in Nat /\ DOMAIN q = 1 .. Len(q) /\ DOMAIN r = 1 .. Len(q) + 1
            /\ r[Len(q) + 1] = g /\ \A i \in 1 .. Len(q) : r[i] = q[i]
        BY <3>3, Logged
      <3>5. got'["in"] = r
        BY <1>10, <3>1, <3>2, <3>3
      <3> QED BY <3>1, <3>2, <3>4, <3>5
    <2> SUFFICES ASSUME NEW i \in DOMAIN got'["in"], WellPlaced("in", i)'
                 PROVE  got'["in"][i]
      BY DEF RequestDecoded
    <2>2. WellPlaced("in", i)
      BY <1>2 DEF WellPlaced
    <2>3. CASE i = Len(got["in"]) + 1
      <3>1. i = w.pos
        BY <2>3, <1>4, <1>3 DEF Walk
      <3> QED BY <3>1, <2>1, <2>2, <2>3, <1>7
    <2>4. CASE i # Len(got["in"]) + 1
      <3>1. i \in 1 .. Len(got["in"])
        BY <2>1, <2>4
      <3> QED BY <3>1, <2>1, <2>2 DEF MarshalInv, RequestDecoded
    <2> QED BY <2>3, <2>4
  <1>13. ResponseLands' /\ InBuffer'
    <2>1. \A d \in Dirs : Unwrapped(d)' <=> Unwrapped(d)
      BY <1>2 DEF Unwrapped
    <2>2. \A d \in Dirs : \A i \in DOMAIN meta[d] : WellPlaced(d, i)' <=> WellPlaced(d, i)
      BY <1>2 DEF WellPlaced
    <2>3. ResponseLands'
      BY <1>2, <1>3, <1>10, <2>1 DEF MarshalInv, ResponseLands
    <2> QED BY <1>2, <2>1, <2>2, <2>3 DEF MarshalInv, InBuffer
  <1>14. Unwrapped("in")' /\ \A d \in Dirs : Laid(at, d)' /\ Entered(d)'
    BY <1>1, <1>2 DEF Agree, Laid, Entered, Size, Unwrapped
  <1>15. Walking(at)'
    <2>1. Len(got'["in"]) = w.pos + 1 - 1
      <3>1. Len(got'["in"]) = Len(got["in"]) + 1
        BY <1>10, <1>3, <1>6, Appended
      <3>2. w.pos \in Nat
        BY <1>3 DEF Walk
      <3> QED BY <3>1, <3>2, <1>4
    <2>2. \A d \in Dirs : d = "in" \/ d = "out"
      BY DEF Dirs
    <2>3. Walking(at) /\ phase' = "serve" /\ phase' \notin {"encode", "decode"}
      BY <1>1, <1>2 DEF Agree
    <2>4. /\ cursor'["in"].pos \in 1 .. Len(meta'["in"]) + 1
          /\ cursor'["in"].off = at["in"][cursor'["in"].pos]
          /\ Len(got'["in"]) = cursor'["in"].pos - 1
      <3>1. cursor'["in"].pos = w.pos + 1 /\ meta' = meta
        BY <1>2, <1>9
      <3>2. Len(got'["in"]) = cursor'["in"].pos - 1
        <4>1. w.pos \in Nat
          BY <1>3 DEF Walk
        <4> QED BY <3>1, <2>1, <4>1
      <3>3. cursor'["in"].off = at["in"][cursor'["in"].pos]
        BY <3>1, <1>9
      <3> QED BY <3>1, <3>2, <3>3, <1>5
    <2>5. /\ cursor'["out"].pos \in 1 .. Len(meta'["out"]) + 1
          /\ cursor'["out"].off = at["out"][cursor'["out"].pos]
          /\ Len(got'["out"]) = cursor'["out"].pos - 1
      BY <1>2, <1>3, <1>9, <1>10, <2>3 DEF Walking
    <2>6. /\ back'.pos \in 1 .. Len(meta'["out"]) + 1
          /\ back'.off = at["out"][back'.pos] /\ back'.pos = 1
      BY <1>2, <2>3 DEF Walking
    <2> QED BY <2>2, <2>3, <2>4, <2>5, <2>6 DEF Walking
  <1>16. RequestsHeld(at)' /\ ReferencesHeld(at)' /\ AnswersHeld(at)'
    BY <1>1, <1>2, <1>9 DEF Agree, RequestsHeld, ReferencesHeld, AnswersHeld, WellPlaced, Place, Unwrapped
  <1> QED BY <1>1, <1>11, <1>12, <1>13, <1>14, <1>15, <1>16 DEF MarshalInv, Agree

(* An answer that is taken is the one to its parameter. *)
LEMMA DecodeResponseKept ==
    ASSUME MarshalInv, DecodeResponse
    PROVE  MarshalInv'
  <1>1. PICK at \in [Dirs -> [Nat -> Nat]] : Agree(at)
    BY DEF MarshalInv
  <1> DEFINE e == meta["out"][back.pos]
             f == e.typ = "ref" \/ Holds(buf["out"], Range(back.off, e.ret), back.pos)
  <1>2. /\ UNCHANGED <<side, phase, meta, offset, buf, wild, cursor, got>> /\ phase = "decode"
        /\ back.pos <= Len(meta["out"])
        /\ result' = Append(result, f)
        /\ back' = [off |-> back.off + Step(e.typ, e.len), pos |-> back.pos + 1]
    BY DEF DecodeResponse, AdvanceBack
  <1>3. "out" \in Dirs /\ TypeOK /\ back \in Walk /\ result \in Seq(BOOLEAN)
    BY DEF MarshalInv, TypeOK, Dirs
  <1>4. /\ back.pos \in 1 .. Len(meta["out"]) /\ back.off = at["out"][back.pos]
        /\ cursor["out"].pos = Len(meta["out"]) + 1
    BY <1>1, <1>2, <1>3 DEF Agree, Walking
  <1>5. /\ back.pos + 1 \in 1 .. Len(meta["out"]) + 1 /\ e \in Entries
        /\ at["out"][back.pos + 1] = back.off + Step(e.typ, e.len)
    BY <1>1, <1>3, <1>4, NextOffset DEF Agree
  <1>6. Unwrapped("out") => f
    <2>1. back.pos \in back.pos .. cursor["out"].pos - 1
      BY <1>3, <1>4 DEF Walk
    <2> QED BY <1>1, <1>4, <2>1 DEF Agree, AnswersHeld
  <1> HIDE DEF e, f
  <1>7. back.off + Step(e.typ, e.len) \in Nat
    BY <1>3, <1>4, <1>5
  <1>8. back' \in Walk /\ back'.pos = back.pos + 1 /\ back'.off = at["out"][back.pos + 1]
    <2>1. back.off \in Nat /\ back.pos \in Nat
      BY <1>3 DEF Walk
    <2>2. back.off + Step(e.typ, e.len) \in Nat /\ back.pos + 1 \in Nat
      BY <2>1, <1>7
    <2> QED BY <1>2, <1>5, <2>2, WalkFacts
  <1>9. result' \in Seq(BOOLEAN) /\ (Unwrapped("out") => \A i \in DOMAIN result' : result'[i])
    <2>1. f \in BOOLEAN
      BY DEF f, Holds
    <2>2. Unwrapped("out") => \A i \in DOMAIN result : result[i]
      BY DEF MarshalInv, ResponseLands
    <2>3. /\ DOMAIN result = 1 .. Len(result) /\ Len(result) \in Nat
          /\ result' \in Seq(BOOLEAN) /\ DOMAIN result' = 1 .. Len(result) + 1
          /\ result'[Len(result) + 1] = f
          /\ \A i \in 1 .. Len(result) : result'[i] = result[i]
      BY <1>2, <1>3, <2>1
    <2>4. ASSUME Unwrapped("out"), NEW i \in DOMAIN result' PROVE result'[i]
      <3>1. i = Len(result) + 1 \/ i \in 1 .. Len(result)
        BY <2>3
      <3> QED BY <3>1, <2>2, <2>3, <2>4, <1>6
    <2> QED BY <2>3, <2>4
  <1>10. TypeOK'
    BY <1>2, <1>3, <1>8, <1>9 DEF TypeOK
  <1>11. RequestDecoded' /\ ResponseLands' /\ InBuffer'
    BY <1>2, <1>9 DEF MarshalInv, RequestDecoded, ResponseLands, InBuffer, WellPlaced, Unwrapped
  <1>12. Unwrapped("in")' /\ \A d \in Dirs : Laid(at, d)' /\ Entered(d)'
    BY <1>1, <1>2 DEF Agree, Laid, Entered, Size, Unwrapped
  <1>13. Walking(at)'
    BY <1>1, <1>2, <1>5, <1>8 DEF Agree, Walking
  <1>14. RequestsHeld(at)' /\ ReferencesHeld(at)'
    BY <1>1, <1>2 DEF Agree, RequestsHeld, ReferencesHeld, WellPlaced, Place, Unwrapped
  <1>15. AnswersHeld(at)'
    <2>1. \A i \in back.pos + 1 .. cursor["out"].pos - 1 : i \in back.pos .. cursor["out"].pos - 1
      BY <1>3, <1>4 DEF Walk
    <2> QED BY <1>1, <1>2, <1>8, <2>1 DEF Agree, AnswersHeld, Unwrapped
  <1> QED BY <1>1, <1>10, <1>11, <1>12, <1>13, <1>14, <1>15 DEF MarshalInv, Agree

(* The two directions. *)
LEMMA DirFacts == /\ "in" \in Dirs /\ "out" \in Dirs
                  /\ \A d \in Dirs : d = "in" \/ d = "out"
  BY DEF Dirs

(* The log of the answers found, one longer. *)
LEMMA LogKept ==
    ASSUME NEW q \in Seq(BOOLEAN), NEW f \in BOOLEAN, NEW r, r = Append(q, f), NEW ok,
           \A i \in DOMAIN q : q[i] \/ ok, f \/ ok
    PROVE  \A i \in DOMAIN r : r[i] \/ ok
  <1>1. /\ Len(q) \in Nat /\ DOMAIN q = 1 .. Len(q) /\ DOMAIN r = 1 .. Len(q) + 1
        /\ r[Len(q) + 1] = f /\ \A i \in 1 .. Len(q) : r[i] = q[i]
    BY Logged
  <1>2. ASSUME NEW i \in DOMAIN r PROVE r[i] \/ ok
    <2>1. i = Len(q) + 1 \/ i \in 1 .. Len(q)
      BY <1>1
    <2>2. CASE i = Len(q) + 1
      BY <2>2, <1>1
    <2>3. CASE i \in 1 .. Len(q)
      BY <2>3, <1>1
    <2> QED BY <2>1, <2>2, <2>3
  <1> QED BY <1>2

(* What a step of the service on a response does, in terms of the offsets.  *)
ResponseEffect(at, p, n) ==
    LET e == meta["out"][p] IN
    /\ UNCHANGED <<side, phase, offset, back, result>> /\ phase = "serve"
    /\ p \in 1 .. Len(meta["out"]) /\ p \in Nat /\ e \in Entries /\ n \in Nat
    /\ wild' \in [Dirs -> SUBSET Nat] /\ wild'["in"] = wild["in"]
    /\ Unwrapped("out") => n <= e.len /\ wild' = wild
    /\ cursor["out"].pos = p /\ cursor' \in [Dirs -> Walk]
    /\ cursor'["in"] = cursor["in"] /\ cursor'["out"].pos = p + 1
    /\ cursor'["out"].off = at["out"][p + 1] /\ p + 1 \in 1 .. Len(meta["out"]) + 1
    /\ meta' \in [Dirs -> Seq(Entries)] /\ meta'["in"] = meta["in"]
    /\ Len(meta'["out"]) = Len(meta["out"]) /\ Len(meta["out"]) \in Nat
    /\ DOMAIN meta'["out"] = DOMAIN meta["out"]
    /\ \A i \in 1 .. Len(meta["out"]) :
          /\ meta'["out"][i].typ = meta["out"][i].typ
          /\ meta'["out"][i].len = meta["out"][i].len
          /\ meta'["out"][i].ret = IF i = p THEN n ELSE meta["out"][i].ret
    /\ got'["in"] = got["in"] /\ got' \in [Dirs -> Seq(BOOLEAN)]
    /\ Len(got'["out"]) = p
    /\ buf'["in"] = buf["in"] /\ buf' \in [Dirs -> [Cells -> 0..(MaxReq + MaxRes)]]
    /\ buf'["out"] = IF e.typ = "ref" THEN buf["out"]
                     ELSE Write(buf["out"], Range(at["out"][p], n), p)

(* update_response_len: entry p of the response gets its length. *)
Reported(m, p, n) == [m EXCEPT !["out"][p].ret = n]

(* Nothing else in the entries x differs from the entries m. *)
ReportedOnly(m, x, p, n) ==
    /\ x \in [Dirs -> Seq(Entries)] /\ x["in"] = m["in"]
    /\ Len(x["out"]) = Len(m["out"]) /\ Len(m["out"]) \in Nat
    /\ DOMAIN x["out"] = DOMAIN m["out"]
    /\ \A i \in 1 .. Len(m["out"]) :
          /\ x["out"][i].typ = m["out"][i].typ /\ x["out"][i].len = m["out"][i].len
          /\ x["out"][i].ret = IF i = p THEN n ELSE m["out"][i].ret

(* The entry of a response gets its length, and no other entry changes. *)
LEMMA LengthReported ==
    ASSUME NEW m \in [Dirs -> Seq(Entries)], NEW p \in 1 .. Len(m["out"]), NEW n \in Nat
    PROVE  ReportedOnly(m, Reported(m, p, n), p, n)
  <1> SUFFICES ASSUME NEW x, x = Reported(m, p, n) PROVE ReportedOnly(m, x, p, n)
    OBVIOUS
  <1> DEFINE q == m["out"]
             e == [q[p] EXCEPT !.ret = n]
             r == [q EXCEPT ![p] = e]
  <1>1. q \in Seq(Entries) /\ DOMAIN q = 1 .. Len(q) /\ Len(q) \in Nat /\ p \in DOMAIN q
    BY DirFacts
  <1>2. \A i \in 1 .. Len(q) : q[i] \in Entries
    BY <1>1
  <1>3. e \in Entries /\ e.typ = q[p].typ /\ e.len = q[p].len /\ e.ret = n
    BY <1>2 DEF Entries
  <1>4. x = [m EXCEPT !["out"] = r]
    BY DEF Reported
  <1> HIDE DEF q, e
  <1>5. /\ r \in Seq(Entries) /\ Len(r) = Len(q) /\ DOMAIN r = DOMAIN q
        /\ \A i \in 1 .. Len(q) : r[i] = IF i = p THEN e ELSE q[i]
    BY <1>1, <1>3
  <1> HIDE DEF r
  <1>6. x["out"] = r /\ x["in"] = m["in"] /\ x \in [Dirs -> Seq(Entries)]
    BY <1>4, <1>5, DirFacts
  <1>7. ASSUME NEW i \in 1 .. Len(q)
        PROVE  /\ r[i].typ = q[i].typ /\ r[i].len = q[i].len
               /\ r[i].ret = IF i = p THEN n ELSE q[i].ret
    BY <1>3, <1>5
  <1> QED BY <1>1, <1>5, <1>6, <1>7 DEF q, ReportedOnly

(* The length of a parameter is what it moves the offset by. *)
LEMMA SizeFacts ==
    ASSUME TypeOK, NEW d \in Dirs, Entered(d), NEW i \in 1 .. Len(meta[d])
    PROVE  /\ meta[d][i] \in Entries /\ Size(d, i) = meta[d][i].len /\ Size(d, i) \in Int
           /\ meta[d][i].ret \in Nat
           /\ Unwrapped(d) => Size(d, i) \in Nat /\ meta[d][i].ret <= Size(d, i)
           /\ meta[d][i].typ # "array" => Size(d, i) = Word
  <1>1. meta[d] \in Seq(Entries)
    BY DEF TypeOK
  <1>2. meta[d][i] \in Entries
    BY <1>1
  <1>3. /\ meta[d][i].typ \in Types /\ meta[d][i].len \in Int /\ meta[d][i].ret \in Nat
        /\ meta[d][i].typ # "array" => meta[d][i].len = Word
        /\ Unwrapped(d) => meta[d][i].len > 0 /\ meta[d][i].ret <= meta[d][i].len
    BY <1>2 DEF Entries, Entered
  <1>4. Size(d, i) = meta[d][i].len /\ (meta[d][i].typ # "array" => Size(d, i) = Word)
    BY <1>3, StepFacts DEF Size
  <1> QED BY <1>2, <1>3, <1>4

(* Without a wrap, a parameter ends inside its buffer. *)
LEMMA EndsInside ==
    ASSUME TypeOK, NEW at \in [Dirs -> [Nat -> Nat]], NEW d \in Dirs, Laid(at, d), Entered(d),
           Unwrapped(d), NEW p \in 1 .. Len(meta[d])
    PROVE  at[d][p] + Size(d, p) <= BufSize
  <1>1. PICK L \in Nat : L = Len(meta[d])
    BY DEF TypeOK
  <1>2. p \in 1 .. L /\ p < L + 1 /\ L + 1 \in 1 .. L + 1
    <2>1. p \in 1 .. L
      BY <1>1
    <2> QED BY <2>1
  <1>3. at[d][p] + Size(d, p) <= offset[d]
    BY <1>1, <1>2 DEF Laid
  <1>4. at[d][p] \in Nat /\ Size(d, p) \in Nat /\ offset[d] \in 0 .. BufSize
    <2>1. p \in Nat
      BY <1>2
    <2>2. at[d][p] \in Nat
      BY <2>1
    <2>3. Size(d, p) \in Nat
      BY SizeFacts
    <2>4. offset[d] \in 0 .. BufSize
      BY DEF TypeOK
    <2> QED BY <2>2, <2>3, <2>4
  <1>5. PICK x \in Nat, y \in Nat, o \in 0 .. BufSize :
           x = at[d][p] /\ y = Size(d, p) /\ o = offset[d]
    BY <1>4
  <1>6. x + y <= o
    BY ONLY <1>3, <1>5
  <1>7. x + y <= BufSize
    BY <1>6, ConstantFacts
  <1> QED BY <1>5, <1>7

(* The data of a parameter that fits is in the buffer. *)
LEMMA DataInside ==
    ASSUME NEW a \in Nat, NEW z \in Nat, NEW n \in Nat, n <= z, a + z <= BufSize,
           NEW c \in Range(a, n)
    PROVE  c \in Cells
  <1>1. c \in Nat /\ c < a + n
    BY RangeFacts
  <1> QED BY <1>1, CellFacts, ConstantFacts

(* A step of the service on a response has that effect, and finds the       *)
(* address of a reference that is in the buffer.                            *)
LEMMA ResponseFacts ==
    ASSUME MarshalInv, NEW at \in [Dirs -> [Nat -> Nat]], Agree(at),
           NEW n \in 1 .. BufSize, ServeResponse(n)
    PROVE  /\ ResponseEffect(at, cursor["out"].pos, n)
           /\ Unwrapped("out") => \A i \in DOMAIN got'["out"] : got'["out"][i] \/ wild["out"] # {}
  <1> DEFINE w == cursor["out"]
             p == w.pos
             e == meta["out"][p]
             f == Found("out", e, w)
  <1>1. /\ UNCHANGED <<side, phase, offset, back, result>> /\ phase = "serve"
        /\ p <= Len(meta["out"]) /\ (n <= e.len \/ e.len < 0)
        /\ wild' = IF e.typ = "ref" THEN wild
                   ELSE [wild EXCEPT !["out"] = @ \cup (Range(w.off, n) \ Cells)]
        /\ got' = [got EXCEPT !["out"] = Append(@, f)]
        /\ buf' = IF e.typ = "ref" THEN buf
                  ELSE [buf EXCEPT !["out"] = Write(@, Range(w.off, n), p)]
        /\ meta' = [meta EXCEPT !["out"][p].ret = n]
        /\ cursor' = [cursor EXCEPT !["out"] = [off |-> w.off + Step(e.typ, e.len), pos |-> p + 1]]
    BY DEF ServeResponse, More, Entry, Advance, update_response_len
  <1>2. TypeOK /\ w \in Walk /\ cursor \in [Dirs -> Walk]
    BY DirFacts DEF MarshalInv, TypeOK
  <1>3. /\ p \in 1 .. Len(meta["out"]) /\ w.off = at["out"][p] /\ Len(got["out"]) = p - 1
    BY <1>1, <1>2, DirFacts DEF Agree, Walking
  <1>4. /\ p + 1 \in 1 .. Len(meta["out"]) + 1 /\ e \in Entries
        /\ at["out"][p + 1] = w.off + Step(e.typ, e.len)
    BY <1>2, <1>3, DirFacts, NextOffset DEF Agree
  <1>5. f \in BOOLEAN
    BY DEF Found, Holds
  <1>6. Unwrapped("out") => f \/ wild["out"] # {}
    <2> SUFFICES ASSUME Unwrapped("out") PROVE f \/ wild["out"] # {}
      OBVIOUS
    <2>1. CASE e.typ # "ref"
      BY <2>1 DEF Found
    <2>2. CASE e.typ = "ref"
      <3>1. p \in cursor["out"].pos .. Len(meta["out"])
        BY <1>2, <1>3 DEF Walk
      <3>2. \A c \in RefAt(w.off) : IF c \in Cells THEN buf["out"][c] = p ELSE c \in wild["out"]
        BY <2>2, <3>1, <1>3 DEF Agree, ReferencesHeld
      <3>3. wild["out"] = {} => Holds(buf["out"], RefAt(w.off), p)
        BY <3>2 DEF Holds
      <3> QED BY <2>2, <3>3 DEF Found, DecodeAt
    <2> QED BY <2>1, <2>2
  <1>7. /\ meta \in [Dirs -> Seq(Entries)] /\ n \in Nat /\ p \in Nat
        /\ got \in [Dirs -> Seq(BOOLEAN)] /\ buf \in [Dirs -> [Cells -> 0..(MaxReq + MaxRes)]]
    <2>1. n \in Nat
      BY ConstantFacts
    <2>2. p \in Nat
      BY <1>2 DEF Walk
    <2> QED BY <1>2, <2>1, <2>2 DEF TypeOK
  <1>8. /\ meta' \in [Dirs -> Seq(Entries)] /\ meta'["in"] = meta["in"]
        /\ Len(meta'["out"]) = Len(meta["out"]) /\ Len(meta["out"]) \in Nat
        /\ DOMAIN meta'["out"] = DOMAIN meta["out"]
        /\ \A i \in 1 .. Len(meta["out"]) :
              /\ meta'["out"][i].typ = meta["out"][i].typ
              /\ meta'["out"][i].len = meta["out"][i].len
              /\ meta'["out"][i].ret = IF i = p THEN n ELSE meta["out"][i].ret
    <2>1. PICK k \in 1 .. Len(meta["out"]) : k = p
      BY <1>3
    <2>2. meta' = [meta EXCEPT !["out"][k].ret = n]
      BY <1>1, <2>1
    <2>3. PICK m \in [Dirs -> Seq(Entries)] : m = meta
      BY <1>7
    <2>4. PICK x : x = Reported(m, k, n)
      OBVIOUS
    <2>5. k \in 1 .. Len(m["out"]) /\ n \in Nat
      BY <2>1, <2>3, <1>7
    <2>6. ReportedOnly(m, x, k, n)
      BY <2>4, <2>5, LengthReported
    <2>7. meta' = x
      BY <2>2, <2>3, <2>4 DEF Reported
    <2> HIDE DEF p
    <2> QED BY <2>1, <2>3, <2>6, <2>7 DEF ReportedOnly
  <1>9. w.off + Step(e.typ, e.len) \in Nat
    <2>1. p + 1 \in Nat
      BY <1>7
    <2> QED BY <1>4, <2>1, DirFacts
  <1>13. Unwrapped("out") => n <= e.len /\ e.len = Size("out", p)
    <2>1. Unwrapped("out") => e.len >= 0
      <3>1. DOMAIN meta["out"] = 1 .. Len(meta["out"])
        BY <1>7, DirFacts
      <3> QED BY <1>3, <3>1 DEF Unwrapped
    <2>2. e.len = Size("out", p)
      BY <1>2, <1>3, DirFacts, SizeFacts DEF Agree
    <2>3. e.len \in Int
      BY <1>4 DEF Entries
    <2> HIDE DEF e, p
    <2> QED BY <1>1, <1>7, <2>1, <2>2, <2>3
  <1>14. /\ wild' \in [Dirs -> SUBSET Nat] /\ wild'["in"] = wild["in"]
         /\ Unwrapped("out") => wild' = wild
    <2>1. wild \in [Dirs -> SUBSET Nat]
      BY <1>2 DEF TypeOK
    <2>2. CASE e.typ = "ref"
      BY <1>1, <2>1, <2>2
    <2>3. CASE e.typ # "ref"
      <3> DEFINE x == wild["out"] \cup (Range(w.off, n) \ Cells)
      <3>1. PICK o \in Nat : o = w.off
        BY <1>2 DEF Walk
      <3>2. Range(o, n) \subseteq Nat
        BY <1>7, RangeFacts
      <3>3. x \in SUBSET Nat
        BY <2>1, <3>1, <3>2, DirFacts
      <3>4. wild' = [wild EXCEPT !["out"] = x]
        BY <1>1, <2>3
      <3>5. ASSUME Unwrapped("out") PROVE x = wild["out"]
        <4>1. at["out"][p] + Size("out", p) <= BufSize
          BY <1>2, <1>3, <3>5, DirFacts, EndsInside DEF Agree
        <4>2. PICK z \in Nat : z = Size("out", p)
          BY <1>2, <1>3, <3>5, DirFacts, SizeFacts DEF Agree
        <4>3. n <= z /\ o + z <= BufSize
          BY <1>3, <1>13, <3>1, <3>5, <4>1, <4>2
        <4>4. Range(o, n) \subseteq Cells
          BY <1>7, <4>3, DataInside
        <4> QED BY <3>1, <4>4
      <3> HIDE DEF x
      <3>6. wild' \in [Dirs -> SUBSET Nat] /\ wild'["in"] = wild["in"]
        BY <2>1, <3>3, <3>4, DirFacts
      <3>7. x = wild["out"] => wild' = wild
        BY <2>1, <3>4, DirFacts
      <3> QED BY <3>5, <3>6, <3>7
    <2> QED BY <2>2, <2>3
  <1> HIDE DEF f, e
  <1>10. /\ cursor' \in [Dirs -> Walk] /\ cursor'["in"] = cursor["in"]
         /\ cursor'["out"].pos = p + 1 /\ cursor'["out"].off = at["out"][p + 1]
    <2> DEFINE x == [off |-> w.off + Step(e.typ, e.len), pos |-> p + 1]
    <2>1. w.off + Step(e.typ, e.len) \in Nat /\ p + 1 \in Nat
      BY <1>2, <1>9 DEF Walk
    <2>2. x \in Walk /\ x.pos = p + 1 /\ x.off = w.off + Step(e.typ, e.len)
      BY <2>1, WalkFacts
    <2> HIDE DEF x
    <2>3. cursor'["out"] = x /\ cursor'["in"] = cursor["in"] /\ cursor' \in [Dirs -> Walk]
      BY <2>2, <1>1, <1>2, DirFacts DEF x
    <2> QED BY <2>2, <2>3, <1>4
  <1>11. /\ got'["in"] = got["in"] /\ got' \in [Dirs -> Seq(BOOLEAN)] /\ Len(got'["out"]) = p
         /\ Unwrapped("out") => \A i \in DOMAIN got'["out"] : got'["out"][i] \/ wild["out"] # {}
    <2>1. PICK q \in Seq(BOOLEAN) : q = got["out"]
      BY <1>7, DirFacts
    <2>2. PICK g \in BOOLEAN : g = f
      BY <1>5
    <2>3. PICK r : r = Append(q, g)
      OBVIOUS
    <2>4. r \in Seq(BOOLEAN) /\ Len(r) = Len(q) + 1
      BY <2>3, Logged
    <2>5. got' = [got EXCEPT !["out"] = r]
      BY <1>1, <2>1, <2>2, <2>3
    <2>6. got'["out"] = r /\ got'["in"] = got["in"] /\ got' \in [Dirs -> Seq(BOOLEAN)]
      BY <2>4, <2>5, <1>7, DirFacts
    <2>7. Len(r) = p
      <3>1. Len(q) = p - 1 /\ Len(r) = Len(q) + 1 /\ p \in Nat
        BY <2>4, <2>1, <1>3, <1>7
      <3> HIDE DEF p
      <3> QED BY <3>1
    <2>8. PICK ok \in BOOLEAN : ok <=> wild["out"] # {}
      OBVIOUS
    <2>9. Unwrapped("out") => \A i \in DOMAIN q : q[i] \/ ok
      BY <2>1, <2>8 DEF MarshalInv, ResponseLands
    <2>10. Unwrapped("out") => \A i \in DOMAIN r : r[i] \/ ok
      BY <2>3, <2>9, <1>6, <2>2, <2>8, LogKept
    <2> QED BY <2>6, <2>7, <2>8, <2>10
  <1>12. /\ buf'["in"] = buf["in"] /\ buf' \in [Dirs -> [Cells -> 0..(MaxReq + MaxRes)]]
         /\ buf'["out"] = IF e.typ = "ref" THEN buf["out"]
                          ELSE Write(buf["out"], Range(at["out"][p], n), p)
    <2>1. CASE e.typ = "ref"
      BY <2>1, <1>1, <1>7
    <2>2. CASE e.typ # "ref"
      <3> DEFINE x == Write(buf["out"], Range(w.off, n), p)
      <3>1. p \in 0..(MaxReq + MaxRes)
        <4>1. Len(meta["out"]) <= MaxRes
          BY DirFacts DEF Agree, Entered, Limit
        <4>2. p \in 1 .. Len(meta["out"]) /\ p \in Nat /\ Len(meta["out"]) \in Nat
          BY <1>3, <1>7, <1>8
        <4> HIDE DEF p
        <4> QED BY <4>1, <4>2, ConstantFacts
      <3>2. x \in [Cells -> 0..(MaxReq + MaxRes)]
        <4> HIDE DEF p
        <4> QED BY <3>1, <1>7, DirFacts DEF Write
      <3> HIDE DEF x
      <3>3. buf'["in"] = buf["in"] /\ buf'["out"] = x
            /\ buf' \in [Dirs -> [Cells -> 0..(MaxReq + MaxRes)]]
        BY <2>2, <1>1, <1>7, <3>2, DirFacts DEF x
      <3> QED BY <2>2, <3>3, <1>3 DEF x
    <2> QED BY <2>1, <2>2
  <1> QED BY <1>1, <1>3, <1>4, <1>7, <1>8, <1>10, <1>11, <1>12, <1>13, <1>14
         DEF ResponseEffect, e

(* What is written for a parameter lies below the address of a later one. *)
LEMMA BelowReference ==
    ASSUME NEW a \in Nat, NEW z \in Nat, NEW n \in Nat, NEW b \in Nat, n <= z, a + z <= b,
           NEW c \in RefAt(b)
    PROVE  c \notin Range(a, n)
  <1>1. c \in Nat /\ c >= b
    BY RefAbove
  <1> QED BY <1>1, RangeFacts

(* The data of two parameters is disjoint. *)
LEMMA DataApart ==
    ASSUME NEW a \in Nat, NEW z \in Nat, NEW r \in Nat, NEW b \in Nat, NEW n \in Nat,
           r <= z, a + z <= b, NEW c \in Range(a, r)
    PROVE  c \notin Range(b, n)
  <1>1. c \in Nat /\ c < a + r
    BY RangeFacts
  <1> QED BY <1>1, RangeFacts

(* The answer is written over nothing that is still to be read: neither     *)
(* references that come later nor answers that came before.                 *)
LEMMA AnswerWritten ==
    ASSUME TypeOK, NEW at \in [Dirs -> [Nat -> Nat]], Agree(at), NEW p \in Nat, NEW n \in Nat,
           ResponseEffect(at, p, n), Unwrapped("out")
    PROVE  ReferencesHeld(at)' /\ AnswersHeld(at)'
  <1>1. /\ "out" \in Dirs /\ Laid(at, "out") /\ Entered("out") /\ Walking(at)
        /\ ReferencesHeld(at) /\ AnswersHeld(at)
    BY DirFacts DEF Agree
  <1>2. PICK L \in Nat : L = Len(meta["out"])
    BY DEF ResponseEffect
  <1>3. PICK a \in [Nat -> Nat] : a = at["out"]
    BY <1>1
  <1>4. PICK z \in [1 .. L -> Nat] : \A i \in 1 .. L : z[i] = Size("out", i)
    <2>1. [i \in 1 .. L |-> Size("out", i)] \in [1 .. L -> Nat]
      BY <1>1, <1>2, SizeFacts
    <2> QED BY <2>1
  <1>5. PICK r \in [1 .. L -> Nat] : \A i \in 1 .. L : r[i] = meta["out"][i].ret
    <2>1. [i \in 1 .. L |-> meta["out"][i].ret] \in [1 .. L -> Nat]
      BY <1>1, <1>2, SizeFacts
    <2> QED BY <2>1
  <1>6. /\ phase = "serve" /\ p \in 1 .. L
        /\ n <= meta["out"][p].len /\ cursor["out"].pos = p /\ cursor'["out"].pos = p + 1
        /\ Len(meta'["out"]) = L /\ wild' = wild /\ back' = back
        /\ buf'["out"] = IF meta["out"][p].typ = "ref" THEN buf["out"]
                         ELSE Write(buf["out"], Range(a[p], n), p)
    BY <1>2, <1>3 DEF ResponseEffect
  <1>0. p \in 1 .. L
    BY <1>6
  <1>7. \A i \in 1 .. L :
          /\ meta'["out"][i].typ = meta["out"][i].typ
          /\ meta'["out"][i].ret = IF i = p THEN n ELSE r[i]
    BY <1>2, <1>5 DEF ResponseEffect
  <1>8. back.pos = 1
    BY <1>1, <1>6 DEF Walking
  <1>9. /\ \A i \in 1 .. L, j \in 1 .. L + 1 : i < j => a[i] + z[i] <= a[j]
        /\ a[L + 1] = offset["out"]
    BY <1>1, <1>2, <1>3, <1>4 DEF Laid
  <1>10. n <= z[p] /\ \A i \in 1 .. L : r[i] <= z[i]
    <2>1. \A i \in 1 .. L : z[i] = meta["out"][i].len /\ meta["out"][i].ret <= z[i]
      BY <1>1, <1>2, <1>4, SizeFacts
    <2> QED BY <2>1, <1>5, <1>6
  <1>11. a[p] + z[p] <= BufSize
    BY <1>0, <1>1, <1>2, <1>3, <1>4, EndsInside
  <1>12. ReferencesHeld(at)'
    <2> SUFFICES ASSUME NEW i \in p + 1 .. L, meta["out"][i].typ = "ref", NEW c \in RefAt(a[i])
                 PROVE  IF c \in Cells THEN buf'["out"][c] = i ELSE c \in wild["out"]
      <3>1. \A i \in p + 1 .. L : i \in 1 .. L
        BY <1>0
      <3> QED BY <1>3, <1>6, <1>7, <3>1 DEF ReferencesHeld, ResponseEffect
    <2>1. i \in Nat /\ i \in p .. L /\ i \in 1 .. L + 1 /\ p < i
      BY <1>0, Around
    <2>2. IF c \in Cells THEN buf["out"][c] = i ELSE c \in wild["out"]
      BY <1>1, <1>2, <1>3, <1>6, <2>1 DEF ReferencesHeld
    <2>3. a[p] + z[p] <= a[i]
      BY <1>6, <1>9, <2>1
    <2>4. c \notin Range(a[p], n)
      BY <1>6, <1>10, <2>1, <2>3, BelowReference
    <2>5. c \in Cells => buf'["out"][c] = buf["out"][c]
      BY <1>6, <2>4 DEF Write
    <2> QED BY <2>2, <2>5
  <1>13. AnswersHeld(at)'
    <2> SUFFICES ASSUME NEW i \in 1 .. p, meta["out"][i].typ # "ref"
                 PROVE  Holds(buf'["out"], Range(a[i], meta'["out"][i].ret), i)
      <3>1. (p + 1) - 1 = p /\ \A i \in 1 .. p : i \in 1 .. L
        BY <1>0, Around
      <3>2. back'.pos = 1 /\ cursor'["out"].pos - 1 = p
        BY <1>6, <1>8, <3>1
      <3> QED BY <1>3, <1>7, <3>1, <3>2 DEF AnswersHeld
    <2>1. i \in 1 .. L /\ i \in Nat
      BY <1>0
    <2>2. CASE i = p
      <3>1. meta'["out"][i].ret = n
        BY <2>1, <2>2, <1>7
      <3>2. ASSUME NEW c \in Range(a[p], n) PROVE c \in Cells /\ buf'["out"][c] = p
        <4>1. c \in Cells
          BY <3>2, <1>6, <1>10, <1>11, DataInside
        <4> QED BY <4>1, <3>2, <2>2, <1>6 DEF Write
      <3> QED BY <3>1, <3>2, <2>2 DEF Holds
    <2>3. CASE i # p
      <3>1. i < p /\ i \in 1 .. p - 1 /\ p \in 1 .. L + 1
        <4>1. i < p
          BY <2>1, <2>3
        <4>2. p \in 1 .. L + 1
          BY <1>0
        <4>3. i \in 1 .. p - 1
          BY <4>1
        <4> QED BY <4>1, <4>2, <4>3
      <3>2. meta'["out"][i].ret = r[i]
        BY <2>1, <2>3, <1>7
      <3>3. Holds(buf["out"], Range(a[i], r[i]), i)
        <4>1. meta["out"][i].ret = r[i]
          BY <1>5, <2>1
        <4> QED BY <1>1, <1>3, <1>6, <1>8, <3>1, <4>1 DEF AnswersHeld
      <3>4. a[i] + z[i] <= a[p]
        BY <1>9, <2>1, <3>1
      <3>5. ASSUME NEW c \in Range(a[i], r[i]) PROVE c \in Cells /\ buf'["out"][c] = i
        <4>1. c \notin Range(a[p], n)
          BY <3>4, <3>5, <2>1, <1>6, <1>10, DataApart
        <4>2. c \in Cells /\ buf["out"][c] = i
          BY <3>3, <3>5 DEF Holds
        <4> QED BY <4>1, <4>2, <1>6 DEF Write
      <3> QED BY <3>2, <3>5 DEF Holds
    <2> QED BY <2>2, <2>3
  <1> QED BY <1>12, <1>13

(* The service's step on a response. *)
LEMMA ServeResponseKept ==
    ASSUME MarshalInv, NEW n \in 1 .. BufSize, ServeResponse(n)
    PROVE  MarshalInv'
  <1>1. PICK at \in [Dirs -> [Nat -> Nat]] : Agree(at)
    BY DEF MarshalInv
  <1>2. PICK p : p = cursor["out"].pos
    OBVIOUS
  <1>3. /\ ResponseEffect(at, p, n) /\ TypeOK
        /\ Unwrapped("out") => \A i \in DOMAIN got'["out"] : got'["out"][i] \/ wild["out"] # {}
    BY <1>1, <1>2, ResponseFacts DEF MarshalInv
  <1>4. TypeOK'
    BY <1>3 DEF TypeOK, ResponseEffect
  <1>11. Unwrapped("in")' /\ (Unwrapped("out")' <=> Unwrapped("out"))
    <2>1. DOMAIN meta["out"] = 1 .. Len(meta["out"])
      BY <1>3, DirFacts DEF TypeOK
    <2>2. Unwrapped("in")
      BY <1>1 DEF Agree
    <2> QED BY <1>3, <2>1, <2>2 DEF Unwrapped, ResponseEffect
  <1>5. RequestDecoded' /\ ResponseLands'
    BY <1>3, <1>11 DEF MarshalInv, ResponseEffect, RequestDecoded, ResponseLands, WellPlaced
  <1>6. InBuffer'
    <2>5. ~Unwrapped("out") => side = "client"
      BY <1>1, <1>3, DirFacts, IpcUnwrapped DEF Agree, TypeOK, Sides
    <2>6. side' = side /\ \A d \in Dirs : (d = "out" /\ ~Unwrapped("out")) \/ wild'[d] = wild[d]
      BY <1>3, DirFacts DEF ResponseEffect
    <2> SUFFICES ASSUME NEW d \in Dirs, wild[d] # {}, ~(d = "out" /\ ~Unwrapped("out"))
                 PROVE  side = "client" /\ \E i \in DOMAIN meta'[d] : ~WellPlaced(d, i)'
      BY <1>11, <2>5, <2>6 DEF InBuffer
    <2>1. side = "client" /\ \E i \in DOMAIN meta[d] : ~WellPlaced(d, i)
      BY DEF MarshalInv, InBuffer
    <2>2. PICK i \in DOMAIN meta[d] : ~WellPlaced(d, i)
      BY <2>1
    <2>3. DOMAIN meta'[d] = DOMAIN meta[d] /\ meta'[d][i].typ = meta[d][i].typ
      <3>1. CASE d = "in"
        BY <3>1, <1>3 DEF ResponseEffect
      <3>2. CASE d = "out"
        <4>1. meta["out"] \in Seq(Entries)
          BY <1>3, DirFacts DEF TypeOK
        <4>2. DOMAIN meta["out"] = 1 .. Len(meta["out"])
          BY <4>1
        <4> QED BY <3>2, <4>2, <1>3 DEF ResponseEffect
      <3> QED BY <3>1, <3>2, DirFacts
    <2>4. ~WellPlaced(d, i)'
      BY <2>2, <2>3, <1>3 DEF WellPlaced, ResponseEffect
    <2> QED BY <2>1, <2>2, <2>3, <2>4
  <1>7. ASSUME NEW d \in Dirs PROVE Laid(at, d)' /\ Entered(d)'
    <2>1. Len(meta'[d]) = Len(meta[d]) /\ offset' = offset /\ side' = side
      BY <1>3, DirFacts DEF ResponseEffect
    <2>2. \A i \in 1 .. Len(meta[d]) :
             meta'[d][i].typ = meta[d][i].typ /\ meta'[d][i].len = meta[d][i].len
      BY <1>3, DirFacts DEF ResponseEffect
    <2>0. Unwrapped(d)' <=> Unwrapped(d)
      BY <1>1, <1>11, DirFacts DEF Agree
    <2>3. ASSUME Unwrapped(d)
          PROVE  \A i \in 1 .. Len(meta[d]) : meta'[d][i].ret <= meta[d][i].len
      <3>1. \A i \in 1 .. Len(meta[d]) : meta[d][i].ret <= meta[d][i].len
        BY <2>3, <1>1, <1>7 DEF Agree, Entered
      <3>2. CASE d = "in"
        BY <3>1, <3>2, <1>3 DEF ResponseEffect
      <3>3. CASE d = "out"
        <4>1. /\ \A i \in 1 .. Len(meta["out"]) :
                    meta'["out"][i].ret = IF i = p THEN n ELSE meta["out"][i].ret
              /\ n <= meta["out"][p].len
          BY <1>3, <2>3, <3>3 DEF ResponseEffect
        <4> QED BY <4>1, <3>1, <3>3
      <3> QED BY <3>2, <3>3, DirFacts
    <2>4. Entered(d)'
      BY <1>1, <2>0, <2>1, <2>2, <2>3 DEF Agree, Entered
    <2>5. \A i \in 1 .. Len(meta[d]) : Size(d, i)' = Size(d, i)
      BY <2>2 DEF Size
    <2>6. Laid(at, d)'
      <3>1. Laid(at, d)
        BY <1>1, <1>7 DEF Agree
      <3>2. Unwrapped(d) => \A i \in 1 .. Len(meta[d]), j \in 1 .. Len(meta[d]) + 1 :
               i < j => at[d][i] + Size(d, i)' <= at[d][j]
        BY <3>1, <2>5 DEF Laid
      <3>3. \A i \in 1 .. Len(meta[d]) : at[d][i + 1] = at[d][i] + Size(d, i)'
        BY <3>1, <2>5 DEF Laid
      <3> QED BY <3>1, <3>2, <3>3, <2>0, <2>1 DEF Laid
    <2> QED BY <2>4, <2>6
  <1>8. Walking(at)'
    <2>1. Walking(at)
      BY <1>1 DEF Agree
    <2>2. p + 1 - 1 = p
      BY <1>3 DEF ResponseEffect
    <2>3. /\ cursor'["in"].pos \in 1 .. Len(meta'["in"]) + 1
          /\ cursor'["in"].off = at["in"][cursor'["in"].pos]
          /\ Len(got'["in"]) = cursor'["in"].pos - 1
      BY <1>3, <2>1, DirFacts DEF ResponseEffect, Walking
    <2>4. /\ cursor'["out"].pos \in 1 .. Len(meta'["out"]) + 1
          /\ cursor'["out"].off = at["out"][cursor'["out"].pos]
          /\ Len(got'["out"]) = cursor'["out"].pos - 1
      BY <1>3, <2>2 DEF ResponseEffect
    <2>5. /\ phase' = "serve" /\ back' = back /\ Len(meta'["out"]) = Len(meta["out"])
      BY <1>3 DEF ResponseEffect
    <2>6. phase = "serve"
      BY <1>3 DEF ResponseEffect
    <2>7. back.pos \in 1 .. Len(meta["out"]) + 1 /\ back.off = at["out"][back.pos] /\ back.pos = 1
      BY <2>1, <2>6 DEF Walking
    <2> QED BY <2>3, <2>4, <2>5, <2>7, DirFacts DEF Walking
  <1>9. RequestsHeld(at)'
    BY <1>1, <1>3 DEF Agree, RequestsHeld, ResponseEffect, WellPlaced, Place
  <1>10. ReferencesHeld(at)' /\ AnswersHeld(at)'
    <2>1. p \in Nat /\ n \in Nat
      BY <1>3 DEF ResponseEffect
    <2>2. CASE Unwrapped("out")
      BY <1>1, <1>3, <2>1, <2>2, AnswerWritten
    <2>3. CASE ~Unwrapped("out")
      BY <1>11, <2>3 DEF ReferencesHeld, AnswersHeld
    <2> QED BY <2>2, <2>3
  <1> QED BY <1>1, <1>4, <1>5, <1>6, <1>7, <1>8, <1>9, <1>10, <1>11 DEF MarshalInv, Agree
-----------------------------------------------------------------------------
(* The encoder. *)

(* Parameters whose place does not depend on the pointer arithmetic, by     *)
(* their offset: compare WellPlaced.                                        *)
Placed(typ, off) == off = 0 \/ IF side = "client" THEN typ # "ref" ELSE typ = "ref"

(* A parameter as an encoder takes it. *)
Taken(typ, len) ==
    /\ typ \in Types /\ len \in Nat /\ len > 0
    /\ typ # "array" => len = Word
    /\ side = "ipc" => typ # "array"

(* A response array whose length, as an int, is negative: it has no data. *)
Long(d, typ, len, cells) ==
    /\ d = "out" /\ side = "client" /\ typ = "array" /\ cells = {}
    /\ len \in Int /\ len < 0

(* The first address is where the first word is. *)
LEMMA FirstAddress == RefAt(0) = Range(0, Word)
  <1>1. Word * 0 = 0
    BY ConstantFacts
  <1> QED BY <1>1 DEF RefAt

(* The decoder looks where the encoder has written. *)
LEMMA SamePlace ==
    ASSUME TypeOK, NEW typ, NEW len, Taken(typ, len), NEW off \in Nat, Placed(typ, off)
    PROVE  DecodeAt(typ, len, off) = EncodeAt(typ, len, off)
  <1>1. Step(typ, len) = len
    BY StepFacts, ConstantFacts DEF Taken
  <1>2. side = "client" \/ side = "ipc"
    BY DEF TypeOK, Sides
  <1>3. CASE typ = "ref"
    BY <1>3 DEF DecodeAt, EncodeAt
  <1>4. CASE typ # "ref" /\ side = "client"
    BY <1>4, <1>1 DEF DecodeAt, EncodeAt
  <1>5. CASE typ # "ref" /\ side = "ipc"
    <2>1. off = 0 /\ len = Word
      BY <1>5 DEF Placed, Taken
    <2> QED BY <1>5, <2>1, FirstAddress DEF DecodeAt, EncodeAt
  <1> QED BY <1>2, <1>3, <1>4, <1>5

(* It is inside the buffer; between tasks everything is, because the        *)
(* positions run out first.                                                 *)
LEMMA EncodedInside ==
    ASSUME TypeOK, NEW typ, NEW len, Taken(typ, len), NEW off \in Nat,
           off + Step(typ, len) <= BufSize,
           NEW d \in Dirs, NEW n \in Nat, 0 < n, n <= Limit(d),
           side = "ipc" => off = Word * (n - 1),
           side = "ipc" \/ Placed(typ, off)
    PROVE  EncodeAt(typ, len, off) \subseteq Cells
  <1>1. Step(typ, len) = len /\ len \in Nat
    BY StepFacts DEF Taken
  <1>2. side = "client" \/ side = "ipc"
    BY DEF TypeOK, Sides
  <1>3. CASE side = "ipc"
    <2>1. EncodeAt(typ, len, off) = RefAt(off)
      BY <1>3 DEF EncodeAt
    <2>2. PICK k \in Nat : n = k + 1
      BY n - 1 \in Nat, n = (n - 1) + 1
    <2>3. off = Word * k
      BY <1>3, <2>2
    <2>4. PICK W \in Nat : W = Word * Word
      BY ConstantFacts
    <2>5. Word * off = W * k
      BY <2>3, <2>4, ConstantFacts
    <2>6. Word <= W
      <3>1. Word * 1 <= Word * Word
        BY Times, ConstantFacts
      <3> QED BY <3>1, <2>4, ConstantFacts
    <2>7. W * n <= W * Limit(d) /\ W * n \in Nat /\ W * Limit(d) <= BufSize
      <3>1. Limit(d) \in Nat /\ Word * Word * Limit(d) <= BufSize
        BY ConstantFacts
      <3> QED BY <3>1, <2>4, Times
    <2>8. W * n = W * k + W
      BY <2>2
    <2>9. W * k + Word <= BufSize /\ W * k \in Nat
      <3>1. W * Limit(d) \in Nat
        BY ConstantFacts
      <3>2. W * k \in Nat
        OBVIOUS
      <3> QED BY <3>1, <3>2, <2>6, <2>7, <2>8, ConstantFacts
    <2>10. ASSUME NEW c \in RefAt(off) PROVE c \in Cells
      <3>1. c \in Nat /\ c < Word * off + Word
        BY RefAbove
      <3>2. c < BufSize
        BY <3>1, <2>5, <2>9, ConstantFacts
      <3> QED BY <3>1, <3>2, CellFacts
    <2> QED BY <2>1, <2>10
  <1>4. CASE side = "client" /\ typ = "ref"
    <2>1. EncodeAt(typ, len, off) = Range(0, Word)
      BY <1>4, FirstAddress DEF EncodeAt, Placed
    <2>2. ASSUME NEW c \in Range(0, Word) PROVE c \in Cells
      BY RangeFacts, CellFacts, ConstantFacts
    <2> QED BY <2>1, <2>2
  <1>5. CASE side = "client" /\ typ # "ref"
    <2>1. EncodeAt(typ, len, off) = Range(off, len)
      BY <1>1, <1>5 DEF EncodeAt
    <2> QED BY <2>1, <1>1, DataInside
  <1> QED BY <1>2, <1>3, <1>4, <1>5

(* It lies beyond what the service will read of a parameter before it. *)
LEMMA EncodedBeyond ==
    ASSUME TypeOK, NEW typ, NEW len, Taken(typ, len), NEW off \in Nat,
           NEW t, NEW l, Taken(t, l), NEW a \in Nat, Placed(t, a), a + Step(t, l) <= off
    PROVE  DecodeAt(t, l, a) \cap EncodeAt(typ, len, off) = {}
  <1>1. /\ Step(typ, len) = len /\ len \in Nat /\ Step(t, l) = l /\ l \in Nat
        /\ t # "array" => l = Word
    BY StepFacts DEF Taken
  <1>2. side = "client" \/ side = "ipc"
    BY DEF TypeOK, Sides
  <1>3. CASE side = "ipc"
    <2>1. EncodeAt(typ, len, off) = RefAt(off)
      BY <1>3 DEF EncodeAt
    <2>2. l = Word
      BY <1>1, <1>3 DEF Taken
    <2>3. DecodeAt(t, l, a) = RefAt(a)
      BY <1>3, <2>2, FirstAddress DEF DecodeAt, Placed
    <2>4. a + Word <= off
      BY <1>1, <2>2
    <2> QED BY <2>1, <2>3, <2>4, RefsApart
  <1>4. CASE side = "client"
    <2>1. ASSUME NEW c \in EncodeAt(typ, len, off) PROVE c \in Nat /\ c >= off
      <3>1. CASE typ = "ref"
        BY <2>1, <3>1, RefAbove DEF EncodeAt
      <3>2. CASE typ # "ref"
        BY <2>1, <3>2, <1>1, <1>4, RangeFacts DEF EncodeAt
      <3> QED BY <3>1, <3>2
    <2>2. DecodeAt(t, l, a) = Range(a, l)
      <3>1. CASE t = "ref"
        BY <3>1, <1>1, <1>4, FirstAddress DEF DecodeAt, Placed
      <3>2. CASE t # "ref"
        BY <3>2 DEF DecodeAt
      <3> QED BY <3>1, <3>2
    <2>3. ASSUME NEW c \in Range(a, l), c \in EncodeAt(typ, len, off) PROVE FALSE
      <3>1. c \in Nat /\ c >= off
        BY <2>1, <2>3
      <3>2. c < a + l
        BY <2>3, <1>1, RangeFacts
      <3> QED BY <3>1, <3>2, <1>1
    <2> QED BY <2>2, <2>3
  <1> QED BY <1>2, <1>3, <1>4

(* What one encode call does, L being the number of parameters before it    *)
(* and len the length as the meta entry holds it.                           *)
EncodeEffect(d, typ, len, L, cells) ==
    /\ UNCHANGED <<side, phase, cursor, got, back, result>> /\ phase = "encode"
    /\ L = Len(meta[d]) /\ L + 1 <= Limit(d)
    /\ Taken(typ, len) \/ Long(d, typ, len, cells)
    /\ offset[d] \in Nat /\ offset[d] + Step(typ, len) \in 0..BufSize
    /\ cells = {} \/ cells = EncodeAt(typ, len, offset[d])
    /\ d = "in" \/ typ = "ref" => cells = EncodeAt(typ, len, offset[d])
    /\ d = "out" => cells = {} \/ cells = RefAt(offset[d])
    /\ meta' \in [Dirs -> Seq(Entries)] /\ Len(meta'[d]) = L + 1
    /\ \A i \in 1 .. L : meta'[d][i] = meta[d][i]
    /\ meta'[d][L + 1].typ = typ /\ meta'[d][L + 1].len = len /\ meta'[d][L + 1].ret = 0
    /\ offset'[d] = offset[d] + Step(typ, len) /\ offset' \in [Dirs -> 0..BufSize]
    /\ buf'[d] = Write(buf[d], cells, L + 1)
    /\ buf' \in [Dirs -> [Cells -> 0..(MaxReq + MaxRes)]]
    /\ wild'[d] = wild[d] \cup (cells \ Cells) /\ wild' \in [Dirs -> SUBSET Nat]
    /\ \A e \in Dirs \ {d} : /\ meta'[e] = meta[e] /\ offset'[e] = offset[e]
                             /\ buf'[e] = buf[e] /\ wild'[e] = wild[e]

(* The cells an encoder writes are numbers. *)
LEMMA EncodedNat ==
    ASSUME NEW typ, NEW len, Taken(typ, len), NEW off \in Nat
    PROVE  EncodeAt(typ, len, off) \subseteq Nat
  <1>1. Step(typ, len) \in Nat
    BY StepFacts DEF Taken
  <1>2. RefAt(off) \subseteq Nat
    BY RefAbove
  <1>3. Range(off, Step(typ, len)) \subseteq Nat
    BY <1>1, RangeFacts
  <1> QED BY <1>2, <1>3 DEF EncodeAt

(* The offset moves by the length the meta entry holds, whether the sum     *)
(* wraps or not.                                                            *)
LEMMA MovedFacts ==
    ASSUME TypeOK, NEW d \in Dirs, NEW typ \in Types, NEW len \in Lens \cup {Word},
           typ # "array" => len = Word, Moved(d, typ, len) <= BufSize
    PROVE  /\ Moved(d, typ, len) = offset[d] + Step(typ, AsInt(len))
           /\ Moved(d, typ, len) \in 0..BufSize /\ AsInt(len) \in Int
           /\ AsInt(len) = len \/ (AsInt(len) < 0 /\ typ = "array")
           /\ len \in Nat /\ len > 0
  <1>1. PICK o \in 0..BufSize : o = offset[d]
    BY DEF TypeOK
  <1>2. len \in 1..(Mod - 1) /\ Mod \in Nat /\ BufSize \in Nat /\ 2 * BufSize < Mod
    BY ConstantFacts
  <1>3. Step(typ, len) = len
    BY DEF Step
  <1>4. PICK x \in Nat : x = o + len
    BY <1>2
  <1>5. Moved(d, typ, len) = IF x < Mod THEN x ELSE x - Mod
    BY <1>1, <1>2, <1>3, <1>4, Wrapped DEF Moved
  <1>6. CASE x < Mod
    <2>1. Moved(d, typ, len) = x /\ x <= BufSize
      BY <1>5, <1>6
    <2>2. AsInt(len) = len
      BY <1>2, <1>4, <2>1 DEF AsInt
    <2>3. x \in 0..BufSize /\ len \in Nat /\ len > 0 /\ len \in Int
      BY <1>2, <2>1
    <2> QED BY <1>1, <1>3, <1>4, <2>1, <2>2, <2>3
  <1>7. CASE ~(x < Mod)
    <2>1. AsInt(len) = len - Mod /\ AsInt(len) < 0 /\ AsInt(len) \in Int
      BY <1>2, <1>4, <1>7 DEF AsInt
    <2>2. typ = "array"
      BY <1>2, <1>4, <1>7, ConstantFacts
    <2>3. Step(typ, AsInt(len)) = AsInt(len)
      BY <2>2 DEF Step
    <2>4. x - Mod = o + AsInt(len) /\ x - Mod \in 0..BufSize
      BY <1>2, <1>4, <1>5, <1>7, <2>1
    <2> QED BY <1>1, <1>2, <1>5, <1>7, <2>1, <2>2, <2>3, <2>4
  <1> QED BY <1>6, <1>7

(* Encode has that effect. *)
LEMMA EncodeFacts ==
    ASSUME TypeOK, NEW d \in Dirs, NEW typ \in Types, NEW n \in Lens \cup {Word},
           NEW L \in Nat, L = Len(meta[d]), Encode(d, typ, n), NEW len, len = AsInt(n)
    PROVE  \E cells : EncodeEffect(d, typ, len, L, cells)
  <1>1. PICK cells : cells = IF d = "out" /\ side = "client" /\ typ # "ref" THEN {}
                             ELSE EncodeAt(typ, n, offset[d])
    OBVIOUS
  <1>12. /\ UNCHANGED <<side, phase, cursor, got, back, result>> /\ phase = "encode"
         /\ Moved(d, typ, n) <= BufSize /\ L < Limit(d) /\ CanCopy(d, typ, n)
         /\ side = "ipc" => typ # "array"
         /\ typ # "array" => n = Word
         /\ buf' = [buf EXCEPT ![d] = Write(buf[d], cells, L + 1)]
         /\ wild' = [wild EXCEPT ![d] = wild[d] \cup (cells \ Cells)]
         /\ offset' = [offset EXCEPT ![d] = Moved(d, typ, n)]
         /\ meta' = [meta EXCEPT ![d] = Append(meta[d], [typ |-> typ, len |-> len, ret |-> 0])]
    BY <1>1 DEF Encode, Fits
  <1>13. /\ Moved(d, typ, n) = offset[d] + Step(typ, len)
         /\ Moved(d, typ, n) \in 0..BufSize /\ len \in Int
         /\ len = n \/ (len < 0 /\ typ = "array")
         /\ n \in Nat /\ n > 0
    BY <1>12, MovedFacts
  <1>2. /\ UNCHANGED <<side, phase, cursor, got, back, result>> /\ phase = "encode"
        /\ offset[d] + Step(typ, len) \in 0..BufSize /\ L < Limit(d)
        /\ buf' = [buf EXCEPT ![d] = Write(buf[d], cells, L + 1)]
        /\ wild' = [wild EXCEPT ![d] = wild[d] \cup (cells \ Cells)]
        /\ offset' = [offset EXCEPT ![d] = offset[d] + Step(typ, len)]
        /\ meta' = [meta EXCEPT ![d] = Append(meta[d], [typ |-> typ, len |-> len, ret |-> 0])]
    BY <1>12, <1>13
  <1>3. /\ (Taken(typ, len) /\ len = n) \/ Long(d, typ, len, cells)
        /\ offset[d] \in Nat
    <2>1. offset[d] \in Nat
      BY ConstantFacts DEF TypeOK
    <2>2. CASE len = n
      BY <1>12, <1>13, <2>1, <2>2 DEF Taken
    <2>3. CASE len < 0 /\ typ = "array"
      <3>1. side = "client"
        BY <1>12, <2>3 DEF TypeOK, Sides
      <3>2. d = "out"
        <4>1. ~(len > 0)
          BY <1>13, <2>3
        <4> QED BY <1>12, <2>3, <4>1, DirFacts DEF CanCopy
      <3> QED BY <1>1, <1>13, <2>1, <2>3, <3>1, <3>2 DEF Long
    <2> QED BY <1>13, <2>2, <2>3
  <1>4. L + 1 <= Limit(d)
    BY <1>2, ConstantFacts
  <1>5. /\ meta' \in [Dirs -> Seq(Entries)] /\ Len(meta'[d]) = L + 1
        /\ \A i \in 1 .. L : meta'[d][i] = meta[d][i]
        /\ meta'[d][L + 1].typ = typ /\ meta'[d][L + 1].len = len /\ meta'[d][L + 1].ret = 0
        /\ \A e \in Dirs \ {d} : meta'[e] = meta[e]
    <2> DEFINE x == [typ |-> typ, len |-> len, ret |-> 0]
    <2>1. x \in Entries /\ x.typ = typ /\ x.len = len /\ x.ret = 0
      BY <1>13 DEF Entries
    <2> HIDE DEF x
    <2>2. meta[d] \in Seq(Entries) /\ meta \in [Dirs -> Seq(Entries)]
      BY DEF TypeOK
    <2> DEFINE q == Append(meta[d], x)
    <2>3. /\ q \in Seq(Entries) /\ Len(q) = L + 1 /\ q[L + 1] = x
          /\ \A i \in 1 .. L : q[i] = meta[d][i]
      BY <2>1, <2>2, Appended
    <2>4. meta' = [meta EXCEPT ![d] = q]
      BY <1>2 DEF x
    <2> HIDE DEF q
    <2>5. meta'[d] = q /\ meta' \in [Dirs -> Seq(Entries)] /\ \A e \in Dirs \ {d} : meta'[e] = meta[e]
      BY <2>2, <2>3, <2>4
    <2> QED BY <2>1, <2>3, <2>5
  <1>6. /\ offset'[d] = offset[d] + Step(typ, len) /\ offset' \in [Dirs -> 0..BufSize]
        /\ \A e \in Dirs \ {d} : offset'[e] = offset[e]
    BY <1>2 DEF TypeOK
  <1>7. /\ buf'[d] = Write(buf[d], cells, L + 1)
        /\ buf' \in [Dirs -> [Cells -> 0..(MaxReq + MaxRes)]]
        /\ \A e \in Dirs \ {d} : buf'[e] = buf[e]
    <2>1. L + 1 \in 0..(MaxReq + MaxRes)
      BY <1>4, ConstantFacts DEF Limit
    <2> DEFINE x == Write(buf[d], cells, L + 1)
    <2>2. x \in [Cells -> 0..(MaxReq + MaxRes)]
      BY <2>1 DEF Write, TypeOK
    <2>3. buf' = [buf EXCEPT ![d] = x]
      BY <1>2
    <2> HIDE DEF x
    <2>4. /\ buf'[d] = x /\ buf' \in [Dirs -> [Cells -> 0..(MaxReq + MaxRes)]]
          /\ \A e \in Dirs \ {d} : buf'[e] = buf[e]
      BY <2>2, <2>3 DEF TypeOK
    <2> QED BY <2>4 DEF x
  <1>8. /\ wild'[d] = wild[d] \cup (cells \ Cells) /\ wild' \in [Dirs -> SUBSET Nat]
        /\ \A e \in Dirs \ {d} : wild'[e] = wild[e]
    <2>1. cells \subseteq Nat
      BY <1>1, <1>3, EncodedNat DEF Long
    <2>2. wild[d] \cup (cells \ Cells) \in SUBSET Nat
      BY <2>1 DEF TypeOK
    <2> QED BY <1>2, <2>2 DEF TypeOK
  <1>9. /\ cells = {} \/ cells = EncodeAt(typ, len, offset[d])
        /\ d = "in" \/ typ = "ref" => cells = EncodeAt(typ, len, offset[d])
    BY <1>1, <1>3 DEF Long
  <1>11. d = "out" => cells = {} \/ cells = RefAt(offset[d])
    BY <1>1 DEF EncodeAt, TypeOK, Sides
  <1>10. EncodeEffect(d, typ, len, L, cells)
    BY <1>2, <1>3, <1>4, <1>5, <1>6, <1>7, <1>8, <1>9, <1>11 DEF EncodeEffect
  <1> QED BY <1>10

(* Whether long or not, a length is a number, and a word's unless it is an  *)
(* array's.                                                                 *)
LEMMA TakenOrLong ==
    ASSUME NEW d, NEW typ, NEW len, NEW cells, Taken(typ, len) \/ Long(d, typ, len, cells)
    PROVE  /\ typ \in Types /\ len \in Int /\ (typ # "array" => len = Word)
           /\ side = "ipc" => typ # "array"
  <1>1. CASE Taken(typ, len)
    <2>1. len \in Nat
      BY <1>1 DEF Taken
    <2>2. len \in Int
      BY <2>1
    <2> QED BY <1>1, <2>2 DEF Taken
  <1>2. CASE Long(d, typ, len, cells)
    BY <1>2 DEF Long, Types
  <1> QED BY <1>1, <1>2

(* No request is a long one, and an encode call changes no other entry.     *)
LEMMA EncodeUnwrapped ==
    ASSUME TypeOK, NEW d \in Dirs, NEW typ, NEW len, NEW L \in Nat, NEW cells,
           EncodeEffect(d, typ, len, L, cells), Unwrapped("in")
    PROVE  /\ Unwrapped("in")' /\ (Unwrapped("out")' => Unwrapped("out"))
           /\ Unwrapped(d)' => Unwrapped(d) /\ len >= 0 /\ Taken(typ, len)
  <1>1. DOMAIN meta[d] = 1 .. L /\ DOMAIN meta'[d] = 1 .. L + 1
    <2>1. meta[d] \in Seq(Entries) /\ meta'[d] \in Seq(Entries) /\ Len(meta'[d]) = L + 1
      BY DEF TypeOK, EncodeEffect
    <2>2. L = Len(meta[d])
      BY DEF EncodeEffect
    <2> QED BY <2>1, <2>2
  <1>2. /\ \A i \in 1 .. L : meta'[d][i] = meta[d][i]
        /\ meta'[d][L + 1].len = len
    BY DEF EncodeEffect
  <1>3. L + 1 \in 1 .. L + 1 /\ \A i \in 1 .. L : i \in 1 .. L + 1
    OBVIOUS
  <1>4. Unwrapped(d)' <=> Unwrapped(d) /\ len >= 0
    <2>1. \A i \in 1 .. L + 1 : i \in 1 .. L \/ i = L + 1
      OBVIOUS
    <2> QED BY <1>1, <1>2, <1>3, <2>1 DEF Unwrapped
  <1>5. Taken(typ, len) \/ Long(d, typ, len, cells)
    BY DEF EncodeEffect
  <1>6. Taken(typ, len) => len >= 0
    BY DEF Taken
  <1>7. Long(d, typ, len, cells) => ~(len >= 0) /\ d = "out"
    BY DEF Long
  <1>8. \A e \in Dirs \ {d} : Unwrapped(e)' <=> Unwrapped(e)
    BY DEF EncodeEffect, Unwrapped
  <1> QED BY <1>4, <1>5, <1>6, <1>7, <1>8, DirFacts

(* The offsets after an encode call: one more, for the next parameter. *)
Extends(b, at, d, L, o) ==
    /\ b \in [Dirs -> [Nat -> Nat]] /\ b[d][L + 2] = o
    /\ \A i \in 1 .. L + 1 : b[d][i] = at[d][i]
    /\ \A e \in Dirs \ {d} : b[e] = at[e]

(* Offsets can be extended. *)
LEMMA CanExtend ==
    ASSUME NEW at \in [Dirs -> [Nat -> Nat]], NEW d \in Dirs, NEW L \in Nat, NEW o \in Nat
    PROVE  \E b : Extends(b, at, d, L, o)
  <1> DEFINE c == [i \in Nat |-> IF i = L + 2 THEN o ELSE at[d][i]]
             b == [e \in Dirs |-> IF e = d THEN c ELSE at[e]]
  <1>1. c \in [Nat -> Nat] /\ c[L + 2] = o /\ \A i \in 1 .. L + 1 : c[i] = at[d][i]
    OBVIOUS
  <1> HIDE DEF c
  <1>2. b \in [Dirs -> [Nat -> Nat]] /\ b[d] = c /\ \A e \in Dirs \ {d} : b[e] = at[e]
    BY <1>1
  <1> HIDE DEF b
  <1>3. Extends(b, at, d, L, o)
    BY <1>1, <1>2 DEF Extends
  <1> QED BY <1>3

(* The extended list of offsets is one again. *)
LEMMA EncodeLaid ==
    ASSUME TypeOK, NEW at \in [Dirs -> [Nat -> Nat]], NEW d \in Dirs, Laid(at, d), Entered(d),
           Unwrapped("in"),
           NEW typ, NEW len, NEW L \in Nat, NEW cells, EncodeEffect(d, typ, len, L, cells),
           NEW b, Extends(b, at, d, L, offset[d] + Step(typ, len))
    PROVE  Laid(b, d)' /\ Entered(d)'
  <1>1. PICK s \in Int : s = Step(typ, len) /\ (side = "ipc" => s = Word)
    <2>1. /\ typ \in Types /\ len \in Int /\ (typ # "array" => len = Word)
          /\ side = "ipc" => typ # "array"
      BY TakenOrLong DEF EncodeEffect
    <2> QED BY <2>1, StepFacts
  <1>2. PICK o \in Nat : o = offset[d]
    BY DEF EncodeEffect
  <1>3. PICK a \in [Nat -> Nat] : a = at[d]
    OBVIOUS
  <1>4. PICK c \in [Nat -> Nat] : c = b[d]
    BY DEF Extends
  <1>17. /\ Unwrapped(d)' => Unwrapped(d) /\ s >= 0 /\ Taken(typ, len)
         /\ typ \in Types /\ len \in Int
    <2>1. typ \in Types /\ len \in Int /\ (typ # "array" => len = Word)
      BY TakenOrLong DEF EncodeEffect
    <2>2. s = len
      BY <1>1, <2>1, StepFacts
    <2> QED BY <2>1, <2>2, EncodeUnwrapped
  <1>5. PICK z \in [1 .. L -> Int] : \A i \in 1 .. L :
           z[i] = Size(d, i) /\ (Unwrapped(d) => z[i] \in Nat)
    <2>1. [i \in 1 .. L |-> Size(d, i)] \in [1 .. L -> Int]
      BY SizeFacts DEF EncodeEffect
    <2>2. \A i \in 1 .. L : Unwrapped(d) => Size(d, i) \in Nat
      BY SizeFacts DEF EncodeEffect
    <2> QED BY <2>1, <2>2
  <1>6. c[L + 2] = o + s /\ \A i \in 1 .. L + 1 : c[i] = a[i]
    BY <1>1, <1>2, <1>3, <1>4 DEF Extends
  <1>7. /\ a[1] = 0 /\ a[L + 1] = o
        /\ Unwrapped(d) => \A i \in 1 .. L, j \in 1 .. L + 1 : i < j => a[i] + z[i] <= a[j]
        /\ \A i \in 1 .. L : a[i + 1] = a[i] + z[i]
        /\ side = "ipc" => \A i \in 1 .. L + 1 : a[i] = Word * (i - 1)
    BY <1>2, <1>3, <1>5 DEF Laid, EncodeEffect
  <1>8. /\ Len(meta'[d]) = L + 1 /\ offset'[d] = o + s /\ side' = side
        /\ Size(d, L + 1)' = s /\ \A i \in 1 .. L : Size(d, i)' = z[i]
    BY <1>1, <1>2, <1>5 DEF EncodeEffect, Size
  <1>9. (L + 1) + 1 = L + 2 /\ c[1] = 0
    BY <1>6, <1>7
  <1>10. \A i \in 1 .. L + 1 : i \in 1 .. L \/ i = L + 1
    OBVIOUS
  <1>11. \A j \in 1 .. L + 2 : j \in 1 .. L + 1 \/ j = L + 2
    OBVIOUS
  <1>12. ASSUME Unwrapped(d)', NEW i \in 1 .. L + 1, NEW j \in 1 .. L + 2, i < j
         PROVE  c[i] + Size(d, i)' <= c[j]
    <2>1. CASE i \in 1 .. L /\ j \in 1 .. L + 1
      <3>1. c[i] = a[i] /\ c[j] = a[j] /\ Size(d, i)' = z[i]
        BY <2>1, <1>6, <1>8
      <3>2. a[i] + z[i] <= a[j]
        BY <2>1, <1>7, <1>12, <1>17
      <3> QED BY <3>1, <3>2
    <2>2. CASE i \in 1 .. L /\ j = L + 2
      <3>1. c[i] = a[i] /\ c[j] = o + s /\ Size(d, i)' = z[i]
        BY <2>2, <1>6, <1>8
      <3>2. i < L + 1 /\ L + 1 \in 1 .. L + 1
        BY <2>2
      <3>3. a[i] + z[i] <= o
        BY <2>2, <3>2, <1>7, <1>12, <1>17
      <3>4. PICK x \in Nat, y \in Nat : x = a[i] /\ y = z[i]
        <4>1. i \in Nat /\ i \in 1 .. L
          BY <2>2
        <4>2. a[i] \in Nat
          BY <4>1
        <4>3. z[i] \in Nat
          BY <4>1, <1>5, <1>12, <1>17
        <4> QED BY <4>2, <4>3
      <3>5. x + y <= o + s
        <4>1. x + y <= o
          BY ONLY <3>3, <3>4
        <4> QED BY <4>1, <1>12, <1>17
      <3> QED BY <3>1, <3>4, <3>5
    <2>3. CASE i = L + 1
      <3>1. j = L + 2
        BY <2>3, <1>12
      <3>2. c[i] = o /\ c[j] = o + s /\ Size(d, i)' = s
        BY <2>3, <3>1, <1>6, <1>7, <1>8
      <3> QED BY <3>2
    <2> QED BY <2>1, <2>2, <2>3, <1>10, <1>11
  <1>13. ASSUME NEW i \in 1 .. L + 1 PROVE c[i + 1] = c[i] + Size(d, i)'
    <2>1. CASE i \in 1 .. L
      <3>1. i + 1 \in 1 .. L + 1
        BY <2>1
      <3> QED BY <2>1, <3>1, <1>6, <1>7, <1>8
    <2>2. CASE i = L + 1
      BY <2>2, <1>6, <1>7, <1>8, <1>9
    <2> QED BY <2>1, <2>2, <1>10
  <1>14. ASSUME side = "ipc", NEW i \in 1 .. L + 2 PROVE c[i] = Word * (i - 1)
    <2>1. CASE i \in 1 .. L + 1
      BY <2>1, <1>6, <1>7, <1>14
    <2>2. CASE i = L + 2
      <3>1. o = Word * L
        <4>1. L + 1 \in 1 .. L + 1 /\ (L + 1) - 1 = L
          OBVIOUS
        <4> QED BY <4>1, <1>7, <1>14
      <3>2. Word * (L + 1) = Word * L + Word
        BY ConstantFacts
      <3>3. i - 1 = L + 1
        BY <2>2
      <3> QED BY <2>2, <3>1, <3>2, <3>3, <1>1, <1>6, <1>14
    <2> QED BY <2>1, <2>2, <1>11
  <1>15. Laid(b, d)'
    <2>1. Len(meta'[d]) + 1 = L + 2
      BY <1>8, <1>9
    <2> QED BY <2>1, <1>4, <1>6, <1>8, <1>9, <1>12, <1>13, <1>14 DEF Laid
  <1>16. Entered(d)'
    <2>1. L + 1 <= Limit(d) /\ Len(meta'[d]) = L + 1 /\ side' = side
      BY DEF EncodeEffect
    <2>2. ASSUME NEW i \in 1 .. L + 1
          PROVE  /\ Unwrapped(d)' => meta'[d][i].len > 0 /\ meta'[d][i].ret <= meta'[d][i].len
                 /\ meta'[d][i].typ # "array" => meta'[d][i].len = Word
                 /\ side = "ipc" => meta'[d][i].typ # "array"
      <3>1. CASE i \in 1 .. L
        BY <3>1, <1>17 DEF EncodeEffect, Entered
      <3>2. CASE i = L + 1
        <4>1. /\ meta'[d][i].typ = typ /\ meta'[d][i].len = len /\ meta'[d][i].ret = 0
              /\ Taken(typ, len) \/ Long(d, typ, len, cells)
          BY <3>2 DEF EncodeEffect
        <4>2. Taken(typ, len) => len \in Nat /\ len > 0 /\ 0 <= len
          BY DEF Taken
        <4> QED BY <4>1, <4>2, <1>17 DEF Taken, Long
      <3> QED BY <3>1, <3>2, <1>10
    <2> QED BY <2>1, <2>2 DEF Entered
  <1> QED BY <1>15, <1>16

(* A parameter that is well placed by its position is so by its offset. *)
LEMMA PlacedByOffset ==
    ASSUME TypeOK, NEW at \in [Dirs -> [Nat -> Nat]], NEW d \in Dirs, Laid(at, d), Entered(d),
           Unwrapped(d), NEW i \in 1 .. Len(meta[d]), WellPlaced(d, i)
    PROVE  /\ Placed(meta[d][i].typ, at[d][i]) /\ Taken(meta[d][i].typ, meta[d][i].len)
           /\ at[d][i] \in Nat /\ at[d][i] + Step(meta[d][i].typ, meta[d][i].len) <= offset[d]
  <1>1. meta[d] \in Seq(Entries) /\ Len(meta[d]) \in Nat
    BY DEF TypeOK
  <1>2. i \in Nat /\ i < Len(meta[d]) + 1 /\ Len(meta[d]) + 1 \in 1 .. Len(meta[d]) + 1
    <2>1. PICK L \in Nat : L = Len(meta[d])
      BY <1>1
    <2>2. i \in 1 .. L
      BY <2>1
    <2>3. i \in Nat /\ i < L + 1 /\ L + 1 \in 1 .. L + 1
      BY <2>2
    <2> QED BY <2>1, <2>3
  <1>3. at[d][i] \in Nat
    BY <1>2
  <1>4. Placed(meta[d][i].typ, at[d][i])
    BY DEF WellPlaced, Placed, Laid
  <1>5. meta[d][i] \in Entries
    BY <1>1
  <1>6. Taken(meta[d][i].typ, meta[d][i].len)
    <2>1. meta[d][i].typ \in Types /\ meta[d][i].len \in Int
      BY <1>5 DEF Entries
    <2>2. /\ meta[d][i].len > 0
          /\ meta[d][i].typ # "array" => meta[d][i].len = Word
          /\ side = "ipc" => meta[d][i].typ # "array"
      BY DEF Entered
    <2>3. PICK l \in Int : l = meta[d][i].len
      BY <2>1
    <2>4. l > 0
      BY ONLY <2>2, <2>3
    <2>5. l \in Nat
      BY <2>4
    <2> QED BY <2>1, <2>2, <2>3, <2>5 DEF Taken
  <1>7. at[d][i] + Size(d, i) <= offset[d]
    BY <1>2 DEF Laid
  <1> QED BY <1>3, <1>4, <1>6, <1>7 DEF Size

(* What a request's place holds is not overwritten by later requests, and   *)
(* the new request is found in its place, if it is well placed.             *)
LEMMA EncodeRequests ==
    ASSUME TypeOK, NEW at \in [Dirs -> [Nat -> Nat]], NEW d \in Dirs, Laid(at, d), Entered(d),
           RequestsHeld(at), Unwrapped("in"),
           NEW typ, NEW len, NEW L \in Nat, NEW cells, EncodeEffect(d, typ, len, L, cells),
           NEW b, Extends(b, at, d, L, offset[d] + Step(typ, len))
    PROVE  RequestsHeld(b)'
  <1>1. CASE d = "out"
    <2>1. /\ meta'["in"] = meta["in"] /\ buf'["in"] = buf["in"] /\ side' = side
          /\ b["in"] = at["in"]
      BY <1>1, DirFacts DEF EncodeEffect, Extends
    <2> QED BY <2>1 DEF RequestsHeld, WellPlaced, Place
  <1>2. CASE d = "in"
    <2>1. PICK o \in Nat : o = offset[d]
      BY DEF EncodeEffect
    <2>2. /\ cells = EncodeAt(typ, len, o) /\ Taken(typ, len) /\ L = Len(meta["in"])
          /\ Len(meta'["in"]) = L + 1 /\ buf'["in"] = Write(buf["in"], cells, L + 1)
          /\ side' = side /\ o + Step(typ, len) \in 0..BufSize /\ L + 1 <= Limit(d)
          /\ meta'["in"][L + 1].typ = typ /\ meta'["in"][L + 1].len = len
      BY <1>2, <2>1 DEF EncodeEffect, Long
    <2>9. o + Step(typ, len) <= BufSize
      BY <2>2, ConstantFacts
    <2>3. \A i \in 1 .. L : meta'["in"][i] = meta["in"][i]
      BY <1>2 DEF EncodeEffect
    <2>4. \A i \in 1 .. L + 1 : b["in"][i] = at["in"][i]
      BY <1>2 DEF Extends
    <2>5. ASSUME NEW i \in 1 .. L, WellPlaced("in", i)'
          PROVE  Holds(buf'["in"], DecodeAt(meta'["in"][i].typ, meta'["in"][i].len, b["in"][i]), i)
      <3>1. PICK a \in Nat : a = at["in"][i]
        BY DirFacts
      <3> DEFINE t == meta["in"][i].typ
                 l == meta["in"][i].len
      <3>2. WellPlaced("in", i)
        BY <2>2, <2>3, <2>5 DEF WellPlaced
      <3>3. Placed(t, a) /\ Taken(t, l) /\ a + Step(t, l) <= o
        BY <1>2, <2>1, <2>2, <3>1, <3>2, PlacedByOffset
      <3>4. DecodeAt(t, l, a) \cap cells = {}
        BY <2>2, <3>3, EncodedBeyond
      <3>5. Holds(buf["in"], DecodeAt(t, l, a), i)
        BY <2>2, <3>1, <3>2 DEF RequestsHeld, Place
      <3>6. Holds(buf'["in"], DecodeAt(t, l, a), i)
        BY <2>2, <3>4, <3>5 DEF Holds, Write
      <3>7. i \in 1 .. L + 1
        OBVIOUS
      <3> QED BY <2>3, <2>4, <3>1, <3>6, <3>7
    <2>6. ASSUME WellPlaced("in", L + 1)'
          PROVE  Holds(buf'["in"], DecodeAt(typ, len, b["in"][L + 1]), L + 1)
      <3>1. at["in"][L + 1] = o /\ at["in"][1] = 0
        BY <1>2, <2>1, <2>2 DEF Laid
      <3>2. b["in"][L + 1] = o
        <4>1. L + 1 \in 1 .. L + 1
          OBVIOUS
        <4> QED BY <4>1, <2>4, <3>1
      <3>3. Placed(typ, o)
        BY <2>2, <2>6, <3>1 DEF WellPlaced, Placed
      <3>4. DecodeAt(typ, len, o) = cells
        BY <2>2, <3>3, SamePlace
      <3>5. L + 1 \in Nat /\ 0 < L + 1 /\ (L + 1) - 1 = L
        OBVIOUS
      <3>6. side = "ipc" => o = Word * ((L + 1) - 1)
        <4>1. L + 1 \in 1 .. L + 1
          OBVIOUS
        <4> QED BY <1>2, <2>2, <3>1, <4>1 DEF Laid
      <3>7. cells \subseteq Cells
        BY <2>2, <2>9, <3>3, <3>5, <3>6, EncodedInside
      <3>8. Holds(buf'["in"], cells, L + 1)
        BY <2>2, <3>7 DEF Holds, Write
      <3> QED BY <3>2, <3>4, <3>8
    <2>7. \A i \in 1 .. L + 1 : i \in 1 .. L \/ i = L + 1
      OBVIOUS
    <2>8. ASSUME NEW i \in 1 .. L + 1, WellPlaced("in", i)'
          PROVE  Holds(buf'["in"], DecodeAt(meta'["in"][i].typ, meta'["in"][i].len, b["in"][i]), i)
      <3>1. CASE i \in 1 .. L
        BY <3>1, <2>5, <2>8
      <3>2. CASE i = L + 1
        BY <3>2, <2>2, <2>6, <2>8
      <3> QED BY <3>1, <3>2, <2>7
    <2> QED BY <2>2, <2>8 DEF RequestsHeld, Place
  <1> QED BY <1>1, <1>2, DirFacts

(* The addresses of response references stay, and the new one is written.   *)
LEMMA EncodeReferences ==
    ASSUME TypeOK, NEW at \in [Dirs -> [Nat -> Nat]], NEW d \in Dirs, Laid(at, d), Entered(d),
           ReferencesHeld(at), Unwrapped("in"), cursor["out"].pos = 1,
           NEW typ, NEW len, NEW L \in Nat, NEW cells, EncodeEffect(d, typ, len, L, cells),
           NEW b, Extends(b, at, d, L, offset[d] + Step(typ, len))
    PROVE  ReferencesHeld(b)'
  <1>1. CASE d = "in"
    <2>1. /\ meta'["out"] = meta["out"] /\ buf'["out"] = buf["out"] /\ cursor' = cursor
          /\ wild'["out"] = wild["out"] /\ b["out"] = at["out"]
      BY <1>1, DirFacts DEF EncodeEffect, Extends
    <2> QED BY <2>1 DEF ReferencesHeld, Unwrapped
  <1>2. CASE d = "out"
    <2>1. PICK o \in Nat : o = offset[d]
      BY DEF EncodeEffect
    <2>2. /\ cells = {} \/ cells = RefAt(o)
          /\ typ = "ref" => cells = EncodeAt(typ, len, o)
          /\ L = Len(meta["out"]) /\ Len(meta'["out"]) = L + 1
          /\ buf'["out"] = Write(buf["out"], cells, L + 1)
          /\ wild'["out"] = wild["out"] \cup (cells \ Cells)
          /\ meta'["out"][L + 1].typ = typ /\ cursor' = cursor
      BY <1>2, <2>1 DEF EncodeEffect
    <2>3. \A i \in 1 .. L : meta'["out"][i] = meta["out"][i]
      BY <1>2 DEF EncodeEffect
    <2>4. \A i \in 1 .. L + 1 : b["out"][i] = at["out"][i]
      BY <1>2 DEF Extends
    <2>9. Unwrapped("out")' => Unwrapped("out")
      BY EncodeUnwrapped
    <2> SUFFICES ASSUME Unwrapped("out")' PROVE ReferencesHeld(b)'
      BY DEF ReferencesHeld
    <2>10. Unwrapped("out")
      BY <2>9
    <2>5. ASSUME NEW i \in 1 .. L, meta'["out"][i].typ = "ref", NEW c \in RefAt(b["out"][i])
          PROVE  IF c \in Cells THEN buf'["out"][c] = i ELSE c \in wild'["out"]
      <3>1. PICK a \in Nat : a = at["out"][i]
        BY DirFacts
      <3>2. Size("out", i) = Word /\ meta["out"][i].typ = "ref"
        BY <1>2, <2>2, <2>3, <2>5, SizeFacts
      <3>3. L + 1 \in 1 .. L + 1 /\ i < L + 1 /\ i \in 1 .. L + 1
        OBVIOUS
      <3>4. a + Word <= o
        BY <1>2, <2>1, <2>2, <2>10, <3>1, <3>2, <3>3 DEF Laid
      <3>5. c \in RefAt(a) /\ c \notin cells
        BY <2>2, <2>4, <2>5, <3>1, <3>3, <3>4, RefsApart
      <3>6. IF c \in Cells THEN buf["out"][c] = i ELSE c \in wild["out"]
        BY <2>2, <2>10, <3>1, <3>2, <3>5 DEF ReferencesHeld
      <3> QED BY <2>2, <3>5, <3>6 DEF Write
    <2>6. ASSUME typ = "ref", NEW c \in RefAt(b["out"][L + 1])
          PROVE  IF c \in Cells THEN buf'["out"][c] = L + 1 ELSE c \in wild'["out"]
      <3>1. L + 1 \in 1 .. L + 1
        OBVIOUS
      <3>2. b["out"][L + 1] = o
        BY <1>2, <2>1, <2>2, <2>4, <3>1 DEF Laid
      <3>3. c \in cells
        BY <2>2, <2>6, <3>2 DEF EncodeAt
      <3> QED BY <2>2, <3>3 DEF Write
    <2>7. \A i \in 1 .. L + 1 : i \in 1 .. L \/ i = L + 1
      OBVIOUS
    <2>8. ASSUME NEW i \in 1 .. L + 1, meta'["out"][i].typ = "ref", NEW c \in RefAt(b["out"][i])
          PROVE  IF c \in Cells THEN buf'["out"][c] = i ELSE c \in wild'["out"]
      <3>1. CASE i \in 1 .. L
        BY <3>1, <2>5, <2>8
      <3>2. CASE i = L + 1
        BY <3>2, <2>2, <2>6, <2>8
      <3> QED BY <3>1, <3>2, <2>7
    <2> QED BY <2>2, <2>8 DEF ReferencesHeld
  <1> QED BY <1>1, <1>2, DirFacts

(* An encode call leaves a buffer only with a reference of a client that    *)
(* is not the first parameter.                                              *)
LEMMA EncodeInBuffer ==
    ASSUME TypeOK, NEW at \in [Dirs -> [Nat -> Nat]], NEW d \in Dirs, Laid(at, d), InBuffer,
           NEW typ, NEW len, NEW L \in Nat, NEW cells, EncodeEffect(d, typ, len, L, cells)
    PROVE  InBuffer'
  <1>1. side' = side /\ L = Len(meta[d]) /\ \A i \in 1 .. L : meta'[d][i] = meta[d][i]
    BY DEF EncodeEffect
  <1>2. DOMAIN meta[d] = 1 .. L /\ DOMAIN meta'[d] = 1 .. L + 1
    <2>1. meta[d] \in Seq(Entries) /\ meta'[d] \in Seq(Entries) /\ Len(meta'[d]) = L + 1
      BY DEF TypeOK, EncodeEffect
    <2> QED BY <2>1, <1>1
  <1>3. ASSUME NEW e \in Dirs, e # d, wild'[e] # {}
        PROVE  side' = "client" /\ (\/ \E i \in DOMAIN meta'[e] : ~WellPlaced(e, i)'
                                    \/ e = "out" /\ ~Unwrapped(e)')
    <2>1. meta'[e] = meta[e] /\ wild'[e] = wild[e]
      BY <1>3 DEF EncodeEffect
    <2>2. side = "client" /\ (\/ \E i \in DOMAIN meta[e] : ~WellPlaced(e, i)
                              \/ e = "out" /\ ~Unwrapped(e))
      BY <2>1, <1>3 DEF InBuffer
    <2>3. Unwrapped(e)' <=> Unwrapped(e)
      BY <2>1 DEF Unwrapped
    <2>4. \A i \in DOMAIN meta[e] : WellPlaced(e, i)' <=> WellPlaced(e, i)
      BY <2>1, <1>1 DEF WellPlaced
    <2> QED BY <1>1, <2>1, <2>2, <2>3, <2>4
  <1>4. ASSUME wild'[d] # {}
        PROVE  side' = "client" /\ (\/ \E i \in DOMAIN meta'[d] : ~WellPlaced(d, i)'
                                    \/ d = "out" /\ ~Unwrapped(d)')
    <2>1. CASE wild[d] # {}
      <3>1. side = "client" /\ (\/ \E i \in DOMAIN meta[d] : ~WellPlaced(d, i)
                                \/ d = "out" /\ ~Unwrapped(d))
        BY <2>1 DEF InBuffer
      <3>6. CASE d = "out" /\ ~Unwrapped(d)
        <4>1. PICK i \in 1 .. L : ~(meta[d][i].len >= 0)
          BY <1>2, <3>6 DEF Unwrapped
        <4>2. i \in 1 .. L + 1 /\ meta'[d][i] = meta[d][i]
          BY <1>1
        <4> QED BY <1>1, <1>2, <3>1, <3>6, <4>1, <4>2 DEF Unwrapped
      <3>7. CASE \E i \in DOMAIN meta[d] : ~WellPlaced(d, i)
        <4>1. PICK i \in 1 .. L : ~WellPlaced(d, i)
          BY <1>2, <3>7
        <4>2. i \in 1 .. L + 1
          OBVIOUS
        <4>3. meta'[d][i] = meta[d][i]
          BY <1>1
        <4>4. ~WellPlaced(d, i)'
          BY <1>1, <4>1, <4>3 DEF WellPlaced
        <4>5. \E k \in DOMAIN meta'[d] : ~WellPlaced(d, k)'
          BY <1>2, <4>2, <4>4
        <4> QED BY <1>1, <3>1, <4>5
      <3> QED BY <3>1, <3>6, <3>7
    <2>2. CASE wild[d] = {}
      <3>1. PICK o \in Nat : o = offset[d]
        BY DEF EncodeEffect
      <3>2. /\ cells \ Cells # {} /\ Taken(typ, len) /\ o + Step(typ, len) <= BufSize
            /\ L + 1 <= Limit(d) /\ meta'[d][L + 1].typ = typ
        <4>1. /\ cells \ Cells # {} /\ o + Step(typ, len) \in 0..BufSize
              /\ L + 1 <= Limit(d) /\ meta'[d][L + 1].typ = typ
              /\ Taken(typ, len) \/ cells = {}
          BY <1>4, <2>2, <3>1 DEF EncodeEffect, Long
        <4> QED BY <4>1, ConstantFacts
      <3>3. cells = EncodeAt(typ, len, o)
        BY <3>1, <3>2 DEF EncodeEffect
      <3>4. at[d][1] = 0 /\ at[d][L + 1] = o
        BY <1>1, <3>1 DEF Laid
      <3>5. L + 1 \in 1 .. L + 1 /\ L + 1 \in Nat /\ 0 < L + 1 /\ (L + 1) - 1 = L
        OBVIOUS
      <3>6. side = "ipc" => o = Word * ((L + 1) - 1)
        BY <1>1, <3>4, <3>5 DEF Laid
      <3>7. side # "ipc" /\ ~Placed(typ, o)
        BY <3>2, <3>3, <3>5, <3>6, EncodedInside
      <3>8. side = "client" /\ typ = "ref" /\ o # 0
        BY <3>7 DEF Placed, TypeOK, Sides
      <3>9. L + 1 # 1
        BY <3>4, <3>8
      <3>10. ~WellPlaced(d, L + 1)'
        BY <1>1, <3>2, <3>8, <3>9 DEF WellPlaced
      <3>11. \E i \in DOMAIN meta'[d] : ~WellPlaced(d, i)'
        BY <1>2, <3>5, <3>10
      <3> QED BY <1>1, <3>8, <3>11
    <2> QED BY <2>1, <2>2
  <1> QED BY <1>3, <1>4 DEF InBuffer

(* Encode keeps the invariant, with one more offset. *)
LEMMA EncodeKept ==
    ASSUME MarshalInv, NEW d \in Dirs, NEW typ \in Types, NEW n \in Lens \cup {Word},
           Encode(d, typ, n)
    PROVE  MarshalInv'
  <1>1. PICK at \in [Dirs -> [Nat -> Nat]] : Agree(at)
    BY DEF MarshalInv
  <1>2. TypeOK /\ RequestDecoded /\ ResponseLands /\ InBuffer
    BY DEF MarshalInv
  <1>3. PICK L \in Nat : L = Len(meta[d])
    BY <1>2 DEF TypeOK
  <1>0. PICK len : len = AsInt(n)
    OBVIOUS
  <1>4. PICK cells : EncodeEffect(d, typ, len, L, cells)
    BY <1>0, <1>2, <1>3, EncodeFacts
  <1>5. PICK b : Extends(b, at, d, L, offset[d] + Step(typ, len))
    <2>1. offset[d] + Step(typ, len) \in Nat
      <3>1. offset[d] + Step(typ, len) \in 0..BufSize
        BY <1>4 DEF EncodeEffect
      <3> QED BY <3>1, ConstantFacts
    <2> QED BY <2>1, CanExtend
  <1>6. Laid(at, d) /\ Entered(d) /\ Walking(at) /\ RequestsHeld(at) /\ ReferencesHeld(at)
    BY <1>1 DEF Agree
  <1>7. phase = "encode" /\ UNCHANGED <<side, phase, cursor, got, back, result>>
    BY <1>4 DEF EncodeEffect
  <1>8. /\ \A e \in Dirs : cursor[e].pos = 1 /\ Len(got[e]) = 1 - 1 /\ cursor[e].off = at[e][1]
        /\ back.pos = 1 /\ back.off = at["out"][1]
    BY <1>6, <1>7 DEF Walking
  <1>9. TypeOK'
    BY <1>2, <1>4 DEF TypeOK, EncodeEffect
  <1>18. Unwrapped("in")
    BY <1>1 DEF Agree
  <1>19. Unwrapped("in")' /\ (Unwrapped("out")' => Unwrapped("out"))
    BY <1>2, <1>4, <1>18, EncodeUnwrapped
  <1>10. RequestDecoded' /\ ResponseLands'
    <2>1. \A e \in Dirs : got[e] \in Seq(BOOLEAN)
      BY <1>2 DEF TypeOK
    <2>2. \A e \in Dirs : DOMAIN got[e] = {}
      <3>1. ASSUME NEW e \in Dirs PROVE DOMAIN got[e] = {}
        <4>1. PICK g \in Seq(BOOLEAN) : g = got[e]
          BY <2>1
        <4>2. Len(g) = 0
          BY <1>8, <4>1
        <4>3. DOMAIN g = 1 .. Len(g)
          OBVIOUS
        <4>4. DOMAIN g = {}
          BY <4>2, <4>3
        <4> QED BY <4>1, <4>4
      <3> QED BY <3>1
    <2>3. got' = got /\ result' = result
      BY <1>7
    <2>5. Unwrapped("out")' => Unwrapped("out")
      BY <1>19
    <2>4. DOMAIN got["in"] = {} /\ DOMAIN got["out"] = {}
      BY <2>2, DirFacts
    <2> QED BY <1>2, <2>3, <2>4, <2>5 DEF RequestDecoded, ResponseLands
  <1>11. InBuffer'
    BY <1>2, <1>4, <1>6, EncodeInBuffer
  <1>12. ASSUME NEW e \in Dirs PROVE Laid(b, e)' /\ Entered(e)'
    <2>1. CASE e = d
      BY <1>2, <1>4, <1>5, <1>6, <1>18, <2>1, EncodeLaid
    <2>2. CASE e # d
      <3>1. meta'[e] = meta[e] /\ offset'[e] = offset[e] /\ side' = side /\ b[e] = at[e]
        BY <1>4, <1>5, <2>2 DEF EncodeEffect, Extends
      <3>2. Laid(at, e) /\ Entered(e)
        BY <1>1 DEF Agree
      <3> QED BY <3>1, <3>2 DEF Laid, Entered, Size, Unwrapped
    <2> QED BY <2>1, <2>2
  <1>13. Walking(b)'
    <2>1. \A e \in Dirs : 1 \in 1 .. Len(meta'[e]) + 1
      BY <1>9 DEF TypeOK
    <2>2. \A e \in Dirs : b[e][1] = at[e][1]
      <3>1. 1 \in 1 .. L + 1
        OBVIOUS
      <3>2. b[d][1] = at[d][1] /\ \A e \in Dirs \ {d} : b[e] = at[e]
        BY <1>5, <3>1 DEF Extends
      <3> QED BY <3>2
    <2> QED BY <1>7, <1>8, <2>1, <2>2, DirFacts DEF Walking
  <1>14. RequestsHeld(b)'
    BY <1>2, <1>4, <1>5, <1>6, <1>18, EncodeRequests
  <1>15. ReferencesHeld(b)'
    BY <1>2, <1>4, <1>5, <1>6, <1>8, <1>18, DirFacts, EncodeReferences
  <1>16. AnswersHeld(b)'
    <2>1. back'.pos = 1 /\ cursor'["out"].pos = 1
      BY <1>7, <1>8, DirFacts
    <2>2. 1 .. 1 - 1 = {}
      OBVIOUS
    <2> QED BY <2>1, <2>2 DEF AnswersHeld
  <1>17. b \in [Dirs -> [Nat -> Nat]]
    BY <1>5 DEF Extends
  <1> QED BY <1>9, <1>10, <1>11, <1>12, <1>13, <1>14, <1>15, <1>16, <1>17, <1>19
         DEF MarshalInv, Agree
-----------------------------------------------------------------------------
(* Theorems. *)

(* Every step keeps the invariant. *)
LEMMA MarshalStep == MarshalInv /\ [Next]_vars => MarshalInv'
  <1> SUFFICES ASSUME MarshalInv, [Next]_vars PROVE MarshalInv'
    OBVIOUS
  <1>1. ASSUME NEW d \in Dirs, NEW t \in Types, NEW n \in Lens \cup {Word}, Encode(d, t, n)
        PROVE  MarshalInv'
    BY <1>1, EncodeKept
  <1>2. ASSUME NEW d \in Dirs, NEW t \in Types, NEW n \in Lens \cup {Word}, EncodeFails(d, t, n)
        PROVE  MarshalInv'
    BY <1>2, PhaseKept DEF EncodeFails
  <1>3. CASE Send
    BY <1>3, PhaseKept DEF Send
  <1>4. CASE ServeRequest
    BY <1>4, ServeRequestKept
  <1>5. CASE Return
    <2>1. Len(meta["out"]) \in Nat /\ cursor["out"].pos \in Nat
      <3>1. meta["out"] \in Seq(Entries) /\ cursor["out"] \in Walk
        BY DirFacts DEF MarshalInv, TypeOK
      <3> QED BY <3>1 DEF Walk
    <2>2. cursor["out"].pos > Len(meta["out"])
      BY <1>5, <2>1 DEF Return, More
    <2> QED BY <1>5, <2>2, PhaseKept DEF Return
  <1>6. ASSUME NEW n \in 1..BufSize, ServeResponse(n) PROVE MarshalInv'
    BY <1>6, ServeResponseKept
  <1>7. CASE DecodeResponse
    BY <1>7, DecodeResponseKept
  <1>11. CASE DecodeFails
    BY <1>11, PhaseKept DEF DecodeFails
  <1>8. CASE Release
    BY <1>8, PhaseKept DEF Release
  <1>9. CASE ReleaseIpc
    BY <1>9, PhaseKept DEF ReleaseIpc
  <1>10. CASE UNCHANGED vars
    <2>1. PICK at \in [Dirs -> [Nat -> Nat]] : Agree(at)
      BY DEF MarshalInv
    <2>2. UNCHANGED <<side, phase, meta, offset, buf, wild, cursor, got, back, result>>
      BY <1>10 DEF vars
    <2>3. TypeOK' /\ RequestDecoded' /\ ResponseLands' /\ InBuffer'
      BY <2>2 DEF MarshalInv, TypeOK, RequestDecoded, ResponseLands, InBuffer, WellPlaced, Unwrapped
    <2>4. Unwrapped("in")' /\ \A d \in Dirs : Laid(at, d)' /\ Entered(d)'
      BY <2>1, <2>2 DEF Agree, Laid, Entered, Size, Unwrapped
    <2>5. Walking(at)' /\ RequestsHeld(at)' /\ ReferencesHeld(at)' /\ AnswersHeld(at)'
      BY <2>1, <2>2 DEF Agree, Walking, RequestsHeld, ReferencesHeld, AnswersHeld, WellPlaced, Place,
                             Unwrapped
    <2> QED BY <2>3, <2>4, <2>5 DEF MarshalInv, Agree
  <1> QED BY <1>1, <1>2, <1>3, <1>4, <1>5, <1>6, <1>7, <1>8, <1>9, <1>10, <1>11 DEF Next

(* The walks of encoder, service and caller agree on the offsets in every   *)
(* reachable state.                                                         *)
LEMMA MarshalAlways == Spec => []MarshalInv
  <1> QED BY MarshalInit, MarshalStep, PTL DEF Spec

(* The state of a command stays in its types; the offsets, in particular,   *)
(* never pass the size of a buffer (the checks of otz_client_encode_* and   *)
(* otz_encode_data).                                                        *)
THEOREM MarshalTypeCorrect == Spec => []TypeOK
  <1>1. MarshalInv => TypeOK
    BY DEF MarshalInv
  <1> QED BY <1>1, MarshalAlways, PTL

(* decode_data finds each request that is well placed as the encoder left   *)
(* it, for any buffers, any number of parameters and any mix of them.       *)
THEOREM RequestsArrive == Spec => []RequestDecoded
  <1>1. MarshalInv => RequestDecoded
    BY DEF MarshalInv
  <1> QED BY <1>1, MarshalAlways, PTL

(* The service finds the response references that are in the buffer, and    *)
(* the caller takes out the service's answer to just the parameter it asks  *)
(* for (otz_client_decode_*, decode_ipi_out_data), however short the        *)
(* service's answers to the parameters before it were; unless the client    *)
(* passed a response array so long that the driver's u32 check wrapped.     *)
THEOREM ResponsesLand == Spec => []ResponseLands
  <1>1. MarshalInv => ResponseLands
    BY DEF MarshalInv
  <1> QED BY <1>1, MarshalAlways, PTL

(* Only a client's reference behind other parameters is written beyond its  *)
(* buffer, or the answer to a response array whose length wrapped the       *)
(* driver's check: never a request's word or array, and nothing that one    *)
(* task sends another.                                                      *)
THEOREM StaysInBuffer == Spec => []InBuffer
  <1>1. MarshalInv => InBuffer
    BY DEF MarshalInv
  <1> QED BY <1>1, MarshalAlways, PTL
=============================================================================
