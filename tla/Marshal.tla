------------------------------ MODULE Marshal ------------------------------
(***************************************************************************)
(* The parameters of one command on their way into a service task and back. *)
(*                                                                          *)
(* A client's parameters are encoded by the driver (otz_client_encode_* of  *)
(* otz_driver/otz_client_main.c) into a request and a response buffer, with *)
(* one meta entry each; a task that calls another task encodes its own with *)
(* otz_encode_data (core/secure_api.c).  The service walks over both with   *)
(* decode_data and leaves its answer in the response; the caller takes it   *)
(* out with otz_client_decode_* or decode_ipi_out_data.  Nobody sends the   *)
(* offsets: every walk computes them again from the meta entries.           *)
(*                                                                          *)
(* A buffer is a function from byte positions to the parameter whose data   *)
(* was written there last.  The addition of a byte offset to a u32 pointer, *)
(* which all code for memory references does, is the multiplication by Word *)
(* in RefAt.  Lengths and offsets are 32 bits wide: the driver adds them as *)
(* u32, and the int of a meta entry holds a long one as a negative number.  *)
(***************************************************************************)
EXTENDS Integers, Sequences

CONSTANTS
    Word,       \* sizeof(u32)
    BufSize,    \* OTZ_1K_SIZE
    MaxReq,     \* OTZ_MAX_REQ_PARAMS
    MaxRes,     \* OTZ_MAX_RES_PARAMS
    Mod,        \* 2^32, the values of a u32
    Lens        \* array lengths clients pass

ASSUME MarshalAssumption ==
    /\ Word \in Nat \ {0} /\ BufSize \in Nat /\ Word <= BufSize
    /\ MaxReq \in Nat /\ MaxRes \in Nat
    /\ Mod \in Nat /\ 2 * BufSize < Mod /\ Lens \subseteq 1..(Mod - 1)
    \* the positions run out before the offsets of words alone do: 12 * 16 <= 1024
    /\ Word * Word * MaxReq <= BufSize /\ Word * Word * MaxRes <= BufSize

Dirs  == {"in", "out"}
Types == {"word", "array", "ref"}
Sides == {"client", "ipc"}

VARIABLES
    side,       \* who encodes: a client through the driver, or a task
    phase,      \* "encode", "serve", "decode", or "done"
    meta,       \* per direction, the meta entries in use
    offset,     \* enc_req_offset, enc_res_offset
    buf,        \* per direction, who wrote each position last, 0 for nobody
    wild,       \* per direction, positions beyond the buffer that were written
    cursor,     \* per direction, offset and position of the service's walk
    got,        \* per direction, whether the service found what was encoded
    back,       \* dec_offset and dec_res_pos of the caller's walk
    result      \* whether the caller found the answer to each response parameter

vars == <<side, phase, meta, offset, buf, wild, cursor, got, back, result>>

Limit(d) == IF d = "in" THEN MaxReq ELSE MaxRes
Cells    == 0..(BufSize - 1)

Entries == [typ : Types, len : Int, ret : Nat]
Walk    == [off : Nat, pos : Nat]

TypeOK ==
    /\ side \in Sides /\ phase \in {"encode", "serve", "decode", "done"}
    /\ meta \in [Dirs -> Seq(Entries)]
    /\ offset \in [Dirs -> 0..BufSize]
    /\ buf \in [Dirs -> [Cells -> 0..(MaxReq + MaxRes)]]
    /\ wild \in [Dirs -> SUBSET Nat]
    /\ cursor \in [Dirs -> Walk] /\ back \in Walk
    /\ got \in [Dirs -> Seq(BOOLEAN)] /\ result \in Seq(BOOLEAN)

Start == [off |-> 0, pos |-> 1]

Init ==
    /\ side \in Sides /\ phase = "encode"
    /\ meta = [d \in Dirs |-> <<>>]
    /\ offset = [d \in Dirs |-> 0]
    /\ buf = [d \in Dirs |-> [c \in Cells |-> 0]]
    /\ wild = [d \in Dirs |-> {}]
    /\ cursor = [d \in Dirs |-> Start] /\ back = Start
    /\ got = [d \in Dirs |-> <<>>] /\ result = <<>>

-----------------------------------------------------------------------------
(* Positions *)

Range(off, len) == off..(off + len - 1)

(* *((u32* )addr + offset) *)
RefAt(off) == Range(Word * off, Word)

(* A u32 assigned to an int. *)
AsInt(n) == IF 2 * n < Mod THEN n ELSE n - Mod

(* How far a parameter moves the offset. *)
Step(typ, len) == IF typ = "array" THEN len ELSE Word

(* Where the encoder puts a parameter: the driver copies words and arrays   *)
(* to addr + offset, otz_encode_data stores everything through a u32        *)
(* pointer.                                                                 *)
EncodeAt(typ, len, off) ==
    IF side = "ipc" \/ typ = "ref" THEN RefAt(off) ELSE Range(off, Step(typ, len))

(* Mutant: the decoder expects words and arrays on word boundaries. *)
DecodeAtAligned(typ, len, off) ==
    IF typ = "ref" THEN RefAt(off) ELSE Range(Word * ((off + Word - 1) \div Word), len)

(* Where a decoder looks for one. *)
DecodeAt(typ, len, off) == IF typ = "ref" THEN RefAt(off) ELSE Range(off, len)

Write(b, cells, who) == [c \in Cells |-> IF c \in cells THEN who ELSE b[c]]

Holds(b, cells, who) == \A c \in cells : c \in Cells /\ b[c] = who

-----------------------------------------------------------------------------
(* Encoding *)

(* enc_req_offset or enc_res_offset, moved on as a u32. *)
Moved(d, typ, len) == (offset[d] + Step(typ, len)) % Mod

(* Mutant: the remaining space is compared with the array's start only. *)
FitsStart(d, typ, len) == offset[d] <= BufSize /\ Len(meta[d]) < Limit(d)

(* Room in the buffer, by the byte offset, and in the meta table.  The sum  *)
(* wraps, so that a length close to Mod fits as well.                       *)
Fits(d, typ, len) == Moved(d, typ, len) <= BufSize /\ Len(meta[d]) < Limit(d)

(* copy_from_user (external): no process has memory of such a length. *)
CanCopy(d, typ, len) == d = "in" /\ typ = "array" => AsInt(len) > 0

(* One encode call.  Requests carry the data; of a response only the        *)
(* address of a memory reference is written by the driver, a task writes    *)
(* its buffer's address in any case.  The length of the memory a reference  *)
(* stands for plays no part.                                                *)
Encode(d, typ, len) ==
    LET n     == Len(meta[d]) + 1
        cells == IF d = "out" /\ side = "client" /\ typ # "ref" THEN {}
                 ELSE EncodeAt(typ, len, offset[d])
    IN  /\ phase = "encode" /\ Fits(d, typ, len) /\ CanCopy(d, typ, len)
        /\ side = "ipc" => typ # "array"
        /\ typ # "array" => len = Word
        /\ buf' = [buf EXCEPT ![d] = Write(@, cells, n)]
        /\ wild' = [wild EXCEPT ![d] = @ \cup (cells \ Cells)]
        /\ offset' = [offset EXCEPT ![d] = Moved(d, typ, len)]
        /\ meta' = [meta EXCEPT ![d] = Append(@, [typ |-> typ, len |-> AsInt(len), ret |-> 0])]
        /\ UNCHANGED <<side, phase, cursor, got, back, result>>

(* -ENOMEM, -EFAULT when a client's array cannot be copied, or a type        *)
(* otz_encode_data does not take: the caller releases the operation, nothing *)
(* is sent.                                                                  *)
EncodeFails(d, typ, len) ==
    /\ phase = "encode"
    /\ ~Fits(d, typ, len) \/ (typ = "array" /\ (side = "ipc" \/ d = "in"))
    /\ phase' = "done"
    /\ UNCHANGED <<side, meta, offset, buf, wild, cursor, got, back, result>>

Send ==
    /\ phase = "encode" /\ phase' = "serve"
    /\ UNCHANGED <<side, meta, offset, buf, wild, cursor, got, back, result>>

-----------------------------------------------------------------------------
(* The service *)

Entry(d) == meta[d][cursor[d].pos]
More(d)  == phase = "serve" /\ cursor[d].pos <= Len(meta[d])

(* The offset and position decode_data hands back. *)
Advance(w, e) == [off |-> w.off + Step(e.typ, e.len), pos |-> w.pos + 1]

(* decode_data finds the address of a memory reference, or the data itself, *)
(* as it was encoded; a response's data is still to be written.             *)
Found(d, e, w) ==
    \/ d = "out" /\ e.typ # "ref"
    \/ Holds(buf[d], DecodeAt(e.typ, e.len, w.off), w.pos)

ServeRequest ==
    /\ More("in")
    /\ got' = [got EXCEPT !["in"] = Append(@, Found("in", Entry("in"), cursor["in"]))]
    /\ cursor' = [cursor EXCEPT !["in"] = Advance(@, Entry("in"))]
    /\ UNCHANGED <<side, phase, meta, offset, buf, wild, back, result>>

update_response_len(pos, n) == meta' = [meta EXCEPT !["out"][pos].ret = n]

(* The service has its requests and writes n bytes of its answer, into the  *)
(* response buffer or through the reference, and reports the length with    *)
(* update_response_len.  No service compares n with a length that, as an    *)
(* int, is negative.                                                        *)
ServeResponse(n) ==
    LET e == Entry("out")
        w == cursor["out"]
    IN  /\ More("out") /\ ~More("in") /\ (n <= e.len \/ e.len < 0)
        /\ e.typ = "word" => n = Word
        /\ got' = [got EXCEPT !["out"] = Append(@, Found("out", e, w))]
        /\ buf' = IF e.typ = "ref" THEN buf
                  ELSE [buf EXCEPT !["out"] = Write(@, Range(w.off, n), w.pos)]
        /\ wild' = IF e.typ = "ref" THEN wild
                   ELSE [wild EXCEPT !["out"] = @ \cup (Range(w.off, n) \ Cells)]
        /\ update_response_len(w.pos, n)
        /\ cursor' = [cursor EXCEPT !["out"] = Advance(@, e)]
        /\ UNCHANGED <<side, phase, offset, back, result>>

Return ==
    /\ phase = "serve" /\ ~More("in") /\ ~More("out")
    /\ phase' = "decode"
    /\ UNCHANGED <<side, meta, offset, buf, wild, cursor, got, back, result>>

-----------------------------------------------------------------------------
(* Mutant: the caller moves on by the length of the answer. *)
AdvanceBackByAnswer(w, e) ==
    [off |-> w.off + (IF e.typ = "array" THEN e.ret ELSE Word), pos |-> w.pos + 1]

(* The new dec_offset and dec_res_pos. *)
AdvanceBack(w, e) == [off |-> w.off + Step(e.typ, e.len), pos |-> w.pos + 1]

(* The caller takes the response apart, one call per parameter it encoded:  *)
(* the library's loop does not rely on the driver to stop it.               *)
DecodeResponse ==
    LET e == meta["out"][back.pos]
    IN  /\ phase = "decode" /\ back.pos <= Len(meta["out"])
        /\ e.typ = "word" \/ e.ret <= e.len
        /\ result' = Append(result,
              e.typ = "ref" \/ Holds(buf["out"], Range(back.off, e.ret), back.pos))
        /\ back' = AdvanceBack(back, e)
        /\ UNCHANGED <<side, phase, meta, offset, buf, wild, cursor, got>>

(* The answer is longer than the int says: -EFAULT, and the library asks    *)
(* for nothing more.                                                        *)
DecodeFails ==
    LET e == meta["out"][back.pos]
    IN  /\ phase = "decode" /\ back.pos <= Len(meta["out"])
        /\ e.typ # "word" /\ e.ret > e.len
        /\ phase' = "done"
        /\ UNCHANGED <<side, meta, offset, buf, wild, cursor, got, back, result>>

Release ==
    /\ phase = "decode" /\ back.pos > Len(meta["out"])
    /\ phase' = "done"
    /\ UNCHANGED <<side, meta, offset, buf, wild, cursor, got, back, result>>

(* A task takes the first response (decode_ipi_out_data) and releases. *)
ReleaseIpc ==
    /\ phase = "decode" /\ side = "ipc" /\ back.pos = 2
    /\ phase' = "done"
    /\ UNCHANGED <<side, meta, offset, buf, wild, cursor, got, back, result>>

Next ==
    \/ \E d \in Dirs, t \in Types, n \in Lens \cup {Word} :
          Encode(d, t, n) \/ EncodeFails(d, t, n)
    \/ Send \/ ServeRequest \/ Return
    \/ \E n \in 1..BufSize : ServeResponse(n)
    \/ DecodeResponse \/ DecodeFails \/ Release \/ ReleaseIpc

Spec == Init /\ [][Next]_vars

-----------------------------------------------------------------------------
(* A parameter whose place does not depend on the pointer arithmetic of     *)
(* references: the first one; for a client words and arrays, which lie at   *)
(* the byte offset; between tasks references, which lie four offsets apart. *)
WellPlaced(d, i) ==
    \/ i = 1
    \/ IF side = "client" THEN meta[d][i].typ # "ref" ELSE meta[d][i].typ = "ref"

(* The service finds these request parameters as they were encoded, however *)
(* they are mixed with the others: what a reference's address overwrites,   *)
(* or what overwrites it, is never one of them.                             *)
RequestDecoded ==
    \A i \in DOMAIN got["in"] : WellPlaced("in", i) => got["in"][i]

(* No length of buffer d was taken for one that fits because the sum        *)
(* wrapped.                                                                 *)
Unwrapped(d) == \A i \in DOMAIN meta[d] : meta[d][i].len >= 0

(* Unless a response array is that long: the service finds every response   *)
(* reference whose address is in the buffer, although the response buffer   *)
(* is encoded, then filled with data over the addresses; and every byte of  *)
(* the answer the caller copies out is the service's answer to just that    *)
(* parameter.                                                               *)
ResponseLands ==
    Unwrapped("out") =>
        /\ \A i \in DOMAIN got["out"] : got["out"][i] \/ wild["out"] # {}
        /\ \A i \in DOMAIN result : result[i]

(* Nothing is written beyond a buffer, unless a client encodes a reference  *)
(* behind other parameters of that buffer, or a response array whose length *)
(* wraps the check.                                                         *)
InBuffer ==
    \A d \in Dirs : wild[d] # {} =>
        /\ side = "client"
        /\ \/ \E i \in DOMAIN meta[d] : ~WellPlaced(d, i)
           \/ d = "out" /\ ~Unwrapped(d)
=============================================================================
