---------------------------- MODULE SwTimerProofs ----------------------------
(* Proofs about the timer framework, for every set of events and durations. *)
EXTENDS SwTimer, TLAPS, WellFoundedInduction, SequenceTheorems

(* A set of positions that is not empty has a least element. *)
LEMMA LeastPosition ==
    ASSUME NEW S, S \subseteq Nat, S # {}
    PROVE  Min(S) \in S /\ \A y \in S : Min(S) <= y
  <1>1. PICK x \in S : \A y \in S : ~(<<y, x>> \in OpToRel(<, Nat))
    BY NatLessThanWellFounded, WFMin
  <1>2. \A y \in S : <<y, x>> \notin {ss \in Nat \X Nat : ss[1] < ss[2]}
    BY <1>1, Zenon DEF OpToRel
  <1>3. ASSUME NEW y \in S PROVE x <= y
    <2>1. x \in Nat /\ y \in Nat /\ <<y, x>> \in Nat \X Nat
      OBVIOUS
    <2>2. ~(<<y, x>>[1] < <<y, x>>[2])
      BY <1>2, <2>1
    <2> QED BY <2>1, <2>2
  <1> QED BY <1>3 DEF Min

(* What InsertAt puts where. *)
LEMMA Inserted ==
    ASSUME NEW S, NEW q \in Seq(S), NEW e \in S, NEW n \in 1..(Len(q) + 1)
    PROVE  /\ InsertAt(q, n, e) \in Seq(S)
           /\ Len(InsertAt(q, n, e)) = Len(q) + 1
           /\ \A j \in 1..(Len(q) + 1) :
                 InsertAt(q, n, e)[j] = IF j < n THEN q[j]
                                        ELSE IF j = n THEN e ELSE q[j - 1]
  <1>0. Len(q) \in Nat /\ n \in Nat
    OBVIOUS
  <1>1. /\ SubSeq(q, 1, n - 1) \in Seq(S) /\ Len(SubSeq(q, 1, n - 1)) = n - 1
        /\ \A j \in 1..(n - 1) : SubSeq(q, 1, n - 1)[j] = q[j]
    OBVIOUS
  <1>2. /\ SubSeq(q, n, Len(q)) \in Seq(S) /\ Len(SubSeq(q, n, Len(q))) = Len(q) - n + 1
        /\ \A j \in 1..(Len(q) - n + 1) : SubSeq(q, n, Len(q))[j] = q[n + j - 1]
    OBVIOUS
  <1>3. <<e>> \in Seq(S) /\ Len(<<e>>) = 1 /\ <<e>>[1] = e
    OBVIOUS
  <1> DEFINE a == SubSeq(q, 1, n - 1)
             b == SubSeq(q, n, Len(q))
             ae == a \o <<e>>
  <1>4. /\ ae \in Seq(S) /\ Len(ae) = n
        /\ \A j \in 1..n : ae[j] = IF j < n THEN q[j] ELSE e
    <2> HIDE DEF a
    <2> QED BY <1>1, <1>3 DEF a
  <1>5. InsertAt(q, n, e) = ae \o b
    BY DEF InsertAt
  <1>6. /\ ae \o b \in Seq(S) /\ Len(ae \o b) = Len(q) + 1
        /\ \A j \in 1..(Len(q) + 1) :
              (ae \o b)[j] = IF j < n THEN q[j] ELSE IF j = n THEN e ELSE q[j - 1]
    <2> HIDE DEF ae, b
    <2>1. b \in Seq(S) /\ Len(b) = Len(q) - n + 1
          /\ \A j \in 1..(Len(q) - n + 1) : b[j] = q[n + j - 1]
      BY <1>2 DEF b
    <2>2. ae \o b \in Seq(S) /\ Len(ae \o b) = Len(q) + 1
      <3>1. ae \o b \in Seq(S) /\ Len(ae \o b) = Len(ae) + Len(b)
        BY <2>1, <1>4, ConcatProperties
      <3>2. n + (Len(q) - n + 1) = Len(q) + 1
        BY <1>0
      <3> QED BY <3>1, <3>2, <2>1, <1>4
    <2>3. ASSUME NEW j \in 1..(Len(q) + 1)
          PROVE (ae \o b)[j] = IF j < n THEN q[j] ELSE IF j = n THEN e ELSE q[j - 1]
      <3>1. (ae \o b)[j] = IF j <= n THEN ae[j] ELSE b[j - n]
        BY <2>1, <1>4, <2>2, ConcatProperties
      <3>2. CASE j <= n
        BY <3>1, <3>2, <1>4
      <3>3. CASE j > n
        <4>1. j - n \in 1..(Len(q) - n + 1) /\ n + (j - n) - 1 = j - 1
          BY <3>3
        <4>2. b[j - n] = q[j - 1]
          BY <4>1, <2>1
        <4> QED BY <4>2, <3>1, <3>3, <1>0
      <3>4. j <= n \/ j > n
        BY <1>0
      <3> QED BY <3>2, <3>3, <3>4
    <2> QED BY <2>2, <2>3
  <1> QED BY <1>5, <1>6

(* timer_queue_add keeps the list sorted and adds its event to it. *)
LEMMA QueueAdd ==
    ASSUME NEW q \in Seq(Events), NEW e \in Events, NEW exp \in [Events -> Nat],
           Sorted(q, exp), e \notin Range(q)
    PROVE  LET r == timer_queue_add(q, e, exp)
           IN  /\ r \in Seq(Events) /\ r # <<>>
               /\ Sorted(r, exp) /\ Range(r) = Range(q) \cup {e}
  <1> DEFINE r == timer_queue_add(q, e, exp)
             later == {i \in 1..Len(q) : exp[e] < exp[q[i]]}
  <1>0. Len(q) \in Nat /\ \A i \in 1..Len(q) : q[i] \in Events /\ exp[q[i]] \in Nat
    OBVIOUS
  <1>1. \E n \in 1..(Len(q) + 1) :
           /\ r \in Seq(Events) /\ Len(r) = Len(q) + 1
           /\ \A j \in 1..(Len(q) + 1) :
                 r[j] = IF j < n THEN q[j] ELSE IF j = n THEN e ELSE q[j - 1]
           /\ \A j \in 1..Len(q) : IF j < n THEN exp[q[j]] <= exp[e]
                                            ELSE exp[e] <= exp[q[j]]
    <2>1. CASE later = {}
      <3>1. r = Append(q, e)
        BY <2>1 DEF timer_queue_add
      <3>2. /\ r \in Seq(Events) /\ Len(r) = Len(q) + 1
            /\ \A j \in 1..(Len(q) + 1) : r[j] = IF j < Len(q) + 1 THEN q[j] ELSE e
        BY <3>1, AppendProperties, <1>0
      <3>3. \A j \in 1..Len(q) : exp[q[j]] <= exp[e]
        BY <2>1, <1>0
      <3> QED BY <3>2, <3>3, <1>0
    <2>2. CASE later # {}
      <3> DEFINE n == Min(later)
      <3>1. n \in later /\ \A i \in later : n <= i
        <4>1. later \subseteq Nat
          BY <1>0
        <4> HIDE DEF later
        <4> QED BY <4>1, <2>2, LeastPosition
      <3>2. r = InsertAt(q, n, e)
        BY <2>2 DEF timer_queue_add
      <3> HIDE DEF n, r
      <3>3. n \in 1..Len(q) /\ n \in 1..(Len(q) + 1) /\ exp[e] < exp[q[n]]
        BY <3>1, <1>0
      <3>4. \A j \in 1..Len(q) : j < n => exp[q[j]] <= exp[e]
        BY <3>1, <3>3, <1>0
      <3>5. \A j \in 1..Len(q) : j >= n => exp[e] <= exp[q[j]]
        BY <3>3, <1>0 DEF Sorted
      <3>6. /\ r \in Seq(Events) /\ Len(r) = Len(q) + 1
            /\ \A j \in 1..(Len(q) + 1) :
                  r[j] = IF j < n THEN q[j] ELSE IF j = n THEN e ELSE q[j - 1]
        <4>1. n \in 1..(Len(q) + 1)
          BY <3>3
        <4>2. /\ InsertAt(q, n, e) \in Seq(Events)
              /\ Len(InsertAt(q, n, e)) = Len(q) + 1
              /\ \A j \in 1..(Len(q) + 1) :
                    InsertAt(q, n, e)[j] = IF j < n THEN q[j]
                                           ELSE IF j = n THEN e ELSE q[j - 1]
          BY ONLY <4>1, q \in Seq(Events), e \in Events, Inserted
        <4> QED BY <4>2, <3>2, Zenon
      <3>7. \A j \in 1..Len(q) : j < n \/ j >= n
        BY <3>3, <1>0
      <3> QED BY <3>3, <3>4, <3>5, <3>6, <3>7
    <2> QED BY <2>1, <2>2
  <1> HIDE DEF r
  <1>2. PICK n \in 1..(Len(q) + 1) :
           /\ r \in Seq(Events) /\ Len(r) = Len(q) + 1
           /\ \A j \in 1..(Len(q) + 1) :
                 r[j] = IF j < n THEN q[j] ELSE IF j = n THEN e ELSE q[j - 1]
           /\ \A j \in 1..Len(q) : IF j < n THEN exp[q[j]] <= exp[e]
                                            ELSE exp[e] <= exp[q[j]]
    BY <1>1
  <1>3. r # <<>>
    BY <1>2, <1>0
  <1>4. \A j \in 1..Len(q) : q[j] # e
    BY <1>0 DEF Range
  <1>5. Sorted(r, exp)
    <2> SUFFICES ASSUME NEW i \in 1..(Len(q) + 1), NEW j \in 1..(Len(q) + 1), i < j
                 PROVE  r[i] # r[j] /\ exp[r[i]] <= exp[r[j]]
      BY <1>2 DEF Sorted
    <2>1. CASE j < n
      <3>1. r[i] = q[i] /\ r[j] = q[j] /\ i \in 1..Len(q) /\ j \in 1..Len(q)
        BY <2>1, <1>2, <1>0
      <3> QED BY <3>1 DEF Sorted
    <2>2. CASE j = n
      <3>1. r[i] = q[i] /\ r[j] = e /\ i \in 1..Len(q) /\ i < n
        BY <2>2, <1>2, <1>0
      <3> QED BY <3>1, <1>2, <1>4
    <2>3. CASE j > n /\ i < n
      <3>1. r[i] = q[i] /\ r[j] = q[j - 1] /\ i \in 1..Len(q) /\ j - 1 \in 1..Len(q)
            /\ i < j - 1
        BY <2>3, <1>2, <1>0
      <3> QED BY <3>1 DEF Sorted
    <2>4. CASE j > n /\ i = n
      <3>1. r[i] = e /\ r[j] = q[j - 1] /\ j - 1 \in 1..Len(q) /\ ~(j - 1 < n)
        BY <2>4, <1>2, <1>0
      <3> QED BY <3>1, <1>2, <1>4
    <2>5. CASE j > n /\ i > n
      <3>1. r[i] = q[i - 1] /\ r[j] = q[j - 1] /\ i - 1 \in 1..Len(q)
            /\ j - 1 \in 1..Len(q) /\ i - 1 < j - 1
        BY <2>5, <1>2, <1>0
      <3> QED BY <3>1 DEF Sorted
    <2>6. j < n \/ j = n \/ (j > n /\ i < n) \/ (j > n /\ i = n) \/ (j > n /\ i > n)
      BY <1>0
    <2> QED BY <2>1, <2>2, <2>3, <2>4, <2>5, <2>6
  <1>6. Range(r) = Range(q) \cup {e}
    <2>0. DOMAIN r = 1..(Len(q) + 1) /\ DOMAIN q = 1..Len(q)
      BY <1>2
    <2>1. ASSUME NEW x \in Range(r) PROVE x \in Range(q) \cup {e}
      <3>1. PICK j \in 1..(Len(q) + 1) : x = r[j]
        BY <2>0 DEF Range
      <3>2. x = e \/ (j < n /\ x = q[j]) \/ (j > n /\ x = q[j - 1])
        BY <3>1, <1>2, <1>0
      <3>3. x = e \/ \E k \in 1..Len(q) : x = q[k]
        <4>1. CASE j < n
          BY <4>1, <3>2, <1>0
        <4>2. CASE j > n
          <5>1. j - 1 \in 1..Len(q)
            BY <4>2, <1>0
          <5> QED BY <5>1, <4>2, <3>2, <1>0
        <4> QED BY <4>1, <4>2, <3>2
      <3> QED BY <3>3, <2>0 DEF Range
    <2>2. ASSUME NEW x \in Range(q) \cup {e} PROVE x \in Range(r)
      <3>1. CASE x = e
        <4>1. r[n] = e
          BY <1>2, <1>0
        <4> QED BY <3>1, <4>1, <2>0 DEF Range
      <3>2. CASE x \in Range(q)
        <4>1. PICK k \in 1..Len(q) : x = q[k]
          BY <3>2, <2>0 DEF Range
        <4>2. CASE k < n
          <5>1. k \in 1..(Len(q) + 1)
            BY <1>0
          <5>2. r[k] = q[k]
            BY <5>1, <4>2, <1>2
          <5> QED BY <5>1, <5>2, <4>1, <2>0 DEF Range
        <4>3. CASE k >= n
          <5>1. k + 1 \in 1..(Len(q) + 1) /\ k + 1 > n /\ (k + 1) - 1 = k
            BY <4>3, <1>0
          <5>2. r[k + 1] = q[k]
            BY <5>1, <1>2
          <5> QED BY <5>1, <5>2, <4>1, <2>0 DEF Range
        <4> QED BY <4>2, <4>3, <1>0
      <3> QED BY <3>1, <3>2
    <2> QED BY <2>1, <2>2
  <1> QED BY <1>2, <1>3, <1>5, <1>6 DEF r

(* Taking the first event off the list. *)
LEMMA QueueTail ==
    ASSUME NEW q \in Seq(Events), q # <<>>, NEW exp \in [Events -> Nat], Sorted(q, exp)
    PROVE  /\ Head(q) \in Events /\ Tail(q) \in Seq(Events)
           /\ Sorted(Tail(q), exp)
           /\ Range(q) = Range(Tail(q)) \cup {Head(q)} /\ Head(q) \notin Range(Tail(q))
  <1>0. /\ Len(q) \in Nat \ {0} /\ Head(q) = q[1] /\ Tail(q) \in Seq(Events)
        /\ Len(Tail(q)) = Len(q) - 1 /\ Head(q) \in Events
        /\ \A i \in 1..(Len(q) - 1) : Tail(q)[i] = q[i + 1]
    OBVIOUS
  <1>1. Sorted(Tail(q), exp)
    <2> SUFFICES ASSUME NEW i \in 1..(Len(q) - 1), NEW j \in 1..(Len(q) - 1), i < j
                 PROVE  /\ Tail(q)[i] # Tail(q)[j]
                        /\ exp[Tail(q)[i]] <= exp[Tail(q)[j]]
      BY <1>0 DEF Sorted
    <2>1. i + 1 \in 1..Len(q) /\ j + 1 \in 1..Len(q) /\ i + 1 < j + 1
      BY <1>0
    <2> QED BY <2>1, <1>0 DEF Sorted
  <1>2. DOMAIN q = 1..Len(q) /\ DOMAIN Tail(q) = 1..(Len(q) - 1)
    BY <1>0
  <1>3. ASSUME NEW x \in Range(q) PROVE x = q[1] \/ x \in Range(Tail(q))
    <2>1. PICK k \in 1..Len(q) : x = q[k]
      BY <1>2 DEF Range
    <2>2. CASE k # 1
      <3>1. k - 1 \in 1..(Len(q) - 1) /\ (k - 1) + 1 = k
        BY <2>2, <1>0
      <3>2. Tail(q)[k - 1] = q[k]
        BY <3>1, <1>0
      <3> QED BY <3>1, <3>2, <2>1, <1>2 DEF Range
    <2> QED BY <2>1, <2>2
  <1>4. ASSUME NEW x \in Range(Tail(q)) PROVE x \in Range(q) /\ x # q[1]
    <2>1. PICK k \in 1..(Len(q) - 1) : x = Tail(q)[k]
      BY <1>2 DEF Range
    <2>2. x = q[k + 1] /\ k + 1 \in 1..Len(q) /\ 1 < k + 1 /\ 1 \in 1..Len(q)
      BY <2>1, <1>0
    <2> QED BY <2>2, <1>2 DEF Range, Sorted
  <1>5. q[1] \in Range(q)
    BY <1>2, <1>0 DEF Range
  <1> QED BY <1>0, <1>1, <1>3, <1>4, <1>5

(* The tick is never programmed with 0 cycles. *)
LEMMA CyclesType ==
    ASSUME NEW time \in Int, NEW lost \in 0..Rounding
    PROVE  Cycles(time, lost) \in Nat \ {0}
  <1>1. time - lost \in Int /\ (time - lost) % CounterMod \in Nat
    BY TimerAssumption
  <1> QED BY <1>1 DEF Cycles

(* program_tick_for_event arms the tick. *)
LEMMA Programmed ==
    ASSUME now \in Nat, NEW x \in Nat, program_tick_for_event(x)
    PROVE  expiresNext' = x /\ tick' \in Nat /\ tick' # NoTick
  <1>1. PICK lost \in 0..Rounding : tick' = now + Cycles(x - now, lost)
    BY DEF program_tick_for_event
  <1>2. Cycles(x - now, lost) \in Nat \ {0}
    BY CyclesType
  <1>3. expiresNext' = x
    BY DEF program_tick_for_event
  <1> HIDE DEF program_tick_for_event
  <1> QED BY <1>1, <1>2, <1>3 DEF NoTick

(* A step that leaves the list, its events and the times alone keeps the    *)
(* list consistent.                                                         *)
LEMMA SameQueue ==
    ASSUME QueueConsistent, UNCHANGED <<queue, state, expires>>
    PROVE  QueueConsistent'
  BY DEF QueueConsistent, Queued

(* The handler's timer_event_start. *)
LEMMA RestartInv ==
    ASSUME TypeOK, TimerInv, NEW e \in Events, NEW d \in Nat, NEW q \in Seq(Events),
           inIrq, UNCHANGED <<now, inIrq, taskVars>>,
           Sorted(q, expires), e \notin Range(q),
           Range(q) \cup {e} = {f \in Events : state[f] = "ACTIVE"},
           now + d < TimevalMax, Restart(e, d, q)
    PROVE  TypeOK' /\ TimerInv'
  <1> DEFINE x == now + d
             exp == [expires EXCEPT ![e] = x]
  <1>1. x \in Nat /\ now \in Nat /\ exp \in [Events -> Nat] /\ x < TimevalMax
    BY DEF TypeOK
  <1>2. /\ expires' = exp /\ duration' = [duration EXCEPT ![e] = x]
        /\ queue' = timer_queue_add(q, e, exp)
        /\ state' = [state EXCEPT ![e] = "ACTIVE"]
        /\ IF expiresNext > x THEN program_tick_for_event(x)
                              ELSE UNCHANGED <<expiresNext, tick>>
    BY DEF Restart
  <1>3. \A i \in 1..Len(q) : q[i] \in Events /\ q[i] # e /\ exp[q[i]] = expires[q[i]]
    <2>1. \A i \in 1..Len(q) : q[i] \in Events /\ q[i] \in Range(q)
      BY DEF Range
    <2> QED BY <2>1 DEF TypeOK
  <1>4. Sorted(q, exp)
    BY <1>3 DEF Sorted
  <1> HIDE DEF x, exp
  <1>5. /\ queue' \in Seq(Events) /\ queue' # <<>>
        /\ Sorted(queue', exp) /\ Range(queue') = Range(q) \cup {e}
    BY <1>1, <1>2, <1>4, QueueAdd
  <1>6. /\ expiresNext' \in Nat /\ tick' \in Nat \cup {NoTick}
    BY <1>1, <1>2, Programmed DEF TypeOK
  <1>7. TypeOK'
    <2>1. duration' \in [Events -> Nat] /\ state' \in [Events -> {"free", "INACTIVE", "ACTIVE"}]
      BY <1>1, <1>2 DEF TypeOK
    <2>2. expires' \in [Events -> Nat] /\ queue' \in Seq(Events)
      BY <1>1, <1>2, <1>5
    <2> QED BY <2>1, <2>2, <1>6 DEF TypeOK, taskVars
  <1>8. QueueConsistent'
    <2>1. {f \in Events : state'[f] = "ACTIVE"} = {f \in Events : state[f] = "ACTIVE"} \cup {e}
      BY <1>2 DEF TypeOK
    <2>2. Range(queue') = {f \in Events : state'[f] = "ACTIVE"}
      BY <2>1, <1>5
    <2> QED BY <2>2, <1>2, <1>5 DEF QueueConsistent, Queued
  <1>9. e \in {f \in Events : state[f] = "ACTIVE"}
    OBVIOUS
  <1>10. inIrq' /\ NoEventStranded'
    BY DEF NoEventStranded
  <1>11. pc' = "add" => state'[ev'] = "INACTIVE"
    BY <1>2, <1>9 DEF TimerInv, taskVars, TypeOK
  <1>12. pc' \in {"add", "check"} => expires'[ev'] < TimevalMax
    BY <1>1, <1>2 DEF TimerInv, taskVars, TypeOK, exp
  <1> QED BY <1>7, <1>8, <1>10, <1>11, <1>12 DEF TimerInv

(* init_sw_timer establishes the invariant. *)
LEMMA TimerInitInv == Init => TypeOK /\ TimerInv
  <1> SUFFICES ASSUME Init PROVE TypeOK /\ TimerInv
    OBVIOUS
  <1>1. TypeOK
    <2>1. /\ state \in [Events -> {"free", "INACTIVE", "ACTIVE"}]
          /\ duration \in [Events -> Nat] /\ inIrq \in BOOLEAN
      BY DEF Init
    <2>2. expires \in [Events -> Nat]
      BY TimerAssumption DEF Init
    <2>3. now \in Nat /\ queue \in Seq(Events) /\ expiresNext \in Nat
          /\ tick \in Nat \cup {NoTick} /\ pc \in {"idle", "add", "check", "program"}
          /\ ev \in Events
      BY TimerAssumption DEF Init
    <2> QED BY <2>1, <2>2, <2>3 DEF TypeOK
  <1>2. Sorted(queue, expires) /\ Queued = {}
    BY DEF Init, Sorted, Queued, Range
  <1> QED BY <1>1, <1>2 DEF Init, TimerInv, QueueConsistent, NoEventStranded

(* The steps of a task inside timer_event_start. *)
LEMMA TaskStepInv ==
    ASSUME TypeOK, TimerInv, Start \/ Task
    PROVE  TypeOK' /\ TimerInv'
  <1>1. CASE Start
    <2>1. PICK e \in Events, d \in Delays \cup {Period} : StartEvent(e, d)
      BY <1>1 DEF Start
    <2>2. d \in Nat /\ now + d \in Nat /\ now + d < TimevalMax
      BY <2>1, TimerAssumption DEF StartEvent, TypeOK
    <2>3. TypeOK'
      BY <2>1, <2>2 DEF StartEvent, TypeOK
    <2>4. e \notin Queued
      BY <2>1 DEF StartEvent, TimerInv, QueueConsistent
    <2>5. Sorted(queue, expires')
      <3>1. \A i \in 1..Len(queue) : queue[i] \in Queued /\ queue[i] \in Events
        BY DEF TypeOK, Queued, Range
      <3>2. \A i \in 1..Len(queue) : expires'[queue[i]] = expires[queue[i]]
        BY <2>1, <2>4, <3>1 DEF StartEvent, TypeOK
      <3> QED BY <3>2 DEF Sorted, TimerInv, QueueConsistent
    <2>6. QueueConsistent'
      BY <2>1, <2>5 DEF StartEvent, TypeOK, TimerInv, QueueConsistent, Queued
    <2>7. NoEventStranded'
      BY <2>1 DEF StartEvent, TimerInv, NoEventStranded
    <2>8. state'[ev'] = "INACTIVE" /\ expires'[ev'] < TimevalMax
      BY <2>1, <2>2 DEF StartEvent, TypeOK
    <2> QED BY <2>1, <2>3, <2>6, <2>7, <2>8 DEF TimerInv, StartEvent
  <1>2. CASE StartAdd
    <2>1. ev \notin Range(queue)
      BY <1>2 DEF StartAdd, TimerInv, QueueConsistent, Queued
    <2>2. /\ queue' \in Seq(Events) /\ queue' # <<>>
          /\ Sorted(queue', expires) /\ Range(queue') = Range(queue) \cup {ev}
      BY <1>2, <2>1, QueueAdd DEF StartAdd, TypeOK, TimerInv, QueueConsistent
    <2>3. TypeOK'
      BY <1>2, <2>2 DEF StartAdd, TypeOK
    <2>4. {f \in Events : state'[f] = "ACTIVE"} = {f \in Events : state[f] = "ACTIVE"} \cup {ev}
      BY <1>2 DEF StartAdd, TypeOK
    <2>5. QueueConsistent'
      BY <1>2, <2>2, <2>4 DEF StartAdd, TimerInv, QueueConsistent, Queued
    <2> QED BY <1>2, <2>3, <2>5 DEF StartAdd, TimerInv, NoEventStranded
  <1>3. CASE StartCheck
    <2>1. TypeOK'
      BY <1>3 DEF StartCheck, TypeOK
    <2>2. QueueConsistent'
      BY <1>3, SameQueue DEF StartCheck, TimerInv
    <2>3. NoEventStranded'
      <3>1. CASE expiresNext > expires[ev]
        BY <1>3, <3>1 DEF StartCheck, NoEventStranded
      <3>2. CASE ~(expiresNext > expires[ev])
        <4>1. expiresNext # TimevalMax
          BY <1>3, <3>2, TimerAssumption DEF StartCheck, TimerInv, TypeOK
        <4> QED BY <1>3, <4>1 DEF StartCheck, TimerInv, NoEventStranded
      <3> QED BY <3>1, <3>2
    <2> QED BY <1>3, <2>1, <2>2, <2>3 DEF StartCheck, TimerInv
  <1>4. CASE StartProgram
    <2>1. expiresNext' = expires[ev] /\ tick' \in Nat /\ tick' # NoTick
      BY <1>4, Programmed DEF StartProgram, TypeOK
    <2>2. TypeOK'
      BY <1>4, <2>1 DEF StartProgram, TypeOK
    <2>3. QueueConsistent'
      BY <1>4, SameQueue DEF StartProgram, TimerInv
    <2> QED BY <1>4, <2>1, <2>2, <2>3 DEF StartProgram, TimerInv, NoEventStranded
  <1> QED BY <1>1, <1>2, <1>3, <1>4 DEF Task

(* The rounds of timer_interrupt. *)
LEMMA IrqInv ==
    ASSUME TypeOK, TimerInv, Irq
    PROVE  TypeOK' /\ TimerInv'
  <1>1. CASE IrqRun
    <2> DEFINE e == Head(queue)
               q == Tail(queue)
    <2>1. /\ e \in Events /\ q \in Seq(Events) /\ Sorted(q, expires)
          /\ Range(queue) = Range(q) \cup {e} /\ e \notin Range(q)
      BY <1>1, QueueTail DEF IrqRun, TypeOK, TimerInv, QueueConsistent
    <2>2. Range(q) \cup {e} = {f \in Events : state[f] = "ACTIVE"}
      BY <2>1 DEF TimerInv, QueueConsistent, Queued
    <2>3. inIrq /\ UNCHANGED <<now, inIrq, taskVars>> /\ RunHandler(e, q)
      BY <1>1 DEF IrqRun
    <2> HIDE DEF e, q
    <2>4. ASSUME NEW s \in {"free", "INACTIVE"}, state' = [state EXCEPT ![e] = s],
                 queue' = q, UNCHANGED <<expires, duration, expiresNext, tick>>
          PROVE  TypeOK' /\ TimerInv'
      <3>1. TypeOK'
        BY <2>1, <2>3, <2>4 DEF TypeOK, taskVars
      <3>2. {f \in Events : state'[f] = "ACTIVE"} = {f \in Events : state[f] = "ACTIVE"} \ {e}
        BY <2>1, <2>4 DEF TypeOK
      <3>3. QueueConsistent'
        BY <2>1, <2>2, <2>4, <3>2 DEF QueueConsistent, Queued
      <3>4. pc' = "add" => state'[ev'] = "INACTIVE"
        <4>1. state[e] = "ACTIVE"
          BY <2>2, <2>1
        <4> QED BY <4>1, <2>1, <2>3, <2>4 DEF TimerInv, taskVars, TypeOK
      <3> QED BY <2>3, <2>4, <3>1, <3>3, <3>4 DEF TimerInv, NoEventStranded, taskVars
    <2>5. CASE \E d \in Nat : now + d < TimevalMax /\ Restart(e, d, q)
      BY <2>1, <2>2, <2>3, <2>5, RestartInv
    <2>6. \/ \E d \in Nat : now + d < TimevalMax /\ Restart(e, d, q)
          \/ /\ \E s \in {"free", "INACTIVE"} : state' = [state EXCEPT ![e] = s]
             /\ queue' = q /\ UNCHANGED <<expires, duration, expiresNext, tick>>
      <3>1. duration[e] \in Nat /\ Period \in Nat
        BY <2>1, TimerAssumption DEF TypeOK
      <3>2. now <= Horizon => now + Period < TimevalMax
        BY TimerAssumption DEF TypeOK
      <3> QED BY <2>3, <3>1, <3>2 DEF RunHandler
    <2> QED BY <2>4, <2>5, <2>6
  <1>2. CASE IrqAgain
    <2>1. PICK lost \in 0..Rounding :
             tick' = now + Cycles(expires[Head(queue)] - now, lost)
      BY <1>2 DEF IrqAgain
    <2>2. Head(queue) \in Events
      BY <1>2 DEF IrqAgain, TypeOK
    <2>3. expires[Head(queue)] - now \in Int /\ now \in Nat
      BY <2>2 DEF TypeOK
    <2>4. Cycles(expires[Head(queue)] - now, lost) \in Nat \ {0}
      BY <2>3, CyclesType
    <2>5. tick' \in Nat /\ tick' # NoTick
      BY <2>1, <2>3, <2>4 DEF NoTick
    <2>6. TypeOK'
      BY <1>2, <2>5, TimerAssumption DEF IrqAgain, TypeOK, taskVars
    <2>7. QueueConsistent'
      BY <1>2, SameQueue DEF IrqAgain, TimerInv
    <2> QED BY <1>2, <2>5, <2>6, <2>7 DEF IrqAgain, TimerInv, NoEventStranded, taskVars
  <1>3. CASE IrqEmpty
    <2>1. TypeOK'
      BY <1>3, TimerAssumption DEF IrqEmpty, TypeOK, taskVars
    <2>2. QueueConsistent'
      BY <1>3, SameQueue DEF IrqEmpty, TimerInv
    <2> QED BY <1>3, <2>1, <2>2 DEF IrqEmpty, TimerInv, NoEventStranded, taskVars
  <1> QED BY <1>1, <1>2, <1>3 DEF Irq

(* The inductive step. *)
LEMMA TimerStepInv == TypeOK /\ TimerInv /\ [Next]_vars => TypeOK' /\ TimerInv'
  <1> SUFFICES ASSUME TypeOK, TimerInv, [Next]_vars PROVE TypeOK' /\ TimerInv'
    OBVIOUS
  <1>1. CASE TickFires
    <2>1. TypeOK'
      BY <1>1 DEF TickFires, TypeOK, taskVars
    <2>2. QueueConsistent'
      BY <1>1, SameQueue DEF TickFires, TimerInv
    <2> QED BY <1>1, <2>1, <2>2 DEF TickFires, TimerInv, NoEventStranded, taskVars
  <1>2. CASE TimePasses
    <2>1. TypeOK'
      BY <1>2 DEF TimePasses, TypeOK, taskVars
    <2>2. QueueConsistent'
      BY <1>2, SameQueue DEF TimePasses, TimerInv
    <2> QED BY <1>2, <2>1, <2>2 DEF TimePasses, TimerInv, NoEventStranded, taskVars
  <1>3. CASE UNCHANGED vars
    <2>1. TypeOK'
      BY <1>3 DEF vars, TypeOK
    <2>2. QueueConsistent'
      BY <1>3, SameQueue DEF vars, TimerInv
    <2> QED BY <1>3, <2>1, <2>2 DEF vars, TimerInv, NoEventStranded
  <1> QED BY <1>1, <1>2, <1>3, TaskStepInv, IrqInv DEF Next

(* The timer framework's state keeps its types. *)
THEOREM TimerTypeCorrect == Spec => []TypeOK
  <1>1. Spec => [](TypeOK /\ TimerInv)
    BY TimerInitInv, TimerStepInv, PTL DEF Spec
  <1> QED BY <1>1, PTL

(* timer_queue_add, the timer interrupt and the handlers keep the list      *)
(* sorted and exactly the active events in it, wherever the FIQ interrupts  *)
(* timer_event_start.                                                       *)
THEOREM QueueSound == Spec => []QueueConsistent
  <1>1. Spec => [](TypeOK /\ TimerInv)
    BY TimerInitInv, TimerStepInv, PTL DEF Spec
  <1>2. TimerInv => QueueConsistent
    BY DEF TimerInv
  <1> QED BY <1>1, <1>2, PTL

(* No active event is left without a tick, for any number of events and any *)
(* durations, although timer_interrupt resets expires_next while the tick   *)
(* is armed: the tick may be late, it is never missing.                     *)
THEOREM TickNeverMissing == Spec => []NoEventStranded
  <1>1. Spec => [](TypeOK /\ TimerInv)
    BY TimerInitInv, TimerStepInv, PTL DEF Spec
  <1>2. TimerInv => NoEventStranded
    BY DEF TimerInv
  <1> QED BY <1>1, <1>2, PTL

(* The inductive invariant of the timer framework. *)
THEOREM TimerSound == Spec => []TimerInv
  <1>1. Spec => [](TypeOK /\ TimerInv)
    BY TimerInitInv, TimerStepInv, PTL DEF Spec
  <1> QED BY <1>1, PTL

-----------------------------------------------------------------------------
(* An event that is alone is in time. *)

(* The tick comes no later than x, or at once. *)
InTime(x) == tick <= x \/ tick <= now + 1

(* What keeps a lone event in time: expires_next is never earlier than the  *)
(* tick, and an event that was run while timer_event_start was still busy   *)
(* with it is a thing of the past.                                          *)
LoneInv ==
    /\ expiresNext # TimevalMax => InTime(expiresNext)
    /\ pc \in {"check", "program"} => state[ev] = "ACTIVE" \/ expires[ev] <= now + 1
    /\ (Len(queue) = 1 /\ ~inIrq /\ pc \in {"idle", "add"}) => InTime(expires[queue[1]])

(* The remainder cut to the counter's width is no larger than the time.     *)
LEMMA CyclesBound ==
    ASSUME NEW time \in Int, NEW lost \in 0..Rounding
    PROVE  Cycles(time, lost) <= time \/ Cycles(time, lost) = 1
  <1> DEFINE a == time - lost
             c == a % CounterMod
             n == a \div CounterMod
  <1>0. CounterMod \in Nat \ {0} /\ Rounding \in Nat
    BY TimerAssumption
  <1>1. a \in Int /\ lost \in Nat
    BY <1>0
  <1>2. CASE a <= 0 \/ c = 0
    BY <1>2 DEF Cycles
  <1>3. CASE a > 0 /\ c # 0
    <2>1. Cycles(time, lost) = c
      BY <1>1, <1>3 DEF Cycles
    <2>2. a \in Nat
      BY <1>1, <1>3
    <2> HIDE DEF a
    <2>3. c \in 0 .. CounterMod - 1 /\ n \in Int /\ n * CounterMod + c = a
      BY <1>0, <2>2
    <2> HIDE DEF c, n
    <2>4. n >= 0
      BY <2>2, <2>3, <1>0
    <2>5. n * CounterMod >= 0
      BY <2>3, <2>4, <1>0
    <2>6. c <= a
      BY <2>2, <2>3, <2>5, <1>0
    <2>7. a <= time
      BY <1>1 DEF a
    <2> QED BY <2>1, <2>2, <2>3, <2>6, <2>7, <1>0
  <1> QED BY <1>1, <1>2, <1>3, <1>0

(* program_tick_for_event is in time for what it is given. *)
LEMMA ProgrammedInTime ==
    ASSUME now \in Nat, NEW x \in Nat, program_tick_for_event(x)
    PROVE  expiresNext' = x /\ tick' \in Nat /\ (tick' <= x \/ tick' <= now + 1)
  <1>1. PICK lost \in 0..Rounding : tick' = now + Cycles(x - now, lost)
    BY DEF program_tick_for_event
  <1>2. Cycles(x - now, lost) \in Nat \ {0}
    BY CyclesType
  <1>3. Cycles(x - now, lost) <= x - now \/ Cycles(x - now, lost) = 1
    BY CyclesBound
  <1>4. expiresNext' = x
    BY DEF program_tick_for_event
  <1> HIDE DEF program_tick_for_event
  <1> QED BY <1>1, <1>2, <1>3, <1>4

(* At the start no event is active. *)
LEMMA LoneInit == Init => LoneInv
  BY DEF Init, LoneInv

(* A handler's timer_event_start, inside the interrupt. *)
LEMMA LoneRestart ==
    ASSUME TypeOK, LoneInv, NEW e \in Events, NEW d \in Nat, NEW q,
           inIrq, UNCHANGED <<now, inIrq, taskVars>>, Restart(e, d, q)
    PROVE  LoneInv'
  <1>1. /\ expires' = [expires EXCEPT ![e] = now + d]
        /\ state' = [state EXCEPT ![e] = "ACTIVE"]
        /\ IF expiresNext > now + d THEN program_tick_for_event(now + d)
                                    ELSE UNCHANGED <<expiresNext, tick>>
    BY DEF Restart
  <1>2. now + d \in Nat /\ now \in Nat
    BY DEF TypeOK
  <1>3. (expiresNext # TimevalMax => InTime(expiresNext))'
    <2>1. CASE expiresNext > now + d
      BY <1>1, <1>2, <2>1, ProgrammedInTime DEF InTime
    <2>2. CASE ~(expiresNext > now + d)
      BY <1>1, <2>2 DEF LoneInv, InTime
    <2> QED BY <2>1, <2>2
  <1>4. (pc \in {"check", "program"} => state[ev] = "ACTIVE" \/ expires[ev] <= now + 1)'
    BY <1>1 DEF LoneInv, taskVars, TypeOK
  <1> QED BY <1>3, <1>4 DEF LoneInv, taskVars

(* A queue of one element holds that element and no other. *)
LEMMA QueuedLone ==
    ASSUME TypeOK, Len(queue) = 1
    PROVE  queue[1] \in Events /\ Queued = {queue[1]}
  <1>1. queue \in Seq(Events) /\ 1 \in 1 .. Len(queue)
    BY DEF TypeOK
  <1>2. DOMAIN queue = 1 .. Len(queue)
    BY <1>1
  <1>3. 1 .. Len(queue) = {1}
    OBVIOUS
  <1>4. DOMAIN queue = {1}
    BY <1>2, <1>3
  <1>5. queue[1] \in Events
    BY <1>1
  <1> QED BY <1>4, <1>5 DEF Queued, Range

(* Every step keeps the lone event in time. *)
LEMMA LoneStep == TypeOK /\ TimerInv /\ LoneInv /\ [Next]_vars => LoneInv'
  <1> SUFFICES ASSUME TypeOK, TimerInv, LoneInv, [Next]_vars PROVE LoneInv'
    OBVIOUS
  <1>0. now \in Nat /\ expiresNext \in Nat /\ tick \in Int /\ ev \in Events /\ expires[ev] \in Nat
    BY DEF TypeOK, NoTick
  <1>1. CASE Start
    <2>1. PICK e \in Events, d \in Delays \cup {Period} : StartEvent(e, d)
      BY <1>1 DEF Start
    <2>2. Len(queue) = 1 => queue[1] \in Events /\ queue[1] # e
      <3>1. e \notin Queued
        BY <2>1 DEF StartEvent, TimerInv, QueueConsistent
      <3>2. ASSUME Len(queue) = 1 PROVE queue[1] \in Queued /\ queue[1] \in Events
        BY <3>2, QueuedLone
      <3> QED BY <3>1, <3>2
    <2>3. Len(queue) = 1 => expires'[queue[1]] = expires[queue[1]]
      BY <2>1, <2>2 DEF StartEvent, TypeOK
    <2> QED BY <2>1, <2>3 DEF StartEvent, LoneInv, InTime
  <1>2. CASE StartAdd
    <2>1. state'[ev] = "ACTIVE"
      BY <1>2, <1>0 DEF StartAdd, TypeOK
    <2> QED BY <1>2, <2>1 DEF StartAdd, LoneInv, InTime
  <1>3. ASSUME pc \in {"check", "program"}, UNCHANGED <<queue, state, expires, now, ev>>,
               Len(queue) = 1, InTime(expires[ev])'
        PROVE  InTime(expires[queue[1]])'
    <2>1. queue[1] \in Events /\ Queued = {queue[1]}
      BY <1>3, QueuedLone
    <2>2. CASE state[ev] = "ACTIVE"
      <3>1. ev = queue[1]
        BY <2>1, <2>2, <1>0 DEF TimerInv, QueueConsistent
      <3> QED BY <3>1, <1>3
    <2>3. CASE state[ev] # "ACTIVE"
      <3>1. expires[ev] <= now + 1
        BY <2>3, <1>3 DEF LoneInv
      <3>2. tick' <= expires[ev] \/ tick' <= now + 1
        BY <1>3 DEF InTime
      <3>3. tick' \in Int
        <4>1. TypeOK'
          BY TimerStepInv
        <4> QED BY <4>1 DEF TypeOK, NoTick
      <3>4. tick' <= now + 1
        BY <3>1, <3>2, <3>3, <1>0
      <3> QED BY <3>4, <1>3 DEF InTime
    <2> QED BY <2>2, <2>3
  <1>4. CASE StartCheck
    <2>1. CASE expiresNext > expires[ev]
      BY <1>4, <2>1 DEF StartCheck, LoneInv, InTime
    <2>2. CASE ~(expiresNext > expires[ev])
      <3>1. expiresNext # TimevalMax
        BY <1>4, <2>2, <1>0, TimerAssumption DEF StartCheck, TimerInv
      <3>2. InTime(expires[ev])
        BY <3>1, <2>2, <1>0 DEF LoneInv, InTime
      <3>3. (InTime(expires[ev]))'
        BY <1>4, <3>2 DEF StartCheck, InTime
      <3>4. Len(queue') = 1 => (InTime(expires[queue[1]]))'
        BY <1>4, <1>3, <3>3 DEF StartCheck
      <3> QED BY <1>4, <2>2, <3>4 DEF StartCheck, LoneInv, InTime
    <2> QED BY <2>1, <2>2
  <1>5. CASE StartProgram
    <2>1. expiresNext' = expires[ev] /\ (tick' <= expires[ev] \/ tick' <= now + 1)
      BY <1>5, <1>0, ProgrammedInTime DEF StartProgram
    <2>2. (InTime(expires[ev]))'
      BY <1>5, <2>1 DEF StartProgram, InTime
    <2>3. Len(queue') = 1 => (InTime(expires[queue[1]]))'
      BY <1>5, <1>3, <2>2 DEF StartProgram
    <2> QED BY <1>5, <2>1, <2>3 DEF StartProgram, LoneInv, InTime
  <1>6. CASE TickFires
    BY <1>6, <1>0 DEF TickFires, LoneInv, InTime, NoTick, taskVars
  <1>7. CASE IrqRun
    <2> DEFINE e == Head(queue)
               q == Tail(queue)
    <2>1. e \in Events /\ expires[e] \in Nat
      BY <1>7 DEF IrqRun, TypeOK
    <2>2. inIrq /\ UNCHANGED <<now, inIrq, taskVars>> /\ RunHandler(e, q) /\ expires[e] <= now + 1
      BY <1>7, <2>1, <1>0 DEF IrqRun, Due
    <2> HIDE DEF e, q
    <2>3. ASSUME NEW s, state' = [state EXCEPT ![e] = s],
                 UNCHANGED <<expires, duration, expiresNext, tick>>
          PROVE  LoneInv'
      BY <2>1, <2>2, <2>3 DEF LoneInv, InTime, taskVars, TypeOK
    <2>4. CASE \E d \in Nat : Restart(e, d, q)
      BY <2>1, <2>2, <2>4, LoneRestart
    <2>5. \/ \E d \in Nat : Restart(e, d, q)
          \/ /\ \E s \in {"free", "INACTIVE"} : state' = [state EXCEPT ![e] = s]
             /\ UNCHANGED <<expires, duration, expiresNext, tick>>
      <3>1. duration[e] \in Nat /\ Period \in Nat
        BY <2>1, TimerAssumption DEF TypeOK
      <3> QED BY <2>2, <3>1 DEF RunHandler
    <2> QED BY <2>3, <2>4, <2>5
  <1>8. CASE IrqAgain
    <2>1. PICK lost \in 0..Rounding :
             tick' = now + Cycles(expires[Head(queue)] - now, lost)
      BY <1>8 DEF IrqAgain
    <2>2. Head(queue) \in Events /\ Head(queue) = queue[1] /\ expires[Head(queue)] \in Nat
      BY <1>8 DEF IrqAgain, TypeOK
    <2> DEFINE x == expires[Head(queue)]
    <2>3. x - now \in Int /\ x \in Nat
      BY <2>2, <1>0
    <2>4. Cycles(x - now, lost) \in Nat \ {0}
      BY <2>3, CyclesType
    <2>5. Cycles(x - now, lost) <= x - now \/ Cycles(x - now, lost) = 1
      BY <2>3, CyclesBound
    <2>6. tick' <= expires[queue[1]] \/ tick' <= now + 1
      <3> HIDE DEF x
      <3>1. tick' = now + Cycles(x - now, lost) /\ x = expires[queue[1]]
        BY <2>1, <2>2 DEF x
      <3> QED BY <3>1, <2>3, <2>4, <2>5, <1>0
    <2> QED BY <1>8, <2>6 DEF IrqAgain, LoneInv, InTime, taskVars
  <1>9. CASE IrqEmpty
    BY <1>9 DEF IrqEmpty, LoneInv, InTime, taskVars
  <1>10. CASE TimePasses
    <2>1. ASSUME NEW x, InTime(x) PROVE tick <= x \/ tick <= now' + 1
      BY <2>1, <1>10, <1>0 DEF InTime, TimePasses
    <2>2. expires[ev] <= now + 1 => expires[ev] <= now' + 1
      BY <1>10, <1>0 DEF TimePasses
    <2> QED BY <1>10, <2>1, <2>2 DEF TimePasses, LoneInv, InTime, taskVars
  <1>11. CASE UNCHANGED vars
    BY <1>11 DEF vars, LoneInv, InTime
  <1> QED BY <1>1, <1>2, <1>4, <1>5, <1>6, <1>7, <1>8, <1>9, <1>10, <1>11 DEF Next, Task, Irq

(* An event that is alone in the queue is not kept waiting, although        *)
(* timer_interrupt forgets in expires_next what the tick is armed for and   *)
(* the interrupt may run the very event a task is still starting.           *)
THEOREM LoneEventIsOnTime == Spec => []LoneEventOnTime
  <1>1. Spec => [](TypeOK /\ TimerInv)
    BY TimerInitInv, TimerStepInv, PTL DEF Spec
  <1>2. Spec => []LoneInv
    BY <1>1, LoneInit, LoneStep, PTL DEF Spec
  <1>3. TypeOK /\ LoneInv => LoneEventOnTime
    <2> SUFFICES ASSUME TypeOK, LoneInv, Len(queue) = 1, ~inIrq, pc = "idle" PROVE TickInTime
      BY DEF LoneEventOnTime
    <2>1. Head(queue) = queue[1]
      BY DEF TypeOK
    <2> QED BY <2>1 DEF LoneInv, InTime, TickInTime
  <1> QED BY <1>1, <1>2, <1>3, PTL
=============================================================================
