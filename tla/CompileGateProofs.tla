------------------------- MODULE CompileGateProofs -------------------------
(* What the gate guarantees for any number of requests and probes, and any   *)
(* MAX_CONCURRENT and MAX_QUEUED; and that it implements SlotGate.           *)
EXTENDS CompileGate, SequenceTheorems, FiniteSetTheorems, TLAPS

Queued == {r \in Requests : phase[r] = "queued"}

GateInv == RunningIsAccurate /\ QueueIsExact

\* push(): one element more, at the end.
LEMMA AppendFacts ==
    ASSUME NEW S, NEW s \in Seq(S), NEW x \in S
    PROVE  /\ Append(s, x) \in Seq(S)
           /\ Len(Append(s, x)) = Len(s) + 1
           /\ ToSet(Append(s, x)) = ToSet(s) \cup {x}
           /\ IsInjective(s) /\ x \notin ToSet(s) => IsInjective(Append(s, x))
  <1>1. Append(s, x) \in Seq(S) /\ Len(Append(s, x)) = Len(s) + 1
    OBVIOUS
  <1>2. DOMAIN s = 1..Len(s) /\ DOMAIN Append(s, x) = 1..Len(s) + 1 /\ Len(s) \in Nat
    BY <1>1
  <1>3. \A i \in 1..Len(s) + 1 : Append(s, x)[i] = IF i = Len(s) + 1 THEN x ELSE s[i]
    OBVIOUS
  <1>4. ToSet(Append(s, x)) = ToSet(s) \cup {x}
    BY <1>2, <1>3 DEF ToSet
  <1>5. ASSUME IsInjective(s), x \notin ToSet(s)
        PROVE  IsInjective(Append(s, x))
    BY <1>2, <1>3, <1>5 DEF IsInjective, ToSet
  <1> QED BY <1>1, <1>4, <1>5

\* What is left of a queue when its first k elements have gone.
LEMMA SuffixFacts ==
    ASSUME NEW S, NEW s \in Seq(S), NEW k \in 1..Len(s)
    PROVE  /\ SubSeq(s, k + 1, Len(s)) \in Seq(S)
           /\ Len(SubSeq(s, k + 1, Len(s))) = Len(s) - k
           /\ IsInjective(s) =>
                /\ IsInjective(SubSeq(s, k + 1, Len(s)))
                /\ ToSet(SubSeq(s, k + 1, Len(s))) = ToSet(s) \ {s[i] : i \in 1..k}
  <1> DEFINE n == Len(s)
             v == SubSeq(s, k + 1, n)
  <1>0. n \in Nat /\ DOMAIN s = 1..n /\ k \in 1..n /\ k \in Int
        /\ \A j \in 1..n : s[j] \in S
    OBVIOUS
  <1> HIDE DEF n
  <1>1. v \in Seq(S) /\ Len(v) = n - k /\ \A j \in 1..n - k : v[j] = s[k + j]
    <2>1. k + 1 \in Int /\ n \in Int /\ \A j \in k + 1..n : s[j] \in S
      BY <1>0
    <2>2. /\ v \in Seq(S) /\ Len(v) = IF k + 1 <= n THEN n - (k + 1) + 1 ELSE 0
          /\ \A j \in 1..n - (k + 1) + 1 : v[j] = s[(k + 1) + j - 1]
      BY <2>1, SubSeqProperties
    <2> HIDE DEF v
    <2>3. \A j \in 1..n - k : v[j] = s[k + j]
      BY <2>2, <1>0
    <2> QED BY <2>2, <2>3, <1>0
  <1> HIDE DEF v
  <1>2. DOMAIN v = 1..n - k
    BY <1>0, <1>1
  <1>3. ASSUME IsInjective(s) PROVE IsInjective(v)
    <2> SUFFICES ASSUME NEW a \in 1..n - k, NEW b \in 1..n - k, v[a] = v[b]
                 PROVE  a = b
      BY <1>2 DEF IsInjective
    <2>1. k + a \in 1..n /\ k + b \in 1..n /\ s[k + a] = s[k + b]
      BY <1>0, <1>1
    <2>2. k + a = k + b
      BY <2>1, <1>0, <1>3 DEF IsInjective
    <2> QED BY <2>2, <1>0
  <1>4. ASSUME IsInjective(s) PROVE ToSet(v) = ToSet(s) \ {s[i] : i \in 1..k}
    <2>1. ASSUME NEW j \in 1..n - k PROVE v[j] \in ToSet(s) \ {s[i] : i \in 1..k}
      <3>1. k + j \in 1..n /\ v[j] = s[k + j]
        BY <1>0, <1>1
      <3>2. ASSUME NEW i \in 1..k PROVE s[i] # s[k + j]
        <4>1. i \in 1..n /\ i # k + j
          BY <1>0
        <4> QED BY <1>0, <1>4, <3>1, <4>1 DEF IsInjective
      <3> QED BY <1>0, <3>1, <3>2 DEF ToSet
    <2>2. ASSUME NEW j \in 1..n, s[j] \notin {s[i] : i \in 1..k} PROVE s[j] \in ToSet(v)
      <3>1. j - k \in 1..n - k /\ k + (j - k) = j
        BY <1>0, <2>2
      <3>2. v[j - k] = s[j]
        BY <3>1, <1>1
      <3> QED BY <1>2, <3>1, <3>2 DEF ToSet
    <2> QED BY <1>0, <1>2, <2>1, <2>2 DEF ToSet
  <1> QED BY <1>1, <1>3, <1>4 DEF v, n

LEMMA WorkingIsFinite ==
    /\ IsFiniteSet(Working) /\ Cardinality(Working) \in Nat
    /\ MaxConcurrent \in Nat \ {0} /\ MaxQueued \in Nat
  <1>1. IsFiniteSet(Working)
    BY RequestsAssumption, FS_Subset DEF Working
  <1> QED BY <1>1, FS_CardinalityType, GateAssumption

\* What an action that moves no request among the gate's sets leaves alone.
LEMMA GateUntouched ==
    ASSUME GateInv, running' = running, queue' = queue,
           Working' = Working, Queued' = Queued
    PROVE  GateInv'
  BY DEF GateInv, RunningIsAccurate, QueueIsExact, Queued

-----------------------------------------------------------------------------
(* acquireSlot() and releaseSlot().                                         *)

\* A request that is let in adds itself to the compiles or to the queue.
LEMMA AcquireKeeps ==
    ASSUME TypeOK, GateInv, NEW r \in Requests, phase[r] \in {"none", "receiving"},
           AcquireSlot(r)
    PROVE  /\ GateInv'
           /\ phase' \in [Requests -> Phases] /\ queue' \in Seq(Requests) /\ running' \in Nat
           /\ \A p \in Probes : phase'[p] # "receiving"
           /\ \A q \in gone : phase'[q] = phase[q]
           /\ r \notin Working \cup ToSet(queue)
           /\ \/ /\ Cardinality(Working) < MaxConcurrent
                 /\ Working' = Working \cup {r} /\ queue' = queue
              \/ /\ ~(Cardinality(Working) < MaxConcurrent) /\ Len(queue) < MaxQueued
                 /\ Working' = Working /\ queue' = Append(queue, r)
  <1>0. /\ phase \in [Requests -> Phases] /\ queue \in Seq(Requests) /\ running \in Nat
        /\ IsInjective(queue) /\ ToSet(queue) = Queued /\ Len(queue) \in Nat
        /\ r \notin Working /\ r \notin Queued
        /\ r \notin gone /\ gone \subseteq Requests
        /\ running = Cardinality(Working) /\ running <= MaxConcurrent
        /\ \A p \in Probes : p \in Requests /\ phase[p] # "receiving"
    <2>1. queue \in Seq(Requests) /\ Len(queue) \in Nat
      BY LenProperties DEF TypeOK
    <2> QED BY <2>1, RequestsAssumption
            DEF TypeOK, GateInv, RunningIsAccurate, QueueIsExact, Queued, Working
  <1> USE WorkingIsFinite
  <1>1. CASE /\ running < MaxConcurrent /\ running' = running + 1
             /\ phase' = [phase EXCEPT ![r] = "working"] /\ UNCHANGED queue
    <2>1. Working' = Working \cup {r} /\ Queued' = Queued
      BY <1>0, <1>1 DEF Working, Queued
    <2>2. Cardinality(Working') = Cardinality(Working) + 1
      BY <1>0, <2>1, FS_AddElement
    <2>3. queue = <<>>
      BY <1>0, <1>1 DEF GateInv, QueueIsExact
    <2>4. RunningIsAccurate'
      BY <1>0, <1>1, <2>2 DEF RunningIsAccurate
    <2>5. QueueIsExact'
      BY <1>1, <2>1, <2>3 DEF GateInv, QueueIsExact, Queued
    <2> QED BY <1>0, <1>1, <2>1, <2>4, <2>5 DEF GateInv, Phases
  <1>2. CASE /\ running >= MaxConcurrent /\ Len(queue) < MaxQueued
             /\ phase' = [phase EXCEPT ![r] = "queued"]
             /\ queue' = Append(queue, r) /\ UNCHANGED running
    <2>1. Working' = Working /\ Queued' = Queued \cup {r}
      BY <1>0, <1>2 DEF Working, Queued
    <2>2. /\ queue' \in Seq(Requests) /\ Len(queue') = Len(queue) + 1
          /\ ToSet(queue') = Queued' /\ IsInjective(queue')
      BY <1>0, <1>2, <2>1, AppendFacts
    <2>3. running' = MaxConcurrent
      BY <1>0, <1>2
    <2>4. RunningIsAccurate'
      BY <1>0, <1>2, <2>1 DEF RunningIsAccurate
    <2>5. QueueIsExact'
      BY <1>0, <1>2, <2>2, <2>3 DEF QueueIsExact, Queued
    <2>6. ~(Cardinality(Working) < MaxConcurrent)
      BY <1>0, <1>2
    <2> QED BY <1>0, <1>2, <2>1, <2>2, <2>4, <2>5, <2>6 DEF GateInv, Phases
  <1> QED BY <1>1, <1>2 DEF AcquireSlot

\* The slot passes to a request of the queue: as many compiles as before.
LEMMA HandOnKeeps ==
    ASSUME TypeOK, GateInv, NEW r \in Requests, phase[r] = "working",
           NEW k \in Nat, HandOn(r, k)
    PROVE  /\ GateInv'
           /\ phase' \in [Requests -> Phases] /\ queue' \in Seq(Requests) /\ running' \in Nat
           /\ \A p \in Probes : phase'[p] # "receiving"
           /\ gone' \subseteq {q \in Requests \ Probes : phase'[q] \in {"queued", "working"}}
           /\ k \in 0..Len(queue) /\ k < Len(queue)
           /\ Working' = (Working \ {r}) \cup {queue[k + 1]}
           /\ queue' = SubSeq(queue, k + 2, Len(queue))
  <1> DEFINE first == {queue[i] : i \in 1..k}
             next == queue[k + 1]
  <1>0. /\ phase \in [Requests -> Phases] /\ queue \in Seq(Requests) /\ running \in Nat
        /\ IsInjective(queue) /\ ToSet(queue) = Queued /\ Len(queue) \in Nat
        /\ Len(queue) <= MaxQueued /\ running = Cardinality(Working)
        /\ queue # <<>> => running = MaxConcurrent
    <2>1. queue \in Seq(Requests) /\ Len(queue) \in Nat
      BY LenProperties DEF TypeOK
    <2> QED BY <2>1 DEF TypeOK, GateInv, RunningIsAccurate, QueueIsExact, Queued
  <1>1. k < Len(queue) /\ k + 1 \in 1..Len(queue) /\ k \in 0..Len(queue) /\ queue # <<>>
    BY <1>0 DEF HandOn
  <1>2. \A i \in 1..k : i \in DOMAIN queue /\ i # k + 1
    BY <1>0, <1>1
  <1>3. first \subseteq Queued /\ next \in Queued /\ next \notin first
    <2>1. DOMAIN queue = 1..Len(queue) /\ \A i \in DOMAIN queue : queue[i] \in Queued
      BY <1>0 DEF ToSet
    <2>2. \A i \in 1..k : queue[i] # queue[k + 1]
      BY <1>0, <1>1, <1>2, <2>1 DEF IsInjective
    <2> QED BY <1>1, <1>2, <2>1, <2>2
  <1>4. r \notin Queued /\ r \in Working /\ Queued \cap Working = {}
    BY DEF Queued, Working
  <1>5. /\ phase' = [q \in Requests |-> IF q \in {r} \cup first THEN "none"
                                        ELSE IF q = next THEN "working" ELSE phase[q]]
        /\ gone' = gone \ ({r} \cup first) /\ running' = running
        /\ queue' = SubSeq(queue, k + 2, Len(queue))
    BY DEF HandOn
  <1> HIDE DEF first, next
  <1>6. Working' = (Working \ {r}) \cup {next}
    BY <1>0, <1>3, <1>4, <1>5 DEF Working, Queued
  <1>7. Queued' = Queued \ (first \cup {next})
    BY <1>0, <1>3, <1>4, <1>5 DEF Working, Queued
  <1>8. /\ queue' \in Seq(Requests) /\ Len(queue') = Len(queue) - (k + 1)
        /\ IsInjective(queue') /\ ToSet(queue') = Queued \ (first \cup {next})
    <2>1. queue' = SubSeq(queue, (k + 1) + 1, Len(queue))
      BY <1>5
    <2>2. {queue[i] : i \in 1..k + 1} = first \cup {next}
      <3>1. 1..k + 1 = (1..k) \cup {k + 1}
        OBVIOUS
      <3> QED BY <3>1 DEF first, next
    <2>3. PICK m \in 1..Len(queue) : m = k + 1
      BY <1>1
    <2>4. /\ SubSeq(queue, m + 1, Len(queue)) \in Seq(Requests)
          /\ Len(SubSeq(queue, m + 1, Len(queue))) = Len(queue) - m
          /\ IsInjective(SubSeq(queue, m + 1, Len(queue)))
          /\ ToSet(SubSeq(queue, m + 1, Len(queue))) = Queued \ {queue[i] : i \in 1..m}
      <3>1. queue \in Seq(Requests) /\ IsInjective(queue) /\ ToSet(queue) = Queued
        BY <1>0
      <3> QED BY <3>1, SuffixFacts
    <2> QED BY <2>1, <2>2, <2>3, <2>4
  <1>9. Cardinality(Working') = Cardinality(Working)
    <2>1. Cardinality(Working \ {r}) = Cardinality(Working) - 1 /\ IsFiniteSet(Working \ {r})
      BY <1>4, WorkingIsFinite, FS_RemoveElement, FS_Subset
    <2>2. next \notin Working \ {r}
      BY <1>3, <1>4
    <2>3. Cardinality((Working \ {r}) \cup {next}) = Cardinality(Working \ {r}) + 1
      BY <2>1, <2>2, FS_AddElement
    <2> QED BY <1>6, <2>1, <2>3, WorkingIsFinite
  <1>10. RunningIsAccurate'
    BY <1>0, <1>5, <1>9 DEF GateInv, RunningIsAccurate
  <1>11. QueueIsExact'
    BY <1>0, <1>1, <1>5, <1>7, <1>8, WorkingIsFinite DEF QueueIsExact, Queued
  <1>12. /\ phase' \in [Requests -> Phases]
         /\ \A p \in Probes : phase'[p] # "receiving"
         /\ gone' \subseteq {q \in Requests \ Probes : phase'[q] \in {"queued", "working"}}
    BY <1>0, <1>5, RequestsAssumption DEF TypeOK, Phases
  <1> QED BY <1>0, <1>1, <1>5, <1>6, <1>8, <1>10, <1>11, <1>12 DEF GateInv, next

\* The slot goes back to the service, and so does the queue, all gone.
LEMMA FreeSlotKeeps ==
    ASSUME TypeOK, GateInv, NEW r \in Requests, phase[r] = "working", FreeSlot(r)
    PROVE  /\ GateInv'
           /\ phase' \in [Requests -> Phases] /\ queue' \in Seq(Requests) /\ running' \in Nat
           /\ \A p \in Probes : phase'[p] # "receiving"
           /\ gone' \subseteq {q \in Requests \ Probes : phase'[q] \in {"queued", "working"}}
           /\ Working' = Working \ {r} /\ queue' = <<>>
  <1>0. /\ phase \in [Requests -> Phases] /\ running = Cardinality(Working)
        /\ ToSet(queue) = Queued /\ running <= MaxConcurrent /\ r \in Working
    BY DEF TypeOK, GateInv, RunningIsAccurate, QueueIsExact, Queued, Working
  <1>1. /\ phase' = [q \in Requests |-> IF q \in {r} \cup Queued THEN "none" ELSE phase[q]]
        /\ gone' = gone \ ({r} \cup Queued) /\ queue' = <<>> /\ running' = running - 1
    BY <1>0 DEF FreeSlot
  <1>2. Working' = Working \ {r} /\ Queued' = {}
    BY <1>0, <1>1 DEF Working, Queued
  <1>3. Cardinality(Working') = Cardinality(Working) - 1 /\ Cardinality(Working') \in Nat
    <2>1. Cardinality(Working \ {r}) = Cardinality(Working) - 1
      BY <1>0, WorkingIsFinite, FS_RemoveElement
    <2>2. Cardinality(Working \ {r}) \in Nat
      BY WorkingIsFinite, FS_Subset, FS_CardinalityType
    <2> QED BY <1>2, <2>1, <2>2
  <1>4. RunningIsAccurate' /\ running' \in Nat
    BY <1>0, <1>1, <1>3, WorkingIsFinite DEF RunningIsAccurate
  <1>5. queue' \in Seq(Requests) /\ Len(queue') = 0
    BY <1>1, EmptySeq
  <1>6. QueueIsExact'
    <2>1. IsInjective(queue') /\ ToSet(queue') = {}
      BY <1>1 DEF IsInjective, ToSet
    <2> QED BY <1>1, <1>2, <1>5, <2>1, WorkingIsFinite DEF QueueIsExact, Queued
  <1>7. /\ phase' \in [Requests -> Phases]
        /\ \A p \in Probes : phase'[p] # "receiving"
        /\ gone' \subseteq {q \in Requests \ Probes : phase'[q] \in {"queued", "working"}}
    BY <1>0, <1>1, RequestsAssumption DEF TypeOK, Phases
  <1> QED BY <1>1, <1>2, <1>4, <1>5, <1>6, <1>7 DEF GateInv

LEMMA ReleaseKeeps ==
    ASSUME TypeOK, GateInv, NEW r \in Requests, phase[r] = "working", ReleaseSlot(r)
    PROVE  /\ GateInv'
           /\ phase' \in [Requests -> Phases] /\ queue' \in Seq(Requests) /\ running' \in Nat
           /\ \A p \in Probes : phase'[p] # "receiving"
           /\ gone' \subseteq {q \in Requests \ Probes : phase'[q] \in {"queued", "working"}}
  <1>1. CASE \E k \in 0..Len(queue) - 1 : HandOn(r, k)
    <2>1. PICK k \in 0..Len(queue) - 1 : HandOn(r, k)
      BY <1>1
    <2>2. k \in Nat
      BY <2>1
    <2> QED BY <2>1, <2>2, HandOnKeeps
  <1>2. CASE FreeSlot(r)
    BY <1>2, FreeSlotKeeps
  <1> QED BY <1>1, <1>2 DEF ReleaseSlot

-----------------------------------------------------------------------------
(* The invariant.                                                           *)

LEMMA HealthTypes ==
    ASSUME NEW is \in Verdicts, NEW fresh \in BOOLEAN,
           health' = [is |-> is, fresh |-> fresh]
    PROVE  health' \in [is : Verdicts, fresh : BOOLEAN]
  OBVIOUS

LEMMA GateInit == Init => TypeOK /\ GateInv
  <1> SUFFICES ASSUME Init PROVE TypeOK /\ GateInv
    OBVIOUS
  <1>1. queue \in Seq(Requests) /\ Len(queue) = 0
    BY EmptySeq DEF Init
  <1>2. Working = {} /\ Queued = {}
    BY DEF Init, Working, Queued
  <1>3. IsInjective(queue) /\ ToSet(queue) = {}
    BY DEF Init, IsInjective, ToSet
  <1>4. GateInv
    BY <1>1, <1>2, <1>3, FS_EmptySet, GateAssumption
       DEF Init, GateInv, RunningIsAccurate, QueueIsExact, Queued
  <1>5. health \in [is : Verdicts, fresh : BOOLEAN]
    BY DEF Init, Verdicts
  <1> QED BY <1>1, <1>4, <1>5, RequestsAssumption DEF Init, TypeOK, Phases

LEMMA GateStep == TypeOK /\ GateInv /\ [Next]_vars => (TypeOK /\ GateInv)'
  <1> SUFFICES ASSUME TypeOK, GateInv, [Next]_vars PROVE TypeOK' /\ GateInv'
    OBVIOUS
  <1>0. health \in [is : Verdicts, fresh : BOOLEAN] /\ phase \in [Requests -> Phases]
        /\ Probes \subseteq Requests
    BY RequestsAssumption DEF TypeOK
  <1>1. ASSUME NEW r \in Requests, Arrives(r) PROVE TypeOK' /\ GateInv'
    <2>1. Working' = Working /\ Queued' = Queued
      BY <1>0, <1>1 DEF Arrives, Working, Queued
    <2> QED BY <1>1, <2>1, GateUntouched DEF Arrives, TypeOK, Phases
  <1>2. ASSUME NEW r \in Requests, Rejected(r) \/ TurnedAway(r) PROVE TypeOK' /\ GateInv'
    <2>1. Working' = Working /\ Queued' = Queued
      BY <1>0, <1>2 DEF Rejected, TurnedAway, Working, Queued
    <2>2. /\ phase[r] = "receiving" /\ phase' = [phase EXCEPT ![r] = "none"]
          /\ UNCHANGED <<gone, running, queue, health>>
      BY <1>2 DEF Rejected, TurnedAway
    <2>3. GateInv'
      BY <2>1, <2>2, GateUntouched
    <2> QED BY <2>2, <2>3 DEF TypeOK, Phases
  <1>3. ASSUME NEW r \in Requests, BodyEnds(r) PROVE TypeOK' /\ GateInv'
    <2>1. phase[r] \in {"none", "receiving"} /\ AcquireSlot(r) /\ gone' = gone /\ health' = health
      BY <1>3 DEF BodyEnds
    <2> QED BY <2>1, AcquireKeeps DEF TypeOK
  <1>4. ASSUME NEW r \in Requests, ClientGoes(r) PROVE TypeOK' /\ GateInv'
    BY <1>4, GateUntouched DEF ClientGoes, TypeOK, Working, Queued
  <1>5. ASSUME NEW r \in Requests, WorkEnds(r) PROVE TypeOK' /\ GateInv'
    <2>1. phase[r] = "working" /\ ReleaseSlot(r) /\ health' = health
      BY <1>5 DEF WorkEnds
    <2> QED BY <1>0, <2>1, ReleaseKeeps DEF TypeOK
  <1>6. ASSUME NEW r \in Requests, CheckHealth(r) PROVE TypeOK' /\ GateInv'
    <2>1. CASE AcquireSlot(r) /\ UNCHANGED health
      <3>1. phase[r] \in {"none", "receiving"} /\ gone' = gone
        BY <1>6 DEF CheckHealth
      <3> QED BY <2>1, <3>1, AcquireKeeps DEF TypeOK
    <2>2. CASE ~(AcquireSlot(r) /\ UNCHANGED health)
      <3>1. /\ health' = [is |-> "busy", fresh |-> TRUE]
            /\ UNCHANGED <<phase, running, queue, gone>>
        BY <1>6, <2>2 DEF CheckHealth
      <3>2. health' \in [is : Verdicts, fresh : BOOLEAN]
        BY <3>1, HealthTypes DEF Verdicts
      <3> QED BY <3>1, <3>2, GateUntouched DEF TypeOK, Working, Queued
    <2> QED BY <2>1, <2>2
  <1>7. ASSUME NEW r \in Requests, ProbeEnds(r) PROVE TypeOK' /\ GateInv'
    <2>1. phase[r] = "working" /\ ReleaseSlot(r)
      BY <1>7 DEF ProbeEnds
    <2>2. PICK is \in {"ok", "failed"} : health' = [is |-> is, fresh |-> TRUE]
      BY <1>7 DEF ProbeEnds
    <2>3. health' \in [is : Verdicts, fresh : BOOLEAN]
      BY <2>2, HealthTypes DEF Verdicts
    <2> QED BY <2>1, <2>3, ReleaseKeeps DEF TypeOK
  <1>8. CASE HealthExpires
    <2>1. health' \in [is : Verdicts, fresh : BOOLEAN]
      BY <1>0, <1>8 DEF HealthExpires
    <2> QED BY <1>8, <2>1, GateUntouched DEF HealthExpires, TypeOK, Working, Queued
  <1>9. CASE UNCHANGED vars
    BY <1>9, GateUntouched DEF vars, TypeOK, Working, Queued
  <1> QED BY <1>1, <1>2, <1>3, <1>4, <1>5, <1>6, <1>7, <1>8, <1>9 DEF Next, RequestNext

\* Every variable of the gate keeps its type.
THEOREM TypeCorrect == Spec => []TypeOK
  BY GateInit, GateStep, PTL DEF Spec

\* The counter is the number of compiles under way and stays within
\* MAX_CONCURRENT, however they end and whoever has gone by then.
THEOREM CounterIsAccurate == Spec => []RunningIsAccurate
  <1>1. GateInv => RunningIsAccurate
    BY DEF GateInv
  <1> QED BY <1>1, GateInit, GateStep, PTL DEF Spec

\* The queue holds exactly the requests waiting, within MAX_QUEUED, and only
\* while every slot is in use.
THEOREM QueueStaysExact == Spec => []QueueIsExact
  <1>1. GateInv => QueueIsExact
    BY DEF GateInv
  <1> QED BY <1>1, GateInit, GateStep, PTL DEF Spec

-----------------------------------------------------------------------------
(* The gate implements SlotGate.                                            *)

\* SlotGate counts and lists as CompileGate does.
LEMMA SameCardinality == ASSUME NEW S PROVE Gate!Cardinality(S) = Cardinality(S)
  BY DEF Gate!Cardinality, Cardinality

LEMMA SameToSet == ASSUME NEW s PROVE Gate!ToSet(s) = ToSet(s)
  BY DEF Gate!ToSet, ToSet

LEMMA GateStutters ==
    ASSUME queue' = queue, Working' = Working, gone' = gone
    PROVE  UNCHANGED Gate!gateVars
  BY DEF Gate!gateVars

LEMMA AcquireAdmits ==
    ASSUME TypeOK, GateInv, NEW r \in Requests, phase[r] \in {"none", "receiving"},
           AcquireSlot(r), gone' = gone
    PROVE  Gate!GateNext
  <1>1. r \notin Working \cup ToSet(queue)
    BY AcquireKeeps
  <1>2. \/ /\ Cardinality(Working) < MaxConcurrent
           /\ Working' = Working \cup {r} /\ queue' = queue
        \/ /\ ~(Cardinality(Working) < MaxConcurrent) /\ Len(queue) < MaxQueued
           /\ Working' = Working /\ queue' = Append(queue, r)
    BY AcquireKeeps
  <1>3. Gate!Admit(r)
    BY <1>1, <1>2, SameCardinality, SameToSet DEF Gate!Admit
  <1> QED BY <1>3 DEF Gate!GateNext

LEMMA ReleaseLeaves ==
    ASSUME TypeOK, GateInv, NEW r \in Requests, phase[r] = "working", ReleaseSlot(r)
    PROVE  Gate!GateNext
  <1>0. r \in Working /\ Len(queue) \in Nat /\ queue \in Seq(Requests)
    BY LenProperties DEF Working, TypeOK
  <1>1. CASE \E k \in 0..Len(queue) - 1 :
                /\ \A i \in 1..k : queue[i] \in gone
                /\ queue[k + 1] \notin gone
                /\ HandOn(r, k)
    <2>1. PICK k \in 0..Len(queue) - 1 :
                /\ \A i \in 1..k : queue[i] \in gone
                /\ queue[k + 1] \notin gone
                /\ HandOn(r, k)
      BY <1>1
    <2>2. k \in Nat
      BY <2>1
    <2>3. /\ k \in 0..Len(queue) /\ k < Len(queue)
          /\ Working' = (Working \ {r}) \cup {queue[k + 1]}
          /\ queue' = SubSeq(queue, k + 2, Len(queue))
      BY <2>1, <2>2, HandOnKeeps
    <2>4. gone' = gone \ ({r} \cup {queue[i] : i \in 1..k})
      BY <2>1 DEF HandOn
    <2>5. Gate!Leave(r)
      BY <1>0, <2>1, <2>3, <2>4 DEF Gate!Leave
    <2> QED BY <2>5 DEF Gate!GateNext
  <1>2. CASE ToSet(queue) \subseteq gone /\ FreeSlot(r)
    <2>1. Working' = Working \ {r} /\ queue' = <<>>
      BY <1>2, FreeSlotKeeps
    <2>2. SubSeq(queue, Len(queue) + 2, Len(queue)) = <<>> /\ Len(queue) \in 0..Len(queue)
      BY <1>0
    <2>3. ToSet(queue) = {queue[i] : i \in 1..Len(queue)}
      BY <1>0 DEF ToSet
    <2>4. gone' = gone \ ({r} \cup {queue[i] : i \in 1..Len(queue)})
      BY <1>2, <2>3 DEF FreeSlot
    <2>5. \A i \in 1..Len(queue) : queue[i] \in gone
      BY <1>2, <2>3
    <2>6. Gate!Leave(r)
      BY <1>0, <2>1, <2>2, <2>4, <2>5 DEF Gate!Leave
    <2> QED BY <2>6 DEF Gate!GateNext
  <1> QED BY <1>1, <1>2 DEF ReleaseSlot

LEMMA GateRefines == TypeOK /\ GateInv /\ [Next]_vars => [Gate!GateNext]_(Gate!gateVars)
  <1> SUFFICES ASSUME TypeOK, GateInv, [Next]_vars
               PROVE  Gate!GateNext \/ UNCHANGED Gate!gateVars
    OBVIOUS
  <1>1. ASSUME NEW r \in Requests, Arrives(r) \/ Rejected(r) \/ TurnedAway(r)
        PROVE  UNCHANGED Gate!gateVars
    <2>1. queue' = queue /\ Working' = Working /\ gone' = gone
      BY <1>1 DEF Arrives, Rejected, TurnedAway, Working, TypeOK
    <2> QED BY <2>1, GateStutters
  <1>2. ASSUME NEW r \in Requests, BodyEnds(r) PROVE Gate!GateNext
    BY <1>2, AcquireAdmits DEF BodyEnds
  <1>3. ASSUME phase' = phase, queue' = queue, gone' = gone PROVE UNCHANGED Gate!gateVars
    BY <1>3, GateStutters DEF Working
  <1>4. ASSUME NEW r \in Requests, WorkEnds(r) \/ ProbeEnds(r) PROVE Gate!GateNext
    BY <1>4, ReleaseLeaves DEF WorkEnds, ProbeEnds
  <1>5. ASSUME NEW r \in Requests, CheckHealth(r)
        PROVE  Gate!GateNext \/ UNCHANGED Gate!gateVars
    BY <1>3, <1>5, AcquireAdmits DEF CheckHealth
  <1>6. ASSUME NEW r \in Requests, ClientGoes(r) PROVE Gate!GateNext
    <2>1. r \in Working \cup ToSet(queue) /\ Working' = Working
      BY <1>6 DEF ClientGoes, Working, GateInv, QueueIsExact
    <2>2. Gate!GiveUp(r)
      BY <1>6, <2>1, SameToSet DEF ClientGoes, Gate!GiveUp
    <2> QED BY <2>2 DEF Gate!GateNext
  <1> QED BY <1>1, <1>2, <1>3, <1>4, <1>5, <1>6
          DEF Next, RequestNext, HealthExpires, vars

\* Seen through the compiles under way, the queue and the clients that left, every
\* behaviour of the service is one of a gate with MAX_CONCURRENT slots and
\* MAX_QUEUED places, which passes over those who left and nobody else.
THEOREM GateIsImplemented == Spec => GateIsKept
  <1>1. Init => Gate!GateInit
    BY DEF Init, Gate!GateInit, Working
  <1>2. TypeOK /\ GateInv /\ [Next]_vars => [Gate!GateNext]_(Gate!gateVars)
    BY GateRefines
  <1> QED BY <1>1, <1>2, GateInit, GateStep, PTL DEF Spec, GateIsKept, Gate!GateSpec
=============================================================================
