------------------------ MODULE AnalyseServiceProofs ------------------------
(* What AnalyseService guarantees for every set of connections and           *)
(* addresses, every pool size and every pair of limits: who waits and is     *)
(* counted, that a pool that is short is refilled, who owns a process, whose *)
(* session is evicted for whom, and what becomes of a process after that.    *)
EXTENDS AnalyseService, SequenceTheorems, FiniteSetTheorems, TLAPS

-----------------------------------------------------------------------------
(* What a pool keeps when it is added to and taken from.                    *)

\* push(): one element more, at the end.
LEMMA AppendFacts ==
    ASSUME NEW S, NEW s \in Seq(S), NEW x \in S
    PROVE  /\ Append(s, x) \in Seq(S)
           /\ Len(Append(s, x)) = Len(s) + 1
           /\ ToSet(Append(s, x)) = ToSet(s) \cup {x}
           /\ IsInjective(s) /\ x \notin ToSet(s) => IsInjective(Append(s, x))
  <1>1. Append(s, x) \in Seq(S) /\ Len(Append(s, x)) = Len(s) + 1
    OBVIOUS
  <1>2. DOMAIN s = 1..Len(s) /\ DOMAIN Append(s, x) = 1..Len(s) + 1 /\ Len(s) \in Nat
    BY <1>1
  <1>3. \A i \in 1..Len(s) + 1 : Append(s, x)[i] = IF i = Len(s) + 1 THEN x ELSE s[i]
    OBVIOUS
  <1>4. ToSet(Append(s, x)) = ToSet(s) \cup {x}
    BY <1>2, <1>3 DEF ToSet
  <1>5. ASSUME IsInjective(s), x \notin ToSet(s)
        PROVE  IsInjective(Append(s, x))
    BY <1>2, <1>3, <1>5 DEF IsInjective, ToSet
  <1> QED BY <1>1, <1>4, <1>5

\* shift(): the first element goes, the others stay in order.
LEMMA TailFacts ==
    ASSUME NEW S, NEW s \in Seq(S), s # <<>>
    PROVE  /\ Head(s) \in S
           /\ Tail(s) \in Seq(S)
           /\ Len(s) \in Nat /\ Len(Tail(s)) = Len(s) - 1
           /\ ToSet(s) = ToSet(Tail(s)) \cup {Head(s)}
           /\ IsInjective(s) => IsInjective(Tail(s)) /\ Head(s) \notin ToSet(Tail(s))
  <1>1. /\ Head(s) \in S /\ Tail(s) \in Seq(S) /\ Len(Tail(s)) = Len(s) - 1
        /\ Len(s) \in Nat \ {0} /\ Head(s) = s[1]
    OBVIOUS
  <1>2. DOMAIN s = 1..Len(s) /\ DOMAIN Tail(s) = 1..Len(s) - 1
    BY <1>1
  <1>3. \A i \in 1..Len(s) - 1 : Tail(s)[i] = s[i + 1]
    OBVIOUS
  <1>4. ToSet(s) = ToSet(Tail(s)) \cup {Head(s)}
    <2>1. ASSUME NEW i \in DOMAIN s PROVE s[i] \in ToSet(Tail(s)) \cup {Head(s)}
      <3>1. CASE i = 1
        BY <3>1, <1>1
      <3>2. CASE i # 1
        <4>1. i - 1 \in DOMAIN Tail(s) /\ Tail(s)[i - 1] = s[i]
          BY <3>2, <1>1, <1>2, <1>3
        <4> QED BY <4>1 DEF ToSet
      <3> QED BY <3>1, <3>2
    <2>2. ToSet(Tail(s)) \cup {Head(s)} \subseteq ToSet(s)
      BY <1>1, <1>2, <1>3 DEF ToSet
    <2> QED BY <2>1, <2>2 DEF ToSet
  <1>5. ASSUME IsInjective(s)
        PROVE  IsInjective(Tail(s)) /\ Head(s) \notin ToSet(Tail(s))
    BY <1>1, <1>2, <1>3, <1>5 DEF IsInjective, ToSet
  <1> QED BY <1>1, <1>4, <1>5

\* splice(i, 1): the element at i goes, the others stay in order.
LEMMA RemoveAtFacts ==
    ASSUME NEW S, NEW s \in Seq(S), NEW i \in 1..Len(s)
    PROVE  /\ RemoveAt(s, i) \in Seq(S)
           /\ Len(RemoveAt(s, i)) = Len(s) - 1
           /\ IsInjective(s) => /\ IsInjective(RemoveAt(s, i))
                                /\ ToSet(RemoveAt(s, i)) = ToSet(s) \ {s[i]}
  <1> DEFINE n == Len(s)
             r == RemoveAt(s, i)
             u == SubSeq(s, 1, i - 1)
             v == SubSeq(s, i + 1, n)
             From(j) == IF j < i THEN j ELSE j + 1
  <1>1. n \in Nat /\ i \in 1..n /\ DOMAIN s = 1..n /\ \A j \in 1..n : s[j] \in S
    OBVIOUS
  <1>2. u \in Seq(S) /\ Len(u) = i - 1 /\ \A j \in 1..i - 1 : u[j] = s[1 + j - 1]
    BY SubSeqProperties
  <1>3. v \in Seq(S) /\ Len(v) = n - i /\ \A j \in 1..n - i : v[j] = s[(i + 1) + j - 1]
    BY SubSeqProperties
  <1>4. /\ r \in Seq(S) /\ Len(r) = Len(u) + Len(v)
        /\ \A j \in 1..Len(u) + Len(v) : r[j] = IF j <= Len(u) THEN u[j] ELSE v[j - Len(u)]
    <2>1. r = u \o v
      BY DEF RemoveAt
    <2> HIDE DEF r, u, v
    <2> QED BY <1>2, <1>3, <2>1, ConcatProperties
  <1> HIDE DEF n, r, u, v
  <1>5. Len(r) = n - 1 /\ DOMAIN r = 1..n - 1 /\ \A j \in 1..n - 1 : r[j] = s[From(j)]
    <2>1. Len(r) = n - 1 /\ DOMAIN r = 1..n - 1
      BY <1>1, <1>2, <1>3, <1>4
    <2>2. ASSUME NEW j \in 1..n - 1 PROVE r[j] = s[From(j)]
      BY <1>1, <1>2, <1>3, <1>4
    <2> QED BY <2>1, <2>2
  <1>6. /\ \A j \in 1..n - 1 : From(j) \in (1..n) \ {i}
        /\ \A j, k \in 1..n - 1 : From(j) = From(k) => j = k
    BY <1>1
  <1>7. ASSUME NEW k \in (1..n) \ {i} PROVE \E j \in 1..n - 1 : k = From(j)
    <2>1. \/ k \in 1..n - 1 /\ k = From(k)
          \/ k - 1 \in 1..n - 1 /\ k = From(k - 1)
      BY <1>1
    <2> HIDE DEF From
    <2> QED BY <2>1
  <1> HIDE DEF From
  <1>8. ASSUME IsInjective(s)
        PROVE  IsInjective(r) /\ ToSet(r) = ToSet(s) \ {s[i]}
    <2>1. IsInjective(r)
      BY <1>1, <1>5, <1>6, <1>8 DEF IsInjective
    <2>2. \A k \in (1..n) \ {i} : s[k] # s[i]
      BY <1>1, <1>8 DEF IsInjective
    <2>3. ToSet(r) = {s[k] : k \in (1..n) \ {i}}
      BY <1>5, <1>6, <1>7 DEF ToSet
    <2> QED BY <1>1, <2>1, <2>2, <2>3 DEF ToSet
  <1> QED BY <1>4, <1>5, <1>8 DEF n, r

\* A sequence has no more elements than its length, and elements of its set.
LEMMA ToSetFacts ==
    ASSUME NEW S, NEW s \in Seq(S)
    PROVE  /\ ToSet(s) \subseteq S
           /\ IsFiniteSet(ToSet(s))
           /\ Cardinality(ToSet(s)) \in Nat
           /\ Cardinality(ToSet(s)) <= Len(s)
           /\ s = <<>> <=> ToSet(s) = {}
  <1>1. Len(s) \in Nat /\ DOMAIN s = 1..Len(s) /\ \A j \in 1..Len(s) : s[j] \in S
    OBVIOUS
  <1>2. ToSet(s) \subseteq S
    BY <1>1 DEF ToSet
  <1>3. IsFiniteSet(1..Len(s)) /\ Cardinality(1..Len(s)) = Len(s)
    <2> DEFINE n == Len(s)
    <2>1. n \in Nat /\ n \in Int /\ 1 \in Int
      BY <1>1
    <2> HIDE DEF n
    <2>2. IsFiniteSet(1..n) /\ Cardinality(1..n) = IF 1 > n THEN 0 ELSE n - 1 + 1
      BY <2>1, FS_Interval
    <2>3. Cardinality(1..n) = n
      BY <2>1, <2>2
    <2> QED BY <2>2, <2>3 DEF n
  <1>4. s \in Surjection(1..Len(s), ToSet(s))
    BY <1>1 DEF Surjection, ToSet
  <1>5. IsFiniteSet(ToSet(s)) /\ Cardinality(ToSet(s)) <= Len(s)
    BY <1>3, <1>4, FS_Surjection
  <1>6. s = <<>> <=> ToSet(s) = {}
    <2>1. s # <<>> => 1 \in DOMAIN s
      BY <1>1
    <2> QED BY <2>1, <1>1 DEF ToSet
  <1> QED BY <1>2, <1>5, <1>6, FS_CardinalityType

-----------------------------------------------------------------------------
(* Type correctness.                                                        *)

LEMMA ReplenishTypes ==
    ASSUME NEW l \in SUBSET Analysers, warming \subseteq Analysers, Replenish(l)
    PROVE  warming' \subseteq Analysers /\ live' \subseteq Analysers
  BY DEF Replenish

LEMMA ReplenishIfEvictedTypes ==
    ASSUME NEW G, NEW l \in SUBSET Analysers, warming \subseteq Analysers,
           ReplenishIfEvicted(G, l)
    PROVE  warming' \subseteq Analysers /\ live' \subseteq Analysers
  BY ReplenishTypes DEF ReplenishIfEvicted

\* What a closing session leaves behind.
LEMMA CloseTypes ==
    ASSUME TypeOK, NEW c \in Conns, phase[c] = "open", Close(c)
    PROVE  TypeOK'
  <1> USE DEF TypeOK, Close, Phases
  <1>1. warming' \subseteq Analysers /\ live' \subseteq Analysers
    BY ReplenishTypes
  <1>2. Open' = Open \ {c}
    BY DEF Open
  <1>3. before' \subseteq Open' \X Open' /\ quiet' \subseteq Open'
    BY <1>2 DEF Forget
  <1>4. /\ phase' \in [Conns -> Phases] /\ held' \in [Conns -> Analysers \cup {NoAnalyser}]
        /\ \A d \in Conns : phase'[d] \in {"starting", "open"} <=> held'[d] # NoAnalyser
        /\ hungUp' \subseteq {d \in Conns : phase'[d] \in {"waiting", "starting"}}
    OBVIOUS
  <1> QED BY <1>1, <1>3, <1>4

\* An acquisition that ends in a session, or in nothing.
LEMMA SettleTypes ==
    ASSUME TypeOK, NEW c \in Conns, phase[c] \in {"waiting", "starting"},
           NEW a \in Analysers \cup {NoAnalyser}, Settle(c, a)
    PROVE  /\ phase' \in [Conns -> Phases]
           /\ hungUp' \subseteq {d \in Conns : phase'[d] \in {"waiting", "starting"}}
           /\ held' \in [Conns -> Analysers \cup {NoAnalyser}]
           /\ \A d \in Conns : phase'[d] \in {"starting", "open"} <=> held'[d] # NoAnalyser
           /\ before' \subseteq Open' \X Open'
           /\ quiet' \subseteq Open'
           /\ live' \subseteq Analysers
  <1> USE DEF TypeOK, Phases
  <1>1. CASE a = NoAnalyser \/ c \in hungUp
    <2>1. Open' = Open
      BY <1>1 DEF Settle, Open
    <2> QED BY <1>1, <2>1 DEF Settle
  <1>2. CASE ~(a = NoAnalyser \/ c \in hungUp)
    <2>1. Open' = Open \cup {c}
      BY <1>2 DEF Settle, Open
    <2>2. before' \subseteq Open' \X Open' /\ quiet' \subseteq Open'
      BY <1>2, <2>1 DEF Settle, Active
    <2>3. /\ phase' \in [Conns -> Phases]
          /\ hungUp' \subseteq {d \in Conns : phase'[d] \in {"waiting", "starting"}}
          /\ held' \in [Conns -> Analysers \cup {NoAnalyser}]
          /\ live' \subseteq Analysers
      BY <1>2 DEF Settle
    <2>4. ASSUME NEW d \in Conns
          PROVE  phase'[d] \in {"starting", "open"} <=> held'[d] # NoAnalyser
      BY <1>2 DEF Settle
    <2> QED BY <2>2, <2>3, <2>4
  <1> QED BY <1>1, <1>2

\* What a connection's entry changes of phase and held.
LEMMA EnterTypes ==
    ASSUME TypeOK, NEW c \in Conns, phase[c] = "none", NEW G \in SUBSET Open,
           NEW p \in Phases, NEW a \in Analysers \cup {NoAnalyser},
           p \in {"starting", "open"} <=> a # NoAnalyser, Enter(c, p, a, G)
    PROVE  /\ phase' \in [Conns -> Phases]
           /\ hungUp' \subseteq {d \in Conns : phase'[d] \in {"waiting", "starting"}}
           /\ held' \in [Conns -> Analysers \cup {NoAnalyser}]
           /\ \A d \in Conns : phase'[d] \in {"starting", "open"} <=> held'[d] # NoAnalyser
           /\ Open' = (Open \ G) \cup (IF p = "open" THEN {c} ELSE {})
           /\ topUp' = topUp
           /\ c \notin Open /\ LiveAfter(G) \subseteq Analysers
  <1> USE DEF TypeOK, Phases, Enter, Open
  <1>1. /\ phase' \in [Conns -> Phases]
        /\ hungUp' \subseteq {d \in Conns : phase'[d] \in {"waiting", "starting"}}
    OBVIOUS
  <1>2. held' \in [Conns -> Analysers \cup {NoAnalyser}]
    OBVIOUS
  <1>3. ASSUME NEW d \in Conns
        PROVE  phase'[d] \in {"starting", "open"} <=> held'[d] # NoAnalyser
    OBVIOUS
  <1>4. Open' = (Open \ G) \cup (IF p = "open" THEN {c} ELSE {})
    OBVIOUS
  <1> QED BY <1>1, <1>2, <1>3, <1>4 DEF LiveAfter

\* The handler of a new connection, the sessions G evicted first.
LEMMA AcceptTypes ==
    ASSUME TypeOK, NEW c \in Conns, phase[c] = "none", NEW G \in SUBSET Open,
           Accept(c, G)
    PROVE  TypeOK'
  <1> USE DEF Phases
  <1>0. /\ NoAnalyser \notin Analysers /\ warming \subseteq Analysers
        /\ idle \in Seq(Analysers) /\ waiting \in Seq(Conns) /\ topUp \in BOOLEAN
        /\ before \subseteq Open \X Open /\ quiet \subseteq Open
    BY AnalysersAssumption DEF TypeOK
  <1>1. CASE RefuseWhenFull(c, G)
    <2>1. Enter(c, "refused", NoAnalyser, G) /\ Forget(G) /\ idle' = idle
          /\ waiting' = waiting /\ ReplenishIfEvicted(G, LiveAfter(G))
      BY <1>1 DEF RefuseWhenFull
    <2>2. Open' = Open \ G /\ LiveAfter(G) \subseteq Analysers
      BY <2>1, EnterTypes
    <2>3. before' \subseteq Open' \X Open' /\ quiet' \subseteq Open'
      BY <1>0, <2>1, <2>2 DEF Forget
    <2>4. warming' \subseteq Analysers /\ live' \subseteq Analysers
      BY <1>0, <2>1, <2>2, ReplenishIfEvictedTypes
    <2> QED BY <1>0, <2>1, <2>3, <2>4, EnterTypes DEF TypeOK
  <1>2. CASE StartRepl(c, G)
    <2>1. PICK a \in Analysers :
          Enter(c, "starting", a, G) /\ Forget(G) /\ idle' = idle
          /\ waiting' = waiting /\ ReplenishIfEvicted(G, LiveAfter(G) \cup {a})
      BY <1>2 DEF StartRepl
    <2>2. a # NoAnalyser /\ a \in Analysers \cup {NoAnalyser} /\ "starting" \in Phases
      BY <1>0
    <2>3. Open' = (Open \ G) \cup {} /\ LiveAfter(G) \subseteq Analysers
      BY <2>1, <2>2, EnterTypes
    <2>4. before' \subseteq Open' \X Open' /\ quiet' \subseteq Open'
      BY <1>0, <2>1, <2>3 DEF Forget
    <2>5. warming' \subseteq Analysers /\ live' \subseteq Analysers
      BY <1>0, <2>1, <2>3, ReplenishIfEvictedTypes
    <2> QED BY <1>0, <2>1, <2>2, <2>4, <2>5, EnterTypes DEF TypeOK
  <1>3. CASE TakeWarm(c, G)
    <2>1. /\ Head(idle) \in Analysers /\ idle' \in Seq(Analysers)
          /\ Enter(c, "open", Head(idle), G) /\ Active(c, G)
          /\ waiting' = waiting /\ Replenish(LiveAfter(G))
      BY <1>0, <1>3, TailFacts DEF TakeWarm
    <2>2. Open' = (Open \ G) \cup {c} /\ LiveAfter(G) \subseteq Analysers
      BY <1>0, <2>1, EnterTypes
    <2>3. before' \subseteq Open' \X Open' /\ quiet' \subseteq Open'
      BY <1>0, <2>1, <2>2 DEF Active
    <2>4. warming' \subseteq Analysers /\ live' \subseteq Analysers
      BY <1>0, <2>1, <2>2, ReplenishTypes
    <2> QED BY <1>0, <2>1, <2>3, <2>4, EnterTypes DEF TypeOK
  <1>4. CASE WaitForPool(c, G)
    <2>1. /\ Enter(c, "waiting", NoAnalyser, G) /\ Forget(G) /\ idle' = idle
          /\ waiting' = Append(waiting, c) /\ Replenish(LiveAfter(G))
      BY <1>4 DEF WaitForPool
    <2>2. Open' = Open \ G /\ LiveAfter(G) \subseteq Analysers
      BY <1>0, <2>1, EnterTypes
    <2>3. before' \subseteq Open' \X Open' /\ quiet' \subseteq Open'
      BY <1>0, <2>1, <2>2 DEF Forget
    <2>4. warming' \subseteq Analysers /\ live' \subseteq Analysers
      BY <1>0, <2>1, <2>2, ReplenishTypes
    <2>5. waiting' \in Seq(Conns)
      BY <1>0, <2>1
    <2> QED BY <1>0, <2>1, <2>3, <2>4, <2>5, EnterTypes DEF TypeOK
  <1> QED BY <1>1, <1>2, <1>3, <1>4 DEF Accept

LEMMA TypeInit == Init => TypeOK
  <1> SUFFICES ASSUME Init PROVE TypeOK
    OBVIOUS
  <1>1. warming \subseteq Analysers /\ live \subseteq Analysers
    BY DEF Init
  <1>2. \A c \in Conns : ~(phase[c] \in {"starting", "open"}) /\ held[c] = NoAnalyser
    BY DEF Init
  <1>3. idle = <<>> /\ waiting = <<>> /\ topUp = FALSE
    BY DEF Init
  <1>4. idle \in Seq(Analysers) /\ waiting \in Seq(Conns) /\ topUp \in BOOLEAN
    <2>1. idle \in Seq(Analysers) /\ waiting \in Seq(Conns)
      BY <1>3, EmptySeq
    <2>2. topUp \in BOOLEAN
      BY <1>3
    <2> QED BY <2>1, <2>2
  <1>5. /\ phase \in [Conns -> Phases] /\ held \in [Conns -> Analysers \cup {NoAnalyser}]
        /\ hungUp = {} /\ before = {} /\ quiet = {}
    BY DEF Init, Phases
  <1> QED BY <1>1, <1>2, <1>4, <1>5 DEF TypeOK

LEMMA TypeStep == TypeOK /\ NobodyWaitsInVain /\ [Next]_vars => TypeOK'
  <1> SUFFICES ASSUME TypeOK, NobodyWaitsInVain, [Next]_vars PROVE TypeOK'
    OBVIOUS
  <1> USE AnalysersAssumption
  <1>1. ASSUME NEW c \in Conns, RefuseAtAddressLimit(c) PROVE TypeOK'
    BY <1>1 DEF RefuseAtAddressLimit, TypeOK, Phases, Open
  <1>2. ASSUME NEW c \in Conns, Connect(c) PROVE TypeOK'
    BY <1>2, AcceptTypes DEF Connect
  <1>3. ASSUME NEW c \in Conns, ConnectEvicting(c) PROVE TypeOK'
    <2>1. Evictable(c) \subseteq Open
      BY DEF Evictable, TypeOK
    <2> QED BY <1>3, <2>1, AcceptTypes DEF ConnectEvicting
  <1>4. ASSUME NEW c \in Conns, AcquireTimesOut(c) PROVE TypeOK'
    <2>1. waiting' \in Seq(Conns)
      BY <1>4, RemoveAtFacts DEF AcquireTimesOut, TypeOK
    <2>2. PICK a \in Analysers : held' = [held EXCEPT ![c] = a] /\ live' = live \cup {a}
      BY <1>4 DEF AcquireTimesOut
    <2>3. phase[c] = "waiting"
      BY <1>4 DEF AcquireTimesOut, NobodyWaitsInVain, ToSet, TypeOK
    <2>4. /\ phase' = [phase EXCEPT ![c] = "starting"] /\ hungUp' = hungUp
          /\ before' = before /\ quiet' = quiet /\ idle' = idle
          /\ warming' = warming /\ topUp' = topUp
      BY <1>4 DEF AcquireTimesOut
    <2>5. Open' = Open
      BY <2>3, <2>4 DEF TypeOK, Open
    <2>6. ASSUME NEW d \in Conns
          PROVE  phase'[d] \in {"starting", "open"} <=> held'[d] # NoAnalyser
      BY <2>2, <2>4 DEF TypeOK
    <2> QED BY <2>1, <2>2, <2>4, <2>5, <2>6 DEF TypeOK, Phases
  <1>5. ASSUME NEW c \in Conns, ColdStartEnds(c) PROVE TypeOK'
    <2>1. PICK a \in Analysers \cup {NoAnalyser} : Settle(c, a)
      BY <1>5 DEF ColdStartEnds, TypeOK
    <2> QED BY <1>5, <2>1, SettleTypes DEF ColdStartEnds, TypeOK
  <1>6. ASSUME NEW c \in Conns, ClientMessage(c) PROVE TypeOK'
    BY <1>6 DEF ClientMessage, Active, TypeOK, Open
  <1>7. ASSUME NEW c \in Conns, FallsQuiet(c) PROVE TypeOK'
    BY <1>7 DEF FallsQuiet, TypeOK, Open
  <1>8. ASSUME NEW c \in Conns, IdleTimeout(c) \/ LifetimeExpires(c) PROVE TypeOK'
    BY <1>8, CloseTypes DEF IdleTimeout, LifetimeExpires
  <1>9. ASSUME NEW c \in Conns, Disconnect(c) PROVE TypeOK'
    <2>1. CASE phase[c] = "open" /\ Close(c)
      BY <2>1, CloseTypes
    <2>2. CASE phase[c] \in {"waiting", "starting"}
      BY <1>9, <2>2 DEF Disconnect, TypeOK, Open
    <2>3. CASE phase[c] = "refused"
      BY <1>9, <2>3 DEF Disconnect, TypeOK, Phases, Open
    <2> QED BY <1>9, <2>1, <2>2, <2>3 DEF Disconnect
  <1>10. ASSUME NEW a \in Analysers, WarmUpSucceeds(a) PROVE TypeOK'
    <2>1. CASE waiting # <<>>
      <3>1. Head(waiting) \in Conns /\ Tail(waiting) \in Seq(Conns)
        BY <2>1, TailFacts DEF TypeOK
      <3>2. phase[Head(waiting)] = "waiting"
        BY <2>1, TailFacts DEF TypeOK, NobodyWaitsInVain
      <3>3. Settle(Head(waiting), a) /\ waiting' = Tail(waiting) /\ idle' = idle
            /\ warming' = warming \ {a} /\ topUp' = TRUE
        BY <1>10, <2>1 DEF WarmUpSucceeds
      <3> QED BY <3>1, <3>2, <3>3, SettleTypes DEF TypeOK
    <2>2. CASE waiting = <<>>
      BY <1>10, <2>2 DEF WarmUpSucceeds, TypeOK, Open
    <2> QED BY <2>1, <2>2
  <1>11. ASSUME NEW a \in Analysers, WarmUpFails(a) PROVE TypeOK'
    BY <1>11 DEF WarmUpFails, TypeOK, Open
  <1>12. ASSUME NEW a \in Analysers, AnalyserExits(a) PROVE TypeOK'
    <2>1. CASE \E c \in Open : held[c] = a /\ Close(c)
      BY <2>1, CloseTypes DEF Open
    <2>2. CASE \A c \in Open : held[c] # a
      BY <1>12, <2>2 DEF AnalyserExits, TypeOK, Open
    <2> QED BY <1>12, <2>1, <2>2 DEF AnalyserExits
  <1>13. CASE TopUp
    BY <1>13, ReplenishTypes DEF TopUp, TypeOK, Open
  <1>14. CASE Restart
    <2>1. warming' \subseteq Analysers /\ live' \subseteq Analysers
      BY <1>14 DEF Restart
    <2>2. \A c \in Conns : ~(phase'[c] \in {"starting", "open"}) /\ held'[c] = NoAnalyser
      BY <1>14 DEF Restart
    <2>3. idle' = <<>> /\ waiting' = <<>> /\ topUp' = FALSE
      BY <1>14 DEF Restart
    <2>4. idle' \in Seq(Analysers) /\ waiting' \in Seq(Conns) /\ topUp' \in BOOLEAN
      <3>1. idle' \in Seq(Analysers) /\ waiting' \in Seq(Conns)
        BY <2>3, EmptySeq
      <3>2. topUp' \in BOOLEAN
        BY <2>3
      <3> QED BY <3>1, <3>2
    <2>5. /\ phase' \in [Conns -> Phases] /\ held' \in [Conns -> Analysers \cup {NoAnalyser}]
          /\ hungUp' = {} /\ before' = {} /\ quiet' = {}
      BY <1>14 DEF Restart, Phases
    <2> QED BY <2>1, <2>2, <2>4, <2>5 DEF TypeOK
  <1>15. CASE UNCHANGED vars
    BY <1>15 DEF vars, TypeOK, Open
  <1> QED
    BY <1>1, <1>2, <1>3, <1>4, <1>5, <1>6, <1>7, <1>8, <1>9, <1>10, <1>11, <1>12,
       <1>13, <1>14, <1>15 DEF Next, ConnNext, AnalyserNext

-----------------------------------------------------------------------------
(* The queue: nobody waits while the pool has an analyser to give.          *)

Waiters == {c \in Conns : phase[c] = "waiting"}

LEMMA QueueUntouched ==
    ASSUME NobodyWaitsInVain, waiting' = waiting, idle' = idle, Waiters' = Waiters
    PROVE  NobodyWaitsInVain'
  BY DEF NobodyWaitsInVain, Waiters

\* A connection enters: it is queued only if the pool has nothing, and takes
\* an analyser out of the pool only if nobody can be queued.
LEMMA QueueAccept ==
    ASSUME TypeOK, NobodyWaitsInVain, NEW c \in Conns, phase[c] = "none",
           NEW G \in SUBSET Open, Accept(c, G)
    PROVE  NobodyWaitsInVain'
  <1>0. ASSUME NEW p \in {"refused", "starting", "open"}, NEW a, Enter(c, p, a, G)
        PROVE  Waiters' = Waiters
    BY <1>0 DEF Enter, Waiters, TypeOK, Open
  <1>1. CASE RefuseWhenFull(c, G)
    BY <1>0, <1>1, QueueUntouched DEF RefuseWhenFull
  <1>2. CASE StartRepl(c, G)
    BY <1>0, <1>2, QueueUntouched DEF StartRepl
  <1>3. CASE TakeWarm(c, G)
    <2>1. waiting = <<>> /\ waiting' = waiting
      BY <1>3 DEF TakeWarm, NobodyWaitsInVain
    <2>2. Waiters' = Waiters
      BY <1>0, <1>3 DEF TakeWarm
    <2> QED BY <2>1, <2>2 DEF NobodyWaitsInVain, Waiters
  <1>4. CASE WaitForPool(c, G)
    <2>1. /\ Enter(c, "waiting", NoAnalyser, G)
          /\ idle = <<>> /\ idle' = idle /\ waiting' = Append(waiting, c)
      BY <1>4 DEF WaitForPool
    <2>2. Waiters' = Waiters \cup {c}
      BY <2>1 DEF Enter, Waiters, TypeOK, Open
    <2>3. c \notin ToSet(waiting) /\ IsInjective(waiting) /\ ToSet(waiting) = Waiters
      BY DEF NobodyWaitsInVain, Waiters
    <2>4. IsInjective(waiting') /\ ToSet(waiting') = Waiters'
      BY <2>1, <2>2, <2>3, AppendFacts DEF TypeOK
    <2> QED BY <2>1, <2>4 DEF NobodyWaitsInVain, Waiters
  <1> QED BY <1>1, <1>2, <1>3, <1>4 DEF Accept

LEMMA QueueStep == TypeOK /\ NobodyWaitsInVain /\ [Next]_vars => NobodyWaitsInVain'
  <1> SUFFICES ASSUME TypeOK, NobodyWaitsInVain, [Next]_vars PROVE NobodyWaitsInVain'
    OBVIOUS
  <1>0. ASSUME NEW c \in Open, Close(c) PROVE NobodyWaitsInVain'
    <2>1. Waiters' = Waiters
      BY <1>0 DEF Close, Waiters, Open, TypeOK
    <2> QED BY <1>0, <2>1, QueueUntouched DEF Close
  <1>1. ASSUME NEW c \in Conns, RefuseAtAddressLimit(c) PROVE NobodyWaitsInVain'
    <2>1. Waiters' = Waiters
      BY <1>1 DEF RefuseAtAddressLimit, Waiters, TypeOK
    <2> QED BY <1>1, <2>1, QueueUntouched DEF RefuseAtAddressLimit
  <1>2. ASSUME NEW c \in Conns, Connect(c) PROVE NobodyWaitsInVain'
    BY <1>2, QueueAccept DEF Connect
  <1>3. ASSUME NEW c \in Conns, ConnectEvicting(c) PROVE NobodyWaitsInVain'
    <2>1. Evictable(c) \subseteq Open
      BY DEF Evictable, TypeOK
    <2> QED BY <1>3, <2>1, QueueAccept DEF ConnectEvicting
  <1>4. ASSUME NEW c \in Conns, AcquireTimesOut(c) PROVE NobodyWaitsInVain'
    <2>1. PICK i \in 1..Len(waiting) : waiting[i] = c /\ waiting' = RemoveAt(waiting, i)
      BY <1>4 DEF AcquireTimesOut
    <2>2. waiting \in Seq(Conns) /\ IsInjective(waiting) /\ ToSet(waiting) = Waiters
      BY DEF TypeOK, NobodyWaitsInVain, Waiters
    <2>3. IsInjective(waiting') /\ ToSet(waiting') = Waiters \ {c}
      BY <2>1, <2>2, RemoveAtFacts
    <2>4. Waiters' = Waiters \ {c}
      BY <1>4 DEF AcquireTimesOut, Waiters, TypeOK
    <2>5. waiting # <<>> /\ idle' = idle
      BY <1>4, <2>1, <2>2 DEF AcquireTimesOut
    <2> QED BY <2>3, <2>4, <2>5 DEF NobodyWaitsInVain, Waiters
  <1>5. ASSUME NEW c \in Conns, ColdStartEnds(c) PROVE NobodyWaitsInVain'
    <2>1. Waiters' = Waiters
      BY <1>5 DEF ColdStartEnds, Settle, Waiters, TypeOK
    <2> QED BY <1>5, <2>1, QueueUntouched DEF ColdStartEnds
  <1>6. ASSUME NEW c \in Conns, ClientMessage(c) \/ FallsQuiet(c) PROVE NobodyWaitsInVain'
    BY <1>6, QueueUntouched DEF ClientMessage, FallsQuiet, Waiters
  <1>7. ASSUME NEW c \in Conns, IdleTimeout(c) \/ LifetimeExpires(c) PROVE NobodyWaitsInVain'
    BY <1>0, <1>7 DEF IdleTimeout, LifetimeExpires, Open
  <1>8. ASSUME NEW c \in Conns, Disconnect(c) PROVE NobodyWaitsInVain'
    <2>1. CASE phase[c] = "open" /\ Close(c)
      BY <1>0, <2>1 DEF Open
    <2>2. CASE ~(phase[c] = "open" /\ Close(c))
      <3>1. Waiters' = Waiters
        BY <1>8, <2>2 DEF Disconnect, Waiters, TypeOK
      <3> QED BY <1>8, <2>2, <3>1, QueueUntouched DEF Disconnect
    <2> QED BY <2>1, <2>2
  <1>9. ASSUME NEW a \in Analysers, WarmUpSucceeds(a) PROVE NobodyWaitsInVain'
    <2>1. CASE waiting # <<>>
      <3> DEFINE c == Head(waiting)
      <3>1. /\ c \in Conns /\ IsInjective(waiting') /\ ToSet(waiting') = Waiters \ {c}
            /\ c \in Waiters /\ idle = <<>> /\ idle' = idle /\ Settle(c, a)
        <4>1. /\ waiting \in Seq(Conns) /\ IsInjective(waiting) /\ ToSet(waiting) = Waiters
              /\ idle = <<>> /\ Waiters \subseteq Conns
          BY <2>1 DEF TypeOK, NobodyWaitsInVain, Waiters
        <4>2. waiting' = Tail(waiting) /\ idle' = idle /\ Settle(c, a)
          BY <1>9, <2>1 DEF WarmUpSucceeds
        <4>3. /\ ToSet(waiting) = ToSet(Tail(waiting)) \cup {c} /\ c \notin ToSet(Tail(waiting))
              /\ IsInjective(Tail(waiting))
          BY <2>1, <4>1, TailFacts
        <4> QED BY <4>1, <4>2, <4>3
      <3>2. Waiters' = Waiters \ {c}
        <4> HIDE DEF c
        <4> QED BY <3>1 DEF Settle, Waiters, TypeOK
      <3> QED BY <3>1, <3>2 DEF NobodyWaitsInVain, Waiters
    <2>2. CASE waiting = <<>>
      BY <1>9, <2>2 DEF WarmUpSucceeds, NobodyWaitsInVain
    <2> QED BY <2>1, <2>2
  <1>10. ASSUME NEW a \in Analysers, WarmUpFails(a) PROVE NobodyWaitsInVain'
    BY <1>10, QueueUntouched DEF WarmUpFails, Waiters
  <1>11. ASSUME NEW a \in Analysers, AnalyserExits(a) PROVE NobodyWaitsInVain'
    BY <1>0, <1>11, QueueUntouched DEF AnalyserExits, Waiters
  <1>12. CASE TopUp
    BY <1>12, QueueUntouched DEF TopUp, Waiters
  <1>13. CASE Restart
    <2>1. waiting' = <<>> /\ Waiters' = {}
      BY <1>13 DEF Restart, Waiters
    <2> QED BY <2>1 DEF NobodyWaitsInVain, Waiters, ToSet, IsInjective
  <1>14. CASE UNCHANGED vars
    BY <1>14, QueueUntouched DEF vars, Waiters
  <1> QED
    BY <1>1, <1>2, <1>3, <1>4, <1>5, <1>6, <1>7, <1>8, <1>9, <1>10, <1>11, <1>12,
       <1>13, <1>14 DEF Next, ConnNext, AnalyserNext

LEMMA QueueInit == Init => NobodyWaitsInVain
  <1> SUFFICES ASSUME Init PROVE NobodyWaitsInVain
    OBVIOUS
  <1>1. waiting = <<>> /\ {c \in Conns : phase[c] = "waiting"} = {}
    BY DEF Init
  <1> QED BY <1>1 DEF NobodyWaitsInVain, ToSet, IsInjective

\* Every variable keeps its type: an analyser is held exactly by a session or
\* by the connection it starts for, and only sessions are active or quiet.
THEOREM TypeCorrect == Spec => []TypeOK
  <1>1. Init => TypeOK /\ NobodyWaitsInVain
    BY TypeInit, QueueInit
  <1>2. TypeOK /\ NobodyWaitsInVain /\ [Next]_vars => (TypeOK /\ NobodyWaitsInVain)'
    BY TypeStep, QueueStep
  <1> QED BY <1>1, <1>2, PTL DEF Spec

\* While a connection waits the pool is empty, and the queue is exactly the
\* connections waiting, whatever timers, exits and arrivals interleave.
THEOREM QueueIsExact == Spec => []NobodyWaitsInVain
  <1>1. Init => TypeOK /\ NobodyWaitsInVain
    BY TypeInit, QueueInit
  <1>2. TypeOK /\ NobodyWaitsInVain /\ [Next]_vars => (TypeOK /\ NobodyWaitsInVain)'
    BY TypeStep, QueueStep
  <1> QED BY <1>1, <1>2, PTL DEF Spec

-----------------------------------------------------------------------------
(* The budgets of slots: MAX_SESSIONS and MAX_SESSIONS_PER_ADDRESS.         *)

LEMMA SlotsAreFinite ==
    ASSUME NEW S \in SUBSET Slots
    PROVE  /\ IsFiniteSet(Slots) /\ IsFiniteSet(S)
           /\ Cardinality(S) \in Nat /\ Cardinality(S) <= Cardinality(Slots)
           /\ Cardinality(Slots) \in Nat
  <1>1. IsFiniteSet(Slots)
    BY ConnsAssumption, FS_Subset DEF Slots
  <1> QED BY <1>1, FS_Subset, FS_CardinalityType

LEMMA BudgetOfFewerSlots ==
    ASSUME SlotBudget, Slots' \subseteq Slots
    PROVE  SlotBudget'
  <1>1. Cardinality(Slots') <= MaxSessions
    <2>1. Cardinality(Slots') <= Cardinality(Slots) /\ Cardinality(Slots') \in Nat
      BY SlotsAreFinite
    <2> QED BY <2>1, SlotsAreFinite, LimitsAssumption DEF SlotBudget
  <1>2. ASSUME NEW c \in Conns PROVE Cardinality(SameAddress(c)') <= MaxSessionsPerAddress
    <2>1. SameAddress(c)' \subseteq SameAddress(c) /\ SameAddress(c) \subseteq Slots
      BY DEF SameAddress
    <2>2. IsFiniteSet(SameAddress(c)) /\ Cardinality(SameAddress(c)) \in Nat
      BY <2>1, SlotsAreFinite
    <2>3. /\ Cardinality(SameAddress(c)') <= Cardinality(SameAddress(c))
          /\ Cardinality(SameAddress(c)') \in Nat
      BY <2>1, <2>2, FS_Subset, FS_CardinalityType
    <2> QED BY <2>2, <2>3, LimitsAssumption DEF SlotBudget
  <1> QED BY <1>1, <1>2 DEF SlotBudget

\* A slot more, once the sessions G have gone: there was room for it.
LEMMA BudgetOfOneMore ==
    ASSUME TypeOK, SlotBudget, NEW c \in Conns \ Slots, NEW G \in SUBSET Slots,
           Cardinality(Slots \ G) < MaxSessions,
           Cardinality(SameAddress(c) \ G) < MaxSessionsPerAddress,
           Slots' = (Slots \ G) \cup {c}
    PROVE  SlotBudget'
  <1> USE LimitsAssumption
  <1>1. Cardinality(Slots') <= MaxSessions
    <2>1. IsFiniteSet(Slots \ G) /\ Cardinality(Slots \ G) \in Nat /\ c \notin Slots \ G
      BY SlotsAreFinite
    <2>2. Cardinality(Slots') = Cardinality(Slots \ G) + 1
      BY <2>1, FS_AddElement
    <2> QED BY <2>1, <2>2
  <1>2. ASSUME NEW d \in Conns PROVE Cardinality(SameAddress(d)') <= MaxSessionsPerAddress
    <2>0. SameAddress(d) \subseteq Slots /\ SameAddress(c) \subseteq Slots
      BY DEF SameAddress
    <2>1. CASE AddressOf[d] = AddressOf[c] /\ AddressOf[c] # NoAddress
      <3>1. SameAddress(d)' = (SameAddress(c) \ G) \cup {c} /\ c \notin SameAddress(c)
        BY <2>1 DEF SameAddress
      <3>2. IsFiniteSet(SameAddress(c) \ G) /\ Cardinality(SameAddress(c) \ G) \in Nat
        BY <2>0, SlotsAreFinite
      <3>3. Cardinality((SameAddress(c) \ G) \cup {c}) = Cardinality(SameAddress(c) \ G) + 1
        BY <3>1, <3>2, FS_AddElement
      <3> QED BY <3>1, <3>2, <3>3
    <2>2. CASE ~(AddressOf[d] = AddressOf[c] /\ AddressOf[c] # NoAddress)
      <3>1. SameAddress(d)' \subseteq SameAddress(d)
        BY <2>2 DEF SameAddress
      <3>2. IsFiniteSet(SameAddress(d)) /\ Cardinality(SameAddress(d)) \in Nat
        BY <2>0, SlotsAreFinite
      <3>3. /\ Cardinality(SameAddress(d)') <= Cardinality(SameAddress(d))
            /\ Cardinality(SameAddress(d)') \in Nat
        BY <3>1, <3>2, FS_Subset, FS_CardinalityType
      <3> QED BY <3>2, <3>3 DEF SlotBudget
    <2> QED BY <2>1, <2>2
  <1> QED BY <1>1, <1>2 DEF SlotBudget

LEMMA EnterSlots ==
    ASSUME TypeOK, NEW c \in Conns, phase[c] = "none", NEW G \in SUBSET Open,
           NEW p \in Phases, NEW a, Enter(c, p, a, G)
    PROVE  /\ c \notin Slots /\ G \subseteq Slots
           /\ Slots' = (Slots \ G) \cup (IF p \in {"waiting", "starting", "open"}
                                         THEN {c} ELSE {})
  BY DEF Enter, Slots, Open, TypeOK, Phases

LEMMA BudgetAccept ==
    ASSUME TypeOK, SlotBudget, NEW c \in Conns, phase[c] = "none", NEW G \in SUBSET Open,
           Cardinality(SameAddress(c) \ G) < MaxSessionsPerAddress, Accept(c, G)
    PROVE  SlotBudget'
  <1>1. CASE Cardinality(Slots \ G) >= MaxSessions
    <2>1. Enter(c, "refused", NoAnalyser, G)
      BY <1>1 DEF Accept, RefuseWhenFull
    <2>2. Slots' \subseteq Slots
      BY <2>1, EnterSlots DEF Phases
    <2> QED BY <2>2, BudgetOfFewerSlots
  <1>2. CASE ~(Cardinality(Slots \ G) >= MaxSessions)
    <2>1. PICK p \in {"waiting", "starting", "open"}, a \in {NoAnalyser, Head(idle)} \cup Analysers :
          Enter(c, p, a, G)
      BY <1>2 DEF Accept, StartRepl, TakeWarm, WaitForPool
    <2>2. /\ Slots' = (Slots \ G) \cup {c} /\ c \notin Slots /\ G \subseteq Slots
      <3>1. p \in Phases
        BY DEF Phases
      <3> QED BY <2>1, <3>1, EnterSlots
    <2>3. Cardinality(Slots \ G) < MaxSessions
      BY <1>2, SlotsAreFinite, LimitsAssumption
    <2> QED BY <2>2, <2>3, BudgetOfOneMore
  <1> QED BY <1>1, <1>2

LEMMA BudgetStep == TypeOK /\ NobodyWaitsInVain /\ SlotBudget /\ [Next]_vars => SlotBudget'
  <1> SUFFICES ASSUME TypeOK, NobodyWaitsInVain, SlotBudget, [Next]_vars PROVE SlotBudget'
    OBVIOUS
  <1>1. ASSUME NEW c \in Conns, Connect(c) PROVE SlotBudget'
    <2>1. SameAddress(c) \subseteq Slots /\ SameAddress(c) \ {} = SameAddress(c)
      BY DEF SameAddress
    <2>2. Cardinality(SameAddress(c)) < MaxSessionsPerAddress
      BY <1>1, <2>1, SlotsAreFinite, LimitsAssumption DEF Connect, AtAddressLimit
    <2> QED BY <1>1, <2>1, <2>2, BudgetAccept DEF Connect
  <1>2. ASSUME NEW c \in Conns, ConnectEvicting(c) PROVE SlotBudget'
    <2>1. PICK d \in Evictable(c) : Accept(c, {d})
      BY <1>2 DEF ConnectEvicting
    <2>2. d \in SameAddress(c) /\ d \in Open /\ SameAddress(c) \subseteq Slots
      BY DEF Evictable, SameAddress, TypeOK
    <2>3. /\ IsFiniteSet(SameAddress(c)) /\ Cardinality(SameAddress(c)) \in Nat
          /\ Cardinality(SameAddress(c) \ {d}) = Cardinality(SameAddress(c)) - 1
      BY <2>2, SlotsAreFinite, FS_RemoveElement
    <2>4. Cardinality(SameAddress(c) \ {d}) < MaxSessionsPerAddress
      BY <2>3, LimitsAssumption DEF SlotBudget
    <2> QED BY <1>2, <2>1, <2>2, <2>4, BudgetAccept DEF ConnectEvicting
  <1>3. ASSUME NEW c \in Conns, AcquireTimesOut(c) PROVE SlotBudget'
    <2>1. phase[c] = "waiting"
      BY <1>3 DEF AcquireTimesOut, NobodyWaitsInVain, ToSet, TypeOK
    <2>2. Slots' = Slots
      BY <1>3, <2>1 DEF AcquireTimesOut, Slots, TypeOK
    <2> QED BY <2>2, BudgetOfFewerSlots
  <1>4. ASSUME NEW c \in Open, Close(c) PROVE SlotBudget'
    <2>1. Slots' \subseteq Slots
      BY <1>4 DEF Close, Slots, Open, TypeOK
    <2> QED BY <2>1, BudgetOfFewerSlots
  <1>5. ASSUME NEW c \in Slots, NEW a, Settle(c, a) PROVE SlotBudget'
    <2>1. Slots' \subseteq Slots
      BY <1>5 DEF Settle, Slots, TypeOK
    <2> QED BY <2>1, BudgetOfFewerSlots
  <1>6. ASSUME Slots' \subseteq Slots PROVE SlotBudget'
    BY <1>6, BudgetOfFewerSlots
  <1>7. ASSUME NEW c \in Conns, ConnNext(c) PROVE SlotBudget'
    <2>1. CASE RefuseAtAddressLimit(c)
      BY <2>1, <1>6 DEF RefuseAtAddressLimit, Slots, TypeOK
    <2>2. CASE ColdStartEnds(c)
      BY <2>2, <1>5 DEF ColdStartEnds, Slots
    <2>3. CASE ClientMessage(c) \/ FallsQuiet(c)
      BY <2>3, <1>6 DEF ClientMessage, FallsQuiet, Slots
    <2>4. CASE IdleTimeout(c) \/ LifetimeExpires(c)
      BY <2>4, <1>4 DEF IdleTimeout, LifetimeExpires, Open
    <2>5. CASE Disconnect(c)
      BY <2>5, <1>4, <1>6 DEF Disconnect, Slots, Open, TypeOK
    <2> QED BY <1>1, <1>2, <1>3, <1>7, <2>1, <2>2, <2>3, <2>4, <2>5 DEF ConnNext
  <1>8. ASSUME NEW a \in Analysers, AnalyserNext(a) PROVE SlotBudget'
    <2>1. CASE WarmUpSucceeds(a)
      <3>1. CASE waiting # <<>>
        <4>1. Head(waiting) \in ToSet(waiting)
          BY <3>1, TailFacts DEF TypeOK
        <4>2. Head(waiting) \in Slots
          BY <4>1 DEF NobodyWaitsInVain, Slots
        <4> QED BY <2>1, <3>1, <4>2, <1>5 DEF WarmUpSucceeds
      <3>2. CASE waiting = <<>>
        BY <2>1, <3>2, <1>6 DEF WarmUpSucceeds, Slots
      <3> QED BY <3>1, <3>2
    <2>2. CASE WarmUpFails(a)
      BY <2>2, <1>6 DEF WarmUpFails, Slots
    <2>3. CASE AnalyserExits(a)
      BY <2>3, <1>4, <1>6 DEF AnalyserExits, Slots
    <2> QED BY <1>8, <2>1, <2>2, <2>3 DEF AnalyserNext
  <1>9. CASE TopUp \/ UNCHANGED vars
    BY <1>9, <1>6 DEF TopUp, vars, Slots
  <1>10. CASE Restart
    BY <1>10, <1>6 DEF Restart, Slots
  <1> QED BY <1>7, <1>8, <1>9, <1>10 DEF Next

\* No order of arrivals, slow acquisitions and evictions lets the sessions and
\* the connections acquiring one exceed either limit.
THEOREM SlotsStayInBudget == Spec => []SlotBudget
  <1>1. Init => SlotBudget
    <2> SUFFICES ASSUME Init PROVE SlotBudget
      OBVIOUS
    <2>1. Slots = {} /\ \A c \in Conns : SameAddress(c) = {}
      BY DEF Init, Slots, SameAddress
    <2> QED BY <2>1, FS_EmptySet, LimitsAssumption DEF SlotBudget
  <1> QED BY <1>1, BudgetStep, TypeCorrect, QueueIsExact, PTL DEF Spec

-----------------------------------------------------------------------------
(* The pool: short only while a top-up is due.                              *)

PoolLen == Len(idle) + Cardinality(warming)

LEMMA WarmingIsFinite ==
    ASSUME TypeOK
    PROVE  /\ IsFiniteSet(warming) /\ Cardinality(warming) \in Nat
           /\ Len(idle) \in Nat /\ PoolLen \in Nat /\ PoolSize \in Nat
  <1>1. IsFiniteSet(warming) /\ Cardinality(warming) \in Nat
    BY AnalysersAssumption, FS_Subset, FS_CardinalityType DEF TypeOK
  <1>2. Len(idle) \in Nat
    BY LenProperties DEF TypeOK
  <1> QED BY <1>1, <1>2, LimitsAssumption DEF PoolLen

\* ShortfallIsScheduled in terms of the two counts.
LEMMA ShortfallMeaning ==
    ASSUME TypeOK
    PROVE  ShortfallIsScheduled <=> PoolLen = PoolSize \/ (topUp /\ PoolLen < PoolSize)
  <1>1. Shortfall(idle) > 0 <=> PoolLen < PoolSize
    BY WarmingIsFinite DEF Shortfall, PoolLen
  <1> QED BY <1>1 DEF ShortfallIsScheduled, PoolLen

\* replenish() fills the pool.
LEMMA ReplenishFills ==
    ASSUME TypeOK, TypeOK', NEW l, Replenish(l),
           Len(idle') + Cardinality(warming) <= PoolSize
    PROVE  PoolLen' = PoolSize
  <1>1. PICK new \in SUBSET Analysers :
        /\ new \cap warming = {} /\ Cardinality(new) = Shortfall(idle')
        /\ warming' = warming \cup new
    BY DEF Replenish
  <1>2. Len(idle') \in Nat
    BY LenProperties DEF TypeOK
  <1>3. IsFiniteSet(new) /\ Cardinality(new) \in Nat
    BY AnalysersAssumption, FS_Subset, FS_CardinalityType
  <1>4. Cardinality(warming') = Cardinality(warming) + Cardinality(new) - Cardinality(warming \cap new)
    BY <1>1, <1>3, WarmingIsFinite, FS_Union
  <1>5. Cardinality(warming \cap new) = 0
    BY <1>1, FS_EmptySet
  <1>6. Cardinality(new) = PoolSize - (Len(idle') + Cardinality(warming))
    BY <1>1, <1>2, WarmingIsFinite DEF Shortfall
  <1> QED BY <1>2, <1>3, <1>4, <1>5, <1>6, WarmingIsFinite DEF PoolLen

LEMMA ShortfallUntouched ==
    ASSUME TypeOK, TypeOK', ShortfallIsScheduled, idle' = idle, warming' = warming, topUp' = topUp
    PROVE  ShortfallIsScheduled'
  BY DEF ShortfallIsScheduled, Shortfall

LEMMA ShortfallReplenished ==
    ASSUME TypeOK, TypeOK', ShortfallIsScheduled, NEW l, Replenish(l),
           Len(idle') <= Len(idle)
    PROVE  ShortfallIsScheduled'
  <1>1. PoolLen <= PoolSize
    BY ShortfallMeaning, WarmingIsFinite
  <1>2. Len(idle') \in Nat
    BY LenProperties DEF TypeOK
  <1>3. Len(idle') + Cardinality(warming) <= PoolSize
    BY <1>1, <1>2, WarmingIsFinite DEF PoolLen
  <1>4. PoolLen' = PoolSize
    BY <1>3, ReplenishFills
  <1> QED BY <1>4 DEF ShortfallIsScheduled, PoolLen

LEMMA ShortfallAccept ==
    ASSUME TypeOK, TypeOK', ShortfallIsScheduled, NEW c \in Conns, NEW G, Accept(c, G)
    PROVE  ShortfallIsScheduled'
  <1>1. CASE RefuseWhenFull(c, G)
    BY <1>1, ShortfallUntouched, ShortfallReplenished
       DEF RefuseWhenFull, Enter, ReplenishIfEvicted
  <1>2. CASE StartRepl(c, G)
    <2>1. PICK a : ReplenishIfEvicted(G, LiveAfter(G) \cup {a})
      BY <1>2 DEF StartRepl
    <2> QED BY <1>2, <2>1, ShortfallUntouched, ShortfallReplenished
            DEF StartRepl, Enter, ReplenishIfEvicted
  <1>3. CASE TakeWarm(c, G)
    <2>1. Len(idle') <= Len(idle)
      BY <1>3, TailFacts DEF TakeWarm, TypeOK
    <2> QED BY <1>3, <2>1, ShortfallReplenished DEF TakeWarm
  <1>4. CASE WaitForPool(c, G)
    BY <1>4, ShortfallReplenished DEF WaitForPool
  <1> QED BY <1>1, <1>2, <1>3, <1>4 DEF Accept

LEMMA ShortfallStep ==
    TypeOK /\ TypeOK' /\ ShortfallIsScheduled /\ [Next]_vars => ShortfallIsScheduled'
  <1> SUFFICES ASSUME TypeOK, TypeOK', ShortfallIsScheduled, [Next]_vars
               PROVE  ShortfallIsScheduled'
    OBVIOUS
  <1>1. ASSUME NEW c, Close(c) PROVE ShortfallIsScheduled'
    BY <1>1, ShortfallReplenished, WarmingIsFinite DEF Close
  <1>2. ASSUME NEW c \in Conns, ConnNext(c) PROVE ShortfallIsScheduled'
    <2>1. CASE Connect(c) \/ ConnectEvicting(c)
      BY <2>1, ShortfallAccept DEF Connect, ConnectEvicting
    <2>2. CASE RefuseAtAddressLimit(c) \/ AcquireTimesOut(c) \/ ClientMessage(c) \/ FallsQuiet(c)
      BY <2>2, ShortfallUntouched
         DEF RefuseAtAddressLimit, AcquireTimesOut, ClientMessage, FallsQuiet
    <2>3. CASE ColdStartEnds(c)
      BY <2>3, ShortfallUntouched DEF ColdStartEnds
    <2>4. CASE IdleTimeout(c) \/ LifetimeExpires(c)
      BY <2>4, <1>1 DEF IdleTimeout, LifetimeExpires
    <2>5. CASE Disconnect(c)
      BY <2>5, <1>1, ShortfallUntouched DEF Disconnect
    <2> QED BY <1>2, <2>1, <2>2, <2>3, <2>4, <2>5 DEF ConnNext
  <1>3. ASSUME NEW a \in Analysers, a \in warming, warming' = warming \ {a}, topUp' = TRUE,
               \/ idle' = idle
               \/ idle' = Append(idle, a)
        PROVE  ShortfallIsScheduled'
    <2>1. Cardinality(warming') = Cardinality(warming) - 1
      BY <1>3, WarmingIsFinite, FS_RemoveElement
    <2>2. Len(idle') = Len(idle) \/ Len(idle') = Len(idle) + 1
      BY <1>3, AppendFacts DEF TypeOK
    <2>3. PoolLen <= PoolSize
      BY ShortfallMeaning, WarmingIsFinite
    <2>4. PoolLen' <= PoolSize /\ PoolLen' \in Int
      BY <2>1, <2>2, <2>3, WarmingIsFinite DEF PoolLen
    <2>5. (ShortfallIsScheduled <=> PoolLen = PoolSize \/ (topUp /\ PoolLen < PoolSize))'
      BY ShortfallMeaning, PTL
    <2> QED BY <1>3, <2>4, <2>5, LimitsAssumption
  <1>4. ASSUME NEW a \in Analysers, AnalyserNext(a) PROVE ShortfallIsScheduled'
    <2>1. CASE WarmUpSucceeds(a) \/ WarmUpFails(a)
      BY <2>1, <1>3 DEF WarmUpSucceeds, WarmUpFails
    <2>2. CASE AnalyserExits(a)
      BY <2>2, <1>1, ShortfallUntouched DEF AnalyserExits
    <2> QED BY <1>4, <2>1, <2>2 DEF AnalyserNext
  <1>5. CASE TopUp
    BY <1>5, ShortfallReplenished, WarmingIsFinite DEF TopUp
  <1>6. CASE Restart
    <2>1. Len(idle') = 0 /\ Cardinality(warming') = PoolSize
      BY <1>6, EmptySeq DEF Restart
    <2> QED BY <2>1, LimitsAssumption DEF ShortfallIsScheduled
  <1>7. CASE UNCHANGED vars
    BY <1>7, ShortfallUntouched DEF vars
  <1> QED BY <1>2, <1>4, <1>5, <1>6, <1>7 DEF Next

\* However warm-ups fail and sessions end, a pool that is short has a
\* replenish() to come.
THEOREM PoolIsRefilled == Spec => []ShortfallIsScheduled
  <1>1. Init => ShortfallIsScheduled
    <2> SUFFICES ASSUME Init PROVE ShortfallIsScheduled
      OBVIOUS
    <2>1. Len(idle) = 0 /\ Cardinality(warming) = PoolSize
      BY EmptySeq DEF Init
    <2> QED BY <2>1, LimitsAssumption DEF ShortfallIsScheduled
  <1>2. TypeOK /\ TypeOK' /\ ShortfallIsScheduled /\ [Next]_vars => ShortfallIsScheduled'
    BY ShortfallStep
  <1> QED BY <1>1, <1>2, TypeCorrect, PTL DEF Spec

-----------------------------------------------------------------------------
(* The pool, the warming analysers and what connections hold are apart.     *)

HeldApart(i, w, h) == /\ \A c \in Conns : h[c] \notin ToSet(i) \cup w
                      /\ \A c, d \in Conns : h[c] = h[d] => c = d \/ h[c] = NoAnalyser

Apart(i, w, h) == IsInjective(i) /\ ToSet(i) \cap w = {} /\ HeldApart(i, w, h)

LEMMA OwnersAreApart ==
    ASSUME TypeOK
    PROVE  SingleOwner <=> Apart(idle, warming, held)
  <1>1. /\ ToSet(idle) \cup warming \subseteq Analysers /\ NoAnalyser \notin Analysers
        /\ \A c \in Conns \ Slots : held[c] = NoAnalyser
    <2>1. ToSet(idle) \subseteq Analysers
      BY ToSetFacts DEF TypeOK
    <2>2. \A c \in Conns \ Slots : held[c] = NoAnalyser
      BY DEF TypeOK, Slots
    <2> QED BY <2>1, <2>2, AnalysersAssumption DEF TypeOK
  <1>2. SingleOwner => Apart(idle, warming, held)
    <2> SUFFICES ASSUME SingleOwner PROVE HeldApart(idle, warming, held)
      BY DEF SingleOwner, Apart
    <2>1. ASSUME NEW c \in Conns PROVE held[c] \notin ToSet(idle) \cup warming
      BY <1>1 DEF SingleOwner
    <2>2. ASSUME NEW c \in Conns, NEW d \in Conns, held[c] = held[d], held[c] # NoAnalyser
          PROVE  c = d
      BY <1>1, <2>2 DEF SingleOwner
    <2> QED BY <2>1, <2>2 DEF HeldApart
  <1>3. Apart(idle, warming, held) => SingleOwner
    BY DEF Apart, HeldApart, SingleOwner, Slots
  <1> QED BY <1>2, <1>3

\* Only c may be given a process, and one that nobody else has.
LEMMA ApartStep ==
    ASSUME TypeOK, SingleOwner, NEW c \in Conns, NEW a \in Analysers \cup {NoAnalyser},
           NEW w \in SUBSET warming, NEW i \in Seq(Analysers), NEW h,
           h[c] = a,
           \A d \in Conns \ {c} : h[d] \in {held[d], NoAnalyser},
           \A d \in Conns \ {c} : held[d] # a \/ a = NoAnalyser,
           IsInjective(i), ToSet(i) \subseteq ToSet(idle), a \notin ToSet(i) \cup w
    PROVE  Apart(i, w, h)
  <1>1. Apart(idle, warming, held)
    BY OwnersAreApart
  <1>2. ToSet(i) \cup w \subseteq Analysers /\ NoAnalyser \notin Analysers
    BY ToSetFacts, AnalysersAssumption DEF TypeOK
  <1>3. ASSUME NEW d \in Conns PROVE h[d] \notin ToSet(i) \cup w
    BY <1>1, <1>2 DEF Apart, HeldApart
  <1>4. ASSUME NEW d \in Conns, NEW e \in Conns, h[d] = h[e], h[d] # NoAnalyser
        PROVE  d = e
    BY <1>1, <1>4 DEF Apart, HeldApart
  <1> QED BY <1>1, <1>3, <1>4 DEF Apart, HeldApart

LEMMA ApartIsOwner == ASSUME TypeOK', Apart(idle', warming', held') PROVE SingleOwner'
  <1>1. (SingleOwner <=> Apart(idle, warming, held))'
    BY OwnersAreApart, PTL
  <1>2. Apart(idle, warming, held)'
    BY DEF Apart, HeldApart
  <1> QED BY <1>1, <1>2

\* replenish() starts processes under names nobody has.
LEMMA ApartReplenish ==
    ASSUME TypeOK', Apart(idle', warming, held'), NEW l, Replenish(l)
    PROVE  SingleOwner'
  <1>1. PICK new : /\ new \cap (ToSet(idle') \cup Range(held')) = {}
                   /\ warming' = warming \cup new
    BY DEF Replenish
  <1>2. \A c \in Conns : held'[c] \in Range(held')
    BY DEF TypeOK, Range
  <1>3. Apart(idle', warming', held')
    BY <1>1, <1>2 DEF Apart, HeldApart
  <1> QED BY <1>3, ApartIsOwner

LEMMA OwnerClose ==
    ASSUME TypeOK, TypeOK', SingleOwner, NEW c \in Conns, Close(c)
    PROVE  SingleOwner'
  <1>1. /\ held' = [held EXCEPT ![c] = NoAnalyser] /\ idle' = idle
        /\ Replenish(live \ {held[c]})
    BY DEF Close
  <1>2. /\ held'[c] = NoAnalyser /\ \A d \in Conns \ {c} : held'[d] \in {held[d], NoAnalyser}
        /\ IsInjective(idle) /\ idle \in Seq(Analysers)
        /\ NoAnalyser \notin ToSet(idle) \cup warming
    BY <1>1, ToSetFacts, AnalysersAssumption DEF TypeOK, SingleOwner
  <1>3. Apart(idle, warming, held')
    BY <1>2, ApartStep
  <1> QED BY <1>1, <1>3, ApartReplenish

LEMMA OwnerAccept ==
    ASSUME TypeOK, TypeOK', SingleOwner, NEW c \in Conns, phase[c] = "none",
           NEW G \in SUBSET Open, Accept(c, G)
    PROVE  SingleOwner'
  <1>0. /\ idle \in Seq(Analysers) /\ IsInjective(idle) /\ ToSet(idle) \subseteq Analysers
        /\ warming \subseteq Analysers /\ NoAnalyser \notin Analysers
        /\ held[c] = NoAnalyser
    BY ToSetFacts, AnalysersAssumption DEF TypeOK, SingleOwner
  <1>1. ASSUME NEW p, NEW a, Enter(c, p, a, G)
        PROVE  held'[c] = a /\ \A d \in Conns \ {c} : held'[d] \in {held[d], NoAnalyser}
    BY <1>1 DEF Enter
  <1>2. CASE RefuseWhenFull(c, G) \/ WaitForPool(c, G)
    <2>1. /\ held'[c] = NoAnalyser /\ \A d \in Conns \ {c} : held'[d] \in {held[d], NoAnalyser}
          /\ idle' = idle
      BY <1>1, <1>2 DEF RefuseWhenFull, WaitForPool
    <2>2. Apart(idle', warming, held')
      BY <1>0, <2>1, ApartStep
    <2> QED BY <1>2, <2>2, ApartReplenish, ApartIsOwner
            DEF RefuseWhenFull, WaitForPool, ReplenishIfEvicted
  <1>3. CASE StartRepl(c, G)
    <2>1. PICK a \in Analysers \ (ToSet(idle) \cup warming \cup Range(held)) :
          /\ Enter(c, "starting", a, G) /\ idle' = idle
          /\ ReplenishIfEvicted(G, LiveAfter(G) \cup {a})
      BY <1>3 DEF StartRepl
    <2>2. \A d \in Conns : held[d] # a
      BY <2>1 DEF TypeOK, Range
    <2>3. Apart(idle', warming, held')
      BY <1>0, <1>1, <2>1, <2>2, ApartStep
    <2> QED BY <2>1, <2>3, ApartReplenish, ApartIsOwner DEF ReplenishIfEvicted
  <1>4. CASE TakeWarm(c, G)
    <2>1. /\ Enter(c, "open", Head(idle), G) /\ idle' = Tail(idle) /\ idle # <<>>
          /\ Replenish(LiveAfter(G))
      BY <1>4 DEF TakeWarm
    <2>2. /\ Head(idle) \in ToSet(idle) /\ ToSet(Tail(idle)) \subseteq ToSet(idle)
          /\ IsInjective(Tail(idle)) /\ Head(idle) \notin ToSet(Tail(idle))
          /\ Tail(idle) \in Seq(Analysers) /\ Head(idle) \in Analysers
      BY <1>0, <2>1, TailFacts
    <2>3. Head(idle) \notin warming /\ \A d \in Conns : held[d] # Head(idle)
      BY <2>2, OwnersAreApart DEF Apart, HeldApart
    <2>4. Apart(Tail(idle), warming, held')
      BY <1>1, <2>1, <2>2, <2>3, ApartStep
    <2> QED BY <2>1, <2>4, ApartReplenish
  <1> QED BY <1>2, <1>3, <1>4 DEF Accept

LEMMA OwnerStep ==
    TypeOK /\ TypeOK' /\ NobodyWaitsInVain /\ SingleOwner /\ [Next]_vars => SingleOwner'
  <1> SUFFICES ASSUME TypeOK, TypeOK', NobodyWaitsInVain, SingleOwner, [Next]_vars
               PROVE  SingleOwner'
    OBVIOUS
  <1>0. /\ idle \in Seq(Analysers) /\ IsInjective(idle) /\ ToSet(idle) \subseteq Analysers
        /\ warming \subseteq Analysers /\ NoAnalyser \notin Analysers
        /\ Apart(idle, warming, held)
    BY ToSetFacts, OwnersAreApart, AnalysersAssumption DEF TypeOK, SingleOwner
  <1>1. ASSUME idle' = idle, warming' = warming, held' = held PROVE SingleOwner'
    BY <1>0, <1>1, ApartIsOwner
  <1>2. ASSUME NEW c \in Conns, NEW a \in Analysers \cup {NoAnalyser},
               held' = [held EXCEPT ![c] = a], idle' = idle, warming' \subseteq warming,
               a \notin ToSet(idle) \cup warming',
               \A d \in Conns \ {c} : held[d] # a \/ a = NoAnalyser
        PROVE  SingleOwner'
    <2>1. held'[c] = a /\ \A d \in Conns \ {c} : held'[d] \in {held[d], NoAnalyser}
      BY <1>2 DEF TypeOK
    <2>2. Apart(idle, warming', held')
      BY <1>0, <1>2, <2>1, ApartStep
    <2> QED BY <1>2, <2>2, ApartIsOwner
  <1>3. ASSUME NEW c \in Conns, ConnNext(c) PROVE SingleOwner'
    <2>1. CASE RefuseAtAddressLimit(c) \/ ClientMessage(c) \/ FallsQuiet(c)
      BY <2>1, <1>1 DEF RefuseAtAddressLimit, ClientMessage, FallsQuiet
    <2>2. CASE Connect(c)
      BY <2>2, OwnerAccept DEF Connect
    <2>3. CASE ConnectEvicting(c)
      <3>1. Evictable(c) \subseteq Open
        BY DEF Evictable, TypeOK
      <3> QED BY <2>3, <3>1, OwnerAccept DEF ConnectEvicting
    <2>4. CASE AcquireTimesOut(c)
      <3>1. PICK a \in Analysers \ (ToSet(idle) \cup warming \cup Range(held)) :
            held' = [held EXCEPT ![c] = a]
        BY <2>4 DEF AcquireTimesOut
      <3>2. \A d \in Conns : held[d] # a
        BY <3>1 DEF TypeOK, Range
      <3>3. idle' = idle /\ warming' = warming
        BY <2>4 DEF AcquireTimesOut
      <3> QED BY <3>1, <3>2, <3>3, <1>2
    <2>5. CASE ColdStartEnds(c)
      <3>1. PICK a \in {held[c], NoAnalyser} : Settle(c, a)
        BY <2>5 DEF ColdStartEnds
      <3>2. PICK b \in {held[c], NoAnalyser} : held' = [held EXCEPT ![c] = b]
        BY <3>1 DEF Settle
      <3>3. idle' = idle /\ warming' = warming
        BY <2>5 DEF ColdStartEnds
      <3>4. /\ b \in Analysers \cup {NoAnalyser} /\ b \notin ToSet(idle) \cup warming
            /\ \A d \in Conns \ {c} : held[d] # b \/ b = NoAnalyser
        BY <1>0, <3>2 DEF TypeOK, Apart, HeldApart
      <3> QED BY <3>2, <3>3, <3>4, <1>2
    <2>6. CASE IdleTimeout(c) \/ LifetimeExpires(c)
      BY <2>6, OwnerClose DEF IdleTimeout, LifetimeExpires
    <2>7. CASE Disconnect(c)
      BY <2>7, <1>1, OwnerClose DEF Disconnect
    <2> QED BY <1>3, <2>1, <2>2, <2>3, <2>4, <2>5, <2>6, <2>7 DEF ConnNext
  <1>4. ASSUME NEW a \in Analysers, AnalyserNext(a) PROVE SingleOwner'
    <2>1. CASE WarmUpSucceeds(a)
      <3>0. /\ a \in warming /\ a \notin ToSet(idle) /\ \A d \in Conns : held[d] # a
            /\ warming' = warming \ {a}
        BY <2>1, <1>0 DEF WarmUpSucceeds, Apart, HeldApart
      <3>1. CASE waiting # <<>>
        <4>1. Head(waiting) \in Conns /\ idle' = idle /\ Settle(Head(waiting), a)
          BY <2>1, <3>1, TailFacts DEF WarmUpSucceeds, TypeOK
        <4>2. PICK b \in {a, NoAnalyser} : held' = [held EXCEPT ![Head(waiting)] = b]
          BY <4>1 DEF Settle
        <4>3. b \in Analysers \cup {NoAnalyser} /\ b \notin ToSet(idle) \cup warming'
          BY <1>0, <3>0, <4>2
        <4> QED BY <3>0, <4>1, <4>2, <4>3, <1>2
      <3>2. CASE waiting = <<>>
        <4>1. idle' = Append(idle, a) /\ held' = held
          BY <2>1, <3>2 DEF WarmUpSucceeds
        <4>2. IsInjective(idle') /\ ToSet(idle') = ToSet(idle) \cup {a}
          BY <1>0, <3>0, <4>1, AppendFacts
        <4>3. Apart(idle', warming', held')
          BY <1>0, <3>0, <4>1, <4>2 DEF Apart, HeldApart
        <4> QED BY <4>3, ApartIsOwner
      <3> QED BY <3>1, <3>2
    <2>2. CASE WarmUpFails(a)
      <3>1. idle' = idle /\ held' = held /\ warming' \subseteq warming
        BY <2>2 DEF WarmUpFails
      <3>2. Apart(idle', warming', held')
        BY <1>0, <3>1 DEF Apart, HeldApart
      <3> QED BY <3>2, ApartIsOwner
    <2>3. CASE AnalyserExits(a)
      BY <2>3, <1>1, OwnerClose DEF AnalyserExits, Open
    <2> QED BY <1>4, <2>1, <2>2, <2>3 DEF AnalyserNext
  <1>5. CASE TopUp
    BY <1>0, <1>5, ApartReplenish DEF TopUp
  <1>6. CASE Restart
    <2>1. idle' = <<>> /\ \A c \in Conns : held'[c] = NoAnalyser
      BY <1>6 DEF Restart
    <2>2. ToSet(idle') = {} /\ IsInjective(idle')
      BY <2>1 DEF ToSet, IsInjective
    <2>3. Apart(idle', warming', held')
      BY <1>0, <1>6, <2>1, <2>2 DEF Apart, HeldApart, TypeOK
    <2> QED BY <2>3, ApartIsOwner
  <1>7. CASE UNCHANGED vars
    BY <1>7, <1>1 DEF vars
  <1> QED BY <1>3, <1>4, <1>5, <1>6, <1>7 DEF Next

LEMMA OwnerInit == Init => SingleOwner
  <1> SUFFICES ASSUME Init PROVE SingleOwner
    OBVIOUS
  <1>1. idle = <<>> /\ Slots = {}
    BY DEF Init, Slots
  <1> QED BY <1>1 DEF SingleOwner, ToSet, IsInjective

\* No process is ever in two hands: not in the pool twice, not warming and
\* serving, not with two connections, however acquisitions and exits race.
THEOREM ProcessesAreNotShared == Spec => []SingleOwner
  <1>1. TypeOK /\ TypeOK' /\ NobodyWaitsInVain /\ SingleOwner /\ [Next]_vars => SingleOwner'
    BY OwnerStep
  <1> QED BY <1>1, OwnerInit, TypeCorrect, QueueIsExact, PTL DEF Spec
-----------------------------------------------------------------------------
(* No process runs that the service has no use for.                        *)

\* An analyser that runs is in the pool, warming, or held.
Kept(l, i, w, h) == l \subseteq ToSet(i) \cup w \cup {h[c] : c \in Conns}

LEMMA OrphansAreNotKept ==
    ASSUME TypeOK
    PROVE  NoOrphan <=> Kept(live, idle, warming, held)
  <1>1. \A c \in Conns \ Slots : held[c] = NoAnalyser
    BY DEF TypeOK, Slots
  <1>2. live \subseteq Analysers /\ NoAnalyser \notin Analysers
    BY AnalysersAssumption DEF TypeOK
  <1>3. Slots \subseteq Conns
    BY DEF Slots
  <1> QED BY <1>1, <1>2, <1>3 DEF NoOrphan, Wanted, Kept

LEMMA KeptIsNoOrphan == ASSUME TypeOK', Kept(live', idle', warming', held') PROVE NoOrphan'
  <1>1. (NoOrphan <=> Kept(live, idle, warming, held))'
    BY OrphansAreNotKept, PTL
  <1>2. Kept(live, idle, warming, held)'
    BY DEF Kept
  <1> QED BY <1>1, <1>2

LEMMA KeptReplenish ==
    ASSUME TypeOK', NEW l, Kept(l, idle', warming, held'), Replenish(l)
    PROVE  NoOrphan'
  <1>1. Kept(live', idle', warming', held')
    BY DEF Replenish, Kept
  <1> QED BY <1>1, KeptIsNoOrphan

LEMMA NoOrphanClose ==
    ASSUME TypeOK, TypeOK', NoOrphan, NEW c \in Conns, Close(c)
    PROVE  NoOrphan'
  <1>1. Kept(live, idle, warming, held)
    BY OrphansAreNotKept
  <1>2. /\ \A d \in Conns \ {c} : held'[d] = held[d]
        /\ idle' = idle /\ Replenish(live \ {held[c]})
    BY DEF Close, TypeOK
  <1>3. Kept(live \ {held[c]}, idle', warming, held')
    <2> SUFFICES ASSUME NEW a \in live, a # held[c], a \notin ToSet(idle) \cup warming
                 PROVE  \E d \in Conns : a = held'[d]
      BY <1>2 DEF Kept
    <2>1. PICK d \in Conns : a = held[d]
      BY <1>1 DEF Kept
    <2> QED BY <1>2, <2>1
  <1> QED BY <1>2, <1>3, KeptReplenish

LEMMA NoOrphanAccept ==
    ASSUME TypeOK, TypeOK', NoOrphan, NEW c \in Conns, phase[c] = "none",
           NEW G \in SUBSET Open, Accept(c, G)
    PROVE  NoOrphan'
  <1>0. /\ Kept(live, idle, warming, held) /\ held[c] = NoAnalyser /\ NoAnalyser \notin live
    BY OrphansAreNotKept, AnalysersAssumption DEF TypeOK
  <1>1. ASSUME NEW p, NEW a, Enter(c, p, a, G), NEW x \in LiveAfter(G),
               x \notin ToSet(idle) \cup warming
        PROVE  \E d \in Conns : x = held'[d]
    <2>1. PICK d \in Conns : x = held[d]
      BY <1>0, <1>1 DEF Kept, LiveAfter
    <2>2. d # c /\ d \notin G
      BY <1>0, <1>1, <2>1 DEF LiveAfter
    <2>3. held'[d] = held[d]
      BY <1>1, <2>2 DEF Enter
    <2> QED BY <2>1, <2>3
  <1>2. CASE RefuseWhenFull(c, G) \/ WaitForPool(c, G)
    <2>1. PICK p : Enter(c, p, NoAnalyser, G) /\ idle' = idle
      BY <1>2 DEF RefuseWhenFull, WaitForPool
    <2>2. Kept(LiveAfter(G), idle', warming, held')
      BY <1>1, <2>1 DEF Kept
    <2> QED BY <1>2, <2>2, KeptReplenish, KeptIsNoOrphan
            DEF RefuseWhenFull, WaitForPool, ReplenishIfEvicted
  <1>3. CASE StartRepl(c, G)
    <2>1. PICK a \in Analysers : /\ Enter(c, "starting", a, G) /\ idle' = idle
                                 /\ ReplenishIfEvicted(G, LiveAfter(G) \cup {a})
      BY <1>3 DEF StartRepl
    <2>2. held'[c] = a
      BY <2>1 DEF Enter
    <2>3. Kept(LiveAfter(G) \cup {a}, idle', warming, held')
      BY <1>1, <2>1, <2>2 DEF Kept
    <2> QED BY <2>1, <2>3, KeptReplenish, KeptIsNoOrphan DEF ReplenishIfEvicted
  <1>4. CASE TakeWarm(c, G)
    <2>1. /\ Enter(c, "open", Head(idle), G) /\ idle' = Tail(idle) /\ idle # <<>>
          /\ Replenish(LiveAfter(G))
      BY <1>4 DEF TakeWarm
    <2>2. ToSet(idle) = ToSet(idle') \cup {Head(idle)}
      BY <2>1, TailFacts DEF TypeOK
    <2>3. held'[c] = Head(idle)
      BY <2>1 DEF Enter
    <2>4. Kept(LiveAfter(G), idle', warming, held')
      <3> SUFFICES ASSUME NEW x \in LiveAfter(G), x \notin ToSet(idle') \cup warming
                   PROVE  \E d \in Conns : x = held'[d]
        BY DEF Kept
      <3>1. CASE x = Head(idle)
        BY <3>1, <2>3
      <3>2. CASE x # Head(idle)
        BY <3>2, <1>1, <2>1, <2>2
      <3> QED BY <3>1, <3>2
    <2> QED BY <2>1, <2>4, KeptReplenish
  <1> QED BY <1>2, <1>3, <1>4 DEF Accept

LEMMA NoOrphanStep ==
    TypeOK /\ TypeOK' /\ NobodyWaitsInVain /\ NoOrphan /\ [Next]_vars => NoOrphan'
  <1> SUFFICES ASSUME TypeOK, TypeOK', NobodyWaitsInVain, NoOrphan, [Next]_vars
               PROVE  NoOrphan'
    OBVIOUS
  <1>0. /\ Kept(live, idle, warming, held) /\ NoAnalyser \notin live
        /\ \A c \in Conns : phase[c] = "waiting" => held[c] = NoAnalyser
    BY OrphansAreNotKept, AnalysersAssumption DEF TypeOK
  <1>1. ASSUME idle' = idle, warming' = warming, held' = held, live' \subseteq live
        PROVE  NoOrphan'
    BY <1>0, <1>1, KeptIsNoOrphan DEF Kept
  \* c loses one process and may be given another.
  <1>2. ASSUME NEW c \in Conns, NEW b, held' = [held EXCEPT ![c] = b],
               ToSet(idle) \cup warming \subseteq ToSet(idle') \cup warming' \cup {b},
               live' \subseteq (live \ {held[c]}) \cup {b}
        PROVE  NoOrphan'
    <2>1. held'[c] = b /\ \A d \in Conns \ {c} : held'[d] = held[d]
      BY <1>2 DEF TypeOK
    <2>2. Kept(live', idle', warming', held')
      <3> SUFFICES ASSUME NEW a \in live', a # b, a \notin ToSet(idle') \cup warming'
                   PROVE  \E d \in Conns : a = held'[d]
        BY <2>1 DEF Kept
      <3>1. PICK d \in Conns : a = held[d]
        BY <1>0, <1>2 DEF Kept
      <3> QED BY <1>2, <2>1, <3>1
    <2> QED BY <2>2, KeptIsNoOrphan
  <1>3. ASSUME NEW c \in Conns, ConnNext(c) PROVE NoOrphan'
    <2>1. CASE RefuseAtAddressLimit(c) \/ ClientMessage(c) \/ FallsQuiet(c)
      BY <2>1, <1>1 DEF RefuseAtAddressLimit, ClientMessage, FallsQuiet
    <2>2. CASE Connect(c)
      BY <2>2, NoOrphanAccept DEF Connect
    <2>3. CASE ConnectEvicting(c)
      <3>1. Evictable(c) \subseteq Open
        BY DEF Evictable, TypeOK
      <3> QED BY <2>3, <3>1, NoOrphanAccept DEF ConnectEvicting
    <2>4. CASE AcquireTimesOut(c)
      <3>1. phase[c] = "waiting"
        BY <2>4 DEF AcquireTimesOut, NobodyWaitsInVain, ToSet, TypeOK
      <3>2. PICK a : held' = [held EXCEPT ![c] = a] /\ live' = live \cup {a}
        BY <2>4 DEF AcquireTimesOut
      <3>3. idle' = idle /\ warming' = warming
        BY <2>4 DEF AcquireTimesOut
      <3> QED BY <1>0, <3>1, <3>2, <3>3, <1>2
    <2>5. CASE ColdStartEnds(c)
      <3>1. PICK a \in {held[c], NoAnalyser} : Settle(c, a)
        BY <2>5 DEF ColdStartEnds
      <3>2. idle' = idle /\ warming' = warming
        BY <2>5 DEF ColdStartEnds
      <3>3. CASE a = NoAnalyser \/ c \in hungUp
        <4>1. held' = [held EXCEPT ![c] = NoAnalyser] /\ live' \subseteq live \ {held[c]}
          BY <3>1, <3>3 DEF Settle
        <4> QED BY <3>2, <4>1, <1>2
      <3>4. CASE ~(a = NoAnalyser \/ c \in hungUp)
        <4>1. held' = [held EXCEPT ![c] = a] /\ live' = live /\ a = held[c]
          BY <3>1, <3>4 DEF Settle
        <4> QED BY <3>2, <4>1, <1>2
      <3> QED BY <3>3, <3>4
    <2>6. CASE IdleTimeout(c) \/ LifetimeExpires(c)
      BY <2>6, NoOrphanClose DEF IdleTimeout, LifetimeExpires
    <2>7. CASE Disconnect(c)
      BY <2>7, <1>1, NoOrphanClose DEF Disconnect
    <2> QED BY <1>3, <2>1, <2>2, <2>3, <2>4, <2>5, <2>6, <2>7 DEF ConnNext
  <1>4. ASSUME NEW a \in Analysers, AnalyserNext(a) PROVE NoOrphan'
    <2>1. CASE WarmUpSucceeds(a) /\ waiting # <<>>
      <3>1. /\ Head(waiting) \in Conns /\ phase[Head(waiting)] = "waiting"
            /\ idle' = idle /\ warming' = warming \ {a} /\ Settle(Head(waiting), a)
        <4>1. Head(waiting) \in ToSet(waiting) /\ Head(waiting) \in Conns
          BY <2>1, TailFacts DEF TypeOK
        <4>2. phase[Head(waiting)] = "waiting"
          BY <4>1 DEF NobodyWaitsInVain
        <4> QED BY <2>1, <4>1, <4>2 DEF WarmUpSucceeds
      <3>2. CASE a = NoAnalyser \/ Head(waiting) \in hungUp
        <4>1. /\ held' = [held EXCEPT ![Head(waiting)] = NoAnalyser]
              /\ live' \subseteq live \ {a}
          BY <3>1, <3>2 DEF Settle
        <4>2. held[Head(waiting)] = NoAnalyser
          BY <1>0, <3>1
        <4>3. held' = held
          BY <4>1, <4>2 DEF TypeOK
        <4> QED BY <1>0, <3>1, <4>1, <4>3, KeptIsNoOrphan DEF Kept
      <3>3. CASE ~(a = NoAnalyser \/ Head(waiting) \in hungUp)
        <4>1. held' = [held EXCEPT ![Head(waiting)] = a] /\ live' = live
          BY <3>1, <3>3 DEF Settle
        <4>2. live' \subseteq (live \ {held[Head(waiting)]}) \cup {a}
          BY <1>0, <3>1, <4>1
        <4> QED BY <3>1, <4>1, <4>2, <1>2
      <3> QED BY <3>2, <3>3
    <2>2. CASE WarmUpSucceeds(a) /\ waiting = <<>>
      <3>1. idle' = Append(idle, a) /\ held' = held /\ live' = live /\ warming' = warming \ {a}
        BY <2>2 DEF WarmUpSucceeds
      <3>2. ToSet(idle') = ToSet(idle) \cup {a}
        BY <3>1, AppendFacts DEF TypeOK
      <3> QED BY <1>0, <3>1, <3>2, KeptIsNoOrphan DEF Kept
    <2>3. CASE WarmUpFails(a)
      <3>1. idle' = idle /\ held' = held /\ live' = live \ {a} /\ warming' = warming \ {a}
        BY <2>3 DEF WarmUpFails
      <3> QED BY <1>0, <3>1, KeptIsNoOrphan DEF Kept
    <2>4. CASE AnalyserExits(a)
      BY <2>4, <1>1, NoOrphanClose DEF AnalyserExits, Open
    <2> QED BY <1>4, <2>1, <2>2, <2>3, <2>4 DEF AnalyserNext
  <1>5. CASE TopUp
    <2>1. idle' = idle /\ held' = held /\ Replenish(live)
      BY <1>5 DEF TopUp
    <2> QED BY <1>0, <2>1, KeptReplenish
  <1>6. CASE Restart
    BY <1>6, KeptIsNoOrphan DEF Restart, Kept
  <1>7. CASE UNCHANGED vars
    BY <1>7, <1>1 DEF vars
  <1> QED BY <1>3, <1>4, <1>5, <1>6, <1>7 DEF Next

\* Whatever hangs up, times out, fails or is evicted, in whatever order, no
\* language server is left running outside the pool, a start and a session.
THEOREM NoProcessIsLeaked == Spec => []NoOrphan
  <1>1. TypeOK /\ TypeOK' /\ NobodyWaitsInVain /\ NoOrphan /\ [Next]_vars => NoOrphan'
    BY NoOrphanStep
  <1>2. Init => NoOrphan
    BY DEF Init, NoOrphan, Wanted
  <1> QED BY <1>1, <1>2, TypeCorrect, QueueIsExact, PTL DEF Spec

-----------------------------------------------------------------------------
(* And so they are bounded.                                                 *)

LEMMA WantedIsBounded ==
    ASSUME TypeOK, NoOrphan, SlotBudget, ShortfallIsScheduled
    PROVE  ProcessBudget
  <1> DEFINE P == ToSet(idle)
             H == {held[c] : c \in Slots}
  <1>1. IsFiniteSet(P) /\ Cardinality(P) \in Nat /\ Cardinality(P) <= Len(idle)
    BY ToSetFacts DEF TypeOK
  <1>2. IsFiniteSet(H) /\ Cardinality(H) \in Nat /\ Cardinality(H) <= MaxSessions
    <2>1. IsFiniteSet(Slots) /\ Cardinality(Slots) \in Nat
      BY SlotsAreFinite
    <2>2. [c \in Slots |-> held[c]] \in Surjection(Slots, H)
      BY DEF Surjection
    <2>3. IsFiniteSet(H) /\ Cardinality(H) <= Cardinality(Slots)
      BY <2>1, <2>2, FS_Surjection
    <2>4. Cardinality(H) \in Nat
      BY <2>3, FS_CardinalityType
    <2> QED BY <2>1, <2>3, <2>4, LimitsAssumption DEF SlotBudget
  <1>3. PoolLen <= PoolSize
    BY ShortfallMeaning, WarmingIsFinite
  <1> HIDE DEF P, H
  <1>4. /\ IsFiniteSet(P \cup warming) /\ Cardinality(P \cup warming) \in Nat
        /\ Cardinality(P \cup warming) <= PoolSize
    <2>1. /\ IsFiniteSet(P \cup warming)
          /\ Cardinality(P \cup warming)
                = Cardinality(P) + Cardinality(warming) - Cardinality(P \cap warming)
      BY <1>1, WarmingIsFinite, FS_Union
    <2>2. Cardinality(P \cap warming) \in Nat
      BY <1>1, FS_Intersection, FS_CardinalityType
    <2>3. Cardinality(P \cup warming) \in Nat
      BY <2>1, FS_CardinalityType
    <2> QED BY <1>1, <1>3, <2>1, <2>2, <2>3, WarmingIsFinite DEF PoolLen
  <1>5. /\ IsFiniteSet((P \cup warming) \cup H) /\ Cardinality((P \cup warming) \cup H) \in Nat
        /\ Cardinality((P \cup warming) \cup H) <= MaxSessions + PoolSize
    <2>1. /\ IsFiniteSet((P \cup warming) \cup H)
          /\ Cardinality((P \cup warming) \cup H)
                = Cardinality(P \cup warming) + Cardinality(H) - Cardinality((P \cup warming) \cap H)
      BY <1>2, <1>4, FS_Union
    <2>2. Cardinality((P \cup warming) \cap H) \in Nat
      BY <1>4, FS_Intersection, FS_CardinalityType
    <2>3. Cardinality((P \cup warming) \cup H) \in Nat
      BY <2>1, FS_CardinalityType
    <2> QED BY <1>2, <1>4, <2>1, <2>2, <2>3, LimitsAssumption
  <1>6. live \subseteq (P \cup warming) \cup H
    BY DEF NoOrphan, Wanted, P, H
  <1>7. Cardinality(live) \in Nat /\ Cardinality(live) <= Cardinality((P \cup warming) \cup H)
    BY <1>5, <1>6, FS_Subset, FS_CardinalityType
  <1> QED BY <1>5, <1>7, LimitsAssumption DEF ProcessBudget

\* The memory the service may use is bounded by its configuration: at most
\* POOL_SIZE + MAX_SESSIONS language servers run at a time.
THEOREM ProcessesStayInBudget == Spec => []ProcessBudget
  <1>1. TypeOK /\ NoOrphan /\ SlotBudget /\ ShortfallIsScheduled => ProcessBudget
    BY WantedIsBounded
  <1> QED BY <1>1, TypeCorrect, NoProcessIsLeaked, SlotsStayInBudget, PoolIsRefilled, PTL

-----------------------------------------------------------------------------
(* Evictions: whose session goes for whom.                                   *)

\* Who was active before a session that has been quiet has been quiet as well.
QuietIsOldest ==
    \A d, e \in Conns : <<e, d>> \in before /\ d \in quiet => e \in quiet

\* Sessions that go take nothing from that order.
LEMMA ForgetKeepsQuiet ==
    ASSUME QuietIsOldest, NEW G, Forget(G) PROVE QuietIsOldest'
  BY DEF QuietIsOldest, Forget

\* Neither does the one that is active last: it is not quiet.
LEMMA ActiveKeepsQuiet ==
    ASSUME QuietIsOldest, NEW c, NEW G, Active(c, G) PROVE QuietIsOldest'
  BY DEF QuietIsOldest, Active

\* An acquisition makes a session active, or leaves the order alone.
LEMMA SettleKeepsQuiet ==
    ASSUME QuietIsOldest, NEW c, NEW a, Settle(c, a) PROVE QuietIsOldest'
  <1>1. UNCHANGED <<before, quiet>> \/ Active(c, {})
    BY DEF Settle
  <1>2. CASE UNCHANGED <<before, quiet>>
    BY <1>2 DEF QuietIsOldest
  <1> QED BY <1>1, <1>2, ActiveKeepsQuiet

LEMMA AcceptKeepsQuiet ==
    ASSUME QuietIsOldest, NEW c, NEW G, Accept(c, G) PROVE QuietIsOldest'
  <1>1. Forget(G) \/ Active(c, G)
    BY DEF Accept, RefuseWhenFull, StartRepl, TakeWarm, WaitForPool
  <1> QED BY <1>1, ForgetKeepsQuiet, ActiveKeepsQuiet

LEMMA QuietStep == TypeOK /\ QuietIsOldest /\ [Next]_vars => QuietIsOldest'
  <1> SUFFICES ASSUME TypeOK, QuietIsOldest, [Next]_vars PROVE QuietIsOldest'
    OBVIOUS
  <1>1. CASE UNCHANGED <<before, quiet>>
    BY <1>1 DEF QuietIsOldest
  <1>2. ASSUME NEW c \in Conns, Close(c) PROVE QuietIsOldest'
    BY <1>2, ForgetKeepsQuiet DEF Close
  <1>3. ASSUME NEW c \in Conns, ConnNext(c) PROVE QuietIsOldest'
    <2>1. CASE Connect(c) \/ ConnectEvicting(c)
      BY <2>1, AcceptKeepsQuiet DEF Connect, ConnectEvicting
    <2>2. CASE RefuseAtAddressLimit(c) \/ AcquireTimesOut(c)
      BY <1>1, <2>2 DEF RefuseAtAddressLimit, AcquireTimesOut
    <2>3. CASE ColdStartEnds(c)
      BY <2>3, SettleKeepsQuiet DEF ColdStartEnds
    <2>4. CASE ClientMessage(c)
      BY <2>4, ActiveKeepsQuiet DEF ClientMessage
    <2>5. CASE FallsQuiet(c)
      <3>1. before \subseteq Open \X Open
        BY DEF TypeOK
      <3> QED BY <2>5, <3>1 DEF FallsQuiet, QuietIsOldest
    <2>6. CASE IdleTimeout(c) \/ LifetimeExpires(c) \/ Disconnect(c)
      BY <1>1, <1>2, <2>6 DEF IdleTimeout, LifetimeExpires, Disconnect
    <2> QED BY <1>3, <2>1, <2>2, <2>3, <2>4, <2>5, <2>6 DEF ConnNext
  <1>4. ASSUME NEW a \in Analysers, AnalyserNext(a) PROVE QuietIsOldest'
    <2>1. CASE WarmUpSucceeds(a)
      BY <1>1, <2>1, SettleKeepsQuiet DEF WarmUpSucceeds
    <2>2. CASE WarmUpFails(a)
      BY <1>1, <2>2 DEF WarmUpFails
    <2>3. CASE AnalyserExits(a)
      BY <1>1, <1>2, <2>3 DEF AnalyserExits, Open
    <2> QED BY <1>4, <2>1, <2>2, <2>3 DEF AnalyserNext
  <1>5. CASE TopUp
    BY <1>1, <1>5 DEF TopUp
  <1>6. CASE Restart
    BY <1>6 DEF Restart, QuietIsOldest
  <1>7. CASE UNCHANGED vars
    BY <1>1, <1>7 DEF vars
  <1> QED BY <1>3, <1>4, <1>5, <1>6, <1>7 DEF Next

\* One that arrives evicts those it was let in for and no other, and is refused
\* only when all slots are taken still.
LEMMA AcceptEvicts ==
    ASSUME TypeOK, NEW c \in Conns, phase[c] = "none", NEW G \in SUBSET Open, Accept(c, G)
    PROVE  /\ \A x, y \in Conns : Evicts(x, y) => x = c /\ y \in G
           /\ phase'[c] = "refused" => Cardinality(Slots \ G) >= MaxSessions
  <1>1. PICK p \in {"refused", "starting", "open", "waiting"},
             a \in {NoAnalyser, Head(idle)} \cup Analysers :
          /\ Enter(c, p, a, G)
          /\ p = "refused" => Cardinality(Slots \ G) >= MaxSessions
    BY DEF Accept, RefuseWhenFull, StartRepl, TakeWarm, WaitForPool
  <1>2. \A x \in Conns : phase'[x] = IF x = c THEN p ELSE IF x \in G THEN "none" ELSE phase[x]
    BY <1>1 DEF Enter
  <1>3. G \cap {x \in Conns : phase[x] = "none"} = {}
    BY DEF Open
  <1> QED BY <1>1, <1>2, <1>3 DEF Evicts

\* The session that goes is its address's oldest, at the limit, and for somebody
\* who comes in: with a session less there is a slot.
LEMMA EarnedEviction ==
    ASSUME TypeOK, SlotBudget, QuietIsOldest,
           NEW c \in Conns, ConnectEvicting(c),
           NEW x \in Conns, NEW y \in Conns, Evicts(x, y)
    PROVE  /\ y \in SameAddress(x) \cap quiet
           /\ AtAddressLimit(x) /\ phase'[x] # "refused"
           /\ \A e \in SameAddress(x) \cap Open : <<e, y>> \notin before
  <1>1. PICK d \in Evictable(c) : Accept(c, {d})
    BY DEF ConnectEvicting
  <1>2. phase[c] = "none" /\ AtAddressLimit(c)
    BY DEF ConnectEvicting
  <1>3. d \in SameAddress(c) \cap quiet /\ d \in Open /\ d \in Slots
    BY <1>1 DEF Evictable, TypeOK, SameAddress
  <1>4. x = c /\ y = d
    <2>1. {d} \in SUBSET Open
      BY <1>3
    <2> QED BY <1>1, <1>2, <2>1, AcceptEvicts
  <1>5. ASSUME NEW e \in SameAddress(c) \cap Open PROVE <<e, d>> \notin before
    <2>1. e \in Conns /\ d \in Conns
      BY <1>3, <1>5 DEF Open
    <2>2. CASE e \in quiet
      BY <1>1, <1>5, <2>2 DEF Evictable
    <2>3. CASE e \notin quiet
      BY <1>3, <2>1, <2>3 DEF QuietIsOldest
    <2> QED BY <2>2, <2>3
  <1>6. phase'[c] # "refused"
    <2>1. /\ IsFiniteSet(Slots) /\ Cardinality(Slots) \in Nat
          /\ Cardinality(Slots \ {d}) = Cardinality(Slots) - 1
      BY <1>3, SlotsAreFinite, FS_RemoveElement
    <2>2. ~(Cardinality(Slots \ {d}) >= MaxSessions)
      BY <2>1, LimitsAssumption DEF SlotBudget
    <2>3. {d} \in SUBSET Open
      BY <1>3
    <2> QED BY <1>1, <1>2, <2>2, <2>3, AcceptEvicts
  <1> QED BY <1>2, <1>3, <1>4, <1>5, <1>6

\* No step but the arrival of somebody at the limit of an address evicts.
LEMMA OnlyArrivalsEvict ==
    ASSUME TypeOK, NobodyWaitsInVain, [Next]_vars,
           NEW x \in Conns, NEW y \in Conns, Evicts(x, y)
    PROVE  ConnectEvicting(x)
  <1>1. phase[x] = "none" /\ phase'[x] # "none" /\ phase[y] = "open" /\ phase'[y] = "none"
    BY DEF Evicts
  <1>2. ASSUME NEW c \in Conns, Close(c), phase[c] = "open" PROVE FALSE
    BY <1>1, <1>2 DEF Close, TypeOK
  <1>3. ASSUME NEW c \in Conns, NEW a, Settle(c, a), phase[c] \in {"waiting", "starting"}
        PROVE  FALSE
    BY <1>1, <1>3 DEF Settle, TypeOK
  <1>4. ASSUME UNCHANGED phase PROVE FALSE
    BY <1>1, <1>4
  <1>5. ASSUME NEW c \in Conns, ConnNext(c) PROVE ConnectEvicting(x)
    <2>1. CASE RefuseAtAddressLimit(c)
      BY <1>1, <2>1 DEF RefuseAtAddressLimit, TypeOK
    <2>2. CASE Connect(c)
      BY <2>2, AcceptEvicts DEF Connect
    <2>3. CASE ConnectEvicting(c)
      <3>1. \A d \in Evictable(c) : {d} \in SUBSET Open
        BY DEF Evictable, TypeOK
      <3> QED BY <2>3, <3>1, AcceptEvicts DEF ConnectEvicting
    <2>4. CASE AcquireTimesOut(c)
      <3>1. phase[c] = "waiting" /\ phase' = [phase EXCEPT ![c] = "starting"]
        BY <2>4 DEF AcquireTimesOut, NobodyWaitsInVain, ToSet, TypeOK
      <3> QED BY <1>1, <3>1 DEF TypeOK
    <2>5. CASE ColdStartEnds(c)
      BY <1>3, <2>5 DEF ColdStartEnds
    <2>6. CASE ClientMessage(c) \/ FallsQuiet(c)
      BY <1>4, <2>6 DEF ClientMessage, FallsQuiet
    <2>7. CASE IdleTimeout(c) \/ LifetimeExpires(c)
      BY <1>2, <2>7 DEF IdleTimeout, LifetimeExpires
    <2>8. CASE Disconnect(c)
      <3>1. CASE phase[c] = "refused" /\ phase' = [phase EXCEPT ![c] = "none"]
        BY <1>1, <3>1 DEF TypeOK
      <3> QED BY <1>2, <1>4, <2>8, <3>1 DEF Disconnect
    <2> QED BY <1>5, <2>1, <2>2, <2>3, <2>4, <2>5, <2>6, <2>7, <2>8 DEF ConnNext
  <1>6. ASSUME NEW a \in Analysers, AnalyserNext(a) PROVE FALSE
    <2>1. CASE WarmUpSucceeds(a)
      <3>1. CASE waiting # <<>>
        <4>1. Head(waiting) \in Conns /\ Head(waiting) \in ToSet(waiting)
          BY <3>1, TailFacts DEF TypeOK
        <4>2. phase[Head(waiting)] = "waiting" /\ Settle(Head(waiting), a)
          BY <2>1, <3>1, <4>1 DEF WarmUpSucceeds, NobodyWaitsInVain
        <4> QED BY <1>3, <4>1, <4>2
      <3>2. CASE waiting = <<>>
        BY <1>4, <2>1, <3>2 DEF WarmUpSucceeds
      <3> QED BY <3>1, <3>2
    <2>2. CASE WarmUpFails(a)
      BY <1>4, <2>2 DEF WarmUpFails
    <2>3. CASE AnalyserExits(a)
      BY <1>2, <1>4, <2>3 DEF AnalyserExits, Open
    <2> QED BY <1>6, <2>1, <2>2, <2>3 DEF AnalyserNext
  <1>7. CASE TopUp
    BY <1>4, <1>7 DEF TopUp
  <1>8. CASE Restart
    BY <1>1, <1>8 DEF Restart
  <1>9. CASE UNCHANGED vars
    BY <1>4, <1>9 DEF vars
  <1> QED BY <1>5, <1>6, <1>7, <1>8, <1>9 DEF Next

\* No session is evicted but a quiet one of the newcomer's own address, at its
\* limit, and the least recently active there; and never for nothing.
THEOREM EvictionsAreEarned == Spec => EvictionIsEarned
  <1> DEFINE Earned == \A c, d \in Conns : Evicts(c, d) =>
                 /\ d \in SameAddress(c) \cap quiet
                 /\ AtAddressLimit(c) /\ phase'[c] # "refused"
                 /\ \A e \in SameAddress(c) \cap Open : <<e, d>> \notin before
  <1>1. Init => QuietIsOldest
    BY DEF Init, QuietIsOldest
  <1>2. TypeOK /\ NobodyWaitsInVain /\ SlotBudget /\ QuietIsOldest /\ [Next]_vars
          => QuietIsOldest' /\ [Earned]_vars
    <2> SUFFICES ASSUME TypeOK, NobodyWaitsInVain, SlotBudget, QuietIsOldest, [Next]_vars
                 PROVE  QuietIsOldest' /\ Earned
      OBVIOUS
    <2>1. QuietIsOldest'
      BY QuietStep
    <2>2. Earned
      BY OnlyArrivalsEvict, EarnedEviction
    <2> QED BY <2>1, <2>2
  <1>3. Spec => [][Earned]_vars
    BY <1>1, <1>2, TypeCorrect, QueueIsExact, SlotsStayInBudget, PTL DEF Spec
  <1> QED BY <1>3 DEF EvictionIsEarned

-----------------------------------------------------------------------------
(* What becomes of a session's process.                                      *)

\* The session goes on with its process, or the process is with nobody.
GoesOn(c) == held'[c] = held[c] /\ phase'[c] = "open"

GoneFor(c) == held[c] \notin ToSet(idle') /\ \A d \in Conns : held'[d] # held[c]

\* Nobody else has what a session has, and nobody gets it who is given what
\* the pool has, what warms up for it, or a process of its own.
LEMMA WhatGoesIsGone ==
    ASSUME TypeOK, SingleOwner, NEW c \in Open,
           ToSet(idle') \subseteq ToSet(idle) \cup warming,
           \A d \in Conns : \/ held'[d] = NoAnalyser
                            \/ d # c /\ held'[d] = held[d]
                            \/ held'[d] \in ToSet(idle) \cup warming
                            \/ held'[d] \notin Range(held)
    PROVE  GoneFor(c)
  <1>1. c \in Conns /\ c \in Slots /\ held[c] # NoAnalyser /\ held[c] \in Range(held)
    BY DEF TypeOK, Open, Slots, Range
  <1>2. held[c] \notin ToSet(idle) \cup warming
    BY <1>1 DEF SingleOwner
  <1>3. ASSUME NEW d \in Conns, d # c PROVE held[d] # held[c]
    <2>1. CASE d \in Slots
      BY <1>1, <1>3, <2>1 DEF SingleOwner
    <2>2. CASE d \notin Slots
      BY <1>1, <2>2 DEF TypeOK, Slots
    <2> QED BY <2>1, <2>2
  <1> QED BY <1>1, <1>2, <1>3 DEF GoneFor

\* A session closes: its process goes nowhere, the others go on.
LEMMA CloseRecyclesNothing ==
    ASSUME TypeOK, SingleOwner, NEW c \in Open, Close(c), NEW d \in Open
    PROVE  GoesOn(d) \/ GoneFor(d)
  <1>1. /\ phase' = [phase EXCEPT ![c] = "none"] /\ idle' = idle
        /\ held' = [held EXCEPT ![c] = NoAnalyser]
    BY DEF Close
  <1>2. \A e \in Conns : held'[e] = IF e = c THEN NoAnalyser ELSE held[e]
    BY <1>1 DEF TypeOK
  <1>3. CASE d = c
    BY <1>1, <1>2, <1>3, WhatGoesIsGone
  <1>4. CASE d # c
    BY <1>1, <1>2, <1>4 DEF GoesOn, Open, TypeOK
  <1> QED BY <1>3, <1>4

\* A connection comes in: what an evicted session had is not what it gets.
LEMMA AcceptRecyclesNothing ==
    ASSUME TypeOK, SingleOwner, NEW c \in Conns, phase[c] = "none",
           NEW G \in SUBSET Open, Accept(c, G), NEW d \in Open
    PROVE  GoesOn(d) \/ GoneFor(d)
  <1>1. idle \in Seq(Analysers)
    BY DEF TypeOK
  <1>2. idle # <<>> => Head(idle) \in ToSet(idle) /\ ToSet(Tail(idle)) \subseteq ToSet(idle)
    BY <1>1, TailFacts
  <1>3. PICK p, a : /\ Enter(c, p, a, G)
                    /\ \/ a = NoAnalyser \/ a \in ToSet(idle)
                       \/ a \notin Range(held)
    BY <1>2 DEF Accept, RefuseWhenFull, StartRepl, TakeWarm, WaitForPool
  <1>4. ToSet(idle') \subseteq ToSet(idle) \cup warming
    BY <1>2 DEF Accept, RefuseWhenFull, StartRepl, TakeWarm, WaitForPool
  <1>5. \A e \in Conns :
          /\ phase'[e] = IF e = c THEN p ELSE IF e \in G THEN "none" ELSE phase[e]
          /\ held'[e] = IF e = c THEN a ELSE IF e \in G THEN NoAnalyser ELSE held[e]
    BY <1>3 DEF Enter
  <1>6. d \in Conns /\ d # c /\ phase[d] = "open"
    BY DEF Open
  <1>7. CASE d \in G
    BY <1>3, <1>4, <1>5, <1>7, WhatGoesIsGone
  <1>8. CASE d \notin G
    BY <1>5, <1>6, <1>8 DEF GoesOn
  <1> QED BY <1>7, <1>8

\* Who is not a session yet can end no session.
LEMMA AcquiringRecyclesNothing ==
    ASSUME TypeOK, NEW c \in Conns, phase[c] # "open",
           \A e \in Conns \ {c} : phase'[e] = phase[e] /\ held'[e] = held[e],
           NEW d \in Open
    PROVE  GoesOn(d)
  BY DEF GoesOn, Open

LEMMA RecycleStep ==
    ASSUME TypeOK, NobodyWaitsInVain, SingleOwner, [Next]_vars, NEW d \in Open
    PROVE  GoesOn(d) \/ GoneFor(d)
  <1>1. CASE UNCHANGED <<phase, held>>
    BY <1>1 DEF GoesOn, Open
  <1>2. ASSUME NEW c \in Conns, NEW a, Settle(c, a), phase[c] \in {"waiting", "starting"}
        PROVE  GoesOn(d)
    <2>1. \A e \in Conns \ {c} : phase'[e] = phase[e] /\ held'[e] = held[e]
      BY <1>2 DEF Settle, TypeOK
    <2> QED BY <1>2, <2>1, AcquiringRecyclesNothing
  <1>3. ASSUME NEW c \in Conns, ConnNext(c) PROVE GoesOn(d) \/ GoneFor(d)
    <2>1. CASE RefuseAtAddressLimit(c)
      <3>1. \A e \in Conns \ {c} : phase'[e] = phase[e] /\ held'[e] = held[e]
        BY <2>1 DEF RefuseAtAddressLimit, TypeOK
      <3> QED BY <2>1, <3>1, AcquiringRecyclesNothing DEF RefuseAtAddressLimit
    <2>2. CASE Connect(c)
      BY <2>2, AcceptRecyclesNothing DEF Connect
    <2>3. CASE ConnectEvicting(c)
      <3>1. \A e \in Evictable(c) : {e} \in SUBSET Open
        BY DEF Evictable, TypeOK
      <3> QED BY <2>3, <3>1, AcceptRecyclesNothing DEF ConnectEvicting
    <2>4. CASE AcquireTimesOut(c)
      <3>1. phase[c] = "waiting" /\ phase' = [phase EXCEPT ![c] = "starting"]
        BY <2>4 DEF AcquireTimesOut, NobodyWaitsInVain, ToSet, TypeOK
      <3>2. \E a \in Analysers : held' = [held EXCEPT ![c] = a]
        BY <2>4 DEF AcquireTimesOut
      <3>3. \A e \in Conns \ {c} : phase'[e] = phase[e] /\ held'[e] = held[e]
        BY <3>1, <3>2 DEF TypeOK
      <3> QED BY <3>1, <3>3, AcquiringRecyclesNothing
    <2>5. CASE ColdStartEnds(c)
      BY <1>2, <2>5 DEF ColdStartEnds
    <2>6. CASE ClientMessage(c) \/ FallsQuiet(c)
      BY <1>1, <2>6 DEF ClientMessage, FallsQuiet
    <2>7. CASE IdleTimeout(c) \/ LifetimeExpires(c)
      BY <2>7, CloseRecyclesNothing DEF IdleTimeout, LifetimeExpires, Open
    <2>8. CASE Disconnect(c)
      <3>1. CASE phase[c] = "open" /\ Close(c)
        BY <3>1, CloseRecyclesNothing DEF Open
      <3>2. CASE /\ phase[c] = "refused" /\ phase' = [phase EXCEPT ![c] = "none"]
                 /\ UNCHANGED held
        <4>1. \A e \in Conns \ {c} : phase'[e] = phase[e] /\ held'[e] = held[e]
          BY <3>2 DEF TypeOK
        <4> QED BY <3>2, <4>1, AcquiringRecyclesNothing
      <3> QED BY <1>1, <2>8, <3>1, <3>2 DEF Disconnect
    <2> QED BY <1>3, <2>1, <2>2, <2>3, <2>4, <2>5, <2>6, <2>7, <2>8 DEF ConnNext
  <1>4. ASSUME NEW a \in Analysers, AnalyserNext(a) PROVE GoesOn(d) \/ GoneFor(d)
    <2>1. CASE WarmUpSucceeds(a)
      <3>1. CASE waiting # <<>>
        <4>1. Head(waiting) \in Conns /\ Head(waiting) \in ToSet(waiting)
          BY <3>1, TailFacts DEF TypeOK
        <4>2. phase[Head(waiting)] = "waiting" /\ Settle(Head(waiting), a)
          BY <2>1, <3>1, <4>1 DEF WarmUpSucceeds, NobodyWaitsInVain
        <4> QED BY <1>2, <4>1, <4>2
      <3>2. CASE waiting = <<>>
        BY <1>1, <2>1, <3>2 DEF WarmUpSucceeds
      <3> QED BY <3>1, <3>2
    <2>2. CASE WarmUpFails(a)
      BY <1>1, <2>2 DEF WarmUpFails
    <2>3. CASE AnalyserExits(a)
      BY <1>1, <2>3, CloseRecyclesNothing DEF AnalyserExits
    <2> QED BY <1>4, <2>1, <2>2, <2>3 DEF AnalyserNext
  <1>5. CASE TopUp
    BY <1>1, <1>5 DEF TopUp
  <1>6. CASE Restart
    <2>1. idle' = <<>> /\ \A e \in Conns : held'[e] = NoAnalyser
      BY <1>6 DEF Restart
    <2>2. ToSet(idle') = {}
      BY <2>1 DEF ToSet
    <2> QED BY <2>1, <2>2, WhatGoesIsGone
  <1>7. CASE UNCHANGED vars
    BY <1>1, <1>7 DEF vars
  <1> QED BY <1>3, <1>4, <1>5, <1>6, <1>7 DEF Next

\* The process of a session that ends, from whichever of its six ends, is given
\* neither to the pool nor to another connection in that step.
THEOREM ProcessesAreNotRecycled == Spec => NeverRecycled
  <1> DEFINE Spent == \A c \in Open : \/ held'[c] = held[c] /\ phase'[c] = "open"
                                      \/ /\ held[c] \notin ToSet(idle')
                                         /\ \A d \in Conns : held'[d] # held[c]
  <1>1. TypeOK /\ NobodyWaitsInVain /\ SingleOwner /\ [Next]_vars => [Spent]_vars
    BY RecycleStep DEF GoesOn, GoneFor
  <1>2. Spec => [][Spent]_vars
    BY <1>1, TypeCorrect, QueueIsExact, ProcessesAreNotShared, PTL DEF Spec
  <1> QED BY <1>2 DEF NeverRecycled
=============================================================================
