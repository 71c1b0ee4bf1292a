--------------------------- MODULE AnalyseService ---------------------------
(***************************************************************************)
(* analyse-service/server.js: a WebSocket in front of a small pool of warm *)
(* language servers.  A connection is given one analyser process, holds it *)
(* for its session, and the process is killed when the session ends.       *)
(*                                                                         *)
(* Node runs one callback at a time, so an action is everything the        *)
(* service does between two returns to the event loop: a handler up to its *)
(* first await, or what follows one await up to the next.  Time appears as *)
(* order only: which session was active before which (`before'), which     *)
(* have been silent for EVICT_QUIET_MS (`quiet'), and timers that may fire *)
(* whenever they are armed.                                                *)
(*                                                                         *)
(* Conns are names of client sockets and Analysers names of processes.  A  *)
(* name is used again once what it named has gone, so neither set bounds   *)
(* how many connections or processes a behaviour has.                      *)
(***************************************************************************)
EXTENDS Integers, Sequences, FiniteSets, SequencesExt

CONSTANTS Conns, Analysers,
          NoAnalyser,            \* no process
          AddressOf,             \* the X-Real-IP each connection comes with
          NoAddress,             \* a connection without that header
          MaxSessions,           \* MAX_SESSIONS
          MaxSessionsPerAddress, \* MAX_SESSIONS_PER_ADDRESS
          PoolSize               \* POOL_SIZE

ASSUME ConnsAssumption == IsFiniteSet(Conns)
ASSUME LimitsAssumption ==
    /\ MaxSessions \in Nat \ {0}
    /\ MaxSessionsPerAddress \in Nat \ {0}
    /\ PoolSize \in Nat
\* There is always a name for one more process: spawning one never waits.
ASSUME AnalysersAssumption ==
    /\ IsFiniteSet(Analysers) /\ NoAnalyser \notin Analysers
    /\ Cardinality(Analysers) >= PoolSize + MaxSessions

VARIABLES
    phase,    \* where each connection is: see Phases
    hungUp,   \* connections whose socket closed while they were acquiring
    held,     \* the analyser of a session, or the one starting cold for it
    before,   \* <<c, d>>: session c was last active before session d was
    quiet,    \* sessions silent for EVICT_QUIET_MS
    idle,     \* the pool: warm analysers nobody has
    waiting,  \* connections queued for the next analyser to come warm
    warming,  \* analysers warming for the pool; its size is the code's counter
    live,     \* analysers with a running process
    topUp     \* a setTimeout(replenish, 250) is pending

vars == <<phase, hungUp, held, before, quiet, idle, waiting, warming, live, topUp>>

\* "waiting" and "starting" hold a placeholder in `sessions', "open" a Session;
\* "refused" is a socket the service has closed with 1013.
Phases == {"none", "waiting", "starting", "open", "refused"}

Open == {c \in Conns : phase[c] = "open"}

\* Broken: no placeholder holds the slot of a connection still acquiring.
SlotsWithoutPlaceholders == Open

Slots == {c \in Conns : phase[c] \in {"waiting", "starting", "open"}}

-----------------------------------------------------------------------------
(* The pool.                                                               *)

\* Broken: analysers already warming are not counted.
ShortfallOfIdle(i) == IF PoolSize > Len(i) THEN PoolSize - Len(i) ELSE 0

Shortfall(i) == LET short == PoolSize - (Len(i) + Cardinality(warming))
                IN  IF short > 0 THEN short ELSE 0

\* `l' is the processes left running by what called it.
Replenish(l) ==
    \E new \in SUBSET (Analysers \ (ToSet(idle') \cup warming \cup Range(held'))) :
        /\ Cardinality(new) = Shortfall(idle')
        /\ warming' = warming \cup new
        /\ live' = l \cup new

-----------------------------------------------------------------------------
(* Which sessions were active when.                                        *)

Forget(G) ==
    /\ before' = {p \in before : p[1] \notin G /\ p[2] \notin G}
    /\ quiet' = quiet \ G

\* c is now the most recently active, and the sessions G are gone.
Active(c, G) ==
    LET others == Open \ (G \cup {c})
    IN  /\ before' = (before \cap (others \X others)) \cup (others \X {c})
        /\ quiet' = quiet \ (G \cup {c})

-----------------------------------------------------------------------------
(* Sessions.                                                               *)

\* Broken: the analyser goes back to the pool.
CloseReturning(c) ==
    /\ phase' = [phase EXCEPT ![c] = "none"]
    /\ held' = [held EXCEPT ![c] = NoAnalyser]
    /\ Forget({c})
    /\ idle' = Append(idle, held[c])
    /\ UNCHANGED <<hungUp, waiting, topUp>>
    /\ Replenish(live)

Close(c) ==
    /\ phase' = [phase EXCEPT ![c] = "none"]
    /\ held' = [held EXCEPT ![c] = NoAnalyser]
    /\ Forget({c})
    /\ UNCHANGED <<hungUp, idle, waiting, topUp>>
    /\ Replenish(live \ {held[c]})

\* The acquisition of c ends with analyser a, or with none.
Settle(c, a) ==
    IF a = NoAnalyser \/ c \in hungUp
    THEN /\ phase' = [phase EXCEPT ![c] = "none"]
         /\ held' = [held EXCEPT ![c] = NoAnalyser]
         /\ hungUp' = hungUp \ {c}
         /\ live' = live \ {a, held[c]}
         /\ UNCHANGED <<before, quiet>>
    ELSE /\ phase' = [phase EXCEPT ![c] = "open"]
         /\ held' = [held EXCEPT ![c] = a]
         /\ Active(c, {})
         /\ UNCHANGED <<hungUp, live>>

-----------------------------------------------------------------------------
(* A connection arrives: the handler up to its await, an eviction included *)

SameAddress(c) == IF AddressOf[c] = NoAddress THEN {}
                  ELSE {d \in Slots : AddressOf[d] = AddressOf[c]}

AtAddressLimit(c) == Cardinality(SameAddress(c)) >= MaxSessionsPerAddress

\* Broken: the sort is the other way round.
EvictableNewest(c) ==
    LET candidates == SameAddress(c) \cap quiet
    IN  {d \in candidates : \A e \in candidates : <<d, e>> \notin before}

\* The address's least recently active session, if it has been quiet.
Evictable(c) ==
    LET candidates == SameAddress(c) \cap quiet
    IN  {d \in candidates : \A e \in candidates : <<e, d>> \notin before}

RefuseAtAddressLimit(c) ==
    /\ phase[c] = "none"
    /\ AtAddressLimit(c) /\ Evictable(c) = {}
    /\ phase' = [phase EXCEPT ![c] = "refused"]
    /\ UNCHANGED <<hungUp, held, before, quiet, idle, waiting, warming, live, topUp>>

\* c enters phase p with analyser a, once the sessions G have been evicted.
Enter(c, p, a, G) ==
    /\ phase' = [d \in Conns |-> IF d = c THEN p ELSE IF d \in G THEN "none" ELSE phase[d]]
    /\ held' = [d \in Conns |-> IF d = c THEN a ELSE IF d \in G THEN NoAnalyser ELSE held[d]]
    /\ UNCHANGED <<hungUp, topUp>>

LiveAfter(G) == live \ {held[d] : d \in G}

ReplenishIfEvicted(G, l) == IF G = {} THEN warming' = warming /\ live' = l
                                      ELSE Replenish(l)

RefuseWhenFull(c, G) ==
    /\ Enter(c, "refused", NoAnalyser, G)
    /\ Forget(G)
    /\ UNCHANGED <<idle, waiting>>
    /\ ReplenishIfEvicted(G, LiveAfter(G))

\* ?repl: an analyser of its own in submission mode, never one of the pool's.
StartRepl(c, G) ==
    \E a \in Analysers \ (ToSet(idle) \cup warming \cup Range(held)) :
        /\ Enter(c, "starting", a, G)
        /\ Forget(G)
        /\ UNCHANGED <<idle, waiting>>
        /\ ReplenishIfEvicted(G, LiveAfter(G) \cup {a})

\* Broken: idle[0] for idle.shift().
TakeWarmWithoutShift(c, G) ==
    /\ idle # <<>>
    /\ Enter(c, "open", Head(idle), G)
    /\ Active(c, G)
    /\ UNCHANGED <<idle, waiting>>
    /\ Replenish(LiveAfter(G))

TakeWarm(c, G) ==
    /\ idle # <<>>
    /\ Enter(c, "open", Head(idle), G)
    /\ Active(c, G)
    /\ idle' = Tail(idle)
    /\ UNCHANGED waiting
    /\ Replenish(LiveAfter(G))

WaitForPool(c, G) ==
    /\ idle = <<>>
    /\ Enter(c, "waiting", NoAnalyser, G)
    /\ Forget(G)
    /\ UNCHANGED idle
    /\ waiting' = Append(waiting, c)
    /\ Replenish(LiveAfter(G))

Accept(c, G) ==
    IF Cardinality(Slots \ G) >= MaxSessions
    THEN RefuseWhenFull(c, G)
    ELSE StartRepl(c, G) \/ TakeWarm(c, G) \/ WaitForPool(c, G)

Connect(c) ==
    /\ phase[c] = "none"
    /\ ~AtAddressLimit(c)
    /\ Accept(c, {})

ConnectEvicting(c) ==
    /\ phase[c] = "none"
    /\ AtAddressLimit(c)
    /\ \E d \in Evictable(c) : Accept(c, {d})

-----------------------------------------------------------------------------
(* Acquiring.                                                              *)

\* Broken: the hand is left in the queue.
AcquireTimesOutQueued(c) ==
    /\ phase[c] = "waiting"
    /\ \E a \in Analysers \ (ToSet(idle) \cup warming \cup Range(held)) :
          /\ held' = [held EXCEPT ![c] = a]
          /\ live' = live \cup {a}
    /\ phase' = [phase EXCEPT ![c] = "starting"]
    /\ UNCHANGED <<hungUp, before, quiet, idle, waiting, warming, topUp>>

\* Broken: the timer takes the connection off the queue and does no more.
AcquireTimesOutGivingUp(c) ==
    /\ \E i \in 1..Len(waiting) : waiting[i] = c /\ waiting' = RemoveAt(waiting, i)
    /\ UNCHANGED <<phase, hungUp, held, before, quiet, idle, warming, live, topUp>>

\* ACQUIRE_TIMEOUT_MS: leave the queue and start an analyser cold.
AcquireTimesOut(c) ==
    /\ \E i \in 1..Len(waiting) : waiting[i] = c /\ waiting' = RemoveAt(waiting, i)
    /\ \E a \in Analysers \ (ToSet(idle) \cup warming \cup Range(held)) :
          /\ held' = [held EXCEPT ![c] = a]
          /\ live' = live \cup {a}
    /\ phase' = [phase EXCEPT ![c] = "starting"]
    /\ UNCHANGED <<hungUp, before, quiet, idle, warming, topUp>>

\* startCold returns the analyser whatever warmUp said, null if start threw.
ColdStartEnds(c) ==
    /\ phase[c] = "starting"
    /\ \E a \in {held[c], NoAnalyser} : Settle(c, a)
    /\ UNCHANGED <<idle, waiting, warming, topUp>>

\* Broken: straight to the pool, past whoever is waiting.
WarmUpSucceedsPassingBy(a) ==
    /\ a \in warming /\ a \in live
    /\ idle' = Append(idle, a)
    /\ warming' = warming \ {a}
    /\ topUp' = TRUE
    /\ UNCHANGED <<phase, hungUp, held, before, quiet, waiting, live>>

\* A warm analyser goes to the first connection waiting, else to the pool.
WarmUpSucceeds(a) ==
    /\ a \in warming /\ a \in live
    /\ IF waiting # <<>>
       THEN /\ Settle(Head(waiting), a)
            /\ waiting' = Tail(waiting)
            /\ UNCHANGED idle
       ELSE /\ idle' = Append(idle, a)
            /\ UNCHANGED <<phase, hungUp, held, before, quiet, waiting, live>>
    /\ warming' = warming \ {a}
    /\ topUp' = TRUE

\* Broken: only a warm-up that worked schedules the next.
WarmUpFailsUnscheduled(a) ==
    /\ a \in warming
    /\ live' = live \ {a}
    /\ warming' = warming \ {a}
    /\ UNCHANGED <<phase, hungUp, held, before, quiet, idle, waiting, topUp>>

WarmUpFails(a) ==
    /\ a \in warming
    /\ live' = live \ {a}
    /\ warming' = warming \ {a}
    /\ topUp' = TRUE
    /\ UNCHANGED <<phase, hungUp, held, before, quiet, idle, waiting>>

TopUp ==
    /\ topUp
    /\ topUp' = FALSE
    /\ UNCHANGED <<phase, hungUp, held, before, quiet, idle, waiting>>
    /\ Replenish(live)

-----------------------------------------------------------------------------
(* A session's life.                                                       *)

ClientMessage(c) ==
    /\ phase[c] = "open"
    /\ Active(c, {})
    /\ UNCHANGED <<phase, hungUp, held, idle, waiting, warming, live, topUp>>

\* EVICT_QUIET_MS pass; sessions active earlier have been quiet for longer.
FallsQuiet(c) ==
    /\ c \in Open \ quiet
    /\ \A d \in Open : <<d, c>> \in before => d \in quiet
    /\ quiet' = quiet \cup {c}
    /\ UNCHANGED <<phase, hungUp, held, before, idle, waiting, warming, live, topUp>>

\* IDLE_TIMEOUT_MS, of the session whose timer was set the longest ago.
IdleTimeout(c) ==
    /\ phase[c] = "open"
    /\ \A d \in Open : <<d, c>> \notin before
    /\ Close(c)

LifetimeExpires(c) == phase[c] = "open" /\ Close(c)

\* The client goes, or a socket error ends it.  Only a session is listening:
\* one still acquiring finds out when it has been given its analyser.
Disconnect(c) ==
    \/ phase[c] = "open" /\ Close(c)
    \/ /\ phase[c] \in {"waiting", "starting"}
       /\ hungUp' = hungUp \cup {c}
       /\ UNCHANGED <<phase, held, before, quiet, idle, waiting, warming, live, topUp>>
    \/ /\ phase[c] = "refused"
       /\ phase' = [phase EXCEPT ![c] = "none"]
       /\ UNCHANGED <<hungUp, held, before, quiet, idle, waiting, warming, live, topUp>>

\* A process exits by itself.  Only a session's is noticed.
AnalyserExits(a) ==
    /\ a \in live
    /\ \/ \E c \in Open : held[c] = a /\ Close(c)
       \/ /\ \A c \in Open : held[c] # a
          /\ live' = live \ {a}
          /\ UNCHANGED <<phase, hungUp, held, before, quiet, idle, waiting, warming, topUp>>

-----------------------------------------------------------------------------
(* The service starts, its pool filling, or is stopped and starts again.   *)

Init ==
    /\ \E new \in SUBSET Analysers :
          /\ Cardinality(new) = PoolSize
          /\ warming = new /\ live = new
    /\ phase = [c \in Conns |-> "none"]
    /\ held = [c \in Conns |-> NoAnalyser]
    /\ hungUp = {} /\ before = {} /\ quiet = {}
    /\ idle = <<>> /\ waiting = <<>>
    /\ topUp = FALSE

Restart ==
    /\ \E new \in SUBSET Analysers :
          /\ Cardinality(new) = PoolSize
          /\ warming' = new /\ live' = new
    /\ phase' = [c \in Conns |-> "none"]
    /\ held' = [c \in Conns |-> NoAnalyser]
    /\ hungUp' = {} /\ before' = {} /\ quiet' = {}
    /\ idle' = <<>> /\ waiting' = <<>>
    /\ topUp' = FALSE

ConnNext(c) ==
    \/ RefuseAtAddressLimit(c) \/ Connect(c) \/ ConnectEvicting(c)
    \/ AcquireTimesOut(c) \/ ColdStartEnds(c)
    \/ ClientMessage(c) \/ FallsQuiet(c)
    \/ IdleTimeout(c) \/ LifetimeExpires(c) \/ Disconnect(c)

AnalyserNext(a) == WarmUpSucceeds(a) \/ WarmUpFails(a) \/ AnalyserExits(a)

Next ==
    \/ \E c \in Conns : ConnNext(c)
    \/ \E a \in Analysers : AnalyserNext(a)
    \/ TopUp
    \/ Restart

Spec == Init /\ [][Next]_vars

\* Armed timers fire, and starting or warming an analyser ends: each of its
\* waits is raced with WARM_UP_TIMEOUT_MS.  Nothing is assumed of clients.
Fairness ==
    /\ \A c \in Conns : WF_vars(AcquireTimesOut(c)) /\ WF_vars(ColdStartEnds(c))
    /\ \A a \in Analysers : WF_vars(WarmUpSucceeds(a) \/ WarmUpFails(a))
    /\ WF_vars(TopUp)

FairSpec == Spec /\ Fairness

-----------------------------------------------------------------------------
(* Properties.                                                             *)

\* The type of every variable: a connection has an analyser exactly while one
\* starts for it or serves it, and only sessions have been active or quiet.
TypeOK ==
    /\ phase \in [Conns -> Phases]
    /\ hungUp \subseteq {c \in Conns : phase[c] \in {"waiting", "starting"}}
    /\ held \in [Conns -> Analysers \cup {NoAnalyser}]
    /\ \A c \in Conns : phase[c] \in {"starting", "open"} <=> held[c] # NoAnalyser
    /\ before \subseteq Open \X Open
    /\ quiet \subseteq Open
    /\ idle \in Seq(Analysers)
    /\ waiting \in Seq(Conns)
    /\ warming \subseteq Analysers
    /\ live \subseteq Analysers
    /\ topUp \in BOOLEAN

\* Every slot is counted while its analyser is being acquired too, so two
\* connections arriving together never pass the check of MAX_SESSIONS, nor an
\* address's that of MAX_SESSIONS_PER_ADDRESS, on the same free slot.
SlotBudget ==
    /\ Cardinality(Slots) <= MaxSessions
    /\ \A c \in Conns : Cardinality(SameAddress(c)) <= MaxSessionsPerAddress

\* Every running analyser is one the service still has a use for: in the pool,
\* warming for it, starting for a connection or in a session.  A connection
\* that hangs up while acquiring, or that the pool serves as its acquire timer
\* fires, leaves no process behind.
Wanted == ToSet(idle) \cup warming \cup {held[c] : c \in Slots}

NoOrphan == live \subseteq Wanted

\* The memory the service is provisioned for (server.js:32-34): no schedule of
\* arrivals, evictions, slow starts and exits has more processes running than
\* the sessions and the pool add up to.
ProcessBudget == Cardinality(live) <= MaxSessions + PoolSize

\* An analyser is in one place at most: once in the pool, or warming, or with
\* one connection.  Sessions never share a process.
SingleOwner ==
    /\ IsInjective(idle)
    /\ ToSet(idle) \cap warming = {}
    /\ \A c \in Slots : held[c] \notin ToSet(idle) \cup warming
    /\ \A c, d \in Slots : held[c] = held[d] => c = d \/ held[c] = NoAnalyser

\* Nobody waits for the pool while it has an analyser to give, and the queue
\* holds exactly the connections still waiting, once each.
NobodyWaitsInVain ==
    /\ waiting # <<>> => idle = <<>>
    /\ IsInjective(waiting)
    /\ ToSet(waiting) = {c \in Conns : phase[c] = "waiting"}

\* The pool is short only while a top-up is due: no path on which an analyser
\* leaves it, or fails to reach it, forgets to have it filled again.
ShortfallIsScheduled ==
    Len(idle) + Cardinality(warming) = PoolSize \/ (topUp /\ Shortfall(idle) > 0)

\* An eviction, which is a session ending in the step in which a connection
\* arrives, only ever takes a session of the newcomer's own address, at its
\* limit, that is quiet and that no other session there is older than; and not
\* for a newcomer that is refused, although MAX_SESSIONS is checked afterwards.
Evicts(c, d) == /\ phase[c] = "none" /\ phase'[c] # "none"
                /\ phase[d] = "open" /\ phase'[d] = "none"

EvictionIsEarned ==
    [][\A c, d \in Conns : Evicts(c, d) =>
          /\ d \in SameAddress(c) \cap quiet
          /\ AtAddressLimit(c) /\ phase'[c] # "refused"
          /\ \A e \in SameAddress(c) \cap Open : <<e, d>> \notin before]_vars

\* "A process a client has touched is never handed to another one"
\* (server.js:439): what a session held goes neither to the pool nor to
\* another connection when the session ends.
NeverRecycled ==
    [][\A c \in Open : \/ held'[c] = held[c] /\ phase'[c] = "open"
                       \/ /\ held[c] \notin ToSet(idle')
                          /\ \A d \in Conns : held'[d] # held[c]]_vars

\* Every connection that was not refused is given a session, or learns that
\* there is none: it never waits for good, whatever the pool does.
EveryConnectionSettles ==
    \A c \in Conns : phase[c] \in {"waiting", "starting"} ~>
                     phase[c] \notin {"waiting", "starting"}

=============================================================================
