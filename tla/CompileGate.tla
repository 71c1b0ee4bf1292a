---------------------------- MODULE CompileGate ----------------------------
(***************************************************************************)
(* compile-service/server.js: requests to compile, and the gate that lets  *)
(* MAX_CONCURRENT_COMPILES compilers run at once and MAX_QUEUED_COMPILES   *)
(* requests wait.  The container's health check compiles through the same  *)
(* gate.                                                                   *)
(*                                                                         *)
(* Everything from releaseSlot() to the start of the next compile runs in  *)
(* microtasks, with no event in between, so it is one action.  A name in   *)
(* Requests is used again once its request has been answered.              *)
(***************************************************************************)
EXTENDS Integers, Sequences, FiniteSets, SequencesExt

CONSTANTS Requests,      \* names of requests in progress
          Probes,        \* those of them that are GET /health
          MaxConcurrent, \* MAX_CONCURRENT
          MaxQueued      \* MAX_QUEUED

ASSUME RequestsAssumption == IsFiniteSet(Requests) /\ Probes \subseteq Requests
ASSUME GateAssumption == MaxConcurrent \in Nat \ {0} /\ MaxQueued \in Nat

VARIABLES
    phase,   \* where each request is: see Phases
    gone,    \* clientGone, of the requests queued or working
    running, \* the counter of slots in use
    queue,   \* the requests waiting for a slot
    health   \* the cached verdict, and whether it is younger than HEALTH_CACHE_MS

vars == <<phase, gone, running, queue, health>>

\* "none" before a request and after its answer; "receiving" its body.
Phases == {"none", "receiving", "queued", "working"}

Working == {r \in Requests : phase[r] = "working"}

Verdicts == {"unchecked", "ok", "failed", "busy"}

-----------------------------------------------------------------------------
(* The gate.                                                               *)

AcquireSlot(r) ==
    \/ /\ running < MaxConcurrent
       /\ running' = running + 1
       /\ phase' = [phase EXCEPT ![r] = "working"]
       /\ UNCHANGED queue
    \/ /\ running >= MaxConcurrent /\ Len(queue) < MaxQueued
       /\ phase' = [phase EXCEPT ![r] = "queued"]
       /\ queue' = Append(queue, r)
       /\ UNCHANGED running

Saturated == running >= MaxConcurrent /\ Len(queue) >= MaxQueued

\* r's slot goes to the request after the first k in the queue, which are done.
HandOn(r, k) ==
    LET done == {r} \cup {queue[i] : i \in 1..k}
    IN  /\ k < Len(queue)
        /\ phase' = [q \in Requests |-> IF q \in done THEN "none"
                                        ELSE IF q = queue[k + 1] THEN "working"
                                        ELSE phase[q]]
        /\ gone' = gone \ done
        /\ queue' = SubSeq(queue, k + 2, Len(queue))
        /\ UNCHANGED running

\* Nobody is left to give r's slot to.
FreeSlot(r) ==
    LET done == {r} \cup ToSet(queue)
    IN  /\ phase' = [q \in Requests |-> IF q \in done THEN "none" ELSE phase[q]]
        /\ gone' = gone \ done
        /\ queue' = <<>>
        /\ running' = running - 1

\* Broken: nobody asks whether the client is still there.
ReleaseSlotUnasked(r) ==
    \/ queue # <<>> /\ HandOn(r, 0)
    \/ queue = <<>> /\ FreeSlot(r)

\* Broken: the slot is freed, and whoever waits for it is not told.
ReleaseSlotUnseen(r) ==
    /\ phase' = [phase EXCEPT ![r] = "none"]
    /\ gone' = gone \ {r}
    /\ running' = running - 1
    /\ UNCHANGED queue

\* The next in the queue has the slot.  One whose client has gone does no work
\* with it (a probe always does) and releases it in its turn.
ReleaseSlot(r) ==
    \/ \E k \in 0..Len(queue) - 1 :
          /\ \A i \in 1..k : queue[i] \in gone
          /\ queue[k + 1] \notin gone
          /\ HandOn(r, k)
    \/ ToSet(queue) \subseteq gone /\ FreeSlot(r)

-----------------------------------------------------------------------------
(* POST /compile and POST /compile/cell.                                   *)

Arrives(r) ==
    /\ r \notin Probes /\ phase[r] = "none"
    /\ phase' = [phase EXCEPT ![r] = "receiving"]
    /\ UNCHANGED <<gone, running, queue, health>>

\* 413 for a body over the limit, 400 or 500 for one that is not a request; or
\* the client gives up in the middle of it, and nothing is heard of it again.
Rejected(r) ==
    /\ phase[r] = "receiving"
    /\ phase' = [phase EXCEPT ![r] = "none"]
    /\ UNCHANGED <<gone, running, queue, health>>

\* 503: Busy.
TurnedAway(r) ==
    /\ phase[r] = "receiving" /\ Saturated
    /\ phase' = [phase EXCEPT ![r] = "none"]
    /\ UNCHANGED <<gone, running, queue, health>>

BodyEnds(r) ==
    /\ phase[r] = "receiving"
    /\ AcquireSlot(r)
    /\ UNCHANGED <<gone, health>>

ClientGoes(r) ==
    /\ r \notin Probes /\ r \notin gone
    /\ phase[r] \in {"queued", "working"}
    /\ gone' = gone \cup {r}
    /\ UNCHANGED <<phase, running, queue, health>>

\* Broken: no finally, so a compile that throws keeps its slot.
WorkEndsKeeping(r) ==
    /\ phase[r] = "working" /\ r \notin Probes
    /\ \/ ReleaseSlot(r)
       \/ /\ phase' = [phase EXCEPT ![r] = "none"]
          /\ gone' = gone \ {r}
          /\ UNCHANGED <<running, queue>>
    /\ UNCHANGED health

\* The compile answers, fails or is killed after COMPILE_TIMEOUT_MS.
WorkEnds(r) ==
    /\ phase[r] = "working" /\ r \notin Probes
    /\ ReleaseSlot(r)
    /\ UNCHANGED health

-----------------------------------------------------------------------------
(* GET /health, when the cached verdict is too old to answer with.         *)

CheckHealth(p) ==
    /\ p \in Probes /\ phase[p] = "none" /\ ~health.fresh
    /\ \/ AcquireSlot(p) /\ UNCHANGED health
       \/ /\ Saturated
          /\ health' = [is |-> "busy", fresh |-> TRUE]
          /\ UNCHANGED <<phase, running, queue>>
    /\ UNCHANGED gone

ProbeEnds(p) ==
    /\ phase[p] = "working" /\ p \in Probes
    /\ ReleaseSlot(p)
    /\ \E is \in {"ok", "failed"} : health' = [is |-> is, fresh |-> TRUE]

HealthExpires ==
    /\ health.fresh
    /\ health' = [health EXCEPT !.fresh = FALSE]
    /\ UNCHANGED <<phase, gone, running, queue>>

-----------------------------------------------------------------------------
Init ==
    /\ phase = [r \in Requests |-> "none"]
    /\ gone = {} /\ running = 0 /\ queue = <<>>
    /\ health = [is |-> "unchecked", fresh |-> FALSE]

RequestNext(r) ==
    \/ Arrives(r) \/ Rejected(r) \/ TurnedAway(r) \/ BodyEnds(r)
    \/ ClientGoes(r) \/ WorkEnds(r)
    \/ CheckHealth(r) \/ ProbeEnds(r)

Next == HealthExpires \/ \E r \in Requests : RequestNext(r)

Spec == Init /\ [][Next]_vars

\* A compiler answers or is killed at its timeout.  Clients owe nothing.
Fairness == \A r \in Requests : WF_vars(WorkEnds(r) \/ ProbeEnds(r))

FairSpec == Spec /\ Fairness

-----------------------------------------------------------------------------
(* Properties.                                                             *)

\* The type of every variable: only a request queued or working can have lost
\* its client, and probes are not asked whether they have one.
TypeOK ==
    /\ phase \in [Requests -> Phases]
    /\ \A p \in Probes : phase[p] # "receiving"
    /\ gone \subseteq {r \in Requests \ Probes : phase[r] \in {"queued", "working"}}
    /\ running \in Nat
    /\ queue \in Seq(Requests)
    /\ health \in [is : Verdicts, fresh : BOOLEAN]

\* "so `running' stays accurate with no window in between" (server.js:124):
\* the counter is the number of compiles under way, health checks included,
\* and never passes MAX_CONCURRENT, the memory the container has for them.
RunningIsAccurate == running = Cardinality(Working) /\ running <= MaxConcurrent

\* A slot never idles while a request waits, nobody is lost from the queue or
\* in it twice, and it keeps its bound.
QueueIsExact ==
    /\ queue # <<>> => running = MaxConcurrent
    /\ IsInjective(queue) /\ ToSet(queue) = {r \in Requests : phase[r] = "queued"}
    /\ Len(queue) <= MaxQueued

\* A request that was let into the queue is served or let go, however the
\* compiles ahead of it end and whoever arrives after it.
NobodyWaitsForever ==
    \A r \in Requests : phase[r] = "queued" ~> phase[r] # "queued"

\* The gate keeps the promises of SlotGate: the slots are the compiles under
\* way, whoever waits is served in his turn if his client is there then, and
\* nothing is compiled for a client that left before (server.js:389).
Gate == INSTANCE SlotGate WITH Callers <- Requests, Slots <- MaxConcurrent,
                               Places <- MaxQueued, serving <- Working, line <- queue,
                               givenUp <- gone

GateIsKept == Gate!GateSpec
=============================================================================
