------------------------------ MODULE SlotGate ------------------------------
(* What the compile service's concurrency gate promises its callers: no more *)
(* than Slots of them are served at a time and no more than Places wait, no  *)
(* slot is idle while somebody waits, and those who wait are served in the   *)
(* order they came.  Whoever has given up by the time it is his turn is not   *)
(* served, and nobody else is passed over.                                   *)
EXTENDS Integers, Sequences, FiniteSets, SequencesExt

CONSTANTS Callers,  \* who asks for a slot
          Slots,    \* MAX_CONCURRENT_COMPILES
          Places    \* MAX_QUEUED_COMPILES

VARIABLES serving,  \* the callers with a slot
          line,     \* the callers waiting for one, in order
          givenUp   \* those of either who have left

gateVars == <<serving, line, givenUp>>

GateInit == serving = {} /\ line = <<>> /\ givenUp = {}

Admit(c) ==
    /\ c \notin serving \cup ToSet(line)
    /\ IF Cardinality(serving) < Slots
       THEN serving' = serving \cup {c} /\ UNCHANGED line
       ELSE /\ Len(line) < Places
            /\ line' = Append(line, c)
            /\ UNCHANGED serving
    /\ UNCHANGED givenUp

\* One who is served goes on having the slot.
GiveUp(c) ==
    /\ c \in (serving \cup ToSet(line)) \ givenUp
    /\ givenUp' = givenUp \cup {c}
    /\ UNCHANGED <<serving, line>>

\* The first k of the line have given up; the slot goes to the next, who has not,
\* if there is one.
Leave(c) ==
    /\ c \in serving
    /\ \E k \in 0..Len(line) :
          /\ \A i \in 1..k : line[i] \in givenUp
          /\ k < Len(line) => line[k + 1] \notin givenUp
          /\ givenUp' = givenUp \ ({c} \cup {line[i] : i \in 1..k})
          /\ serving' = (serving \ {c}) \cup (IF k < Len(line) THEN {line[k + 1]} ELSE {})
          /\ line' = SubSeq(line, k + 2, Len(line))

GateNext == \E c \in Callers : Admit(c) \/ GiveUp(c) \/ Leave(c)

GateSpec == GateInit /\ [][GateNext]_gateVars
=============================================================================
