------------------------------ MODULE Console -------------------------------
(* What running programs from the page promises whoever sits in front of it: *)
(* one program has the console at a time; the page shows more and more of    *)
(* what it writes, and in the end all of it; a line is typed only when every *)
(* line before it has been read, and the program reads exactly those lines;  *)
(* it does not end with a line left for it.  The page may be loaded again,   *)
(* and then all of this is forgotten.                                        *)
EXTENDS Sequences, SequencesExt

CONSTANTS Programs,  \* what is run, each once
          Answers    \* the lines, and the end of input

VARIABLES stage,    \* per program: "before", "running", "ended" or "after"
          written,  \* what it wrote
          screen,   \* what the page shows of that
          typed,    \* what it was answered
          read      \* what it has read of that

consoleVars == <<stage, written, screen, typed, read>>

Empty == [p \in Programs |-> <<>>]

ConsoleInit ==
    /\ stage = [p \in Programs |-> "before"]
    /\ written = Empty /\ screen = Empty /\ typed = Empty /\ read = Empty

Enter(p) ==
    /\ stage[p] = "before" /\ \A q \in Programs : stage[q] \in {"before", "after"}
    /\ stage' = [stage EXCEPT ![p] = "running"]
    /\ UNCHANGED <<written, screen, typed, read>>

\* It does not come to a run.
Refuse(p) ==
    /\ stage[p] = "before" /\ stage' = [stage EXCEPT ![p] = "after"]
    /\ UNCHANGED <<written, screen, typed, read>>

WritesMore(p) ==
    /\ IsPrefix(written[p], written'[p])
    /\ written' = [written EXCEPT ![p] = written'[p]]

Write(p) ==
    /\ stage[p] = "running" /\ WritesMore(p)
    /\ UNCHANGED <<stage, screen, typed, read>>

Show(p) ==
    /\ stage[p] \in {"running", "ended"}
    /\ IsPrefix(screen[p], screen'[p]) /\ IsPrefix(screen'[p], written[p])
    /\ screen' = [screen EXCEPT ![p] = screen'[p]]
    /\ UNCHANGED <<stage, written, typed, read>>

Answer(p) ==
    /\ stage[p] = "running" /\ read[p] = typed[p]
    /\ \E line \in Answers : typed' = [typed EXCEPT ![p] = Append(@, line)]
    /\ UNCHANGED <<stage, written, screen, read>>

Read(p) ==
    /\ stage[p] = "running" /\ Len(read[p]) < Len(typed[p])
    /\ read' = [read EXCEPT ![p] = Append(@, typed[p][Len(@) + 1])]
    /\ UNCHANGED <<stage, written, screen, typed>>

\* It may write as it ends: what it threw.
Finish(p) ==
    /\ stage[p] = "running" /\ read[p] = typed[p]
    /\ stage' = [stage EXCEPT ![p] = "ended"] /\ WritesMore(p)
    /\ UNCHANGED <<screen, typed, read>>

Settle(p) ==
    /\ stage[p] = "ended" /\ stage' = [stage EXCEPT ![p] = "after"]
    /\ screen' = [screen EXCEPT ![p] = written[p]]
    /\ UNCHANGED <<written, typed, read>>

Reload(p) ==
    /\ stage[p] \in {"running", "ended"} /\ stage' = [stage EXCEPT ![p] = "after"]
    /\ written' = Empty /\ screen' = Empty /\ typed' = Empty /\ read' = Empty

ConsoleNext ==
    \E p \in Programs :
       \/ Enter(p) \/ Refuse(p) \/ Write(p) \/ Show(p) \/ Answer(p)
       \/ Read(p) \/ Finish(p) \/ Settle(p) \/ Reload(p)

ConsoleSpec == ConsoleInit /\ [][ConsoleNext]_consoleVars
=============================================================================
