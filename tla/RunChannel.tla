------------------------------ MODULE RunChannel ------------------------------
(***************************************************************************)
(* Running a program in the page: web/wwwroot/playground.js and main.js on *)
(* the page's thread, runner/src/runner.ghul, channel.ghul and console.ghul *)
(* on the program's thread, and the memory they share.                     *)
(*                                                                         *)
(* A handler of the page is one step, but for sendInput(), whose stores the *)
(* program can come between; nothing else of the page happens meanwhile.   *)
(* The program's accesses to the control block are a step each where their *)
(* order matters.  Memory is sequentially consistent here.                 *)
(*                                                                         *)
(* A character a program writes is <<run, n>>, its n-th.  A line typed is  *)
(* a sequence; `End' is the end of input.                                  *)
(***************************************************************************)
EXTENDS Integers, SequencesExt

CONSTANTS MaxRuns,   \* how often run() is called
          Lines,     \* what a reader types
          End,
          Capacity,  \* OUTPUT_CHARS
          MaxChars,  \* the characters a program writes at most, echoes apart
          MaxReads   \* the lines it reads at most

ASSUME LinesAssumption == \A l \in Lines : l \in Seq(Nat) /\ End \notin Lines
ASSUME BoundsAssumption == {MaxRuns, Capacity, MaxChars, MaxReads} \subseteq Nat

\* Runs are numbered as they are started.
Runs == 1 .. MaxRuns
NoRun == 0

VARIABLES
    status,   \* the last onStatus: it decides what the Run button is
    page,     \* per run, what its run() holds: see Idle
    waiting,  \* the page believes the program waits for a line
    box,      \* the run whose prompt left the input row on the page
    hasty,    \* since the page was loaded, a run was started beside another,
              \* or a line typed into a row left behind
    runtime,  \* the .NET runtime: "none", "up" or "broken"
    sending,  \* the sendInput() that is under way
    control,  \* the control block
    output,   \* the output buffer
    input,    \* the input buffer
    program,  \* per run, its thread: see Unborn
    stdout,   \* the run whose CONSOLE_OUT IO.Std.out is
    stdin,    \* the run whose CONSOLE_IN IO.Std.in is
    sent      \* per run, what was typed in answer to its prompts

pageVars == <<status, page, waiting, box, hasty, runtime, sending>>
memory == <<control, output, input>>
programVars == <<program, stdout, stdin>>
vars == <<status, page, waiting, box, hasty, runtime, sending, control, output, input,
          program, stdout, stdin, sent>>

Busy == {"compiling", "starting runtime", "running"}

\* `live' is what the page was shown while the program ran, `text' what it
\* settled on.
Idle == [phase |-> "new", shown |-> 0, answered |-> 0, live |-> <<>>, text |-> <<>>]

\* pc is "new", "called", "free", "publish", "prepare", "wait", "take",
\* "clear", "fetch", "echo" or "over"; `from' and `count' are what write()
\* copied, `via' whose CONSOLE_IN reads, `previous' what IO.Std.out was.
Unborn == [pc |-> "new", step |-> 0, from |-> 0, count |-> 0, via |-> NoRun,
           length |-> 0, wrote |-> 0, captured |-> <<>>, previous |-> NoRun, got |-> <<>>]

NoLine == [line |-> End, step |-> 0]

FreshControl == [written |-> 0, truncated |-> FALSE, turn |-> 0, ready |-> FALSE, length |-> 0]

\* Broken: the turn is taken before the flag is cleared, and the flag is set
\* before the length.
ReadOrderTurnFirst == <<"turn", "ready", "length">>
SendOrderReadyFirst == <<"ready", "length">>

\* The order of the stores in read_line() and in sendInput().
ReadOrder == <<"ready", "length", "turn">>
SendOrder == <<"length", "ready">>

\* s with t written over it after its first n elements.
Overlay(s, n, t) == SubSeq(s, 1, n) \o t \o SubSeq(s, n + Len(t) + 1, Len(s))

\* The first n characters of run r.
Own(r, n) == [i \in 1 .. n |-> <<r, i>>]

Phase(r) == page[r].phase
At(r, pc) == program[r].pc = pc

-----------------------------------------------------------------------------
(* The page.                                                               *)

\* A run() that has begun and not ended.
Active(r) == Phase(r) \notin {"new", "over", "gone"}

\* run(): a source past the limit is refused here.  The Run button is dead
\* while a run is being prepared; Ctrl+Enter and the arguments' form look
\* only whether a program is running, and swapTo(), for a suggestion, a part's
\* link, Back or Forward, at nothing.
Starts(r) ==
    /\ sending = NoLine /\ Phase(r) = "new" /\ \A q \in 1 .. r - 1 : Phase(q) # "new"
    /\ hasty' = (hasty \/ \E q \in Runs : Active(q))
    /\ \E tooBig \in BOOLEAN :
          /\ status' = IF tooBig THEN "failed" ELSE "compiling"
          /\ page' = [page EXCEPT ![r].phase = IF tooBig THEN "over" ELSE "compiling"]
    /\ UNCHANGED <<waiting, box, runtime, sending, memory, programVars, sent>>

\* The compile service's answer, or none.
CompileEnds(r) ==
    /\ sending = NoLine /\ Phase(r) = "compiling"
    /\ \E end \in {<<"unauthorized", "asking">>, <<"busy", "over">>, <<"failed", "over">>,
                   <<"error", "over">>, <<"starting runtime", "starting">>} :
          /\ status' = end[1]
          /\ page' = [page EXCEPT ![r].phase = end[2]]
    /\ UNCHANGED <<waiting, box, hasty, runtime, sending, memory, programVars, sent>>

\* askForToken() resolves: with a token the run starts again.
TokenAnswered(r) ==
    /\ sending = NoLine /\ Phase(r) = "asking"
    /\ \/ /\ status' = "compiling" /\ page' = [page EXCEPT ![r].phase = "compiling"]
       \/ /\ status' \in {status, "failed"} /\ page' = [page EXCEPT ![r].phase = "over"]
    /\ UNCHANGED <<waiting, box, hasty, runtime, sending, memory, programVars, sent>>

\* Broken: the count of the last run's output is left.
RewindsInputOnly == [control EXCEPT !.turn = 0, !.ready = FALSE]

\* What the page stores before it calls the program.
Rewound == [FreshControl EXCEPT !.length = control.length]

\* loadRuntime() resolves and the program is called; or it is rejected, for
\* this run and every later one.
RuntimeStarts(r) ==
    /\ sending = NoLine /\ Phase(r) = "starting"
    /\ \/ /\ runtime # "broken"
          /\ runtime' = "up" /\ status' = "running"
          /\ page' = [page EXCEPT ![r].phase = "running"]
          /\ control' = Rewound
          /\ program' = [program EXCEPT ![r].pc = "called"]
       \/ /\ runtime # "up"
          /\ runtime' = "broken" /\ status' = "error"
          /\ page' = [page EXCEPT ![r].phase = "over"]
          /\ UNCHANGED <<control, program>>
    /\ UNCHANGED <<waiting, box, hasty, sending, output, input, stdout, stdin, sent>>

\* Broken: INPUT_TURN looked at as a flag.
AsksOnce(r) == control.turn # 0 /\ page[r].answered = 0

\* The program waits for a line it has not been asked for.
Asks(r) == control.turn # page[r].answered

\* The interval's look at the control block.
Poll(r) ==
    /\ sending = NoLine /\ Phase(r) = "running"
    /\ page' = [page EXCEPT ![r].shown = IF control.written > @ THEN control.written ELSE @,
                            ![r].live = @ \o SubSeq(output, page[r].shown + 1, control.written),
                            ![r].answered = control.turn]
    /\ IF Asks(r) THEN waiting' = TRUE /\ box' = r
                  ELSE UNCHANGED <<waiting, box>>
    /\ UNCHANGED <<status, hasty, runtime, sending, memory, programVars, sent>>

\* The promise of Run resolves.
Ends(r) ==
    /\ sending = NoLine /\ Phase(r) = "running" /\ At(r, "over")
    /\ status' = "done"
    /\ page' = [page EXCEPT ![r].phase = "over", ![r].text = program[r].captured]
    /\ waiting' = FALSE
    /\ box' = IF waiting THEN NoRun ELSE box
    /\ UNCHANGED <<hasty, runtime, sending, memory, programVars, sent>>

\* A line, or Ctrl+D, in the input row, which goes at once; also when the row
\* is that of a run that was stopped.
Types(line) ==
    /\ sending = NoLine /\ box # NoRun
    /\ hasty' = (hasty \/ ~waiting)
    /\ sending' = [line |-> line, step |-> 1]
    /\ sent' = [sent EXCEPT ![box] = Append(@, line)]
    /\ box' = NoRun
    /\ UNCHANGED <<status, page, waiting, runtime, memory, programVars>>

\* Broken: the page still believes that the program waits.
AnsweredStillWaiting == UNCHANGED waiting

\* What sendInput() and endInput() end with.
Answered == waiting' = FALSE

\* A store of sendInput() or endInput().
Sends ==
    /\ sending # NoLine
    /\ LET line == sending.line IN
       \/ /\ SendOrder[sending.step] = "length"
          /\ control' = [control EXCEPT !.length = IF line = End THEN -1 ELSE Len(line)]
          /\ input' = IF line = End THEN input ELSE Overlay(input, 0, line)
       \/ /\ SendOrder[sending.step] = "ready"
          /\ control' = [control EXCEPT !.ready = TRUE]
          /\ UNCHANGED input
    /\ IF sending.step < Len(SendOrder)
       THEN sending' = [sending EXCEPT !.step = @ + 1] /\ UNCHANGED waiting
       ELSE sending' = NoLine /\ Answered
    /\ UNCHANGED <<status, page, box, hasty, runtime, output, programVars, sent>>

\* The Run button while it says Stop: the end of input for a program that
\* waits, with the row left where it is.
StopsInput ==
    /\ sending = NoLine /\ status = "running" /\ waiting
    /\ sending' = [line |-> End, step |-> 1]
    /\ sent' = [sent EXCEPT ![box] = Append(@, End)]
    /\ UNCHANGED <<status, page, waiting, box, hasty, runtime, memory, programVars>>

\* A busy program goes with the page, which is loaded again.
StopsPage ==
    /\ sending = NoLine /\ status = "running" /\ ~waiting
    /\ status' = "" /\ box' = NoRun /\ hasty' = FALSE /\ runtime' = "none"
    /\ page' = [r \in Runs |-> IF Phase(r) = "new" THEN Idle ELSE [Idle EXCEPT !.phase = "gone"]]
    /\ control' = FreshControl /\ output' = <<>> /\ input' = <<>>
    /\ program' = [r \in Runs |-> Unborn] /\ stdout' = NoRun /\ stdin' = NoRun
    /\ sent' = [r \in Runs |-> <<>>] /\ waiting' = FALSE /\ sending' = NoLine

-----------------------------------------------------------------------------
(* The program's thread.                                                   *)

Goes(r, pc) == program' = [program EXCEPT ![r].pc = pc]

\* _capture() puts the run's own writer and reader in place; or the host
\* cannot load the assembly, and says so.
Enters(r) ==
    /\ At(r, "called")
    /\ \/ /\ program' = [program EXCEPT ![r].pc = "free", ![r].previous = stdout]
          /\ stdout' = r /\ stdin' = r
       \/ /\ program' = [program EXCEPT ![r].pc = "over", ![r].wrote = 1,
                                        ![r].captured = Own(r, 1)]
          /\ UNCHANGED <<stdout, stdin>>
    /\ UNCHANGED <<pageVars, memory, sent>>

\* A write that would pass the cap ends the output, and no later one is let in.
Fits(n) == ~control.truncated /\ control.written + n <= Capacity

\* n characters through the CONSOLE_OUT of run `to': the capture first, then
\* CHANNEL.write(), which copies them and, a step later, counts them.  No
\* run's writer is in place when another run has put back what it found.
Emits(r, to, n) ==
    LET chars == [i \in 1 .. n |-> <<r, program[r].wrote + i>>]
        live  == to # NoRun /\ Fits(n)
        wrote == [program EXCEPT ![r].wrote = @ + n,
                                 ![r].pc = IF live THEN "publish" ELSE "free",
                                 ![r].from = control.written,
                                 ![r].count = n]
    IN /\ program' = IF to # NoRun
                     THEN [wrote EXCEPT ![to].captured = @ \o chars] ELSE wrote
       /\ output' = IF live THEN Overlay(output, control.written, chars) ELSE output
       /\ control' = [control EXCEPT !.truncated = @ \/ (to # NoRun /\ ~live)]
       /\ UNCHANGED <<pageVars, input, stdout, stdin, sent>>

Writes(r) == At(r, "free") /\ \E n \in 1 .. MaxChars - program[r].wrote : Emits(r, stdout, n)

Publishes(r) ==
    /\ At(r, "publish") /\ Goes(r, "free")
    /\ control' = [control EXCEPT !.written = program[r].from + program[r].count]
    /\ UNCHANGED <<pageVars, output, input, stdout, stdin, sent>>

\* The program reads a line: of nothing when no run's reader is in place.
Reads(r) ==
    /\ At(r, "free") /\ Len(program[r].got) < MaxReads
    /\ program' = IF stdin = NoRun
                  THEN [program EXCEPT ![r].got = Append(@, End)]
                  ELSE [program EXCEPT ![r].pc = "prepare", ![r].step = 1, ![r].via = stdin]
    /\ UNCHANGED <<pageVars, memory, stdout, stdin, sent>>

Prepares(r) ==
    /\ At(r, "prepare")
    /\ LET slot == ReadOrder[program[r].step] IN
       control' = [control EXCEPT !.ready = @ /\ slot # "ready",
                                  !.length = IF slot = "length" THEN 0 ELSE @,
                                  !.turn = IF slot = "turn" THEN @ + 1 ELSE @]
    /\ IF program[r].step < Len(ReadOrder)
       THEN program' = [program EXCEPT ![r].step = @ + 1]
       ELSE Goes(r, "wait")
    /\ UNCHANGED <<pageVars, output, input, stdout, stdin, sent>>

Hears(r) ==
    /\ At(r, "wait") /\ control.ready /\ Goes(r, "take")
    /\ UNCHANGED <<pageVars, memory, stdout, stdin, sent>>

Takes(r) ==
    /\ At(r, "take")
    /\ program' = [program EXCEPT ![r].pc = "clear", ![r].length = control.length]
    /\ UNCHANGED <<pageVars, memory, stdout, stdin, sent>>

Clears(r) ==
    /\ At(r, "clear") /\ Goes(r, "fetch")
    /\ control' = [control EXCEPT !.ready = FALSE]
    /\ UNCHANGED <<pageVars, output, input, stdout, stdin, sent>>

Fetches(r) ==
    /\ At(r, "fetch")
    /\ LET length == program[r].length IN
       program' = [program EXCEPT
           ![r].pc = IF length < 0 THEN "free" ELSE "echo",
           ![r].got = Append(@, IF length < 0 THEN End ELSE SubSeq(input, 1, length))]
    /\ UNCHANGED <<pageVars, memory, stdout, stdin, sent>>

Echoes(r) == At(r, "echo") /\ Emits(r, program[r].via, 1)

\* The program returns, or throws, which only the capture is told of.
Finishes(r) ==
    /\ At(r, "free")
    /\ \E threw \in BOOLEAN :
          LET n == IF threw THEN 1 ELSE 0 IN
          program' = [program EXCEPT ![r].pc = "over", ![r].wrote = @ + n,
                          ![r].captured = @ \o SubSeq(Own(r, program[r].wrote + n),
                                                      program[r].wrote + 1, program[r].wrote + n)]
    /\ stdout' = program[r].previous /\ stdin' = NoRun
    /\ UNCHANGED <<pageVars, memory, sent>>

-----------------------------------------------------------------------------
Init ==
    /\ status = "" /\ page = [r \in Runs |-> Idle]
    /\ waiting = FALSE /\ box = NoRun /\ hasty = FALSE /\ runtime = "none" /\ sending = NoLine
    /\ control = FreshControl /\ output = <<>> /\ input = <<>>
    /\ program = [r \in Runs |-> Unborn] /\ stdout = NoRun /\ stdin = NoRun
    /\ sent = [r \in Runs |-> <<>>]

\* What a thread does by itself once its program has called it.
Thread(r) ==
    \/ Enters(r) \/ Publishes(r) \/ Prepares(r) \/ Hears(r)
    \/ Takes(r) \/ Clears(r) \/ Fetches(r) \/ Echoes(r)

Next ==
    \/ \E r \in Runs : Starts(r) \/ CompileEnds(r) \/ TokenAnswered(r) \/ RuntimeStarts(r)
                      \/ Poll(r) \/ Ends(r)
    \/ \E line \in Lines \cup {End} : Types(line)
    \/ Sends \/ StopsInput \/ StopsPage
    \/ \E r \in Runs : Thread(r) \/ Writes(r) \/ Reads(r) \/ Finishes(r)

Spec == Init /\ [][Next]_vars

\* The interval fires and the thread is scheduled; a handler runs to its end.
\* What the program and the reader choose to do is not fair.
FairSpec ==
    /\ Spec
    /\ WF_vars(Sends)
    /\ \A r \in Runs : WF_vars(Poll(r)) /\ WF_vars(Thread(r))

-----------------------------------------------------------------------------
Answers == Lines \cup {End}
Texts == Seq(Runs \X Nat)

\* Each variable holds what its comment says.
TypeOK ==
    /\ status \in Busy \cup {"", "unauthorized", "busy", "failed", "error", "done"}
    /\ page \in [Runs -> [phase : {"new", "compiling", "asking", "starting", "running", "over", "gone"},
                          shown : Nat, answered : Nat, live : Texts, text : Texts]]
    /\ waiting \in BOOLEAN /\ box \in Runs \cup {NoRun} /\ hasty \in BOOLEAN
    /\ runtime \in {"none", "up", "broken"}
    /\ sending \in [line : Answers, step : 0 .. Len(SendOrder)]
    /\ control \in [written : 0 .. Capacity, truncated : BOOLEAN, turn : Nat,
                    ready : BOOLEAN, length : Nat \cup {-1}]
    /\ output \in Texts /\ input \in Seq(Nat)
    /\ \A r \in Runs : /\ program[r].captured \in Texts /\ program[r].got \in Seq(Answers)
                       /\ sent[r] \in Seq(Answers)
    /\ {stdout, stdin} \subseteq Runs \cup {NoRun}

\* While a program runs the page shows a beginning of what it wrote and
\* nothing of any other run, and once it is over the page shows all of it:
\* the counters set back by one thread and counted up by another, the cap and
\* the two copies of the output come to one text; as long as the reader has
\* not been hasty.
OutputIsItsOwn ==
    ~hasty => \A r \in Runs :
       /\ Phase(r) = "running" => IsPrefix(page[r].live, Own(r, program[r].wrote))
       /\ Phase(r) = "over" => page[r].text = Own(r, program[r].wrote)

\* The n-th line a program reads is the n-th one typed for it, whole: none is
\* lost, seen twice, cut to another's length or left from another run; as long
\* as the reader has not been hasty.
AnswersInOrder == ~hasty => \A r \in Runs : IsPrefix(program[r].got, sent[r])

\* What Stop goes by: when the page believes a program to wait for a line
\* one does, and it has not been answered; `waiting' is one flag for all runs,
\* and says no more once the reader has been hasty.
WaitingIsHonest ==
    ~hasty /\ waiting => \E r \in Runs : Phase(r) = "running" /\ At(r, "wait") /\ ~control.ready

\* A program that comes to wait for a line has the box put in front of the
\* reader, at its second read as at its first, unless the reader is hasty.
AsksAreHeard ==
    \A r \in Runs : (At(r, "wait") /\ ~control.ready) ~> (box = r \/ ~At(r, "wait") \/ hasty)

\* What was typed reaches the program, which sleeps until it does, unless the
\* reader is hasty.
AnswersArrive ==
    \A r \in Runs : (Len(sent[r]) > Len(program[r].got))
                        ~> (Len(sent[r]) = Len(program[r].got) \/ hasty)

\* How a run appears to whoever sits in front of the page.
Stage(r) ==
    CASE Phase(r) = "running" -> IF At(r, "over") THEN "ended" ELSE "running"
      [] Phase(r) \in {"over", "gone"} -> "after"
      [] OTHER -> "before"

OnScreen(r) == IF Phase(r) = "running" THEN page[r].live ELSE page[r].text

\* Two threads, a block of counters and flags and a look every 50 ms keep the
\* promises of Console, until the reader is hasty and again from when the page
\* is loaded anew.
Console == INSTANCE Console WITH
    Programs <- Runs,
    stage <- [r \in Runs |-> Stage(r)],
    written <- [r \in Runs |-> Own(r, program[r].wrote)],
    screen <- [r \in Runs |-> OnScreen(r)],
    typed <- sent,
    read <- [r \in Runs |-> program[r].got]

ConsoleIsKept ==
    /\ Console!ConsoleInit
    /\ [][hasty \/ hasty' \/ Console!ConsoleNext]_(Console!consoleVars)

\* "Nothing is running at this instant", says run() of the moment it sets the
\* counters back.
NothingRunsAtReset ==
    [][\A r \in Runs : Phase(r) = "starting" /\ Phase(r)' = "running"
          => \A q \in Runs : program[q].pc \in {"new", "over"}]_vars
=============================================================================
