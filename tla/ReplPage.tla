------------------------------ MODULE ReplPage ------------------------------
(***************************************************************************)
(* The REPL page (web/wwwroot/repl.js) with the two parties it keeps in    *)
(* step: the session in a hidden frame (cell-runtime.js, cell-host.js and  *)
(* the runner's repl_session.ghul), and the analyser behind the input, of  *)
(* which only the REPL's part is here; its connection is LspClient.        *)
(*                                                                         *)
(* A cell is the number of its submission.  The frame answers its calls in *)
(* order; computing an answer and the page taking it are one step, as the  *)
(* page reads nothing of the frame but its answers, and a frame that is    *)
(* removed takes both with it.  Whatever a handler leaves to microtasks    *)
(* belongs to the handler's step: nothing runs in between.                 *)
(***************************************************************************)
EXTENDS Naturals, Sequences, FiniteSets

CONSTANTS Texts,         \* what can be typed, besides nothing
          Blank,         \* an empty input
          NoAnalysis,    \* what is analysed before the frame was asked
          MaxCells,      \* limits.maxCells
          MaxSubmits,    \* bound: the cells submitted
          MaxCalls,      \* bound: the calls to the frame that have no answer
          RuntimeFails,  \* the frame, or the .NET runtime in it, may not start
          AddingFails    \* playground/addCells may fail, or not be answered

ASSUME TextsAssumption == Blank \notin Texts /\ Blank # NoAnalysis
ASSUME BoundsAssumption == {MaxCells, MaxSubmits, MaxCalls} \subseteq Nat \ {0}
ASSUME FaultsAssumption == {RuntimeFails, AddingFails} \subseteq BOOLEAN

VARIABLES
    text,      \* the input
    edit,      \* whether analysisTimer is set
    sub,       \* where submit() is: "idle", or what it awaits
    stale,     \* whether submit()'s session is not the generation any more
    submitted, \* the cells submitted so far
    number,    \* the number in the prompt
    chain,     \* prepared.cells, and the frame's _pending
    hostPage,  \* CellRuntime._hostPage, a promise: "unknown" until it settles
    frame,     \* the frame: see Frames
    calls,     \* the calls posted to it, or waiting for it to be ready
    session,   \* the cells of the session in it
    dropped,   \* whether imports were dropped for the cell being compiled
    cells,     \* the cells the page has the analyser told
    added,     \* how many of them it has been told
    ready,     \* whether the analyser is connected and initialized
    known,     \* the cells it has
    adding,    \* the playground/addCells requests outstanding
    analysis   \* what is analysed: a text, and the cells before it

inputVars == <<text, edit>>
subVars == <<sub, stale, submitted, number, chain>>
frameVars == <<hostPage, frame, calls, session, dropped>>
analyserVars == <<cells, added, ready, known, adding, analysis>>
vars == <<inputVars, subVars, frameVars, analyserVars>>

\* "starting" until the host page is in it; "hung" when that failed; "loaded"
\* when it answers; then its runtime is made or, for good, "broken".
Frames == {"none", "starting", "hung", "loaded", "running", "broken"}

Cells == 1..MaxSubmits
Call == [op : {"prepare"}] \cup [op : {"analysis"}, text : Texts \cup {Blank}]
            \cup [op : {"accept"}, compiled : BOOLEAN]

Busy == sub # "idle"

-----------------------------------------------------------------------------
(* What the handlers call.                                                 *)

\* runtime.call(): the first call makes the frame.
Calls(f, q, call) ==
    /\ frame' = IF f = "none" THEN "starting" ELSE f
    /\ calls' = Append(q, call)

\* refreshAnalysis(), up to its await.
Refreshes(f, q) ==
    IF sub' = "idle" THEN Calls(f, q, [op |-> "analysis", text |-> text'])
                     ELSE frame' = f /\ calls' = q

\* cells.slice(added)
Beyond(c, n) == {x \in c : Cardinality({y \in c : y <= x}) > n}

\* addCells(), up to its await.
Adds(c, n) ==
    IF ready' /\ n < Cardinality(c)
    THEN adding' = adding \cup {Beyond(c, n)} /\ added' = Cardinality(c)
    ELSE adding' = adding /\ added' = n

\* startAnalysis(): the client of the analyser is disposed of, and its requests
\* end with it.
StartsAnalysis ==
    /\ cells' = {} /\ added' = 0 /\ analysis' = NoAnalysis
    /\ ready' = FALSE /\ known' = {} /\ adding' = {}

\* The frame and the session in it go; what it was asked is never answered.
DropsSession == session' = {} /\ dropped' = FALSE /\ UNCHANGED hostPage

\* submit()'s finally block.
Ends(n, f, q) ==
    /\ sub' = "idle" /\ stale' = FALSE /\ chain' = {} /\ number' = n
    /\ Refreshes(f, q)

\* resetSession() in a submission, and the end of it.
EndsSession ==
    /\ DropsSession /\ StartsAnalysis
    /\ Ends(1, "none", <<>>)

-----------------------------------------------------------------------------
(* The reader.                                                             *)

\* Typing; and recalling an earlier input, which the editor being read-only
\* while a cell is under way does not prevent.
Types ==
    /\ text' \in (Texts \cup {Blank}) \ {text}
    /\ edit' = TRUE
    /\ UNCHANGED <<subVars, frameVars, analyserVars>>

\* submit(), up to its await of `prepare'.
Submit ==
    /\ sub = "idle" /\ text # Blank /\ submitted < MaxSubmits
    /\ text' = Blank /\ edit' = TRUE
    /\ sub' = "prepare" /\ submitted' = submitted + 1
    /\ Calls(frame, calls, [op |-> "prepare"])
    /\ UNCHANGED <<stale, number, chain, hostPage, session, dropped, analyserVars>>

\* Broken: the prompt keeps its number.
StopKeepsNumber ==
    /\ sub = "accept"
    /\ DropsSession /\ StartsAnalysis
    /\ UNCHANGED <<inputVars, submitted>>
    /\ Ends(number, "none", <<>>)

\* Stop is offered while a cell runs.  The call is answered as stopped, and the
\* submission ends.
Stop ==
    /\ sub = "accept"
    /\ UNCHANGED <<inputVars, submitted>>
    /\ EndsSession

ResetOffered == Busy \/ number # 1

\* The reset button.  A submission that awaits the compile service finds out
\* when that answers; the others are answered as stopped.
Reset ==
    /\ ResetOffered
    /\ UNCHANGED <<inputVars, submitted>>
    /\ IF sub \in {"prepare", "accept"} THEN EndsSession
       ELSE /\ DropsSession /\ StartsAnalysis
            /\ number' = 1 /\ frame' = "none" /\ calls' = <<>>
            /\ stale' = Busy /\ chain' = {}
            /\ UNCHANGED sub

-----------------------------------------------------------------------------
(* Timers, the compile service and the analyser.                           *)

\* Broken: a refresh that finds the page busy is not made up for.
SettlesBusy ==
    /\ edit /\ Len(calls) < MaxCalls
    /\ edit' = FALSE
    /\ UNCHANGED <<text, subVars, hostPage, session, dropped, analyserVars>>
    /\ IF Busy THEN Refreshes(frame, calls) ELSE UNCHANGED <<frame, calls>>

\* Three hundred milliseconds after the last change.
EditSettles ==
    /\ edit /\ Len(calls) < MaxCalls
    /\ edit' = FALSE
    /\ UNCHANGED <<text, subVars, hostPage, session, dropped, analyserVars>>
    /\ Refreshes(frame, calls)

\* The compile service answers: with an assembly or with what is wrong, the
\* service being busy included; or that an earlier cell does not compile any
\* more, for which the page starts a new session; or not at all.
PostEnds ==
    /\ sub = "post"
    /\ UNCHANGED <<inputVars, submitted>>
    /\ \/ /\ ~stale
          /\ \E compiled \in BOOLEAN :
                Calls(frame, calls, [op |-> "accept", compiled |-> compiled])
          /\ sub' = "accept"
          /\ UNCHANGED <<stale, number, chain, hostPage, session, dropped, analyserVars>>
       \/ ~stale /\ EndsSession
       \/ Ends(number, frame, calls) /\ UNCHANGED <<hostPage, session, dropped, analyserVars>>

\* Broken: a fresh analyser is taken to have the cells.
ReadyAsBefore ==
    /\ ~ready /\ Len(calls) < MaxCalls
    /\ ready' = TRUE /\ known' = {}
    /\ Adds(cells, added)
    /\ UNCHANGED <<inputVars, subVars, hostPage, session, dropped, cells, analysis>>
    /\ Refreshes(frame, calls)

\* onReady: a fresh analyser, which has none of the cells.
AnalyserReady ==
    /\ ~ready /\ Len(calls) < MaxCalls
    /\ ready' = TRUE /\ known' = {}
    /\ Adds(cells, 0)
    /\ UNCHANGED <<inputVars, subVars, hostPage, session, dropped, cells, analysis>>
    /\ Refreshes(frame, calls)

\* The connection goes, and with it every request; see LspClient.
AnalyserLost ==
    /\ ready
    /\ ready' = FALSE /\ known' = {} /\ adding' = {}
    /\ UNCHANGED <<inputVars, subVars, hostPage, session, dropped, cells, added, analysis>>
    /\ IF adding = {} THEN UNCHANGED <<frame, calls>> ELSE Refreshes(frame, calls)

\* The rest of addCells(), whatever the answer.
AddingEnds ==
    /\ \E a \in adding :
          /\ adding' = adding \ {a}
          /\ known' \in {known \cup a} \cup IF AddingFails THEN {known} ELSE {}
    /\ UNCHANGED <<inputVars, subVars, hostPage, session, dropped, cells, added, ready, analysis>>
    /\ Refreshes(frame, calls)

-----------------------------------------------------------------------------
(* The frame.                                                              *)

\* The frame says that it is ready, or never will: a host page that could not
\* be fetched is not fetched again.
FrameLoads ==
    /\ frame = "starting"
    /\ \/ hostPage # "failed" /\ hostPage' = "fetched" /\ frame' = "loaded"
       \/ RuntimeFails /\ hostPage = "unknown" /\ hostPage' = "failed" /\ frame' = "hung"
       \/ RuntimeFails /\ frame' = "hung" /\ UNCHANGED hostPage
    /\ UNCHANGED <<inputVars, subVars, calls, session, dropped, analyserVars>>

\* runtime() in cell-host.js, for the first call.
RuntimeStarts ==
    /\ frame = "loaded" /\ calls # <<>>
    /\ frame' \in {"running"} \cup IF RuntimeFails THEN {"broken"} ELSE {}
    /\ UNCHANGED <<inputVars, subVars, hostPage, calls, session, dropped, analyserVars>>

Answers(op) ==
    /\ frame \in {"running", "broken"} /\ calls # <<>>
    /\ Head(calls).op = op

\* The rest of refreshAnalysis().
AnalysisAnswered ==
    /\ Answers("analysis")
    /\ calls' = Tail(calls)
    /\ analysis' = IF frame = "broken" \/ Head(calls).text # text THEN analysis
                   ELSE [text |-> text, cells |-> session]
    /\ UNCHANGED <<inputVars, subVars, hostPage, frame, session, dropped,
                   cells, added, ready, known, adding>>

Prepared ==
    /\ Answers("prepare")
    /\ UNCHANGED <<inputVars, submitted, hostPage, session, analyserVars>>
    /\ IF frame = "broken"
       THEN Ends(number, frame, Tail(calls)) /\ UNCHANGED dropped
       ELSE /\ sub' = "post" /\ chain' = session \cup {submitted}
            /\ dropped' = FALSE
            /\ calls' = Tail(calls)
            /\ UNCHANGED <<stale, number, frame>>

\* Broken: imports are dropped again and again.
RefusedAgain ==
    /\ Answers("accept") /\ ~Head(calls).compiled
    /\ UNCHANGED <<inputVars, submitted, hostPage, session, analyserVars>>
    /\ \/ /\ dropped' = TRUE /\ sub' = "post"
          /\ calls' = Tail(calls)
          /\ UNCHANGED <<stale, number, chain, frame>>
       \/ Ends(Cardinality(session) + 1, frame, Tail(calls)) /\ UNCHANGED dropped

\* accept() of a reply without an assembly.  The first time, imports that did
\* not resolve may be dropped and the request made again.
Refused ==
    /\ Answers("accept") /\ ~Head(calls).compiled
    /\ UNCHANGED <<inputVars, submitted, hostPage, session, analyserVars>>
    /\ \/ /\ ~dropped /\ dropped' = TRUE
          /\ sub' = "post"
          /\ calls' = Tail(calls)
          /\ UNCHANGED <<stale, number, chain, frame>>
       \/ Ends(Cardinality(session) + 1, frame, Tail(calls)) /\ UNCHANGED dropped

\* ReplAccept() catches what is thrown before the session takes the cell: the page
\* is told nothing of the number.
HostThrows ==
    /\ Answers("accept")
    /\ UNCHANGED <<inputVars, submitted, hostPage, session, dropped, analyserVars>>
    /\ Ends(number, frame, Tail(calls))

\* accept() of an assembly: the cell has run, and is part of the session.
Accepted ==
    /\ Answers("accept") /\ Head(calls).compiled
    /\ UNCHANGED <<inputVars, submitted>>
    /\ IF Cardinality(chain) + 1 > MaxCells THEN EndsSession
       ELSE /\ session' = chain /\ cells' = chain
            /\ UNCHANGED <<hostPage, dropped, ready, known, analysis>>
            /\ Adds(chain, added)
            /\ Ends(Cardinality(chain) + 1, frame, Tail(calls))

-----------------------------------------------------------------------------
Init ==
    /\ text = Blank /\ edit = FALSE
    /\ sub = "idle" /\ stale = FALSE /\ submitted = 0 /\ number = 1 /\ chain = {}
    /\ hostPage = "unknown" /\ frame = "none" /\ calls = <<>>
    /\ session = {} /\ dropped = FALSE
    /\ cells = {} /\ added = 0 /\ ready = FALSE /\ known = {} /\ adding = {}
    /\ analysis = NoAnalysis

HostAnswers == AnalysisAnswered \/ Prepared \/ Refused \/ HostThrows \/ Accepted

Next ==
    \/ Types \/ Submit \/ Stop \/ Reset
    \/ EditSettles \/ PostEnds
    \/ AnalyserReady \/ AnalyserLost \/ AddingEnds
    \/ FrameLoads \/ RuntimeStarts
    \/ AnalysisAnswered \/ Prepared \/ Refused \/ HostThrows \/ Accepted

Spec == Init /\ [][Next]_vars

\* A frame loads or fails to, a fetch ends, and so does a cell.
Fairness ==
    /\ WF_vars(FrameLoads) /\ WF_vars(RuntimeStarts)
    /\ WF_vars(HostAnswers) /\ WF_vars(PostEnds)

FairSpec == Spec /\ Fairness

-----------------------------------------------------------------------------
(* Properties.                                                             *)

\* The type of every variable; the session behind a page with no frame is empty.
TypeOK ==
    /\ text \in Texts \cup {Blank} /\ edit \in BOOLEAN
    /\ sub \in {"idle", "prepare", "post", "accept"} /\ stale \in BOOLEAN
    /\ submitted \in 0..MaxSubmits /\ number \in 1..MaxCells
    /\ {chain, session, cells, known} \cup adding \subseteq SUBSET Cells
    /\ hostPage \in {"unknown", "fetched", "failed"} /\ frame \in Frames
    /\ calls \in Seq(Call)
    /\ dropped \in BOOLEAN /\ ready \in BOOLEAN
    /\ added \in 0..Cardinality(cells)
    /\ analysis \in {NoAnalysis} \cup [text : Texts \cup {Blank}, cells : SUBSET Cells]
    /\ session # {} => frame = "running"

\* The page "holds no session logic of its own" (repl.js:4), only a number and a
\* list of cells; whenever the reader can submit, both agree with the session
\* in the frame, whatever was stopped, reset, refused or broken before.
PageKnowsTheSession ==
    ~Busy => number = Cardinality(session) + 1 /\ cells = session

\* The input is analysed "against the cells accepted so far" (repl.js:230):
\* an analyser that is ready has every one of them once it has answered.
AnalyserHasTheCells == ready /\ adding = {} => known = cells

\* "Diagnostics, hover and completion for what is being typed" (repl.js:227):
\* with nothing outstanding, what is analysed is the input as it is, as the
\* next cell of the session as it is, however typing, cells and connections
\* came and went.
AnalysisIsCurrent ==
    ready /\ ~Busy /\ ~edit /\ calls = <<>> /\ adding = {} /\ frame # "broken"
        => analysis = [text |-> text, cells |-> session]

\* A submission ends, if the frame came up: it is compiled at most twice.
SubmissionEnds == Busy ~> (~Busy \/ frame = "hung")
=============================================================================
