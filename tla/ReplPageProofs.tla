-------------------------- MODULE ReplPageProofs --------------------------
(* What the page, the frame and the analyser agree on, for any texts, any    *)
(* number of cells, submissions and unanswered calls, and a runtime that may *)
(* fail.                                                                     *)
EXTENDS ReplPage, Integers, FiniteSetTheorems, TLAPS

\* Only analyses are outstanding.
Quiet(q) == \A i \in 1..Len(q) : q[i].op = "analysis"

\* Of the calls that are not analyses there is one at most, and it is the one
\* that submit() awaits.
Awaited(q, s) ==
    /\ \A i \in 1..Len(q) : q[i].op \in {"analysis", s}
    /\ \A i, j \in 1..Len(q) : q[i].op # "analysis" /\ q[j].op # "analysis" => i = j

\* Busy or not, the page has the session's cells and its number.
OneSession == cells = session /\ number = Cardinality(session) + 1

\* What the position of submit() says of the session and the frame.
Submission ==
    /\ session \subseteq 1..submitted
    /\ Busy => submitted \in Cells /\ submitted \notin session
    /\ stale => sub = "post"
    /\ sub = "accept" \/ (sub = "post" /\ ~stale) =>
          chain = session \cup {submitted} /\ frame = "running"
    /\ Awaited(calls, sub)

\* What is not current yet has been asked for: the last call is for the text as
\* it is, and will be answered against the session as it is.
AnalysisComing ==
    ready /\ ~Busy /\ ~edit /\ frame # "broken" =>
        \/ analysis = [text |-> text, cells |-> session]
        \/ calls # <<>> /\ calls[Len(calls)] = [op |-> "analysis", text |-> text]

\* An analyser that is ready has each cell, or is being told of it.
CellsComing ==
    /\ ~ready => adding = {}
    /\ ready /\ ~AddingFails =>
          known \cup UNION adding = cells /\ added = Cardinality(cells)

PageInv == TypeOK /\ OneSession /\ Submission /\ AnalysisComing /\ CellsComing

-----------------------------------------------------------------------------
(* The calls to the frame.                                                   *)

\* What there is to know of a call.
LEMMA CallFacts ==
    /\ \A c \in Call : c.op \in {"prepare", "analysis", "accept"}
    /\ [op |-> "prepare"] \in Call
    /\ \A t \in Texts \cup {Blank} : [op |-> "analysis", text |-> t] \in Call
    /\ \A b \in BOOLEAN : [op |-> "accept", compiled |-> b] \in Call
  BY DEF Call

\* A call more: an analysis at any time, another when only analyses are out.
LEMMA AskFacts ==
    ASSUME NEW q \in Seq(Call), NEW c \in Call, NEW s
    PROVE  /\ Append(q, c) \in Seq(Call) /\ Append(q, c) # <<>>
           /\ Append(q, c)[Len(Append(q, c))] = c
           /\ Awaited(q, s) /\ c.op = "analysis" => Awaited(Append(q, c), s)
           /\ Quiet(q) /\ c.op = s => Awaited(Append(q, c), s)
           /\ Quiet(q) => Awaited(q, s)
  <1>1. /\ Append(q, c) \in Seq(Call) /\ Len(Append(q, c)) = Len(q) + 1 /\ Len(q) \in Nat
        /\ Append(q, c)[Len(q) + 1] = c
        /\ \A i \in 1..Len(q) : Append(q, c)[i] = q[i]
    OBVIOUS
  <1>2. \A i \in 1..Len(q) + 1 : i = Len(q) + 1 \/ i \in 1..Len(q)
    BY <1>1
  <1>3. Append(q, c) # <<>> /\ Append(q, c)[Len(Append(q, c))] = c
    BY <1>1
  <1>4. Awaited(q, s) /\ c.op = "analysis" => Awaited(Append(q, c), s)
    BY <1>1, <1>2 DEF Awaited
  <1>5. Quiet(q) /\ c.op = s => Awaited(Append(q, c), s)
    BY <1>1, <1>2 DEF Awaited, Quiet
  <1>6. Quiet(q) => Awaited(q, s)
    BY DEF Awaited, Quiet
  <1> QED BY <1>1, <1>3, <1>4, <1>5, <1>6

\* A call less: when it was the one awaited, only analyses are left.
LEMMA AnswerFacts ==
    ASSUME NEW q \in Seq(Call), NEW s, Awaited(q, s), q # <<>>
    PROVE  /\ Head(q) \in Call /\ Head(q).op \in {"analysis", s}
           /\ Tail(q) \in Seq(Call) /\ Awaited(Tail(q), s)
           /\ Head(q).op # "analysis" => Quiet(Tail(q))
           /\ Tail(q) # <<>> => Tail(q)[Len(Tail(q))] = q[Len(q)]
           /\ Tail(q) = <<>> => Head(q) = q[Len(q)]
  <1>1. /\ Head(q) = q[1] /\ Head(q) \in Call /\ Tail(q) \in Seq(Call)
        /\ Len(q) \in Nat \ {0} /\ Len(Tail(q)) = Len(q) - 1
        /\ \A i \in 1..Len(q) - 1 : Tail(q)[i] = q[i + 1]
    OBVIOUS
  <1>2. /\ Tail(q) = <<>> => Len(q) = 1
        /\ Tail(q) # <<>> => Len(q) - 1 \in 1..Len(q) - 1
    <2>1. Tail(q) = <<>> <=> Len(Tail(q)) = 0
      BY <1>1
    <2> QED BY <1>1, <2>1
  <1>3. 1 \in 1..Len(q) /\ \A i \in 1..Len(q) - 1 : i + 1 \in 1..Len(q) /\ i + 1 # 1
    BY <1>1
  <1>4. Awaited(Tail(q), s)
    <2>1. \A i \in 1..Len(Tail(q)) : Tail(q)[i].op \in {"analysis", s}
      BY <1>1, <1>3 DEF Awaited
    <2>2. ASSUME NEW i \in 1..Len(Tail(q)), NEW j \in 1..Len(Tail(q)),
                 Tail(q)[i].op # "analysis", Tail(q)[j].op # "analysis"
          PROVE  i = j
      <3>1. i + 1 = j + 1
        BY <1>1, <1>3, <2>2 DEF Awaited
      <3> QED BY <3>1, <1>1
    <2> QED BY <2>1, <2>2 DEF Awaited
  <1>5. Head(q).op # "analysis" => Quiet(Tail(q))
    BY <1>1, <1>3 DEF Awaited, Quiet
  <1>6. Tail(q) # <<>> => Tail(q)[Len(Tail(q))] = q[Len(q)]
    BY <1>1, <1>2
  <1> QED BY <1>1, <1>3, <1>4, <1>5, <1>2, <1>6 DEF Awaited

\* refreshAnalysis(), when no cell is under way.
LEMMA RefreshFacts ==
    ASSUME NEW f, NEW q \in Seq(Call), NEW s, Awaited(q, s),
           text' \in Texts \cup {Blank}, sub' = s, Refreshes(f, q)
    PROVE  /\ calls' \in Seq(Call) /\ Awaited(calls', s)
           /\ s = "idle" =>
                /\ calls' # <<>>
                /\ calls'[Len(calls')] = [op |-> "analysis", text |-> text']
           /\ frame' \in {f} \cup IF f = "none" THEN {"starting"} ELSE {}
  <1> DEFINE c == [op |-> "analysis", text |-> text']
  <1>1. c \in Call /\ c.op = "analysis"
    BY CallFacts
  <1>2. CASE s = "idle"
    <2>1. calls' = Append(q, c) /\ frame' = IF f = "none" THEN "starting" ELSE f
      BY <1>2 DEF Refreshes, Calls
    <2> HIDE DEF c
    <2>2. /\ Append(q, c) \in Seq(Call) /\ Append(q, c) # <<>>
          /\ Append(q, c)[Len(Append(q, c))] = c /\ Awaited(Append(q, c), s)
      BY <1>1, AskFacts
    <2> QED BY <2>1, <2>2 DEF c
  <1>3. CASE s # "idle"
    BY <1>3 DEF Refreshes
  <1> QED BY <1>2, <1>3

-----------------------------------------------------------------------------
(* The cells.                                                                *)

\* The session is a finite set of numbers of submissions.
LEMMA SessionFacts ==
    ASSUME TypeOK
    PROVE  /\ MaxCells \in Nat \ {0} /\ MaxSubmits \in Nat \ {0} /\ submitted \in Nat
           /\ Cells = 1..MaxSubmits
           /\ \A c \in SUBSET Cells : IsFiniteSet(c) /\ Cardinality(c) \in Nat
           /\ session \in SUBSET Cells /\ cells \in SUBSET Cells /\ chain \in SUBSET Cells
           /\ Cardinality({}) = 0
  <1>1. MaxCells \in Nat \ {0} /\ MaxSubmits \in Nat \ {0} /\ submitted \in Nat
    BY BoundsAssumption DEF TypeOK
  <1>2. IsFiniteSet(Cells)
    BY <1>1, FS_Interval DEF Cells
  <1>3. \A c \in SUBSET Cells : IsFiniteSet(c) /\ Cardinality(c) \in Nat
    BY <1>2, FS_Subset, FS_CardinalityType
  <1> QED BY <1>1, <1>3, FS_EmptySet DEF TypeOK, Cells

\* addCells() to a fresh analyser: all of them.
LEMMA BeyondNone ==
    ASSUME NEW c, IsFiniteSet(c), c \subseteq Nat
    PROVE  Beyond(c, 0) = c
  <1> SUFFICES ASSUME NEW x \in c
               PROVE  Cardinality({y \in c : y <= x}) > 0
    BY DEF Beyond
  <1> DEFINE u == {y \in c : y <= x}
  <1>1. x \in u
    OBVIOUS
  <1>2. IsFiniteSet(u)
    BY FS_Subset
  <1> HIDE DEF u
  <1>3. Cardinality(u) \in Nat /\ Cardinality(u) # 0
    BY <1>1, <1>2, FS_CardinalityType, FS_EmptySet
  <1> QED BY <1>3 DEF u

\* addCells() after a cell was accepted: that cell.
LEMMA BeyondAllButOne ==
    ASSUME NEW c, IsFiniteSet(c), c \subseteq Nat,
           NEW n \in Nat, \A y \in c : y < n
    PROVE  Beyond(c \cup {n}, Cardinality(c)) = {n}
  <1> DEFINE size == [x \in c \cup {n} |-> Cardinality({y \in c \cup {n} : y <= x})]
  <1>1. Cardinality(c) \in Nat /\ Cardinality(c \cup {n}) = Cardinality(c) + 1
    <2>1. n \notin c
      OBVIOUS
    <2> QED BY <2>1, FS_CardinalityType, FS_AddElement
  <1>2. size[n] > Cardinality(c)
    <2>1. \A y \in c \cup {n} : y <= n
      OBVIOUS
    <2>2. {y \in c \cup {n} : y <= n} = c \cup {n}
      BY <2>1
    <2> QED BY <1>1, <2>2
  <1>3. ASSUME NEW x \in c PROVE ~(size[x] > Cardinality(c))
    <2> DEFINE u == {y \in c \cup {n} : y <= x}
    <2>1. u \in SUBSET c
      OBVIOUS
    <2>2. size[x] = Cardinality(u)
      OBVIOUS
    <2> HIDE DEF u, size
    <2>3. IsFiniteSet(u) /\ Cardinality(u) <= Cardinality(c)
      BY <2>1, FS_Subset
    <2> QED BY <2>2, <2>3, <1>1, FS_CardinalityType
  <1>4. Beyond(c \cup {n}, Cardinality(c)) = {x \in c \cup {n} : size[x] > Cardinality(c)}
    BY DEF Beyond
  <1> HIDE DEF size
  <1> QED BY <1>2, <1>3, <1>4

-----------------------------------------------------------------------------
(* What several actions have in common.                                      *)

\* The end of a session, in a submission or not: a new one begins at cell 1.
LEMMA FreshSession ==
    ASSUME PageInv, DropsSession, StartsAnalysis, number' = 1, chain' = {},
           UNCHANGED <<text, edit, submitted>>, sub' \in {"idle", "post"},
           stale' \in BOOLEAN, stale' <=> sub' = "post", sub' = "post" => Busy,
           calls' \in Seq(Call), Awaited(calls', sub'), frame' \in Frames
    PROVE  PageInv'
  <1> USE SessionFacts DEF PageInv
  <1>1. TypeOK'
    <2>1. cells' = {} /\ added' = 0 /\ session' = {} /\ known' = {} /\ adding' = {}
      BY DEF StartsAnalysis, DropsSession
    <2>2. 0 \in 0..Cardinality(cells') /\ 1 \in 1..MaxCells
      BY <2>1
    <2>3. {chain', session', cells', known'} \cup adding' \subseteq SUBSET Cells
      BY <2>1
    <2>4. /\ text' \in Texts \cup {Blank} /\ edit' \in BOOLEAN /\ submitted' \in 0..MaxSubmits
          /\ dropped' = FALSE /\ ready' = FALSE /\ analysis' = NoAnalysis
          /\ hostPage' \in {"unknown", "fetched", "failed"}
      BY DEF TypeOK, StartsAnalysis, DropsSession
    <2>5. sub' \in {"idle", "prepare", "post", "accept"}
      OBVIOUS
    <2> QED BY <2>1, <2>2, <2>3, <2>4, <2>5 DEF TypeOK
  <1>2. OneSession'
    BY DEF OneSession, StartsAnalysis, DropsSession
  <1>3. Submission'
    BY DEF Submission, DropsSession, Busy
  <1>4. AnalysisComing' /\ CellsComing'
    BY DEF AnalysisComing, CellsComing, StartsAnalysis
  <1> QED BY <1>1, <1>2, <1>3, <1>4

\* resetSession() in a submission.
LEMMA EndsSessionKeeps ==
    ASSUME PageInv, EndsSession, UNCHANGED <<text, edit, submitted>>
    PROVE  PageInv'
  <1>1. text' \in Texts \cup {Blank} /\ sub' = "idle" /\ stale' = FALSE
        /\ chain' = {} /\ number' = 1 /\ Refreshes("none", <<>>)
    BY DEF PageInv, TypeOK, EndsSession, Ends
  <1>2. <<>> \in Seq(Call)
    OBVIOUS
  <1>3. Awaited(<<>>, "idle")
    BY DEF Awaited
  <1>4. calls' \in Seq(Call) /\ Awaited(calls', "idle") /\ frame' \in {"none", "starting"}
    BY <1>1, <1>2, <1>3, RefreshFacts
  <1> QED BY <1>1, <1>4, FreshSession DEF EndsSession, Frames

\* The end of a submission that leaves the session as it is.
LEMMA EndsKeeps ==
    ASSUME PageInv, NEW n, n = number, NEW q \in Seq(Call), Quiet(q), Ends(n, frame, q),
           UNCHANGED <<text, edit, submitted, hostPage, session, analyserVars>>,
           dropped' \in BOOLEAN
    PROVE  PageInv'
  <1> USE SessionFacts DEF PageInv, analyserVars
  <1>1. text' \in Texts \cup {Blank} /\ sub' = "idle" /\ stale' = FALSE
        /\ chain' = {} /\ number' = number /\ Refreshes(frame, q)
    BY DEF TypeOK, Ends
  <1>2. Awaited(q, "idle")
    BY DEF Awaited, Quiet
  <1>3. /\ calls' \in Seq(Call) /\ Awaited(calls', "idle")
        /\ calls' # <<>> /\ calls'[Len(calls')] = [op |-> "analysis", text |-> text']
        /\ frame' \in {frame} \cup IF frame = "none" THEN {"starting"} ELSE {}
    BY <1>1, <1>2, RefreshFacts
  <1>4. TypeOK'
    BY <1>1, <1>3 DEF TypeOK, Frames
  <1>5. OneSession' /\ CellsComing'
    BY <1>1 DEF OneSession, CellsComing
  <1>6. Submission'
    BY <1>1, <1>3 DEF Submission, Busy
  <1>7. AnalysisComing'
    BY <1>3 DEF AnalysisComing
  <1> QED BY <1>4, <1>5, <1>6, <1>7

\* A refresh at any other time.
LEMMA RefreshKeeps ==
    ASSUME PageInv, Refreshes(frame, calls),
           UNCHANGED <<text, subVars, hostPage, session, dropped>>
    PROVE  /\ calls' \in Seq(Call) /\ frame' \in Frames
           /\ session' # {} => frame' = "running"
           /\ Submission' /\ AnalysisComing'
  <1> USE DEF PageInv, subVars
  <1>1. /\ calls' \in Seq(Call) /\ Awaited(calls', sub)
        /\ sub = "idle" =>
             calls' # <<>> /\ calls'[Len(calls')] = [op |-> "analysis", text |-> text']
        /\ frame' \in {frame} \cup IF frame = "none" THEN {"starting"} ELSE {}
    <2>1. calls \in Seq(Call) /\ Awaited(calls, sub) /\ text' \in Texts \cup {Blank} /\ sub' = sub
      BY DEF TypeOK, Submission
    <2> QED BY <2>1, RefreshFacts
  <1>2. Submission'
    BY <1>1 DEF Submission, Busy
  <1>3. AnalysisComing'
    BY <1>1 DEF AnalysisComing, Busy
  <1> QED BY <1>1, <1>2, <1>3 DEF TypeOK, Frames

-----------------------------------------------------------------------------
(* The actions.                                                              *)

\* A cell is submitted: one call that is not an analysis, and no other before it.
LEMMA SubmitKeeps == ASSUME PageInv, Submit PROVE PageInv'
  <1> USE SessionFacts DEF PageInv, analyserVars
  <1> DEFINE c == [op |-> "prepare"]
  <1>1. /\ frame' = IF frame = "none" THEN "starting" ELSE frame
        /\ calls' = Append(calls, c)
    BY DEF Submit, Calls
  <1>2. c \in Call /\ c.op = "prepare"
    BY CallFacts
  <1>3. calls \in Seq(Call) /\ Quiet(calls)
    <2>1. calls \in Seq(Call) /\ sub = "idle" /\ \A i \in 1..Len(calls) : calls[i] \in Call
      BY DEF TypeOK, Submit
    <2> QED BY <2>1, CallFacts DEF Submission, Awaited, Quiet
  <1> HIDE DEF c
  <1>4. calls' \in Seq(Call) /\ Awaited(calls', "prepare")
    BY <1>1, <1>2, <1>3, AskFacts
  <1>5. TypeOK'
    <2>1. submitted' \in 0..MaxSubmits
      BY DEF Submit, TypeOK
    <2>2. frame' \in Frames /\ (session' # {} => frame' = "running")
      BY <1>1 DEF TypeOK, Submit, Frames
    <2> QED BY <1>4, <2>1, <2>2 DEF TypeOK, Submit
  <1>6. OneSession' /\ CellsComing'
    BY DEF OneSession, CellsComing, Submit
  <1>7. Submission'
    <2>1. sub' = "prepare" /\ session' = session /\ submitted' = submitted + 1
          /\ submitted' \in Cells /\ stale' = stale
      BY DEF Submit, Cells
    <2>2. stale' = FALSE /\ session \subseteq 1..submitted
      BY DEF Submission, Submit, TypeOK
    <2>3. session' \subseteq 1..submitted' /\ submitted' \notin session'
      BY <2>1, <2>2
    <2> QED BY <1>4, <2>1, <2>2, <2>3 DEF Submission, Busy
  <1>8. AnalysisComing'
    BY DEF AnalysisComing, Submit, Busy
  <1> QED BY <1>5, <1>6, <1>7, <1>8

\* Reset, which leaves a submission that awaits the compile service to find out.
LEMMA ResetKeeps == ASSUME PageInv, Reset PROVE PageInv'
  <1>1. UNCHANGED <<text, edit, submitted>>
    BY DEF Reset, inputVars
  <1>2. CASE sub \in {"prepare", "accept"}
    BY <1>1, <1>2, EndsSessionKeeps DEF Reset
  <1>3. CASE sub \notin {"prepare", "accept"}
    <2>1. /\ DropsSession /\ StartsAnalysis /\ number' = 1 /\ chain' = {}
          /\ sub' = sub /\ sub \in {"idle", "post"} /\ stale' = Busy
          /\ calls' = <<>> /\ frame' = "none"
      BY <1>3 DEF Reset, PageInv, TypeOK
    <2>2. <<>> \in Seq(Call)
      OBVIOUS
    <2>3. calls' \in Seq(Call) /\ Awaited(calls', sub') /\ frame' \in Frames
      BY <2>1, <2>2 DEF Awaited, Frames
    <2>4. stale' \in BOOLEAN /\ (stale' <=> sub' = "post") /\ (sub' = "post" => Busy)
      BY <2>1 DEF Busy
    <2> QED BY <1>1, <2>1, <2>3, <2>4, FreshSession
  <1> QED BY <1>2, <1>3

\* The compile service answers, to the session that asked or to a later one.
LEMMA PostEndsKeeps == ASSUME PageInv, PostEnds PROVE PageInv'
  <1> USE DEF PageInv
  <1>0. UNCHANGED <<text, edit, submitted>> /\ sub = "post"
        /\ calls \in Seq(Call) /\ Quiet(calls)
    <2>1. UNCHANGED <<text, edit, submitted>> /\ sub = "post" /\ calls \in Seq(Call)
          /\ \A i \in 1..Len(calls) : calls[i] \in Call
      BY DEF PostEnds, inputVars, TypeOK
    <2> QED BY <2>1, CallFacts DEF Submission, Awaited, Quiet
  <1>1. CASE /\ ~stale
             /\ \E compiled \in BOOLEAN :
                   Calls(frame, calls, [op |-> "accept", compiled |-> compiled])
             /\ sub' = "accept"
             /\ UNCHANGED <<stale, number, chain, hostPage, session, dropped, analyserVars>>
    <2> USE DEF analyserVars
    <2>1. PICK compiled \in BOOLEAN :
             Calls(frame, calls, [op |-> "accept", compiled |-> compiled])
      BY <1>1
    <2> DEFINE c == [op |-> "accept", compiled |-> compiled]
    <2>2. c \in Call /\ c.op = "accept" /\ calls' = Append(calls, c)
          /\ frame' = IF frame = "none" THEN "starting" ELSE frame
      BY <2>1, CallFacts DEF Calls
    <2> HIDE DEF c
    <2>3. calls' \in Seq(Call) /\ Awaited(calls', "accept")
      BY <1>0, <2>2, AskFacts
    <2>4. frame = "running" /\ frame' = "running" /\ chain = session \cup {submitted}
      BY <1>0, <1>1, <2>2 DEF Submission
    <2>5. TypeOK'
      BY <1>0, <1>1, <2>3, <2>4 DEF TypeOK, Frames
    <2>6. OneSession' /\ CellsComing'
      BY <1>1 DEF OneSession, CellsComing
    <2>7. Submission'
      BY <1>0, <1>1, <2>3, <2>4 DEF Submission, Busy, TypeOK
    <2>8. AnalysisComing'
      BY <1>1 DEF AnalysisComing, Busy
    <2> QED BY <2>5, <2>6, <2>7, <2>8
  <1>2. CASE EndsSession
    BY <1>0, <1>2, EndsSessionKeeps
  <1>3. CASE Ends(number, frame, calls) /\ UNCHANGED <<hostPage, session, dropped, analyserVars>>
    <2>1. dropped' \in BOOLEAN
      BY <1>3 DEF TypeOK
    <2> QED BY <1>0, <1>3, <2>1, EndsKeeps
  <1> QED BY <1>1, <1>2, <1>3 DEF PostEnds

\* The debounced refresh: what makes AnalysisComing true again after typing.
LEMMA EditSettlesKeeps == ASSUME PageInv, EditSettles PROVE PageInv'
  <1> USE DEF PageInv, analyserVars
  <1>1. Refreshes(frame, calls) /\ UNCHANGED <<text, subVars, hostPage, session, dropped>>
    BY DEF EditSettles
  <1>2. /\ calls' \in Seq(Call) /\ frame' \in Frames
        /\ session' # {} => frame' = "running"
        /\ Submission' /\ AnalysisComing'
    BY <1>1, RefreshKeeps
  <1>3. TypeOK'
    BY <1>2 DEF TypeOK, EditSettles, subVars
  <1>4. OneSession' /\ CellsComing'
    BY DEF OneSession, CellsComing, EditSettles, subVars
  <1> QED BY <1>2, <1>3, <1>4

\* onReady: every cell is sent, and the analysis asked for.
LEMMA AnalyserReadyKeeps == ASSUME PageInv, AnalyserReady PROVE PageInv'
  <1> USE SessionFacts DEF PageInv
  <1>1. /\ Refreshes(frame, calls) /\ UNCHANGED <<text, subVars, hostPage, session, dropped>>
        /\ UNCHANGED <<edit, cells, analysis>>
        /\ ~ready /\ ready' = TRUE /\ known' = {} /\ Adds(cells, 0) /\ adding = {}
    BY DEF AnalyserReady, inputVars, CellsComing
  <1>2. /\ calls' \in Seq(Call) /\ frame' \in Frames
        /\ session' # {} => frame' = "running"
        /\ Submission' /\ AnalysisComing'
    BY <1>1, RefreshKeeps
  <1>3. /\ IsFiniteSet(cells) /\ Cardinality(cells) \in Nat /\ Beyond(cells, 0) = cells
        /\ Cardinality(cells) = 0 <=> cells = {}
    <2>1. cells \subseteq Nat
      OBVIOUS
    <2> QED BY <2>1, BeyondNone, FS_EmptySet
  <1>4. added' = Cardinality(cells) /\ adding' = IF cells = {} THEN {} ELSE {cells}
    BY <1>1, <1>3 DEF Adds
  <1>5. TypeOK'
    <2>1. {chain', session', cells', known'} \cup adding' \subseteq SUBSET Cells
      BY <1>1, <1>4 DEF subVars
    <2>2. added' \in 0..Cardinality(cells')
      BY <1>1, <1>3, <1>4
    <2> QED BY <1>1, <1>2, <2>1, <2>2 DEF TypeOK, subVars
  <1>6. OneSession'
    BY <1>1 DEF OneSession, subVars
  <1>7. CellsComing'
    BY <1>1, <1>4 DEF CellsComing
  <1> QED BY <1>2, <1>5, <1>6, <1>7

\* A lost connection: nothing is promised of an analyser that is not ready.
LEMMA AnalyserLostKeeps == ASSUME PageInv, AnalyserLost PROVE PageInv'
  <1> USE DEF PageInv
  <1>1. /\ UNCHANGED <<inputVars, subVars, hostPage, session, dropped, cells, added, analysis>>
        /\ ready' = FALSE /\ known' = {} /\ adding' = {}
    BY DEF AnalyserLost
  <1> USE DEF inputVars, subVars
  <1>2. /\ calls' \in Seq(Call) /\ frame' \in Frames
        /\ session' # {} => frame' = "running"
        /\ Submission' /\ AnalysisComing'
    <2>1. CASE adding = {}
      <3>1. UNCHANGED <<frame, calls>>
        BY <2>1 DEF AnalyserLost
      <3> QED BY <1>1, <3>1 DEF TypeOK, Submission, AnalysisComing, Busy
    <2>2. CASE adding # {}
      BY <1>1, <2>2, RefreshKeeps DEF AnalyserLost
    <2> QED BY <2>1, <2>2
  <1>3. TypeOK'
    BY <1>1, <1>2 DEF TypeOK
  <1>4. OneSession' /\ CellsComing'
    BY <1>1 DEF OneSession, CellsComing
  <1> QED BY <1>2, <1>3, <1>4

\* The answer to playground/addCells: what was being told is known.
LEMMA AddingEndsKeeps == ASSUME PageInv, AddingEnds PROVE PageInv'
  <1> USE DEF PageInv
  <1>1. /\ UNCHANGED <<inputVars, subVars, hostPage, session, dropped, cells, added, ready, analysis>>
        /\ Refreshes(frame, calls)
    BY DEF AddingEnds
  <1>2. PICK a \in adding :
           /\ adding' = adding \ {a}
           /\ known' \in {known \cup a} \cup IF AddingFails THEN {known} ELSE {}
    BY DEF AddingEnds
  <1> USE DEF inputVars, subVars
  <1>3. /\ calls' \in Seq(Call) /\ frame' \in Frames
        /\ session' # {} => frame' = "running"
        /\ Submission' /\ AnalysisComing'
    BY <1>1, RefreshKeeps
  <1>4. TypeOK'
    <2>1. {chain', session', cells', known'} \cup adding' \subseteq SUBSET Cells
      BY <1>1, <1>2 DEF TypeOK
    <2> QED BY <1>1, <1>3, <2>1 DEF TypeOK
  <1>5. OneSession'
    BY <1>1 DEF OneSession
  <1>6. CellsComing'
    <2>1. ~AddingFails => known' \cup UNION adding' = known \cup UNION adding
      BY <1>2
    <2> QED BY <1>1, <1>2, <2>1 DEF CellsComing
  <1> QED BY <1>3, <1>4, <1>5, <1>6

\* Typing, and a frame that loads or does not, which has no session yet.
LEMMA FrameKeeps ==
    ASSUME PageInv, Types \/ FrameLoads \/ RuntimeStarts
    PROVE  PageInv'
  <1> USE DEF PageInv
  <1>1. CASE Types
    <2> USE <1>1 DEF Types, subVars, frameVars, analyserVars
    <2>1. TypeOK'
      BY DEF TypeOK
    <2>2. OneSession' /\ CellsComing' /\ AnalysisComing' /\ Submission'
      BY DEF OneSession, CellsComing, AnalysisComing, Submission, Busy
    <2> QED BY <2>1, <2>2
  <1>2. CASE FrameLoads
    <2> USE <1>2 DEF FrameLoads, inputVars, subVars, analyserVars
    <2>1. frame = "starting" /\ session = {} /\ frame' \in {"loaded", "hung"}
          /\ hostPage' \in {"fetched", "failed", hostPage}
          /\ UNCHANGED <<text, edit, sub, stale, submitted, number, chain, calls, session,
                         dropped, cells, added, ready, known, adding, analysis>>
      BY DEF TypeOK
    <2>2. TypeOK'
      BY <2>1 DEF TypeOK, Frames
    <2>3. OneSession' /\ CellsComing' /\ AnalysisComing' /\ Submission'
      BY <2>1 DEF OneSession, CellsComing, AnalysisComing, Submission, Busy
    <2> QED BY <2>2, <2>3
  <1>3. CASE RuntimeStarts
    <2> USE <1>3 DEF RuntimeStarts, inputVars, subVars, analyserVars
    <2>1. frame = "loaded" /\ session = {} /\ frame' \in {"running", "broken"}
          /\ UNCHANGED <<text, edit, sub, stale, submitted, number, chain, calls, session,
                         hostPage, dropped, cells, added, ready, known, adding, analysis>>
      BY DEF TypeOK
    <2>2. TypeOK'
      BY <2>1 DEF TypeOK, Frames
    <2>3. OneSession' /\ CellsComing' /\ AnalysisComing' /\ Submission'
      BY <2>1 DEF OneSession, CellsComing, AnalysisComing, Submission, Busy
    <2> QED BY <2>2, <2>3
  <1> QED BY <1>1, <1>2, <1>3

\* What is known when the frame answers: which call, and what is left.
LEMMA AnswersFacts ==
    ASSUME PageInv, NEW op, Answers(op)
    PROVE  /\ calls \in Seq(Call) /\ Tail(calls) \in Seq(Call)
           /\ Head(calls) \in Call /\ Head(calls).op = op
           /\ op \in {"analysis", sub} /\ Awaited(Tail(calls), sub)
           /\ op # "analysis" => Quiet(Tail(calls)) /\ Busy
           /\ Tail(calls) # <<>> => Tail(calls)[Len(Tail(calls))] = calls[Len(calls)]
           /\ Tail(calls) = <<>> => Head(calls) = calls[Len(calls)]
           /\ frame \in {"running", "broken"}
  <1>1. calls \in Seq(Call) /\ calls # <<>> /\ Awaited(calls, sub)
        /\ Head(calls).op = op /\ frame \in {"running", "broken"}
    BY DEF PageInv, TypeOK, Submission, Answers
  <1>2. /\ Head(calls) \in Call /\ Head(calls).op \in {"analysis", sub}
        /\ Tail(calls) \in Seq(Call) /\ Awaited(Tail(calls), sub)
        /\ Head(calls).op # "analysis" => Quiet(Tail(calls))
        /\ Tail(calls) # <<>> => Tail(calls)[Len(Tail(calls))] = calls[Len(calls)]
        /\ Tail(calls) = <<>> => Head(calls) = calls[Len(calls)]
    BY <1>1, AnswerFacts
  <1>3. op # "analysis" => Busy
    BY <1>1, <1>2, CallFacts DEF Busy
  <1> QED BY <1>1, <1>2, <1>3

\* An analysis is answered: the last one asked for is for the text as it is.
LEMMA AnalysisAnsweredKeeps == ASSUME PageInv, AnalysisAnswered PROVE PageInv'
  <1> USE DEF PageInv, inputVars, subVars
  <1>1. /\ Answers("analysis") /\ calls' = Tail(calls)
        /\ UNCHANGED <<inputVars, subVars, hostPage, frame, session, dropped,
                       cells, added, ready, known, adding>>
        /\ analysis' = IF frame = "broken" \/ Head(calls).text # text THEN analysis
                       ELSE [text |-> text, cells |-> session]
    BY DEF AnalysisAnswered
  <1>2. /\ calls' \in Seq(Call) /\ Awaited(calls', sub)
        /\ calls' # <<>> => calls'[Len(calls')] = calls[Len(calls)]
        /\ calls' = <<>> => Head(calls) = calls[Len(calls)]
    BY <1>1, AnswersFacts
  <1>3. TypeOK'
    <2>1. analysis' \in {NoAnalysis} \cup [text : Texts \cup {Blank}, cells : SUBSET Cells]
      BY <1>1 DEF TypeOK
    <2> QED BY <1>1, <1>2, <2>1 DEF TypeOK
  <1>4. OneSession' /\ CellsComing'
    BY <1>1 DEF OneSession, CellsComing
  <1>5. Submission'
    BY <1>1, <1>2 DEF Submission, Busy
  <1>6. AnalysisComing'
    <2> SUFFICES ASSUME ready, ~Busy, ~edit, frame # "broken"
                 PROVE  \/ analysis' = [text |-> text, cells |-> session]
                        \/ calls' # <<>> /\ calls'[Len(calls')] = [op |-> "analysis", text |-> text]
      BY <1>1 DEF AnalysisComing, Busy
    <2>1. CASE analysis = [text |-> text, cells |-> session]
      BY <2>1, <1>1
    <2>2. CASE calls[Len(calls)] = [op |-> "analysis", text |-> text]
      <3>1. calls' = <<>> => Head(calls).text = text
        BY <2>2, <1>2
      <3> QED BY <2>2, <3>1, <1>1, <1>2
    <2> QED BY <2>1, <2>2 DEF AnalysisComing
  <1> QED BY <1>3, <1>4, <1>5, <1>6

\* prepare is answered: the chain is the session and the cell.
LEMMA PreparedKeeps == ASSUME PageInv, Prepared PROVE PageInv'
  <1> USE SessionFacts DEF PageInv, inputVars, analyserVars
  <1>1. /\ Answers("prepare")
        /\ UNCHANGED <<inputVars, submitted, hostPage, session, analyserVars>>
    BY DEF Prepared
  <1>2. /\ Tail(calls) \in Seq(Call) /\ Quiet(Tail(calls)) /\ sub = "prepare"
        /\ frame \in {"running", "broken"}
    BY <1>1, AnswersFacts
  <1>3. CASE frame = "broken"
    <2>1. Ends(number, frame, Tail(calls)) /\ dropped' = dropped /\ dropped \in BOOLEAN
      BY <1>3 DEF Prepared, TypeOK
    <2> QED BY <1>1, <1>2, <2>1, EndsKeeps
  <1>4. CASE frame # "broken"
    <2>1. /\ sub' = "post" /\ chain' = session \cup {submitted} /\ dropped' = FALSE
          /\ calls' = Tail(calls) /\ UNCHANGED <<stale, number, frame>> /\ frame = "running"
      BY <1>2, <1>4 DEF Prepared
    <2>2. submitted \in Cells /\ submitted \notin session /\ stale = FALSE
      BY <1>2 DEF Submission, Busy, TypeOK
    <2>3. TypeOK'
      <3>1. {chain', session', cells', known'} \cup adding' \subseteq SUBSET Cells
        BY <1>1, <2>1, <2>2 DEF TypeOK
      <3> QED BY <1>1, <1>2, <2>1, <3>1 DEF TypeOK
    <2>4. OneSession' /\ CellsComing'
      BY <1>1, <2>1 DEF OneSession, CellsComing
    <2>5. Submission'
      <3>1. Awaited(calls', "post")
        BY <1>2, <2>1 DEF Awaited, Quiet
      <3> QED BY <1>1, <2>1, <2>2, <3>1 DEF Submission, Busy
    <2>6. AnalysisComing'
      BY <2>1 DEF AnalysisComing, Busy
    <2> QED BY <2>3, <2>4, <2>5, <2>6
  <1> QED BY <1>3, <1>4

\* accept is answered with a refusal, or asks the service once more.
LEMMA RefusedKeeps == ASSUME PageInv, Refused PROVE PageInv'
  <1> USE DEF PageInv, inputVars, analyserVars
  <1>1. /\ Answers("accept")
        /\ UNCHANGED <<inputVars, submitted, hostPage, session, analyserVars>>
    BY DEF Refused
  <1>2. /\ Tail(calls) \in Seq(Call) /\ Quiet(Tail(calls)) /\ sub = "accept"
    BY <1>1, AnswersFacts
  <1>3. CASE /\ dropped' = TRUE /\ sub' = "post" /\ calls' = Tail(calls)
             /\ UNCHANGED <<stale, number, chain, frame>>
    <2>1. TypeOK'
      BY <1>1, <1>2, <1>3 DEF TypeOK
    <2>2. OneSession' /\ CellsComing'
      BY <1>1, <1>3 DEF OneSession, CellsComing
    <2>3. Submission'
      <3>1. Awaited(calls', "post")
        BY <1>2, <1>3 DEF Awaited, Quiet
      <3> QED BY <1>1, <1>2, <1>3, <3>1 DEF Submission, Busy
    <2>4. AnalysisComing'
      BY <1>3 DEF AnalysisComing, Busy
    <2> QED BY <2>1, <2>2, <2>3, <2>4
  <1>4. CASE Ends(Cardinality(session) + 1, frame, Tail(calls)) /\ UNCHANGED dropped
    <2>1. Cardinality(session) + 1 = number /\ dropped' \in BOOLEAN
      BY <1>4 DEF OneSession, TypeOK
    <2> QED BY <1>1, <1>2, <1>4, <2>1, EndsKeeps
  <1> QED BY <1>3, <1>4 DEF Refused

\* accept fails, and the number stays as it is, which is right.
LEMMA HostThrowsKeeps == ASSUME PageInv, HostThrows PROVE PageInv'
  <1> USE DEF PageInv, inputVars, analyserVars
  <1>1. /\ Answers("accept") /\ Ends(number, frame, Tail(calls))
        /\ UNCHANGED <<inputVars, submitted, hostPage, session, analyserVars>>
        /\ UNCHANGED dropped
    BY DEF HostThrows
  <1>2. /\ Tail(calls) \in Seq(Call) /\ Quiet(Tail(calls)) /\ sub = "accept"
    BY <1>1, AnswersFacts
  <1>3. dropped' \in BOOLEAN
    BY <1>1 DEF TypeOK
  <1> QED BY <1>1, <1>2, <1>3, EndsKeeps

\* The cell is accepted: session, page and analyser move together.
LEMMA AcceptedKeeps == ASSUME PageInv, Accepted PROVE PageInv'
  <1> USE SessionFacts DEF PageInv, inputVars
  <1>1. Answers("accept") /\ UNCHANGED <<inputVars, submitted>>
    BY DEF Accepted
  <1>2. CASE Cardinality(chain) + 1 > MaxCells
    BY <1>1, <1>2, EndsSessionKeeps DEF Accepted
  <1>3. CASE ~(Cardinality(chain) + 1 > MaxCells)
    <2> DEFINE q == Tail(calls)
               n == Cardinality(chain) + 1
    <2>1. q \in Seq(Call) /\ Quiet(q) /\ sub = "accept"
      BY <1>1, AnswersFacts
    <2>2. /\ frame = "running" /\ chain = session \cup {submitted}
          /\ submitted \in Cells /\ submitted \notin session /\ session \subseteq 1..submitted
      BY <2>1 DEF Submission, Busy
    <2>3. /\ session' = chain /\ cells' = chain
          /\ UNCHANGED <<hostPage, dropped, ready, known, analysis>>
          /\ Adds(chain, added) /\ Ends(n, frame, q)
      BY <1>3 DEF Accepted
    <2>4. n \in 1..MaxCells /\ IsFiniteSet(chain) /\ Cardinality(chain) \in Nat
      BY <1>3
    <2>5. n = Cardinality(session') + 1
      BY <2>3
    <2>6. Cardinality(chain) = Cardinality(session) + 1
      BY <2>2, FS_AddElement
    <2> HIDE DEF q, n
    <2>7. text' \in Texts \cup {Blank} /\ sub' = "idle" /\ stale' = FALSE
          /\ chain' = {} /\ number' = n /\ Refreshes(frame, q)
      BY <1>1, <2>3 DEF TypeOK, Ends
    <2>8. Awaited(q, "idle")
      BY <2>1 DEF Awaited, Quiet
    <2>9. /\ calls' \in Seq(Call) /\ Awaited(calls', "idle")
          /\ calls' # <<>> /\ calls'[Len(calls')] = [op |-> "analysis", text |-> text']
          /\ frame' = "running"
      <3>1. /\ calls' \in Seq(Call) /\ Awaited(calls', "idle")
            /\ calls' # <<>> /\ calls'[Len(calls')] = [op |-> "analysis", text |-> text']
            /\ frame' \in {frame} \cup IF frame = "none" THEN {"starting"} ELSE {}
        BY <2>1, <2>7, <2>8, RefreshFacts
      <3> QED BY <2>2, <3>1
    <2>10. added' \in 0..Cardinality(cells') /\ adding' \subseteq adding \cup {Beyond(chain, added)}
      <3>1. added \in 0..Cardinality(session)
        BY DEF TypeOK, OneSession
      <3> QED BY <2>3, <2>4, <2>6, <3>1 DEF Adds
    <2>11. TypeOK'
      <3>1. Beyond(chain, added) \subseteq Cells
        BY DEF Beyond
      <3>2. {chain', session', cells', known'} \cup adding' \subseteq SUBSET Cells
        BY <2>3, <2>7, <2>10, <3>1 DEF TypeOK
      <3> QED BY <1>1, <2>3, <2>4, <2>7, <2>9, <2>10, <3>2 DEF TypeOK, Frames
    <2>12. OneSession'
      BY <2>3, <2>5, <2>7 DEF OneSession
    <2>13. Submission'
      BY <1>1, <2>2, <2>3, <2>7, <2>9 DEF Submission, Busy, Cells
    <2>14. AnalysisComing'
      BY <2>9 DEF AnalysisComing
    <2>15. CellsComing'
      <3>1. CASE ~ready
        BY <2>3, <3>1 DEF CellsComing, Adds
      <3>2. CASE ready /\ AddingFails
        BY <2>3, <3>2 DEF CellsComing
      <3>3. CASE ready /\ ~AddingFails
        <4>1. known \cup UNION adding = session /\ added = Cardinality(session)
          BY <3>3 DEF CellsComing, OneSession
        <4>2. Beyond(chain, added) = {submitted}
          <5>1. IsFiniteSet(session) /\ session \subseteq Nat /\ submitted \in Nat
                /\ \A y \in session : y < submitted
            BY <2>2
          <5> QED BY <2>2, <4>1, <5>1, BeyondAllButOne
        <4>3. added' = Cardinality(chain) /\ adding' = adding \cup {{submitted}}
          BY <2>3, <2>6, <3>3, <4>1, <4>2 DEF Adds
        <4>4. known' \cup UNION adding' = cells'
          BY <2>2, <2>3, <4>1, <4>3
        <4> QED BY <2>3, <3>3, <4>3, <4>4 DEF CellsComing
      <3> QED BY <3>1, <3>2, <3>3 DEF TypeOK
    <2> QED BY <2>11, <2>12, <2>13, <2>14, <2>15
  <1> QED BY <1>2, <1>3

-----------------------------------------------------------------------------
(* The theorems.                                                             *)

\* Nothing has happened, and everything agrees.
LEMMA InitHolds == Init => PageInv
  <1> SUFFICES ASSUME Init PROVE PageInv
    OBVIOUS
  <1>1. Cardinality({}) = 0 /\ MaxCells \in Nat \ {0} /\ MaxSubmits \in Nat \ {0}
    BY FS_EmptySet, BoundsAssumption
  <1>2. <<>> \in Seq(Call)
    OBVIOUS
  <1>3. TypeOK
    <2>1. 0 \in 0..MaxSubmits /\ 1 \in 1..MaxCells /\ 0 \in 0..Cardinality({})
      BY <1>1
    <2>2. {chain, session, cells, known} \cup adding \subseteq SUBSET Cells
      BY DEF Init
    <2> QED BY <1>2, <2>1, <2>2 DEF Init, TypeOK, Frames
  <1>4. OneSession /\ AnalysisComing /\ CellsComing
    BY <1>1 DEF Init, OneSession, AnalysisComing, CellsComing
  <1>5. Submission
    BY DEF Init, Submission, Busy, Awaited
  <1> QED BY <1>3, <1>4, <1>5 DEF PageInv

\* Every step keeps the invariant.
LEMMA StepKeeps == PageInv /\ [Next]_vars => PageInv'
  <1> SUFFICES ASSUME PageInv, [Next]_vars PROVE PageInv'
    OBVIOUS
  <1>1. CASE Types \/ FrameLoads \/ RuntimeStarts
    BY <1>1, FrameKeeps
  <1>2. CASE Submit
    BY <1>2, SubmitKeeps
  <1>3. CASE Stop
    <2>1. UNCHANGED <<text, edit, submitted>> /\ EndsSession
      BY <1>3 DEF Stop, inputVars
    <2> QED BY <2>1, EndsSessionKeeps
  <1>4. CASE Reset
    BY <1>4, ResetKeeps
  <1>5. CASE EditSettles
    BY <1>5, EditSettlesKeeps
  <1>6. CASE PostEnds
    BY <1>6, PostEndsKeeps
  <1>7. CASE AnalyserReady
    BY <1>7, AnalyserReadyKeeps
  <1>8. CASE AnalyserLost
    BY <1>8, AnalyserLostKeeps
  <1>9. CASE AddingEnds
    BY <1>9, AddingEndsKeeps
  <1>10. CASE AnalysisAnswered
    BY <1>10, AnalysisAnsweredKeeps
  <1>11. CASE Prepared
    BY <1>11, PreparedKeeps
  <1>12. CASE Refused
    BY <1>12, RefusedKeeps
  <1>13. CASE HostThrows
    BY <1>13, HostThrowsKeeps
  <1>14. CASE Accepted
    BY <1>14, AcceptedKeeps
  <1>15. CASE UNCHANGED vars
    <2> USE <1>15 DEF PageInv, vars, inputVars, subVars, frameVars, analyserVars
    <2>1. TypeOK'
      BY DEF TypeOK
    <2>2. OneSession' /\ CellsComing'
      BY DEF OneSession, CellsComing
    <2>3. Submission'
      BY DEF Submission, Busy
    <2>4. AnalysisComing'
      BY DEF AnalysisComing, Busy
    <2> QED BY <2>1, <2>2, <2>3, <2>4
  <1> QED BY <1>1, <1>2, <1>3, <1>4, <1>5, <1>6, <1>7, <1>8, <1>9, <1>10, <1>11,
             <1>12, <1>13, <1>14, <1>15 DEF Next

\* The invariant holds, always.
LEMMA PageInvHolds == Spec => []PageInv
  BY InitHolds, StepKeeps, PTL DEF Spec

\* Every variable keeps its type, and there is a session only in a frame whose
\* runtime runs.
THEOREM TypeCorrect == Spec => []TypeOK
  <1>1. PageInv => TypeOK
    BY DEF PageInv
  <1> QED BY <1>1, PageInvHolds, PTL

\* The page's number and cells are those of the session in the frame (resetSession()
\* and submit() of repl.js), however submissions were stopped, reset or refused.
THEOREM NumberAndCellsAgree == Spec => []PageKnowsTheSession
  <1>1. PageInv => PageKnowsTheSession
    BY DEF PageInv, OneSession, PageKnowsTheSession
  <1> QED BY <1>1, PageInvHolds, PTL

\* refreshAnalysis() is asked often enough, and its answers dropped rightly: with
\* nothing outstanding, what is analysed is the input after the session's cells.
THEOREM AnalysisCatchesUp == Spec => []AnalysisIsCurrent
  <1>1. PageInv => AnalysisIsCurrent
    BY DEF PageInv, AnalysisComing, AnalysisIsCurrent
  <1> QED BY <1>1, PageInvHolds, PTL

\* addCells() and onReady tell an analyser that answers of each cell.
THEOREM AnalyserIsTold ==
    ASSUME ~AddingFails
    PROVE  Spec => []AnalyserHasTheCells
  <1>1. PageInv => AnalyserHasTheCells
    BY DEF PageInv, CellsComing, AnalyserHasTheCells
  <1> QED BY <1>1, PageInvHolds, PTL
=============================================================================
