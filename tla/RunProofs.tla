----------------------------- MODULE RunProofs ------------------------------
(***************************************************************************)
(* What the page shows of a run.                                           *)
(*                                                                         *)
(* First its text and its input (RunChannel): what a run and the page      *)
(* agree on, for any number of runs, lines, reads and characters and any   *)
(* cap, until the reader is hasty and again once the page is loaded anew;  *)
(* and that page, program and memory together are a Console as long.       *)
(* Then its pictures (LiveOutput), for any number of them, of runs and of  *)
(* lines, and any room for them.                                           *)
(***************************************************************************)
EXTENDS RunChannel, LiveOutput, SequenceTheorems, WellFoundedInduction, TLAPS

\* Of the runs on their way there is one at most.
Alone == \A q, r \in Runs : Active(q) /\ Active(r) => q = r

\* What a thread holds.
Threads ==
    [pc : {"new", "called", "free", "publish", "prepare", "wait", "take", "clear",
           "fetch", "echo", "over"},
     step : Nat, from : Nat, count : Nat, via : Runs \cup {NoRun},
     length : Nat \cup {-1}, wrote : Nat, captured : Texts,
     previous : Runs \cup {NoRun}, got : Seq(Answers)]

Typed ==
    /\ TypeOK
    /\ program \in [Runs -> Threads] /\ sent \in [Runs -> Seq(Answers)]
    /\ sending = NoLine \/ sending.step \in 1..Len(SendOrder)

\* A run whose program has no thread, yet or any more.
Settled(r) ==
    /\ program[r].got = sent[r]
    /\ IF Phase(r) = "over"
       THEN program[r].pc \in {"new", "over"} /\ page[r].text = program[r].captured
       ELSE program[r] = Unborn /\ page[r] = [Idle EXCEPT !.phase = Phase(r)]

\* Nothing is asked of the reader, and nothing on its way from him.
Unasked(r) == ~waiting /\ sending = NoLine /\ ~control.ready /\ program[r].got = sent[r]

\* The box is on the page.
Asked(r) ==
    waiting /\ ~control.ready /\ sending = NoLine /\ box = r /\ program[r].got = sent[r]

\* What was typed, and the program has not fetched.
Unfetched(r, line) == line \in Answers /\ sent[r] = Append(program[r].got, line)

\* It is in the input buffer, and its length is `length'.
Holds(length, line) ==
    /\ length = (IF line = End THEN -1 ELSE Len(line))
    /\ line # End => length <= Len(input) /\ \A i \in 1..length : input[i] = line[i]

\* sendInput() is storing it.
Underway(r) ==
    /\ waiting /\ ~control.ready /\ sending # NoLine /\ Unfetched(r, sending.line)
    /\ sending.step = 1 \/ Holds(control.length, sending.line)

\* It has been stored.
Delivered(r, length) ==
    ~waiting /\ sending = NoLine /\ \E line \in Answers : Unfetched(r, line) /\ Holds(length, line)

\* How far the page and the thread have come with a line, at each position.
Handshake(r) ==
    LET pc == program[r].pc IN
    /\ pc # "wait" => control.turn = page[r].answered
    /\ pc \in {"called", "free", "publish", "prepare", "echo", "over"} => Unasked(r)
    /\ pc = "wait" =>
          \/ control.turn = page[r].answered + 1 /\ Unasked(r)
          \/ /\ control.turn = page[r].answered
             /\ \/ Asked(r) \/ Underway(r)
                \/ control.ready /\ Delivered(r, control.length)
    /\ pc = "take" => control.ready /\ Delivered(r, control.length)
    /\ pc = "clear" => control.ready /\ Delivered(r, program[r].length)
    /\ pc = "fetch" => ~control.ready /\ Delivered(r, program[r].length)

\* The first n characters of the buffer are the run's own.
Buffered(r, n) == n <= Len(output) /\ \A i \in 1..n : output[i] = <<r, i>>

\* What has been written, copied, counted and shown.
Counted(r) ==
    LET pc == program[r].pc
        wrote == program[r].wrote
    IN
    /\ page[r].shown <= control.written /\ control.written <= wrote
    /\ page[r].live = Own(r, page[r].shown)
    /\ Buffered(r, control.written)
    /\ pc \notin {"publish", "over"} /\ ~control.truncated => control.written = wrote
    /\ pc = "publish" => /\ wrote <= Capacity /\ Buffered(r, wrote)
                         /\ wrote = program[r].from + program[r].count

\* Its own writer and reader are in place while its code runs, and no others.
Redirected(r) ==
    LET pc == program[r].pc IN
    /\ IF pc \in {"called", "over"} THEN stdout = NoRun /\ stdin = NoRun
       ELSE stdout = r /\ stdin = r /\ program[r].previous = NoRun
    /\ pc \in {"prepare", "wait", "take", "clear", "fetch", "echo"} => program[r].via = r
    /\ pc = "prepare" => program[r].step \in 1..Len(ReadOrder)

Running(r) ==
    /\ program[r].pc # "new" /\ (program[r].pc = "called" => program[r].wrote = 0)
    /\ Handshake(r) /\ Counted(r) /\ Redirected(r)

\* Between two runs.
Quiet == ~waiting /\ sending = NoLine /\ stdout = NoRun /\ stdin = NoRun

RunInv ==
    /\ Typed /\ Alone
    /\ \A r \in Runs : program[r].captured = Own(r, program[r].wrote)
    /\ \A r \in Runs : IF Phase(r) = "running" THEN Running(r) ELSE Settled(r)
    /\ (\A r \in Runs : Phase(r) # "running") => Quiet

-----------------------------------------------------------------------------
(* What a run writes, as a sequence.                                         *)

\* The first n characters are n characters.
LEMMA OwnFacts ==
    ASSUME NEW r \in Runs, NEW n \in Nat
    PROVE  Own(r, n) \in Texts /\ Len(Own(r, n)) = n /\ \A i \in 1..n : Own(r, n)[i] = <<r, i>>
  <1>1. \A i \in 1..n : i \in Nat
    OBVIOUS
  <1> QED BY <1>1 DEF Own, Texts

\* Of nothing written there is nothing.
LEMMA OwnNone == ASSUME NEW r PROVE Own(r, 0) = <<>>
  BY DEF Own

\* A text with the next characters of a run after its first ones.
LEMMA OwnGrows ==
    ASSUME NEW r \in Runs, NEW n \in Nat, NEW k \in Nat,
           NEW t \in Texts, Len(t) = k, \A i \in 1..k : t[i] = <<r, n + i>>
    PROVE  Own(r, n) \o t = Own(r, n + k)
  <1> DEFINE u == Own(r, n) \o t
  <1>1. Own(r, n) \in Texts /\ Len(Own(r, n)) = n /\ \A i \in 1..n : Own(r, n)[i] = <<r, i>>
    BY OwnFacts
  <1>2. u \in Texts /\ Len(u) = n + k
    BY <1>1 DEF Texts
  <1>4. \A i \in 1..n : u[i] = Own(r, n)[i]
    <2> SUFFICES ASSUME NEW i \in 1..n PROVE u[i] = Own(r, n)[i] OBVIOUS
    <2> QED BY <1>1 DEF Texts
  <1>5. \A i \in 1..k : u[n + i] = t[i]
    <2> SUFFICES ASSUME NEW i \in 1..k PROVE u[n + i] = t[i] OBVIOUS
    <2> QED BY <1>1 DEF Texts
  <1>3. \A i \in 1..n + k : i \in 1..n \/ (i - n \in 1..k /\ n + (i - n) = i)
    OBVIOUS
  <1> HIDE DEF u
  <1>6. \A i \in 1..n + k : u[i] = <<r, i>>
    <2> TAKE i \in 1..n + k
    <2>1. CASE i \in 1..n BY <2>1, <1>1, <1>4
    <2>2. CASE i - n \in 1..k /\ n + (i - n) = i
      <3>1. u[n + (i - n)] = <<r, n + (i - n)>> BY <2>2, <1>5
      <3> QED BY <3>1, <2>2
    <2> QED BY <2>1, <2>2, <1>3
  <1>7. Own(r, n + k) \in Texts /\ Len(Own(r, n + k)) = n + k
        /\ \A i \in 1..n + k : Own(r, n + k)[i] = <<r, i>>
    BY OwnFacts
  <1>8. u = Own(r, n + k)
    BY <1>2, <1>6, <1>7, SeqEqual DEF Texts
  <1> QED BY <1>8 DEF u

\* A piece of a buffer that holds a run's characters.
LEMMA OwnPiece ==
    ASSUME NEW r \in Runs, NEW n \in Nat, NEW m \in Nat, m <= n,
           NEW s \in Texts, n <= Len(s), \A i \in 1..n : s[i] = <<r, i>>
    PROVE  Own(r, m) \o SubSeq(s, m + 1, n) = Own(r, n)
  <1> DEFINE t == SubSeq(s, m + 1, n)
  <1>1. m + 1 \in 1..Len(s) + 1 /\ n \in (m + 1) - 1 .. Len(s) /\ n - (m + 1) + 1 = n - m
    BY DEF Texts
  <1>2. /\ t \in Texts /\ Len(t) = n - m
        /\ \A i \in 1..n - m : t[i] = s[(m + 1) + i - 1]
    BY <1>1, SubSeqProperties DEF Texts
  <1>3. \A i \in 1..n - m : (m + 1) + i - 1 = m + i /\ m + i \in 1..n
    OBVIOUS
  <1>4. \A i \in 1..n - m : t[i] = <<r, m + i>>
    BY <1>2, <1>3
  <1>5. n - m \in Nat /\ m + (n - m) = n
    OBVIOUS
  <1> HIDE DEF t
  <1>6. Own(r, m) \o t = Own(r, m + (n - m))
    BY <1>2, <1>4, <1>5, OwnGrows
  <1> QED BY <1>5, <1>6 DEF t

\* What was written is a beginning of what is.
LEMMA OwnPrefix ==
    ASSUME NEW r \in Runs, NEW n \in Nat, NEW m \in Nat, m <= n
    PROVE  IsPrefix(Own(r, m), Own(r, n))
  <1>1. /\ Own(r, n) \in Texts /\ Len(Own(r, n)) = n /\ \A i \in 1..n : Own(r, n)[i] = <<r, i>>
        /\ Own(r, m) \in Texts /\ Len(Own(r, m)) = m /\ \A i \in 1..m : Own(r, m)[i] = <<r, i>>
    BY OwnFacts
  <1>2. \A i \in 1..m : i \in 1..n
    OBVIOUS
  <1>3. SubSeq(Own(r, m), 1, m) = SubSeq(Own(r, n), 1, m)
    BY <1>1, <1>2
  <1> QED BY <1>1, <1>3 DEF IsPrefix

\* A sequence is a beginning of itself, and of itself with one more.
LEMMA PrefixFacts ==
    ASSUME NEW S, NEW s \in Seq(S), NEW x \in S
    PROVE  IsPrefix(s, s) /\ IsPrefix(s, Append(s, x))
  <1>1. Len(s) \in Nat /\ Len(s) <= Len(Append(s, x))
    OBVIOUS
  <1>2. SubSeq(s, 1, Len(s)) = SubSeq(Append(s, x), 1, Len(s))
    OBVIOUS
  <1> QED BY <1>1, <1>2 DEF IsPrefix

\* What is written over a buffer is there, after what was before it.
LEMMA OverlayFacts ==
    ASSUME NEW S, NEW s \in Seq(S), NEW t \in Seq(S), NEW n \in Nat, n <= Len(s)
    PROVE  /\ Overlay(s, n, t) \in Seq(S)
           /\ n + Len(t) <= Len(Overlay(s, n, t))
           /\ \A i \in 1..n : Overlay(s, n, t)[i] = s[i]
           /\ \A i \in 1..Len(t) : Overlay(s, n, t)[n + i] = t[i]
  <1> DEFINE a == SubSeq(s, 1, n)
             b == SubSeq(s, n + Len(t) + 1, Len(s))
             o == a \o t \o b
  <1>1. a \in Seq(S) /\ Len(a) = n /\ \A i \in 1..n : a[i] = s[i]
    OBVIOUS
  <1>2. b \in Seq(S) /\ Len(b) \in Nat /\ Len(t) \in Nat
    OBVIOUS
  <1> HIDE DEF a, b
  <1>3. /\ a \o t \in Seq(S) /\ Len(a \o t) = n + Len(t)
        /\ o \in Seq(S) /\ Len(o) = n + Len(t) + Len(b)
    BY <1>1, <1>2
  <1>4. \A i \in 1..n : o[i] = a[i]
    <2> SUFFICES ASSUME NEW i \in 1..n PROVE o[i] = a[i] OBVIOUS
    <2>1. (a \o t)[i] = a[i] BY <1>1
    <2>2. i \in 1..Len(a \o t) BY <1>2, <1>3
    <2>3. o[i] = (a \o t)[i] BY <1>2, <1>3, <2>2
    <2> QED BY <2>1, <2>3
  <1>5. \A i \in 1..Len(t) : o[n + i] = t[i]
    <2> SUFFICES ASSUME NEW i \in 1..Len(t) PROVE o[n + i] = t[i] OBVIOUS
    <2>1. (a \o t)[n + i] = t[i] BY <1>1
    <2>2. n + i \in 1..Len(a \o t) BY <1>2, <1>3
    <2>3. o[n + i] = (a \o t)[n + i] BY <1>2, <1>3, <2>2
    <2> QED BY <2>1, <2>3
  <1>7. Overlay(s, n, t) = o
    BY DEF Overlay, a, b
  <1> HIDE DEF o
  <1> QED BY <1>1, <1>2, <1>3, <1>4, <1>5, <1>7

-----------------------------------------------------------------------------
(* The program's thread.                                                     *)

\* A thread is that of a running program, which no other run is.
LEMMA ThreadRuns ==
    ASSUME RunInv, NEW r \in Runs, program[r].pc \notin {"new", "over"}
    PROVE  /\ Phase(r) = "running" /\ Running(r)
           /\ program[r] \in Threads /\ program \in [Runs -> Threads]
           /\ program[r].captured = Own(r, program[r].wrote)
           /\ r # NoRun
  <1>1. Phase(r) = "running"
    <2> SUFFICES ASSUME Phase(r) # "running" PROVE FALSE
      OBVIOUS
    <2>1. Settled(r)
      BY DEF RunInv
    <2>2. Unborn.pc = "new"
      BY DEF Unborn
    <2> QED BY <2>1, <2>2 DEF Settled
  <1> QED BY <1>1 DEF RunInv, Typed, Runs, NoRun

\* A step that changes one running program's thread, what its run() holds and
\* the memory leaves every other run as it was.
LEMMA RunStep ==
    ASSUME RunInv, Typed', NEW r \in Runs, Phase(r) = "running", Phase(r)' = "running",
           \A q \in Runs \ {r} : /\ page'[q] = page[q] /\ program'[q] = program[q]
                                 /\ sent'[q] = sent[q],
           program'[r].captured = Own(r, program'[r].wrote), Running(r)'
    PROVE  RunInv'
  <1>1. \A q \in Runs \ {r} : ~Active(q)
    BY DEF RunInv, Alone, Active
  <1>2. Alone'
    BY <1>1 DEF Alone, Active, Phase
  <1>3. (\A q \in Runs : program[q].captured = Own(q, program[q].wrote))'
    <2> SUFFICES ASSUME NEW q \in Runs
                 PROVE  program'[q].captured = Own(q, program'[q].wrote)
      BY DEF Own
    <2>1. CASE q = r
      BY <2>1
    <2>2. CASE q # r
      BY <2>2 DEF RunInv
    <2> QED BY <2>1, <2>2
  <1>4. (\A q \in Runs : IF Phase(q) = "running" THEN Running(q) ELSE Settled(q))'
    <2> SUFFICES ASSUME NEW q \in Runs
                 PROVE  (IF Phase(q) = "running" THEN Running(q) ELSE Settled(q))'
      OBVIOUS
    <2>1. CASE q = r
      BY <2>1
    <2>2. CASE q # r
      <3>1. Phase(q) # "running" /\ Phase(q)' = Phase(q)
        BY <2>2, <1>1 DEF Active, Phase
      <3>2. Settled(q)
        BY <3>1 DEF RunInv
      <3>3. page'[q] = page[q] /\ program'[q] = program[q] /\ sent'[q] = sent[q]
        BY <2>2
      <3>4. Settled(q)'
        BY <3>2, <3>3 DEF Settled, Phase, Idle, Unborn
      <3> QED BY <3>1, <3>4
    <2> QED BY <2>1, <2>2
  <1>5. ~(\A q \in Runs : Phase(q) # "running")'
    OBVIOUS
  <1> QED BY <1>2, <1>3, <1>4, <1>5 DEF RunInv

\* A thread's step types: of what it may change, each holds what it should.
LEMMA ThreadTyped ==
    ASSUME Typed, UNCHANGED <<pageVars, input, sent>>,
           program' \in [Runs -> Threads],
           control' \in [written : 0 .. Capacity, truncated : BOOLEAN, turn : Nat,
                         ready : BOOLEAN, length : Nat \cup {-1}],
           output' \in Texts, {stdout', stdin'} \subseteq Runs \cup {NoRun}
    PROVE  Typed'
  <1>1. \A q \in Runs : program'[q].captured \in Texts /\ program'[q].got \in Seq(Answers)
    BY DEF Threads
  <1>2. UNCHANGED <<status, page, waiting, box, hasty, runtime, sending, input, sent>>
    BY DEF pageVars
  <1> QED BY <1>1, <1>2 DEF Typed, TypeOK

\* What Typed says of what threads change.
LEMMA TypedFacts ==
    ASSUME Typed
    PROVE  /\ control \in [written : 0 .. Capacity, truncated : BOOLEAN, turn : Nat,
                           ready : BOOLEAN, length : Nat \cup {-1}]
           /\ output \in Texts /\ input \in Seq(Nat)
           /\ stdout \in Runs \cup {NoRun} /\ stdin \in Runs \cup {NoRun}
           /\ program \in [Runs -> Threads] /\ sent \in [Runs -> Seq(Answers)]
           /\ Capacity \in Nat /\ MaxChars \in Nat
  BY BoundsAssumption DEF Typed, TypeOK

\* What it says of what the page keeps.
LEMMA PageFacts ==
    ASSUME Typed
    PROVE  /\ page \in [Runs -> [phase : {"new", "compiling", "asking", "starting", "running",
                                       "over", "gone"},
                               shown : Nat, answered : Nat, live : Texts, text : Texts]]
           /\ \A r \in Runs : page[r].shown \in Nat /\ page[r].answered \in Nat
  BY DEF Typed, TypeOK

\* The program's own writer and reader are put in place, or it does not load.
LEMMA EntersStep ==
    ASSUME RunInv, NEW r \in Runs, Enters(r)
    PROVE  RunInv'
  <1>1. /\ Phase(r) = "running" /\ Running(r) /\ program[r] \in Threads
        /\ program \in [Runs -> Threads] /\ program[r].pc = "called"
        /\ program[r].captured = Own(r, program[r].wrote) /\ r # NoRun
    BY ThreadRuns DEF Enters, At
  <1>2. Typed
    BY DEF RunInv
  <1>3. UNCHANGED <<pageVars, memory, sent>>
    BY DEF Enters
  <1>4. UNCHANGED <<status, page, waiting, box, hasty, runtime, sending, control, output, input, sent>>
    BY <1>3 DEF pageVars, memory
  <1>5. program[r].wrote = 0 /\ Own(r, 1) \in Texts
    BY <1>1, OwnFacts DEF Running
  <1>6. CASE program' = [program EXCEPT ![r].pc = "free", ![r].previous = stdout]
             /\ stdout' = r /\ stdin' = r
    <2>1. /\ program' \in [Runs -> Threads]
          /\ program'[r] = [program[r] EXCEPT !.pc = "free", !.previous = stdout]
          /\ \A q \in Runs \ {r} : program'[q] = program[q]
      BY <1>1, <1>2, <1>6, TypedFacts DEF Threads
    <2>2. Typed'
      BY <1>1, <1>2, <1>3, <1>4, <1>6, <2>1, ThreadTyped, TypedFacts
    <2>3. Running(r)'
      BY <1>1, <1>4, <1>5, <1>6, <2>1
         DEF Running, Handshake, Counted, Redirected, Unasked, Buffered, Threads, Own
    <2> QED BY <1>1, <1>4, <2>1, <2>2, <2>3, RunStep DEF Phase, Threads, Own
  <1>7. CASE program' = [program EXCEPT ![r].pc = "over", ![r].wrote = 1,
                                        ![r].captured = Own(r, 1)]
             /\ UNCHANGED <<stdout, stdin>>
    <2>1. /\ program' \in [Runs -> Threads]
          /\ program'[r] = [program[r] EXCEPT !.pc = "over", !.wrote = 1, !.captured = Own(r, 1)]
          /\ \A q \in Runs \ {r} : program'[q] = program[q]
      BY <1>1, <1>5, <1>7 DEF Threads
    <2>2. Typed'
      BY <1>1, <1>2, <1>3, <1>4, <1>7, <2>1, ThreadTyped, TypedFacts
    <2>3. program'[r].pc = "over" /\ program'[r].wrote = 1 /\ program'[r].got = program[r].got
      BY <1>1, <2>1 DEF Threads
    <2>4. Handshake(r)'
      BY <1>1, <1>4, <2>3 DEF Running, Handshake, Unasked
    <2>5. Counted(r)'
      BY <1>1, <1>2, <1>4, <1>5, <2>3, TypedFacts DEF Running, Counted, Buffered, Own
    <2>6. Redirected(r)'
      BY <1>1, <1>7, <2>3 DEF Running, Redirected
    <2>7. Running(r)'
      BY <2>3, <2>4, <2>5, <2>6 DEF Running
    <2> QED BY <1>1, <1>4, <2>1, <2>2, <2>7, RunStep DEF Phase, Threads, Own
  <1> QED BY <1>6, <1>7 DEF Enters

\* A write of a program that is between two steps of its own.
LEMMA EmitsStep ==
    ASSUME RunInv, NEW r \in Runs, program[r].pc \in {"free", "echo"},
           NEW n \in Nat, Emits(r, r, n)
    PROVE  RunInv'
  <1> DEFINE t == program[r]
             chars == [i \in 1..n |-> <<r, t.wrote + i>>]
             wrote == [program EXCEPT ![r].wrote = @ + n,
                                      ![r].pc = IF Fits(n) THEN "publish" ELSE "free",
                                      ![r].from = control.written,
                                      ![r].count = n]
  <1>1. /\ Phase(r) = "running" /\ Running(r) /\ t \in Threads /\ r # NoRun
        /\ program \in [Runs -> Threads] /\ t.captured = Own(r, t.wrote)
    BY ThreadRuns
  <1>2. Typed
    BY DEF RunInv
  <1>3. /\ program' = [wrote EXCEPT ![r].captured = @ \o chars]
        /\ output' = IF Fits(n) THEN Overlay(output, control.written, chars) ELSE output
        /\ control' = [control EXCEPT !.truncated = @ \/ ~Fits(n)]
        /\ UNCHANGED <<pageVars, input, stdout, stdin, sent>>
    BY <1>1 DEF Emits
  <1>4. UNCHANGED <<status, page, waiting, box, hasty, runtime, sending, input, stdout, stdin, sent>>
    BY <1>3 DEF pageVars
  <1>5. /\ t.wrote \in Nat /\ t.wrote + n \in Nat /\ control.written \in Nat
        /\ control.truncated \in BOOLEAN
    BY <1>1, <1>2, TypedFacts DEF Threads
  <1>6. /\ chars \in Texts /\ Len(chars) = n
        /\ \A i \in 1..n : chars[i] = <<r, t.wrote + i>>
    <2>1. \A i \in 1..n : t.wrote + i \in Nat
      BY <1>5
    <2> QED BY <2>1 DEF Texts
  <1> HIDE DEF chars
  <1>7. Own(r, t.wrote) \o chars = Own(r, t.wrote + n)
    BY <1>5, <1>6, OwnGrows
  <1>8. Own(r, t.wrote + n) \in Texts
    BY <1>5, OwnFacts
  <1>9. /\ program' \in [Runs -> Threads]
        /\ \A q \in Runs \ {r} : program'[q] = program[q]
        /\ program'[r] = [t EXCEPT !.wrote = @ + n, !.from = control.written, !.count = n,
                                   !.pc = IF Fits(n) THEN "publish" ELSE "free",
                                   !.captured = @ \o chars]
    <2>1. /\ wrote \in [Runs -> Threads] /\ \A q \in Runs \ {r} : wrote[q] = program[q]
          /\ wrote[r] = [t EXCEPT !.wrote = @ + n, !.from = control.written, !.count = n,
                                  !.pc = IF Fits(n) THEN "publish" ELSE "free"]
      BY <1>1, <1>5 DEF Threads
    <2> HIDE DEF wrote
    <2>2. wrote[r] \in Threads /\ wrote[r].captured = t.captured
      BY <1>1, <2>1 DEF Threads
    <2>3. wrote[r].captured \o chars \in Texts
      BY <1>1, <1>7, <1>8, <2>2
    <2>4. /\ program'[r] = [wrote[r] EXCEPT !.captured = wrote[r].captured \o chars]
          /\ \A q \in Runs \ {r} : program'[q] = wrote[q]
      BY <1>1, <1>3, <2>1
    <2>5. program'[r] \in Threads
      BY <2>2, <2>3, <2>4 DEF Threads
    <2>6. program' \in [Runs -> Threads]
      BY <1>3, <2>1, <2>4, <2>5
    <2>7. program'[r] = [t EXCEPT !.wrote = @ + n, !.from = control.written, !.count = n,
                                  !.pc = IF Fits(n) THEN "publish" ELSE "free",
                                  !.captured = @ \o chars]
      <3> PICK pc : pc = (IF Fits(n) THEN "publish" ELSE "free")
        OBVIOUS
      <3>1. /\ wrote[r] = [t EXCEPT !.wrote = @ + n, !.from = control.written, !.count = n,
                                    !.pc = pc]
            /\ program'[r] = [wrote[r] EXCEPT !.captured = t.captured \o chars]
        BY <2>1, <2>2, <2>4
      <3> QED BY <1>1, <3>1 DEF Threads
    <2> QED BY <2>1, <2>4, <2>6, <2>7
  <1>10. /\ program'[r].pc = IF Fits(n) THEN "publish" ELSE "free"
         /\ program'[r].wrote = t.wrote + n /\ program'[r].got = t.got
         /\ program'[r].from = control.written /\ program'[r].count = n
         /\ program'[r].captured = Own(r, t.wrote + n)
         /\ program'[r].previous = t.previous
    BY <1>1, <1>7, <1>9 DEF Threads
  <1>11. /\ control' \in [written : 0 .. Capacity, truncated : BOOLEAN, turn : Nat,
                          ready : BOOLEAN, length : Nat \cup {-1}]
         /\ control'.written = control.written /\ control'.turn = control.turn
         /\ control'.ready = control.ready /\ (~control'.truncated => Fits(n))
    BY <1>2, <1>3, TypedFacts
  <1>12. /\ control.written <= t.wrote /\ control.written <= Len(output)
         /\ \A i \in 1..control.written : output[i] = <<r, i>>
         /\ ~control.truncated => control.written = t.wrote
    BY <1>1, <1>2 DEF Running, Counted, Buffered
  <1>13. /\ output' \in Texts /\ control.written <= Len(output')
         /\ \A i \in 1..control.written : output'[i] = <<r, i>>
         /\ Fits(n) => /\ t.wrote + n <= Len(output')
                       /\ \A i \in 1..n : output'[t.wrote + i] = <<r, t.wrote + i>>
    <2>1. CASE Fits(n)
      <3> DEFINE o == Overlay(output, control.written, chars)
      <3> PICK S : S = Runs \X Nat
        OBVIOUS
      <3>0. /\ output \in Seq(S) /\ chars \in Seq(S) /\ Texts = Seq(S)
            /\ control.written \in Nat /\ control.written <= Len(output)
        BY <1>2, <1>5, <1>6, <1>12, TypedFacts DEF Texts
      <3>1. /\ o \in Seq(S) /\ control.written + Len(chars) <= Len(o)
            /\ \A i \in 1..control.written : o[i] = output[i]
            /\ \A i \in 1..Len(chars) : o[control.written + i] = chars[i]
        <4>1. o \in Seq(S)
          BY <3>0, OverlayFacts
        <4>2. control.written + Len(chars) <= Len(o)
          BY <3>0, OverlayFacts
        <4>3. ASSUME NEW i \in 1..control.written PROVE o[i] = output[i]
          BY <3>0, OverlayFacts
        <4>4. \A i \in 1..Len(chars) : o[control.written + i] = chars[i]
          BY <3>0, OverlayFacts
        <4> QED BY <4>1, <4>2, <4>3, <4>4
      <3>2. control.written = t.wrote /\ output' = o
        BY <1>3, <1>12, <2>1 DEF Fits
      <3>3. o \in Texts /\ Len(o) \in Nat
        BY <3>0, <3>1
      <3> HIDE DEF o
      <3>4. control.written <= Len(o)
        BY <1>5, <1>6, <3>1, <3>3
      <3>5. t.wrote + n <= Len(o) /\ \A i \in 1..n : o[t.wrote + i] = <<r, t.wrote + i>>
        BY <1>6, <3>1, <3>2
      <3> QED BY <1>12, <3>1, <3>2, <3>3, <3>4, <3>5
    <2>2. CASE ~Fits(n)
      BY <1>2, <1>3, <1>12, <2>2, TypedFacts
    <2> QED BY <2>1, <2>2
  <1>14. Typed'
    BY <1>2, <1>3, <1>4, <1>9, <1>11, <1>13, ThreadTyped, TypedFacts
  <1>15. Fits(n) => \A i \in 1..t.wrote + n : output'[i] = <<r, i>>
    <2> SUFFICES ASSUME Fits(n), NEW i \in 1..t.wrote + n PROVE output'[i] = <<r, i>>
      OBVIOUS
    <2>1. control.written = t.wrote
      BY <1>12 DEF Fits
    <2>2. CASE i <= t.wrote
      BY <1>5, <1>13, <2>1, <2>2
    <2>3. CASE ~(i <= t.wrote)
      <3>1. i - t.wrote \in 1..n /\ t.wrote + (i - t.wrote) = i
        BY <1>5, <2>3
      <3> QED BY <1>13, <3>1
    <2> QED BY <2>2, <2>3
  <1>16. Counted(r)'
    <2>1. /\ page[r].shown <= control.written /\ page[r].live = Own(r, page[r].shown)
      BY <1>1 DEF Running, Counted
    <2>2. control.written <= t.wrote + n
      BY <1>5, <1>12
    <2>3. Buffered(r, control.written)'
      BY <1>11, <1>13 DEF Buffered
    <2>4. Fits(n) => t.wrote + n <= Capacity /\ t.wrote + n = control.written + n
      BY <1>12 DEF Fits
    <2> QED BY <1>4, <1>10, <1>11, <1>13, <1>15, <2>1, <2>2, <2>3, <2>4
           DEF Counted, Own, Buffered
  <1>17. Handshake(r)'
    BY <1>1, <1>4, <1>10, <1>11 DEF Running, Handshake, Unasked
  <1>18. Redirected(r)'
    BY <1>1, <1>4, <1>10 DEF Running, Redirected
  <1>19. Running(r)'
    BY <1>10, <1>16, <1>17, <1>18 DEF Running
  <1> QED BY <1>1, <1>4, <1>9, <1>10, <1>14, <1>19, RunStep DEF Phase, Own

\* A program writes through its own writer, which is the one in place.
LEMMA WritesStep ==
    ASSUME RunInv, NEW r \in Runs, Writes(r)
    PROVE  RunInv'
  <1>1. program[r].pc = "free" /\ stdout = r
    BY ThreadRuns DEF Writes, At, Running, Redirected
  <1>2. PICK n \in 1..MaxChars - program[r].wrote : Emits(r, r, n)
    BY <1>1 DEF Writes
  <1>3. n \in Nat
    BY ThreadRuns, TypedFacts, <1>1 DEF RunInv, Threads
  <1> QED BY <1>1, <1>2, <1>3, EmitsStep

\* The echo of a line is a write of one character.
LEMMA EchoesStep ==
    ASSUME RunInv, NEW r \in Runs, Echoes(r)
    PROVE  RunInv'
  <1>1. program[r].pc = "echo" /\ program[r].via = r
    BY ThreadRuns DEF Echoes, At, Running, Redirected
  <1> QED BY <1>1, EmitsStep DEF Echoes

\* Counting what was copied.
LEMMA PublishesStep ==
    ASSUME RunInv, NEW r \in Runs, Publishes(r)
    PROVE  RunInv'
  <1> DEFINE t == program[r]
  <1>1. /\ Phase(r) = "running" /\ Running(r) /\ t \in Threads /\ t.pc = "publish"
        /\ program \in [Runs -> Threads] /\ t.captured = Own(r, t.wrote)
    BY ThreadRuns DEF Publishes, At
  <1>2. Typed
    BY DEF RunInv
  <1>3. /\ program' = [program EXCEPT ![r].pc = "free"]
        /\ control' = [control EXCEPT !.written = t.from + t.count]
        /\ UNCHANGED <<pageVars, output, input, stdout, stdin, sent>>
    BY DEF Publishes, Goes
  <1>4. UNCHANGED <<status, page, waiting, box, hasty, runtime, sending, output, input, stdout,
                    stdin, sent>>
    BY <1>3 DEF pageVars
  <1>5. /\ program' \in [Runs -> Threads] /\ program'[r] = [t EXCEPT !.pc = "free"]
        /\ \A q \in Runs \ {r} : program'[q] = program[q]
    BY <1>1, <1>3 DEF Threads
  <1>6. /\ program'[r].pc = "free" /\ program'[r].wrote = t.wrote /\ program'[r].got = t.got
        /\ program'[r].captured = t.captured /\ program'[r].previous = t.previous
    BY <1>1, <1>5 DEF Threads
  <1>7. /\ t.wrote = t.from + t.count /\ t.wrote <= Capacity /\ t.wrote \in Nat
        /\ Buffered(r, t.wrote) /\ page[r].shown <= control.written /\ control.written <= t.wrote
        /\ page[r].live = Own(r, page[r].shown)
    BY <1>1 DEF Running, Counted, Threads
  <1>a. t.from + t.count \in 0..Capacity
    BY <1>2, <1>7, TypedFacts
  <1>8. /\ control' \in [written : 0 .. Capacity, truncated : BOOLEAN, turn : Nat,
                         ready : BOOLEAN, length : Nat \cup {-1}]
        /\ control'.written = t.wrote /\ control'.turn = control.turn
        /\ control'.ready = control.ready
    BY <1>a, <1>2, <1>3, <1>7, TypedFacts
  <1>9. Typed'
    BY <1>2, <1>3, <1>4, <1>5, <1>8, ThreadTyped, TypedFacts
  <1>10. page[r].shown \in Nat /\ control.written \in Nat
    BY <1>2, TypedFacts, PageFacts
  <1>11. Counted(r)'
    BY <1>4, <1>6, <1>7, <1>8, <1>10 DEF Counted, Own, Buffered
  <1>12. Handshake(r)'
    BY <1>1, <1>4, <1>6, <1>8 DEF Running, Handshake, Unasked
  <1>13. Redirected(r)'
    BY <1>1, <1>4, <1>6 DEF Running, Redirected
  <1>14. Running(r)'
    BY <1>6, <1>11, <1>12, <1>13 DEF Running
  <1> QED BY <1>1, <1>4, <1>5, <1>6, <1>9, <1>14, RunStep DEF Phase, Own

\* A step of a read leaves what is written as it was: what it has to keep is
\* the handshake, and whose reader is in place.
LEMMA ReadStep ==
    ASSUME RunInv, NEW r \in Runs,
           program[r].pc \notin {"new", "called", "publish", "over"},
           program'[r].pc \notin {"new", "called", "publish", "over"},
           UNCHANGED <<pageVars, output, input, stdout, stdin, sent>>,
           program' \in [Runs -> Threads],
           \A q \in Runs \ {r} : program'[q] = program[q],
           program'[r].wrote = program[r].wrote,
           program'[r].captured = program[r].captured,
           program'[r].previous = program[r].previous,
           control' \in [written : 0 .. Capacity, truncated : BOOLEAN, turn : Nat,
                         ready : BOOLEAN, length : Nat \cup {-1}],
           control'.written = control.written, control'.truncated = control.truncated,
           program'[r].pc \in {"prepare", "wait", "take", "clear", "fetch", "echo"} =>
               program'[r].via = r,
           program'[r].pc = "prepare" => program'[r].step \in 1..Len(ReadOrder),
           Handshake(r)'
    PROVE  RunInv'
  <1>1. /\ Phase(r) = "running" /\ Running(r) /\ r # NoRun
        /\ program[r].captured = Own(r, program[r].wrote)
    BY ThreadRuns
  <1>2. Typed
    BY DEF RunInv
  <1>3. UNCHANGED <<status, page, waiting, box, hasty, runtime, sending, output, input, stdout,
                    stdin, sent>>
    BY DEF pageVars
  <1>4. Typed'
    BY <1>2, <1>3, ThreadTyped, TypedFacts
  <1>5. Counted(r)'
    BY <1>1, <1>3 DEF Running, Counted, Buffered, Own
  <1>6. Redirected(r)'
    BY <1>1, <1>3 DEF Running, Redirected
  <1>7. Running(r)'
    BY <1>5, <1>6 DEF Running
  <1> QED BY <1>1, <1>3, <1>4, <1>7, RunStep DEF Phase, Own

\* The program sets out to read a line, through its own reader.
LEMMA ReadsStep ==
    ASSUME RunInv, NEW r \in Runs, Reads(r)
    PROVE  RunInv'
  <1> DEFINE t == program[r]
  <1>1. /\ Phase(r) = "running" /\ Running(r) /\ t \in Threads /\ t.pc = "free"
        /\ program \in [Runs -> Threads] /\ r # NoRun
    BY ThreadRuns DEF Reads, At
  <1>2. Typed
    BY DEF RunInv
  <1>3. stdin = r
    BY <1>1 DEF Running, Redirected
  <1>4. /\ program' = [program EXCEPT ![r].pc = "prepare", ![r].step = 1, ![r].via = r]
        /\ UNCHANGED <<pageVars, control, output, input, stdout, stdin, sent>>
    BY <1>1, <1>3 DEF Reads, memory
  <1>5. /\ program' \in [Runs -> Threads]
        /\ program'[r] = [t EXCEPT !.pc = "prepare", !.step = 1, !.via = r]
        /\ \A q \in Runs \ {r} : program'[q] = program[q]
    BY <1>1, <1>4 DEF Threads
  <1>6. /\ program'[r].pc = "prepare" /\ program'[r].step = 1 /\ program'[r].via = r
        /\ program'[r].wrote = t.wrote /\ program'[r].captured = t.captured
        /\ program'[r].previous = t.previous /\ program'[r].got = t.got
    BY <1>1, <1>5 DEF Threads
  <1>7. Handshake(r)'
    BY <1>1, <1>4, <1>6 DEF Running, Handshake, Unasked, pageVars
  <1>8. program'[r].step \in 1..Len(ReadOrder)
    BY <1>6 DEF ReadOrder
  <1> QED BY <1>1, <1>2, <1>4, <1>5, <1>6, <1>7, <1>8, ReadStep, TypedFacts

\* The three stores before a wait.
LEMMA PreparesStep ==
    ASSUME RunInv, NEW r \in Runs, Prepares(r)
    PROVE  RunInv'
  <1> DEFINE t == program[r]
             slot == ReadOrder[t.step]
  <1>1. /\ Phase(r) = "running" /\ Running(r) /\ t \in Threads /\ t.pc = "prepare"
        /\ program \in [Runs -> Threads] /\ r # NoRun
    BY ThreadRuns DEF Prepares, At
  <1>2. Typed
    BY DEF RunInv
  <1>3. /\ t.step \in 1..Len(ReadOrder) /\ t.via = r /\ Unasked(r)
        /\ control.turn = page[r].answered
    BY <1>1 DEF Running, Redirected, Handshake
  <1>4. /\ Len(ReadOrder) = 3 /\ slot \in {"ready", "length", "turn"}
        /\ slot = "turn" <=> t.step = 3
    BY <1>3 DEF ReadOrder
  <1>5. /\ program' = IF t.step < 3 THEN [program EXCEPT ![r].step = @ + 1]
                      ELSE [program EXCEPT ![r].pc = "wait"]
        /\ control' = [control EXCEPT !.ready = @ /\ slot # "ready",
                                      !.length = IF slot = "length" THEN 0 ELSE @,
                                      !.turn = IF slot = "turn" THEN @ + 1 ELSE @]
        /\ UNCHANGED <<pageVars, output, input, stdout, stdin, sent>>
    BY <1>4 DEF Prepares, Goes
  <1>a. (control.ready /\ slot # "ready") = FALSE
    BY <1>3 DEF Unasked
  <1>b. t.step \in {1, 2, 3} /\ Len(ReadOrder) = 3
    BY <1>3, <1>4
  <1> HIDE DEF slot
  <1>c. control' = [control EXCEPT !.ready = FALSE,
                                   !.length = IF slot = "length" THEN 0 ELSE @,
                                   !.turn = IF slot = "turn" THEN @ + 1 ELSE @]
    BY <1>5, <1>a
  <1>6. /\ control' \in [written : 0 .. Capacity, truncated : BOOLEAN, turn : Nat,
                         ready : BOOLEAN, length : Nat \cup {-1}]
        /\ control'.written = control.written /\ control'.truncated = control.truncated
        /\ control'.ready = FALSE
        /\ control'.turn = IF t.step = 3 THEN control.turn + 1 ELSE control.turn
    <2>1. CASE slot = "turn"
      <3>1. control' = [control EXCEPT !.ready = FALSE, !.length = control.length,
                                       !.turn = control.turn + 1]
        BY <1>c, <2>1
      <3>2. control.turn + 1 \in Nat /\ control.length \in Nat \cup {-1} /\ t.step = 3
        BY <1>2, <1>4, <2>1, TypedFacts
      <3> QED BY <1>2, <3>1, <3>2, TypedFacts
    <2>2. CASE slot = "length"
      <3>1. control' = [control EXCEPT !.ready = FALSE, !.length = 0]
        BY <1>2, <1>c, <2>2, TypedFacts
      <3> QED BY <1>2, <1>4, <2>2, <3>1, TypedFacts
    <2>3. CASE slot = "ready"
      <3>1. control' = [control EXCEPT !.ready = FALSE]
        BY <1>2, <1>c, <2>3, TypedFacts
      <3> QED BY <1>2, <1>4, <2>3, <3>1, TypedFacts
    <2> QED BY <1>4, <2>1, <2>2, <2>3
  <1>7. /\ program' \in [Runs -> Threads] /\ \A q \in Runs \ {r} : program'[q] = program[q]
        /\ program'[r].pc = IF t.step = 3 THEN "wait" ELSE "prepare"
        /\ t.step # 3 => program'[r].step \in 1..3
        /\ program'[r].wrote = t.wrote /\ program'[r].captured = t.captured
        /\ program'[r].previous = t.previous /\ program'[r].got = t.got
        /\ program'[r].via = t.via
    <2>1. CASE t.step = 3
      <3>1. program' = [program EXCEPT ![r].pc = "wait"]
        BY <1>5, <2>1
      <3> QED BY <1>1, <2>1, <3>1 DEF Threads
    <2>2. CASE t.step \in {1, 2}
      <3>1. program' = [program EXCEPT ![r].step = @ + 1]
        BY <1>5, <2>2
      <3> QED BY <1>1, <2>2, <3>1 DEF Threads
    <2> QED BY <1>b, <2>1, <2>2
  <1>8. Unasked(r)'
    BY <1>3, <1>5, <1>6, <1>7 DEF Unasked, pageVars
  <1>9. Handshake(r)'
    BY <1>3, <1>5, <1>6, <1>7, <1>8 DEF Handshake, pageVars
  <1> QED BY <1>1, <1>3, <1>b, <1>5, <1>6, <1>7, <1>9, ReadStep

\* A line that has been delivered stays so while the page does nothing.
LEMMA DeliveredKept ==
    ASSUME NEW r \in Runs, NEW length, NEW line, Unfetched(r, line), Holds(length, line),
           ~waiting, sending = NoLine,
           UNCHANGED <<waiting, sending, sent, input>>, program'[r].got = program[r].got
    PROVE  \A n : n = length => Delivered(r, n)'
  BY DEF Delivered, Unfetched, Holds

\* A program that hears the flag has a line that was delivered.
LEMMA HearsStep ==
    ASSUME RunInv, NEW r \in Runs, Hears(r)
    PROVE  RunInv'
  <1> DEFINE t == program[r]
  <1>1. /\ Phase(r) = "running" /\ Running(r) /\ t \in Threads /\ t.pc = "wait"
        /\ program \in [Runs -> Threads] /\ r # NoRun
    BY ThreadRuns DEF Hears, At
  <1>2. Typed
    BY DEF RunInv
  <1>3. /\ control.ready /\ program' = [program EXCEPT ![r].pc = "take"]
        /\ UNCHANGED <<pageVars, control, output, input, stdout, stdin, sent>>
    BY DEF Hears, Goes, memory
  <1>4. /\ program' \in [Runs -> Threads] /\ program'[r] = [t EXCEPT !.pc = "take"]
        /\ \A q \in Runs \ {r} : program'[q] = program[q]
    BY <1>1, <1>3 DEF Threads
  <1>5. /\ program'[r].pc = "take" /\ program'[r].via = t.via
        /\ program'[r].wrote = t.wrote /\ program'[r].captured = t.captured
        /\ program'[r].previous = t.previous /\ program'[r].got = t.got
    BY <1>1, <1>4 DEF Threads
  <1>6. control.turn = page[r].answered /\ Delivered(r, control.length)
    BY <1>1, <1>3 DEF Running, Handshake, Unasked, Asked, Underway
  <1>7. Delivered(r, control.length)'
    BY <1>3, <1>5, <1>6 DEF Delivered, Unfetched, Holds, pageVars
  <1>8. Handshake(r)'
    BY <1>3, <1>5, <1>6, <1>7 DEF Handshake, pageVars
  <1>9. t.via = r
    BY <1>1 DEF Running, Redirected
  <1> QED BY <1>1, <1>2, <1>3, <1>4, <1>5, <1>8, <1>9, ReadStep, TypedFacts

\* The length it takes is the length of that line.
LEMMA TakesStep ==
    ASSUME RunInv, NEW r \in Runs, Takes(r)
    PROVE  RunInv'
  <1> DEFINE t == program[r]
  <1>1. /\ Phase(r) = "running" /\ Running(r) /\ t \in Threads /\ t.pc = "take"
        /\ program \in [Runs -> Threads] /\ r # NoRun
    BY ThreadRuns DEF Takes, At
  <1>2. Typed
    BY DEF RunInv
  <1>3. /\ program' = [program EXCEPT ![r].pc = "clear", ![r].length = control.length]
        /\ UNCHANGED <<pageVars, control, output, input, stdout, stdin, sent>>
    BY DEF Takes, memory
  <1>4. /\ program' \in [Runs -> Threads]
        /\ program'[r] = [t EXCEPT !.pc = "clear", !.length = control.length]
        /\ \A q \in Runs \ {r} : program'[q] = program[q]
    BY <1>1, <1>2, <1>3, TypedFacts DEF Threads
  <1>5. /\ program'[r].pc = "clear" /\ program'[r].via = t.via
        /\ program'[r].length = control.length
        /\ program'[r].wrote = t.wrote /\ program'[r].captured = t.captured
        /\ program'[r].previous = t.previous /\ program'[r].got = t.got
    BY <1>1, <1>4 DEF Threads
  <1>6. control.turn = page[r].answered /\ control.ready /\ Delivered(r, control.length)
    BY <1>1, <1>3 DEF Running, Handshake
  <1>7. Delivered(r, program[r].length)'
    BY <1>3, <1>5, <1>6 DEF Delivered, Unfetched, Holds, pageVars
  <1>8. Handshake(r)'
    BY <1>3, <1>5, <1>6, <1>7 DEF Handshake, pageVars
  <1>9. t.via = r
    BY <1>1 DEF Running, Redirected
  <1> QED BY <1>1, <1>2, <1>3, <1>4, <1>5, <1>8, <1>9, ReadStep, TypedFacts

\* The flag is cleared once the length is taken, and before anything is asked.
LEMMA ClearsStep ==
    ASSUME RunInv, NEW r \in Runs, Clears(r)
    PROVE  RunInv'
  <1> DEFINE t == program[r]
  <1>1. /\ Phase(r) = "running" /\ Running(r) /\ t \in Threads /\ t.pc = "clear"
        /\ program \in [Runs -> Threads] /\ r # NoRun
    BY ThreadRuns DEF Clears, At
  <1>2. Typed
    BY DEF RunInv
  <1>3. /\ program' = [program EXCEPT ![r].pc = "fetch"]
        /\ control' = [control EXCEPT !.ready = FALSE]
        /\ UNCHANGED <<pageVars, output, input, stdout, stdin, sent>>
    BY DEF Clears, Goes
  <1>4. /\ program' \in [Runs -> Threads] /\ program'[r] = [t EXCEPT !.pc = "fetch"]
        /\ \A q \in Runs \ {r} : program'[q] = program[q]
    BY <1>1, <1>3 DEF Threads
  <1>5. /\ program'[r].pc = "fetch" /\ program'[r].via = t.via
        /\ program'[r].length = t.length
        /\ program'[r].wrote = t.wrote /\ program'[r].captured = t.captured
        /\ program'[r].previous = t.previous /\ program'[r].got = t.got
    BY <1>1, <1>4 DEF Threads
  <1>6. /\ control' \in [written : 0 .. Capacity, truncated : BOOLEAN, turn : Nat,
                         ready : BOOLEAN, length : Nat \cup {-1}]
        /\ control'.written = control.written /\ control'.truncated = control.truncated
        /\ control'.ready = FALSE /\ control'.turn = control.turn
    BY <1>2, <1>3, TypedFacts
  <1>7. control.turn = page[r].answered /\ Delivered(r, t.length)
    BY <1>1 DEF Running, Handshake
  <1>8. Delivered(r, program[r].length)'
    BY <1>3, <1>5, <1>7 DEF Delivered, Unfetched, Holds, pageVars
  <1>9. Handshake(r)'
    BY <1>3, <1>5, <1>6, <1>7, <1>8 DEF Handshake, pageVars
  <1>10. t.via = r
    BY <1>1 DEF Running, Redirected
  <1> QED BY <1>1, <1>3, <1>4, <1>5, <1>6, <1>9, <1>10, ReadStep

\* The line that is fetched is the one that was typed.
LEMMA FetchesStep ==
    ASSUME RunInv, NEW r \in Runs, Fetches(r)
    PROVE  RunInv'
  <1> DEFINE t == program[r]
             text == IF t.length < 0 THEN End ELSE SubSeq(input, 1, t.length)
  <1>1. /\ Phase(r) = "running" /\ Running(r) /\ t \in Threads /\ t.pc = "fetch"
        /\ program \in [Runs -> Threads] /\ r # NoRun
    BY ThreadRuns DEF Fetches, At
  <1>2. Typed
    BY DEF RunInv
  <1>3. /\ program' = [program EXCEPT ![r].pc = IF t.length < 0 THEN "free" ELSE "echo",
                                      ![r].got = Append(@, text)]
        /\ UNCHANGED <<pageVars, control, output, input, stdout, stdin, sent>>
    BY DEF Fetches, memory
  <1>4. /\ control.turn = page[r].answered /\ ~control.ready /\ Delivered(r, t.length)
    BY <1>1 DEF Running, Handshake
  <1>5. PICK line \in Answers : Unfetched(r, line) /\ Holds(t.length, line)
    BY <1>4 DEF Delivered
  <1>6. text = line
    <2>1. CASE line = End
      BY <1>5, <2>1 DEF Holds
    <2>2. CASE line # End
      <3>1. line \in Seq(Nat)
        BY <1>5, <2>2, LinesAssumption DEF Answers
      <3>2. /\ t.length = Len(line) /\ t.length \in Nat /\ t.length <= Len(input)
            /\ \A i \in 1..t.length : input[i] = line[i]
        BY <1>5, <2>2, <3>1 DEF Holds
      <3>3. SubSeq(input, 1, t.length) = line
        BY <1>2, <3>1, <3>2, TypedFacts
      <3> QED BY <3>2, <3>3
    <2> QED BY <2>1, <2>2
  <1> HIDE DEF text
  <1>7. t.got \in Seq(Answers) /\ Append(t.got, line) \in Seq(Answers)
    BY <1>1, <1>5 DEF Threads
  <1>8. /\ program' \in [Runs -> Threads] /\ \A q \in Runs \ {r} : program'[q] = program[q]
        /\ program'[r].pc \in {"free", "echo"} /\ program'[r].via = t.via
        /\ program'[r].wrote = t.wrote /\ program'[r].captured = t.captured
        /\ program'[r].previous = t.previous /\ program'[r].got = Append(t.got, line)
    BY <1>1, <1>3, <1>6, <1>7 DEF Threads
  <1>9. Unasked(r)'
    BY <1>3, <1>4, <1>5, <1>8 DEF Unasked, Delivered, Unfetched, pageVars
  <1>10. Handshake(r)'
    BY <1>3, <1>4, <1>8, <1>9 DEF Handshake, pageVars
  <1>11. t.via = r
    BY <1>1 DEF Running, Redirected
  <1> QED BY <1>1, <1>2, <1>3, <1>8, <1>10, <1>11, ReadStep, TypedFacts

\* What a program that throws is told of, after all it wrote.
LEMMA FinishesStep ==
    ASSUME RunInv, NEW r \in Runs, Finishes(r)
    PROVE  RunInv'
  <1> DEFINE t == program[r]
  <1>1. /\ Phase(r) = "running" /\ Running(r) /\ t \in Threads /\ t.pc = "free"
        /\ program \in [Runs -> Threads] /\ t.captured = Own(r, t.wrote) /\ r # NoRun
    BY ThreadRuns DEF Finishes, At
  <1>2. Typed
    BY DEF RunInv
  <1>3. PICK n \in {0, 1} :
            program' = [program EXCEPT ![r].pc = "over", ![r].wrote = @ + n,
                           ![r].captured = @ \o SubSeq(Own(r, t.wrote + n), t.wrote + 1,
                                                       t.wrote + n)]
    BY DEF Finishes
  <1>4. /\ stdout' = t.previous /\ stdin' = NoRun /\ t.previous = NoRun
        /\ UNCHANGED <<pageVars, control, output, input, sent>>
    BY <1>1 DEF Finishes, memory, Running, Redirected
  <1>5. t.wrote \in Nat /\ t.wrote + n \in Nat /\ t.wrote <= t.wrote + n
    BY <1>1 DEF Threads
  <1>6. /\ Own(r, t.wrote + n) \in Texts /\ Len(Own(r, t.wrote + n)) = t.wrote + n
        /\ \A i \in 1..t.wrote + n : Own(r, t.wrote + n)[i] = <<r, i>>
    BY <1>5, OwnFacts
  <1>7. Own(r, t.wrote) \o SubSeq(Own(r, t.wrote + n), t.wrote + 1, t.wrote + n)
            = Own(r, t.wrote + n)
    <2>1. PICK m, k, s : m = t.wrote /\ k = t.wrote + n /\ s = Own(r, k)
      OBVIOUS
    <2>2. Own(r, m) \o SubSeq(s, m + 1, k) = Own(r, k)
      <3>1. m \in Nat /\ k \in Nat /\ m <= k
        BY <1>5, <2>1
      <3>2. s \in Texts /\ k <= Len(s) /\ \A i \in 1..k : s[i] = <<r, i>>
        BY <1>6, <2>1, <3>1
      <3> QED BY <3>1, <3>2, OwnPiece
    <2> QED BY <2>1, <2>2
  <1>8. t.captured \o SubSeq(Own(r, t.wrote + n), t.wrote + 1, t.wrote + n)
            = Own(r, t.wrote + n)
    BY <1>1, <1>7
  <1>9. /\ program' \in [Runs -> Threads] /\ \A q \in Runs \ {r} : program'[q] = program[q]
        /\ program'[r].pc = "over" /\ program'[r].wrote = t.wrote + n
        /\ program'[r].captured = Own(r, t.wrote + n) /\ program'[r].got = t.got
    BY <1>1, <1>3, <1>5, <1>6, <1>8 DEF Threads
  <1>10. Typed'
    BY <1>2, <1>4, <1>9, ThreadTyped, TypedFacts
  <1>11. /\ page[r].shown <= control.written /\ control.written <= t.wrote
         /\ page[r].live = Own(r, page[r].shown) /\ Buffered(r, control.written)
         /\ control.written \in Nat
    BY <1>1, <1>2, TypedFacts DEF Running, Counted
  <1>12. control.written <= t.wrote + n
    BY <1>5, <1>11
  <1>13. Counted(r)'
    BY <1>4, <1>9, <1>11, <1>12 DEF Counted, Own, Buffered, pageVars
  <1>14. Handshake(r)'
    BY <1>1, <1>4, <1>9 DEF Running, Handshake, Unasked, pageVars
  <1>15. Redirected(r)'
    BY <1>4, <1>9 DEF Redirected
  <1>16. Running(r)'
    BY <1>9, <1>13, <1>14, <1>15 DEF Running
  <1> QED BY <1>1, <1>4, <1>9, <1>10, <1>16, RunStep DEF Phase, Own, pageVars

-----------------------------------------------------------------------------
(* The page.                                                                 *)

\* A step of the page types: of what it may change, each holds what it should.
LEMMA PageTyped ==
    ASSUME Typed, UNCHANGED <<status, runtime, output, program, stdout, stdin>>,
           hasty' \in BOOLEAN,
           page' \in [Runs -> [phase : {"new", "compiling", "asking", "starting", "running",
                                       "over", "gone"},
                               shown : Nat, answered : Nat, live : Texts, text : Texts]],
           waiting' \in BOOLEAN, box' \in Runs \cup {NoRun},
           sending' \in [line : Answers, step : 0 .. Len(SendOrder)],
           sending' = NoLine \/ sending'.step \in 1..Len(SendOrder),
           control' \in [written : 0 .. Capacity, truncated : BOOLEAN, turn : Nat,
                         ready : BOOLEAN, length : Nat \cup {-1}],
           input' \in Seq(Nat), sent' \in [Runs -> Seq(Answers)]
    PROVE  Typed'
  BY DEF Typed, TypeOK

\* A run that is on its way and not running is the only one, and nothing is in
\* place or asked.
LEMMA NobodyRuns ==
    ASSUME RunInv, NEW r \in Runs, Active(r), Phase(r) # "running"
    PROVE  Quiet /\ \A q \in Runs : Phase(q) # "running" /\ Settled(q)
  <1>1. \A q \in Runs : Phase(q) # "running"
    BY DEF RunInv, Alone, Active
  <1> QED BY <1>1 DEF RunInv

\* A step of a run that is not running, and is alone on its way.
LEMMA QuietStep ==
    ASSUME RunInv, Quiet, \A q \in Runs : Phase(q) # "running", Typed',
           UNCHANGED <<waiting, sending, programVars, sent>>,
           NEW r \in Runs, \A q \in Runs \ {r} : ~Active(q), Settled(r)',
           Phase(r)' # "running",
           \A q \in Runs \ {r} : page'[q] = page[q]
    PROVE  RunInv'
  <1>1. UNCHANGED <<waiting, sending, program, stdout, stdin, sent>>
    BY DEF programVars
  <1>2. \A q \in Runs \ {r} : Settled(q)' /\ Phase(q)' = Phase(q)
    BY <1>1 DEF RunInv, Settled, Phase, Idle, Unborn
  <1>3. Alone'
    BY <1>2 DEF Alone, Active
  <1>4. (\A q \in Runs : program[q].captured = Own(q, program[q].wrote))'
    BY <1>1 DEF RunInv, Own
  <1>5. (\A q \in Runs : IF Phase(q) = "running" THEN Running(q) ELSE Settled(q))'
    BY <1>2
  <1>6. Quiet'
    BY <1>1 DEF Quiet
  <1> QED BY <1>3, <1>4, <1>5, <1>6 DEF RunInv

\* A run starts while no other is on its way.
LEMMA StartsStep ==
    ASSUME RunInv, ~hasty', NEW r \in Runs, Starts(r)
    PROVE  RunInv'
  <1>1. /\ Phase(r) = "new" /\ \A q \in Runs : Phase(q) \in {"new", "over", "gone"}
        /\ UNCHANGED <<waiting, box, runtime, sending, memory, programVars, sent>>
        /\ hasty' \in BOOLEAN
    BY DEF Starts, Active
  <1>2. PICK to \in {"compiling", "over"} :
            /\ status' \in {"failed", "compiling"}
            /\ page' = [page EXCEPT ![r].phase = to]
    BY DEF Starts
  <1>3. /\ \A q \in Runs : ~Active(q) /\ Phase(q) # "running" /\ Settled(q)
        /\ Quiet /\ Typed
    BY <1>1 DEF RunInv, Active
  <1>4. /\ program[r] = Unborn /\ page[r] = [Idle EXCEPT !.phase = "new"]
        /\ program[r].got = sent[r]
    BY <1>1, <1>3 DEF Settled
  <1>5. page' \in [Runs -> [phase : {"new", "compiling", "asking", "starting", "running",
                                    "over", "gone"},
                            shown : Nat, answered : Nat, live : Texts, text : Texts]]
    BY <1>2, <1>3, PageFacts
  <1>6. Typed'
    BY <1>1, <1>2, <1>3, <1>5 DEF Typed, TypeOK, Busy, memory, programVars
  <1>7. /\ page'[r] = [Idle EXCEPT !.phase = to]
        /\ \A q \in Runs \ {r} : page'[q] = page[q]
    BY <1>2, <1>3, <1>4, PageFacts DEF Idle
  <1>8. Settled(r)' /\ Phase(r)' # "running"
    BY <1>1, <1>4, <1>7 DEF Settled, Phase, Idle, Unborn, programVars
  <1> QED BY <1>1, <1>3, <1>6, <1>7, <1>8, QuietStep

\* A run that moves from one point of its preparation to another, or is over
\* before it ran.
LEMMA PreparedStep ==
    ASSUME RunInv, NEW r \in Runs, Active(r), Phase(r) # "running",
           NEW to \in {"compiling", "asking", "starting", "over"},
           page' = [page EXCEPT ![r].phase = to],
           status' \in Busy \cup {"", "unauthorized", "busy", "failed", "error", "done"},
           runtime' \in {"none", "up", "broken"},
           UNCHANGED <<waiting, box, hasty, sending, control, output, input, programVars, sent>>
    PROVE  RunInv'
  <1>1. /\ Quiet /\ \A q \in Runs : Phase(q) # "running" /\ Settled(q)
        /\ \A q \in Runs \ {r} : ~Active(q)
        /\ Typed
    BY NobodyRuns DEF RunInv, Alone
  <1>2. /\ program[r] = Unborn /\ page[r] = [Idle EXCEPT !.phase = Phase(r)]
        /\ program[r].got = sent[r]
    BY <1>1 DEF Settled, Active
  <1>3. page' \in [Runs -> [phase : {"new", "compiling", "asking", "starting", "running",
                                    "over", "gone"},
                            shown : Nat, answered : Nat, live : Texts, text : Texts]]
    BY <1>1, PageFacts
  <1>4. Typed'
    BY <1>1, <1>3 DEF Typed, TypeOK, programVars
  <1>5. /\ page'[r] = [Idle EXCEPT !.phase = to]
        /\ \A q \in Runs \ {r} : page'[q] = page[q]
    BY <1>1, <1>2, PageFacts DEF Idle
  <1>6. /\ page'[r].phase = to /\ page'[r].text = <<>>
        /\ program'[r] = Unborn /\ program'[r].got = sent'[r]
    BY <1>2, <1>5 DEF Idle, programVars
  <1>7. Unborn.pc = "new" /\ Unborn.captured = <<>>
    BY DEF Unborn
  <1>8. Settled(r)' /\ Phase(r)' # "running"
    BY <1>5, <1>6, <1>7 DEF Settled, Phase
  <1> QED BY <1>1, <1>4, <1>5, <1>8, QuietStep

\* The answer of the compile service, or none.
LEMMA CompileEndsStep ==
    ASSUME RunInv, NEW r \in Runs, CompileEnds(r)
    PROVE  RunInv'
  <1>1. Active(r) /\ Phase(r) # "running"
    BY DEF CompileEnds, Active
  <1>2. PICK to \in {"asking", "over", "starting"} :
            /\ page' = [page EXCEPT ![r].phase = to]
            /\ status' \in Busy \cup {"unauthorized", "busy", "failed", "error"}
    <2>1. PICK end \in {<<"unauthorized", "asking">>, <<"busy", "over">>, <<"failed", "over">>,
                       <<"error", "over">>, <<"starting runtime", "starting">>} :
              status' = end[1] /\ page' = [page EXCEPT ![r].phase = end[2]]
      BY DEF CompileEnds
    <2>2. /\ end[2] \in {"asking", "over", "starting"}
          /\ end[1] \in {"unauthorized", "busy", "failed", "error", "starting runtime"}
      <3>1. CASE end = <<"unauthorized", "asking">>
        BY <3>1
      <3>2. CASE end = <<"busy", "over">>
        BY <3>2
      <3>3. CASE end = <<"failed", "over">>
        BY <3>3
      <3>4. CASE end = <<"error", "over">>
        BY <3>4
      <3>5. CASE end = <<"starting runtime", "starting">>
        BY <3>5
      <3> QED BY <2>1, <3>1, <3>2, <3>3, <3>4, <3>5
    <2>3. end[1] \in Busy \cup {"unauthorized", "busy", "failed", "error"}
      BY <2>2 DEF Busy
    <2> QED BY <2>1, <2>2, <2>3
  <1>3. UNCHANGED <<waiting, box, hasty, runtime, sending, control, output, input, programVars, sent>>
    BY DEF CompileEnds, memory
  <1>4. runtime' \in {"none", "up", "broken"}
    BY <1>3 DEF RunInv, Typed, TypeOK
  <1> QED BY <1>1, <1>2, <1>3, <1>4, PreparedStep

\* A token, or a refusal.
LEMMA TokenAnsweredStep ==
    ASSUME RunInv, NEW r \in Runs, TokenAnswered(r)
    PROVE  RunInv'
  <1>1. Active(r) /\ Phase(r) # "running"
    BY DEF TokenAnswered, Active
  <1>2. PICK to \in {"compiling", "over"} :
            page' = [page EXCEPT ![r].phase = to] /\ status' \in {status, "failed", "compiling"}
    BY DEF TokenAnswered
  <1>3. UNCHANGED <<waiting, box, hasty, runtime, sending, control, output, input, programVars, sent>>
    BY DEF TokenAnswered, memory
  <1>4. /\ runtime' \in {"none", "up", "broken"}
        /\ status' \in Busy \cup {"", "unauthorized", "busy", "failed", "error", "done"}
    BY <1>2, <1>3 DEF RunInv, Typed, TypeOK, Busy
  <1> QED BY <1>1, <1>2, <1>3, <1>4, PreparedStep

\* The counters are set back, and nothing runs that would count them up.
LEMMA RuntimeStartsStep ==
    ASSUME RunInv, NEW r \in Runs, RuntimeStarts(r)
    PROVE  RunInv'
  <1>1. Active(r) /\ Phase(r) # "running" /\ Phase(r) = "starting"
    BY DEF RuntimeStarts, Active
  <1>2. CASE /\ runtime # "up" /\ runtime' = "broken" /\ status' = "error"
             /\ page' = [page EXCEPT ![r].phase = "over"]
             /\ UNCHANGED <<control, program>>
             /\ UNCHANGED <<waiting, box, hasty, sending, output, input, stdout, stdin, sent>>
    <2>1. UNCHANGED programVars
      BY <1>2 DEF programVars
    <2> QED BY <1>1, <1>2, <2>1, PreparedStep DEF Busy
  <1>3. CASE /\ runtime # "broken" /\ runtime' = "up" /\ status' = "running"
             /\ page' = [page EXCEPT ![r].phase = "running"]
             /\ control' = Rewound
             /\ program' = [program EXCEPT ![r].pc = "called"]
             /\ UNCHANGED <<waiting, box, hasty, sending, output, input, stdout, stdin, sent>>
    <2>1. /\ Quiet /\ \A q \in Runs : Phase(q) # "running" /\ Settled(q)
          /\ \A q \in Runs \ {r} : ~Active(q)
          /\ Typed
      BY <1>1, NobodyRuns DEF RunInv, Alone
    <2>2. /\ program[r] = Unborn /\ page[r] = [Idle EXCEPT !.phase = "starting"]
          /\ program[r].got = sent[r]
      BY <1>1, <2>1 DEF Settled
    <2>3. page' \in [Runs -> [phase : {"new", "compiling", "asking", "starting", "running",
                                      "over", "gone"},
                              shown : Nat, answered : Nat, live : Texts, text : Texts]]
      BY <1>3, <2>1, PageFacts
    <2>4. /\ program' \in [Runs -> Threads] /\ program'[r] = [Unborn EXCEPT !.pc = "called"]
          /\ \A q \in Runs \ {r} : program'[q] = program[q]
      <3> program \in [Runs -> Threads] /\ program[r] \in Threads
        BY <2>1, TypedFacts
      <3>1. program' \in [Runs -> Threads]
        BY <1>3 DEF Threads
      <3>2. program'[r] = [program[r] EXCEPT !.pc = "called"]
        BY <1>3, <2>1, TypedFacts
      <3>3. \A q \in Runs \ {r} : program'[q] = program[q]
        BY <1>3, <2>1, TypedFacts
      <3> QED BY <2>2, <3>1, <3>2, <3>3
    <2>5. /\ page'[r] = [Idle EXCEPT !.phase = "running"]
          /\ \A q \in Runs \ {r} : page'[q] = page[q]
      BY <1>3, <2>1, <2>2, PageFacts DEF Idle
    <2>6. /\ control' \in [written : 0 .. Capacity, truncated : BOOLEAN, turn : Nat,
                           ready : BOOLEAN, length : Nat \cup {-1}]
          /\ control'.written = 0 /\ control'.turn = 0 /\ ~control'.ready /\ ~control'.truncated
      <3>1. /\ control' = [written |-> 0, truncated |-> FALSE, turn |-> 0, ready |-> FALSE,
                           length |-> control.length]
        BY <1>3 DEF Rewound, FreshControl
      <3>2. 0 \in 0..Capacity /\ control.length \in Nat \cup {-1}
        BY <2>1, TypedFacts
      <3> QED BY <3>1, <3>2
    <2>7. /\ program'[r].pc = "called" /\ program'[r].wrote = 0 /\ program'[r].got = <<>>
          /\ program'[r].captured = <<>>
      BY <2>4 DEF Unborn
    <2>8. /\ page'[r].phase = "running" /\ page'[r].shown = 0 /\ page'[r].answered = 0
          /\ page'[r].live = <<>>
      BY <2>5 DEF Idle
    <2>9. Typed'
      <3>1. \A q \in Runs : program'[q].captured \in Texts /\ program'[q].got \in Seq(Answers)
        BY <2>4 DEF Threads
      <3> QED BY <1>3, <2>1, <2>3, <2>4, <2>6, <3>1 DEF Typed, TypeOK, Busy
    <2>10. sent'[r] = <<>>
      BY <1>3, <2>2 DEF Unborn
    <2>11. Handshake(r)'
      BY <1>3, <2>1, <2>6, <2>7, <2>8, <2>10 DEF Handshake, Unasked, Quiet
    <2>12. Own(r, 0) = <<>>
      BY OwnNone
    <2>13. Counted(r)'
      <3>1. output' \in Texts /\ Len(output') \in Nat
        BY <1>3, <2>1, TypedFacts DEF Texts
      <3> QED BY <2>6, <2>7, <2>8, <2>12, <3>1 DEF Counted, Buffered, Own
    <2>14. Redirected(r)'
      BY <1>3, <2>1, <2>7 DEF Redirected, Quiet
    <2>15. Running(r)' /\ Phase(r)' = "running"
      BY <2>7, <2>8, <2>11, <2>13, <2>14 DEF Running, Phase
    <2>16. \A q \in Runs \ {r} : Settled(q)' /\ Phase(q)' = Phase(q)
      BY <1>3, <2>1, <2>4, <2>5 DEF Settled, Phase, Idle, Unborn
    <2>17. Alone'
      BY <2>1, <2>16 DEF Alone, Active
    <2>18. (\A q \in Runs : program[q].captured = Own(q, program[q].wrote))'
      <3> SUFFICES ASSUME NEW q \in Runs
                   PROVE  program'[q].captured = Own(q, program'[q].wrote)
        BY DEF Own
      <3>1. CASE q = r
        BY <2>7, <2>12, <3>1
      <3>2. CASE q # r
        BY <2>4, <3>2 DEF RunInv
      <3> QED BY <3>1, <3>2
    <2>19. (\A q \in Runs : IF Phase(q) = "running" THEN Running(q) ELSE Settled(q))'
      <3> SUFFICES ASSUME NEW q \in Runs
                   PROVE  (IF Phase(q) = "running" THEN Running(q) ELSE Settled(q))'
        OBVIOUS
      <3>1. CASE q = r
        BY <2>15, <3>1
      <3>2. CASE q # r
        BY <2>1, <2>16, <3>2
      <3> QED BY <3>1, <3>2
    <2>20. ~(\A q \in Runs : Phase(q) # "running")'
      BY <2>15
    <2> QED BY <2>9, <2>17, <2>18, <2>19, <2>20 DEF RunInv
  <1> QED BY <1>2, <1>3 DEF RuntimeStarts

\* The page has seen what there is of the output, and whether it is asked.
LEMMA PollStep ==
    ASSUME RunInv, NEW r \in Runs, Poll(r)
    PROVE  RunInv'
  <1> DEFINE seen == SubSeq(output, page[r].shown + 1, control.written)
  <1>1. /\ Phase(r) = "running" /\ Running(r) /\ Typed /\ sending = NoLine
        /\ program[r].captured = Own(r, program[r].wrote)
    BY DEF RunInv, Poll
  <1>2. /\ page' = [page EXCEPT
                       ![r].shown = IF control.written > @ THEN control.written ELSE @,
                       ![r].live = @ \o seen, ![r].answered = control.turn]
        /\ IF Asks(r) THEN waiting' = TRUE /\ box' = r ELSE UNCHANGED <<waiting, box>>
        /\ UNCHANGED <<status, hasty, runtime, sending, control, output, input, program, stdout,
                       stdin, sent>>
    BY DEF Poll, memory, programVars
  <1>3. /\ page[r].shown <= control.written /\ control.written <= program[r].wrote
        /\ page[r].live = Own(r, page[r].shown) /\ Buffered(r, control.written)
        /\ page[r].shown \in Nat /\ control.written \in Nat /\ control.turn \in Nat
        /\ page[r].answered \in Nat
    BY <1>1, TypedFacts, PageFacts DEF Running, Counted
  <1>4. page[r].live \o seen = Own(r, control.written)
    <2>1. PICK m, n, s : m = page[r].shown /\ n = control.written /\ s = output
      OBVIOUS
    <2>2. m \in Nat /\ n \in Nat /\ m <= n
      BY <1>3, <2>1
    <2>3. s \in Texts /\ n <= Len(s) /\ \A i \in 1..n : s[i] = <<r, i>>
      BY <1>1, <1>3, <2>1, TypedFacts DEF Buffered
    <2>4. Own(r, m) \o SubSeq(s, m + 1, n) = Own(r, n)
      BY <2>2, <2>3, OwnPiece
    <2> QED BY <1>3, <2>1, <2>4
  <1> HIDE DEF seen
  <1>5. Own(r, control.written) \in Texts
    BY <1>3, OwnFacts
  <1>6. /\ page' \in [Runs -> [phase : {"new", "compiling", "asking", "starting", "running",
                                       "over", "gone"},
                               shown : Nat, answered : Nat, live : Texts, text : Texts]]
        /\ page'[r].phase = page[r].phase /\ page'[r].shown = control.written
        /\ page'[r].live = Own(r, control.written) /\ page'[r].answered = control.turn
        /\ \A q \in Runs \ {r} : page'[q] = page[q]
    <2>1. (IF control.written > page[r].shown THEN control.written ELSE page[r].shown)
              = control.written
      BY <1>3
    <2>2. page' = [page EXCEPT ![r].shown = control.written,
                               ![r].live = Own(r, control.written),
                               ![r].answered = control.turn]
      BY <1>2, <1>4, <2>1
    <2> QED BY <1>1, <1>3, <1>5, <2>2, PageFacts
  <1>7. Typed'
    <2>1. waiting' \in BOOLEAN /\ box' \in Runs \cup {NoRun}
      <3>1. waiting \in BOOLEAN /\ box \in Runs \cup {NoRun}
        BY <1>1 DEF Typed, TypeOK
      <3>2. CASE Asks(r)
        BY <1>2, <3>2
      <3>3. CASE ~Asks(r)
        BY <1>2, <3>1, <3>3
      <3> QED BY <3>2, <3>3
    <2>2. UNCHANGED <<status, hasty, runtime, sending, control, output, input, program, stdout,
                      stdin, sent>>
      BY <1>2
    <2>3. /\ sending \in [line : Answers, step : 0 .. Len(SendOrder)]
          /\ input \in Seq(Nat) /\ sent \in [Runs -> Seq(Answers)]
      BY <1>1 DEF Typed, TypeOK
    <2>4. control \in [written : 0 .. Capacity, truncated : BOOLEAN, turn : Nat,
                       ready : BOOLEAN, length : Nat \cup {-1}]
      BY <1>1, TypedFacts
    <2>5. sending' = NoLine /\ sending' = sending /\ control' = control
          /\ input' = input /\ sent' = sent
      BY <1>1, <2>2
    <2>6. /\ sending' \in [line : Answers, step : 0 .. Len(SendOrder)]
          /\ sending' = NoLine \/ sending'.step \in 1..Len(SendOrder)
          /\ input' \in Seq(Nat) /\ sent' \in [Runs -> Seq(Answers)]
          /\ control' \in [written : 0 .. Capacity, truncated : BOOLEAN, turn : Nat,
                            ready : BOOLEAN, length : Nat \cup {-1}]
      BY <2>3, <2>4, <2>5
    <2>7. page' \in [Runs -> [phase : {"new", "compiling", "asking", "starting", "running",
                                      "over", "gone"},
                              shown : Nat, answered : Nat, live : Texts, text : Texts]]
      BY <1>6
    <2>8. Typed /\ hasty' \in BOOLEAN
      BY <1>1, <2>2 DEF Typed, TypeOK
    <2>9. UNCHANGED <<status, runtime, output, program, stdout, stdin>>
      BY <2>2
    <2> QED BY <2>1, <2>6, <2>7, <2>8, <2>9, PageTyped
  <1>8. Counted(r)'
    <2>1. UNCHANGED <<control, output, program>>
      BY <1>2
    <2>2. /\ page'[r].shown <= control.written
          /\ page'[r].live = Own(r, page'[r].shown)
      BY <1>3, <1>6
    <2> QED BY <1>1, <2>1, <2>2 DEF Running, Counted, Buffered, Own
  <1>9. Redirected(r)'
    BY <1>1, <1>2 DEF Running, Redirected
  <1>10. Handshake(r)'
    <2>1. CASE Asks(r)
      <3>1. /\ program[r].pc = "wait" /\ control.turn = page[r].answered + 1 /\ Unasked(r)
        BY <1>1, <2>1 DEF Running, Handshake, Asks
      <3>2. Asked(r)'
        BY <1>2, <2>1, <3>1 DEF Asked, Unasked
      <3> QED BY <1>2, <1>6, <3>1, <3>2 DEF Handshake
    <2>2. CASE ~Asks(r)
      <3>1. control.turn = page[r].answered /\ control.turn # page[r].answered + 1
        BY <1>3, <2>2 DEF Asks
      <3>2. UNCHANGED <<waiting, sending, box, control, program, input, sent>>
        BY <1>2, <2>2
      <3>3. page'[r].answered = page[r].answered
        BY <1>6, <3>1
      <3> QED BY <1>1, <3>1, <3>2, <3>3
              DEF Running, Handshake, Unasked, Asked, Underway, Delivered, Unfetched, Holds
    <2> QED BY <2>1, <2>2
  <1>11. Running(r)'
    BY <1>1, <1>2, <1>8, <1>9, <1>10 DEF Running
  <1> QED BY <1>1, <1>2, <1>6, <1>7, <1>11, RunStep DEF Phase, Own

\* What the run was shown in the end is what its program wrote.
LEMMA EndsStep ==
    ASSUME RunInv, NEW r \in Runs, Ends(r)
    PROVE  RunInv'
  <1>1. /\ Phase(r) = "running" /\ Running(r) /\ Typed /\ program[r].pc = "over"
        /\ program[r] \in Threads /\ sending = NoLine
    BY DEF RunInv, Ends, At, Typed
  <1>2. /\ Unasked(r) /\ stdout = NoRun /\ stdin = NoRun
    BY <1>1 DEF Running, Handshake, Redirected
  <1>3. /\ status' = "done" /\ waiting' = FALSE /\ box' = box
        /\ page' = [page EXCEPT ![r].phase = "over", ![r].text = program[r].captured]
        /\ UNCHANGED <<hasty, runtime, sending, control, output, input, program, stdout, stdin,
                       sent>>
    BY <1>2 DEF Ends, Unasked, memory, programVars
  <1>4. program[r].captured \in Texts
    BY <1>1 DEF Threads
  <1>5. /\ page' \in [Runs -> [phase : {"new", "compiling", "asking", "starting", "running",
                                       "over", "gone"},
                               shown : Nat, answered : Nat, live : Texts, text : Texts]]
        /\ page'[r].phase = "over" /\ page'[r].text = program[r].captured
        /\ \A q \in Runs \ {r} : page'[q] = page[q]
    BY <1>1, <1>3, <1>4, PageFacts
  <1>6. \A q \in Runs \ {r} : ~Active(q) /\ Phase(q) # "running" /\ Settled(q)
    BY <1>1 DEF RunInv, Alone, Active
  <1>7. Typed'
    BY <1>1, <1>3, <1>5 DEF Typed, TypeOK
  <1>8. Settled(r)' /\ Phase(r)' = "over"
    BY <1>1, <1>2, <1>3, <1>5 DEF Settled, Phase, Unasked
  <1>9. \A q \in Runs \ {r} : Settled(q)' /\ Phase(q)' = Phase(q)
    BY <1>3, <1>5, <1>6 DEF Settled, Phase, Idle, Unborn
  <1>10. (\A q \in Runs : Settled(q) /\ Phase(q) # "running")'
    BY <1>6, <1>8, <1>9
  <1>11. Alone'
    BY <1>6, <1>8, <1>9 DEF Alone, Active
  <1>12. (\A q \in Runs : program[q].captured = Own(q, program[q].wrote))'
    BY <1>3 DEF RunInv, Own
  <1>13. Quiet'
    BY <1>2, <1>3 DEF Quiet, Unasked
  <1> QED BY <1>7, <1>10, <1>11, <1>12, <1>13 DEF RunInv

\* The one that is asked: while the page believes that a program waits, and
\* nothing is on its way, it is the program whose box is on the page.
LEMMA WhoWaits ==
    ASSUME RunInv, waiting, sending = NoLine
    PROVE  \E r \in Runs : /\ Phase(r) = "running" /\ Running(r) /\ program[r].pc = "wait"
                           /\ Asked(r) /\ control.turn = page[r].answered
                           /\ program[r].captured = Own(r, program[r].wrote)
  <1>1. PICK r \in Runs : Phase(r) = "running"
    BY DEF RunInv, Quiet
  <1>2. Running(r) /\ program[r].captured = Own(r, program[r].wrote) /\ Typed
    BY <1>1 DEF RunInv
  <1>3. program[r].pc = "wait"
    BY <1>2 DEF Running, Handshake, Unasked, Delivered, RunInv, Typed, Threads
  <1>4. Asked(r) /\ control.turn = page[r].answered
    BY <1>2, <1>3 DEF Running, Handshake, Unasked, Underway, Delivered
  <1> QED BY <1>1, <1>2, <1>3, <1>4

\* A line or the end of input starts on its way to the program that is asked.
LEMMA SendingStep ==
    ASSUME RunInv, waiting, sending = NoLine, NEW line \in Answers,
           sending' = [line |-> line, step |-> 1],
           sent' = [sent EXCEPT ![box] = Append(@, line)],
           box' \in {box, NoRun}, hasty' \in BOOLEAN,
           UNCHANGED <<status, page, waiting, runtime, memory, programVars>>
    PROVE  RunInv'
  <1>1. PICK r \in Runs : /\ Phase(r) = "running" /\ Running(r) /\ program[r].pc = "wait"
                          /\ Asked(r) /\ control.turn = page[r].answered
                          /\ program[r].captured = Own(r, program[r].wrote)
    BY WhoWaits
  <1>2. UNCHANGED <<control, output, input, program, stdout, stdin>>
    BY DEF memory, programVars
  <1>3. box = r /\ ~control.ready /\ program[r].got = sent[r] /\ Typed
    BY <1>1 DEF Asked, RunInv
  <1>4. /\ sent' \in [Runs -> Seq(Answers)] /\ sent'[r] = Append(sent[r], line)
        /\ \A q \in Runs \ {r} : sent'[q] = sent[q]
    <2>1. sent \in [Runs -> Seq(Answers)] /\ sent[r] \in Seq(Answers)
      BY <1>3, TypedFacts
    <2>2. Append(sent[r], line) \in Seq(Answers)
      BY <2>1
    <2> QED BY <1>3, <2>1, <2>2
  <1>5. /\ sending' \in [line : Answers, step : 0 .. Len(SendOrder)]
        /\ sending'.step \in 1..Len(SendOrder)
        /\ sending' # NoLine /\ sending'.line = line /\ sending'.step = 1
    BY DEF SendOrder, NoLine
  <1>6. Typed'
    <2>1. box' \in Runs \cup {NoRun} /\ waiting' \in BOOLEAN /\ input' \in Seq(Nat)
      BY <1>2, <1>3 DEF Typed, TypeOK
    <2>2. page' \in [Runs -> [phase : {"new", "compiling", "asking", "starting", "running",
                                      "over", "gone"},
                              shown : Nat, answered : Nat, live : Texts, text : Texts]]
      BY <1>3, PageFacts
    <2>3. control' \in [written : 0 .. Capacity, truncated : BOOLEAN, turn : Nat,
                        ready : BOOLEAN, length : Nat \cup {-1}]
      BY <1>2, <1>3, TypedFacts
    <2>4. UNCHANGED <<status, runtime, output, program, stdout, stdin>>
      BY <1>2
    <2> QED BY <1>3, <1>4, <1>5, <2>1, <2>2, <2>3, <2>4, PageTyped
  <1>7. Underway(r)'
    BY <1>2, <1>3, <1>4, <1>5 DEF Underway, Unfetched
  <1>8. Handshake(r)'
    BY <1>1, <1>2, <1>3, <1>7 DEF Handshake
  <1>9. Counted(r)' /\ Redirected(r)'
    BY <1>1, <1>2 DEF Running, Counted, Redirected, Buffered, Own
  <1>10. Running(r)'
    BY <1>1, <1>2, <1>8, <1>9 DEF Running
  <1> QED BY <1>1, <1>2, <1>4, <1>6, <1>10, RunStep DEF Phase, Own

\* A line typed, by a reader who is asked.
LEMMA TypesStep ==
    ASSUME RunInv, ~hasty', NEW line \in Lines \cup {End}, Types(line)
    PROVE  RunInv'
  <1>1. waiting /\ hasty' \in BOOLEAN
    BY DEF Types
  <1> QED BY <1>1, SendingStep DEF Types, Answers

\* Stop, while a program waits.
LEMMA StopsInputStep ==
    ASSUME RunInv, StopsInput
    PROVE  RunInv'
  <1>1. hasty' \in BOOLEAN
    BY DEF StopsInput, RunInv, Typed, TypeOK
  <1> QED BY <1>1, SendingStep DEF StopsInput, Answers

\* A store of sendInput(): the length and the line, and then that they are there.
LEMMA SendsStep ==
    ASSUME RunInv, Sends
    PROVE  RunInv'
  <1>1. Typed /\ sending # NoLine /\ sending.step \in {1, 2} /\ Len(SendOrder) = 2
        /\ SendOrder[1] = "length" /\ SendOrder[2] = "ready"
    BY DEF Sends, RunInv, Typed, SendOrder
  <1>2. PICK r \in Runs : Phase(r) = "running"
    BY <1>1 DEF RunInv, Quiet
  <1>3. Running(r) /\ program[r].captured = Own(r, program[r].wrote)
        /\ program[r] \in Threads
    BY <1>1, <1>2 DEF RunInv, Typed
  <1>4. program[r].pc = "wait"
    BY <1>1, <1>3 DEF Running, Handshake, Unasked, Delivered, Threads
  <1>5. Underway(r) /\ control.turn = page[r].answered
    BY <1>1, <1>3, <1>4 DEF Running, Handshake, Unasked, Asked, Delivered
  <1>6. UNCHANGED <<status, page, box, hasty, runtime, output, program, stdout, stdin, sent>>
    BY DEF Sends, programVars
  <1>7. PICK line \in Answers : line = sending.line /\ (line # End => line \in Seq(Nat))
    BY <1>5, LinesAssumption DEF Underway, Unfetched, Answers
  <1>8. /\ page' \in [Runs -> [phase : {"new", "compiling", "asking", "starting", "running",
                                      "over", "gone"},
                              shown : Nat, answered : Nat, live : Texts, text : Texts]]
        /\ sent' \in [Runs -> Seq(Answers)] /\ box' \in Runs \cup {NoRun}
        /\ hasty' \in BOOLEAN
    BY <1>1, <1>6 DEF Typed, TypeOK
  <1>9. /\ Typed' /\ Handshake(r)'
        /\ control'.written = control.written /\ control'.truncated = control.truncated
    <2>1. CASE sending.step = 1
      <3> DEFINE n == IF line = End THEN -1 ELSE Len(line)
      <3>1. /\ control' = [control EXCEPT !.length = n]
            /\ input' = IF line = End THEN input ELSE Overlay(input, 0, line)
            /\ sending' = [sending EXCEPT !.step = 2] /\ waiting' = waiting
        BY <1>1, <1>7, <2>1 DEF Sends
      <3>2. n \in Nat \cup {-1}
        BY <1>7
      <3>3. /\ control' \in [written : 0 .. Capacity, truncated : BOOLEAN, turn : Nat,
                             ready : BOOLEAN, length : Nat \cup {-1}]
            /\ control'.written = control.written /\ control'.truncated = control.truncated
            /\ control'.ready = control.ready /\ control'.turn = control.turn
            /\ control'.length = n
        BY <1>1, <3>1, <3>2, TypedFacts
      <3>4. /\ input' \in Seq(Nat)
            /\ line # End => n <= Len(input') /\ \A i \in 1..n : input'[i] = line[i]
        <4>1. CASE line = End
          BY <1>1, <3>1, <4>1, TypedFacts
        <4>2. CASE line # End
          <5>1. input \in Seq(Nat) /\ line \in Seq(Nat) /\ 0 \in Nat /\ 0 <= Len(input)
                /\ Len(line) \in Nat
            BY <1>1, <1>7, <4>2, TypedFacts
          <5>2. /\ Overlay(input, 0, line) \in Seq(Nat)
                /\ 0 + Len(line) <= Len(Overlay(input, 0, line))
                /\ \A i \in 1..Len(line) : Overlay(input, 0, line)[0 + i] = line[i]
            BY <5>1, OverlayFacts
          <5>3. \A i \in 1..Len(line) : 0 + i = i
            BY <5>1
          <5>4. \A i \in 1..Len(line) : Overlay(input, 0, line)[i] = line[i]
            BY <5>2, <5>3
          <5>5. Len(Overlay(input, 0, line)) \in Nat /\ 0 + Len(line) = Len(line)
            BY <5>1, <5>2
          <5> HIDE DEF Overlay
          <5> QED BY <3>1, <4>2, <5>2, <5>4, <5>5
        <4> QED BY <4>1, <4>2
      <3>5. /\ sending' \in [line : Answers, step : 0 .. Len(SendOrder)]
            /\ sending'.line = line /\ sending'.step = 2
        <4>1. sending \in [line : Answers, step : 0 .. Len(SendOrder)]
          BY <1>1 DEF Typed, TypeOK
        <4>2. 2 \in 0..Len(SendOrder)
          BY <1>1
        <4> QED BY <1>7, <3>1, <4>1, <4>2
      <3>6. sending' # NoLine
        BY <3>5 DEF NoLine
      <3>7. Underway(r)'
        <4>1. Unfetched(r, line)'
          BY <1>5, <1>6, <1>7 DEF Underway, Unfetched
        <4>2. Holds(control.length, sending.line)'
          BY <3>3, <3>4, <3>5 DEF Holds
        <4> QED BY <1>5, <1>7, <3>1, <3>3, <3>5, <3>6, <4>1, <4>2 DEF Underway
      <3>8. Handshake(r)'
        BY <1>4, <1>5, <1>6, <3>3, <3>7 DEF Handshake
      <3>9. waiting' \in BOOLEAN /\ sending'.step \in 1..Len(SendOrder)
        <4>1. waiting \in BOOLEAN
          BY <1>1 DEF Typed, TypeOK
        <4> QED BY <1>1, <3>1, <3>5, <4>1
      <3>10. Typed'
        BY <1>1, <1>6, <1>8, <3>3, <3>4, <3>5, <3>9, PageTyped
      <3> QED BY <3>3, <3>8, <3>10
    <2>2. CASE sending.step = 2
      <3>1. /\ control' = [control EXCEPT !.ready = TRUE] /\ input' = input
            /\ sending' = NoLine /\ waiting' = FALSE
        BY <1>1, <2>2 DEF Sends, Answered
      <3>2. /\ control' \in [written : 0 .. Capacity, truncated : BOOLEAN, turn : Nat,
                             ready : BOOLEAN, length : Nat \cup {-1}]
            /\ control'.written = control.written /\ control'.truncated = control.truncated
            /\ control'.ready = TRUE /\ control'.turn = control.turn
            /\ control'.length = control.length
        BY <1>1, <3>1, TypedFacts
      <3>3. Unfetched(r, line) /\ Holds(control.length, line)
        BY <1>5, <1>7, <2>2 DEF Underway
      <3>4. Delivered(r, control.length)'
        BY <1>6, <1>7, <3>1, <3>2, <3>3 DEF Delivered, Unfetched, Holds
      <3>5. Handshake(r)'
        BY <1>4, <1>5, <1>6, <3>2, <3>4 DEF Handshake
      <3>6. input' \in Seq(Nat) /\ NoLine \in [line : Answers, step : 0 .. Len(SendOrder)]
        BY <1>1, <3>1, TypedFacts DEF NoLine, Answers
      <3>7. Typed'
        BY <1>1, <1>6, <1>8, <3>1, <3>2, <3>6, PageTyped
      <3> QED BY <3>2, <3>5, <3>7
    <2> QED BY <1>1, <2>1, <2>2
  <1>10. Counted(r)' /\ Redirected(r)'
    BY <1>3, <1>4, <1>6, <1>9 DEF Running, Counted, Redirected, Buffered, Own
  <1>11. Running(r)'
    BY <1>3, <1>4, <1>6, <1>9, <1>10 DEF Running
  <1> QED BY <1>2, <1>3, <1>6, <1>9, <1>11, RunStep DEF Phase, Own

\* The page is loaded again: what there was is gone, whatever it was.
LEMMA StopsPageStep ==
    ASSUME StopsPage
    PROVE  RunInv'
  <1>1. /\ hasty' = FALSE /\ waiting' = FALSE /\ sending' = NoLine
        /\ status' = "" /\ box' = NoRun /\ runtime' = "none"
        /\ page' = [r \in Runs |-> IF Phase(r) = "new" THEN Idle
                                   ELSE [Idle EXCEPT !.phase = "gone"]]
        /\ control' = FreshControl /\ output' = <<>> /\ input' = <<>>
        /\ program' = [r \in Runs |-> Unborn] /\ stdout' = NoRun /\ stdin' = NoRun
        /\ sent' = [r \in Runs |-> <<>>]
    BY DEF StopsPage
  <1>2. <<>> \in Texts /\ <<>> \in Seq(Answers) /\ <<>> \in Seq(Nat)
    BY DEF Texts
  <1>3. Unborn \in Threads /\ Unborn.pc = "new" /\ Unborn.got = <<>> /\ Unborn.wrote = 0
        /\ Unborn.captured = <<>>
    BY <1>2 DEF Unborn, Threads
  <1>4. Idle \in [phase : {"new", "compiling", "asking", "starting", "running", "over", "gone"},
                  shown : Nat, answered : Nat, live : Texts, text : Texts]
        /\ Idle.phase = "new"
    BY <1>2 DEF Idle
  <1>5. \A r \in Runs : /\ page'[r] \in {Idle, [Idle EXCEPT !.phase = "gone"]}
                        /\ program'[r] = Unborn /\ sent'[r] = <<>>
    BY <1>1
  <1>6. \A r \in Runs : /\ page'[r].phase \in {"new", "gone"}
                        /\ page'[r] = [Idle EXCEPT !.phase = page'[r].phase]
    <2> TAKE r \in Runs
    <2>1. CASE page'[r] = Idle
      BY <2>1 DEF Idle
    <2>2. CASE page'[r] = [Idle EXCEPT !.phase = "gone"]
      BY <2>2 DEF Idle
    <2> QED BY <1>5, <2>1, <2>2
  <1>7. Typed'
    <2>1. page' \in [Runs -> [phase : {"new", "compiling", "asking", "starting", "running",
                                      "over", "gone"},
                              shown : Nat, answered : Nat, live : Texts, text : Texts]]
      BY <1>1, <1>4
    <2>2. program' \in [Runs -> Threads] /\ sent' \in [Runs -> Seq(Answers)]
      BY <1>1, <1>2, <1>3
    <2>3. \A r \in Runs : /\ program'[r].captured \in Texts /\ program'[r].got \in Seq(Answers)
                          /\ sent'[r] \in Seq(Answers)
      BY <1>2, <1>3, <1>5
    <2>4. FreshControl \in [written : 0 .. Capacity, truncated : BOOLEAN, turn : Nat,
                            ready : BOOLEAN, length : Nat \cup {-1}]
      <3>1. 0 \in 0..Capacity
        BY BoundsAssumption
      <3> QED BY <3>1 DEF FreshControl
    <2>5. NoLine \in [line : Answers, step : 0 .. Len(SendOrder)]
      BY DEF NoLine, Answers, SendOrder
    <2> QED BY <1>1, <1>2, <2>1, <2>2, <2>3, <2>4, <2>5 DEF Typed, TypeOK
  <1>8. Alone' /\ \A r \in Runs : Phase(r)' # "running"
    BY <1>6 DEF Alone, Active, Phase
  <1>9. \A r \in Runs : Settled(r)'
    BY <1>3, <1>5, <1>6 DEF Settled, Phase
  <1>10. (\A r \in Runs : program[r].captured = Own(r, program[r].wrote))'
    BY <1>3, <1>5, OwnNone
  <1>11. Quiet'
    BY <1>1 DEF Quiet
  <1> QED BY <1>7, <1>8, <1>9, <1>10, <1>11 DEF RunInv

-----------------------------------------------------------------------------

\* It begins with nothing.
LEMMA RunInit == Init => RunInv
  <1> SUFFICES ASSUME Init PROVE RunInv
    OBVIOUS
  <1>1. <<>> \in Texts /\ <<>> \in Seq(Answers) /\ <<>> \in Seq(Nat)
    BY DEF Texts
  <1>2. Unborn \in Threads /\ Unborn.pc = "new" /\ Unborn.got = <<>> /\ Unborn.wrote = 0
        /\ Unborn.captured = <<>>
    BY <1>1 DEF Unborn, Threads
  <1>3. Idle \in [phase : {"new", "compiling", "asking", "starting", "running", "over", "gone"},
                  shown : Nat, answered : Nat, live : Texts, text : Texts]
        /\ Idle.phase = "new" /\ Idle = [Idle EXCEPT !.phase = "new"]
    BY <1>1 DEF Idle
  <1>4. \A r \in Runs : page[r] = Idle /\ program[r] = Unborn /\ sent[r] = <<>>
    BY DEF Init
  <1>5. Typed
    <2>1. page \in [Runs -> [phase : {"new", "compiling", "asking", "starting", "running",
                                     "over", "gone"},
                             shown : Nat, answered : Nat, live : Texts, text : Texts]]
      BY <1>3 DEF Init
    <2>2. program \in [Runs -> Threads] /\ sent \in [Runs -> Seq(Answers)]
      BY <1>1, <1>2 DEF Init
    <2>3. \A r \in Runs : /\ program[r].captured \in Texts /\ program[r].got \in Seq(Answers)
                          /\ sent[r] \in Seq(Answers)
      BY <1>1, <1>2, <1>4
    <2>4. FreshControl \in [written : 0 .. Capacity, truncated : BOOLEAN, turn : Nat,
                            ready : BOOLEAN, length : Nat \cup {-1}]
      BY BoundsAssumption DEF FreshControl
    <2>5. NoLine \in [line : Answers, step : 0 .. Len(SendOrder)]
      BY DEF NoLine, Answers, SendOrder
    <2> QED BY <1>1, <2>1, <2>2, <2>3, <2>4, <2>5 DEF Init, Typed, TypeOK
  <1>6. Alone /\ \A r \in Runs : Phase(r) # "running" /\ Settled(r)
    BY <1>2, <1>3, <1>4 DEF Alone, Active, Phase, Settled
  <1>7. \A r \in Runs : program[r].captured = Own(r, program[r].wrote)
    BY <1>2, <1>4, OwnNone
  <1>8. Quiet
    BY DEF Init, Quiet
  <1> QED BY <1>5, <1>6, <1>7, <1>8 DEF RunInv

\* Only where the page is loaded again does haste end.
LEMMA HasteEnds ==
    ASSUME [Next]_vars, ~hasty', ~StopsPage
    PROVE  ~hasty
  <1>1. ASSUME NEW r \in Runs, \/ Starts(r) \/ CompileEnds(r) \/ TokenAnswered(r)
                               \/ RuntimeStarts(r) \/ Poll(r) \/ Ends(r)
        PROVE  ~hasty
    BY <1>1 DEF Starts, CompileEnds, TokenAnswered, RuntimeStarts, Poll, Ends
  <1>2. ASSUME NEW line \in Lines \cup {End}, Types(line)
        PROVE  ~hasty
    BY <1>2 DEF Types
  <1>3. ASSUME NEW r \in Runs, Thread(r) \/ Writes(r) \/ Reads(r) \/ Finishes(r)
        PROVE  ~hasty
    BY <1>3 DEF Thread, Writes, Reads, Finishes, Enters, Publishes, Prepares, Hears, Takes,
                Clears, Fetches, Echoes, Emits, pageVars
  <1>4. CASE Sends \/ StopsInput \/ UNCHANGED vars
    BY <1>4 DEF Sends, StopsInput, vars
  <1> QED BY <1>1, <1>2, <1>3, <1>4 DEF Next

\* Every step of a reader who is not hasty keeps it, and so does none.
LEMMA UnhurriedNext ==
    ASSUME RunInv, ~hasty', [Next]_vars
    PROVE  RunInv'
  <1>1. ASSUME NEW r \in Runs, Starts(r) \/ CompileEnds(r) \/ TokenAnswered(r)
                               \/ RuntimeStarts(r) \/ Poll(r) \/ Ends(r)
        PROVE  RunInv'
    BY <1>1, StartsStep, CompileEndsStep, TokenAnsweredStep, RuntimeStartsStep, PollStep, EndsStep
  <1>2. ASSUME NEW line \in Lines \cup {End}, Types(line)
        PROVE  RunInv'
    BY <1>2, TypesStep
  <1>3. ASSUME Sends \/ StopsInput \/ StopsPage
        PROVE  RunInv'
    BY <1>3, SendsStep, StopsInputStep, StopsPageStep
  <1>4. ASSUME NEW r \in Runs, Thread(r)
        PROVE  RunInv'
    BY <1>4, EntersStep, PublishesStep, PreparesStep, HearsStep, TakesStep, ClearsStep,
       FetchesStep, EchoesStep DEF Thread
  <1>5. ASSUME NEW r \in Runs, Writes(r) \/ Reads(r) \/ Finishes(r)
        PROVE  RunInv'
    BY <1>5, WritesStep, ReadsStep, FinishesStep
  <1>6. CASE UNCHANGED vars
    <2>1. UNCHANGED <<status, page, waiting, box, hasty, runtime, sending, control, output, input,
                      program, stdout, stdin, sent>>
      BY <1>6 DEF vars
    <2>2. Typed'
      BY <2>1 DEF RunInv, Typed, TypeOK
    <2>3. Alone'
      BY <2>1 DEF RunInv, Alone, Active, Phase
    <2>4. (\A r \in Runs : program[r].captured = Own(r, program[r].wrote))'
      BY <2>1 DEF RunInv, Own
    <2>5. \A r \in Runs : Running(r) => Running(r)'
      BY <2>1 DEF Running, Handshake, Counted, Redirected, Unasked, Asked, Underway, Delivered,
                  Unfetched, Holds, Buffered, Own
    <2>6. \A r \in Runs : Settled(r) => Settled(r)'
      BY <2>1 DEF Settled, Phase
    <2>7. \A r \in Runs : Phase(r)' = Phase(r)
      BY <2>1 DEF Phase
    <2>8. Quiet => Quiet'
      BY <2>1 DEF Quiet
    <2> QED BY <2>2, <2>3, <2>4, <2>5, <2>6, <2>7, <2>8 DEF RunInv
  <1> QED BY <1>1, <1>2, <1>3, <1>4, <1>5, <1>6 DEF Next

\* Whatever a hasty reader has made of the page, it holds once more when the page
\* is loaded again.
LEMMA RunNext ==
    ASSUME ~hasty => RunInv, ~hasty', [Next]_vars
    PROVE  RunInv'
  <1>1. CASE StopsPage
    BY <1>1, StopsPageStep
  <1>2. CASE ~StopsPage
    BY <1>2, HasteEnds, UnhurriedNext
  <1> QED BY <1>1, <1>2

\* So it holds wherever the reader is not hasty.
LEMMA RunHolds == Spec => [](~hasty => RunInv)
  <1>1. (~hasty => RunInv) /\ [Next]_vars => (~hasty' => RunInv')
    BY RunNext
  <1>2. Init => (~hasty => RunInv)
    BY RunInit
  <1> QED BY <1>1, <1>2, PTL DEF Spec

\* The variables hold what their comments say, from when the page is loaded until
\* the reader starts a run beside another or types into a row left behind
\* (web/wwwroot/main.js and playground.js).
THEOREM RunTyped == Spec => [](~hasty => TypeOK)
  <1>1. (~hasty => RunInv) => (~hasty => TypeOK)
    BY DEF RunInv, Typed
  <1> QED BY <1>1, RunHolds, PTL

\* What the page shows of a run while it runs is a beginning of what its program
\* wrote, and when it is over it shows all of that and nothing of another run's.
THEOREM RunOutput == Spec => []OutputIsItsOwn
  <1>1. (~hasty => RunInv) => OutputIsItsOwn
    <2> SUFFICES ASSUME ~hasty, RunInv, NEW r \in Runs
                 PROVE  /\ Phase(r) = "running" =>
                              IsPrefix(page[r].live, Own(r, program[r].wrote))
                        /\ Phase(r) = "over" => page[r].text = Own(r, program[r].wrote)
      BY DEF OutputIsItsOwn
    <2>1. CASE Phase(r) = "running"
      <3>1. /\ page[r].shown \in Nat /\ control.written \in Nat /\ program[r].wrote \in Nat
        BY TypedFacts, PageFacts DEF RunInv, Threads
      <3>2. /\ page[r].shown <= control.written /\ control.written <= program[r].wrote
            /\ page[r].live = Own(r, page[r].shown)
        BY <2>1 DEF RunInv, Running, Counted
      <3>3. page[r].shown <= program[r].wrote
        BY <3>1, <3>2
      <3> QED BY <2>1, <3>1, <3>2, <3>3, OwnPrefix
    <2>2. CASE Phase(r) # "running"
      BY <2>2 DEF RunInv, Settled
    <2> QED BY <2>1, <2>2
  <1> QED BY <1>1, RunHolds, PTL

\* The lines a program reads are those typed for it, in order and whole.
THEOREM RunInput == Spec => []AnswersInOrder
  <1>1. (~hasty => RunInv) => AnswersInOrder
    <2> SUFFICES ASSUME ~hasty, RunInv, NEW r \in Runs
                 PROVE  IsPrefix(program[r].got, sent[r])
      BY DEF AnswersInOrder
    <2>1. program[r].got \in Seq(Answers)
      BY TypedFacts DEF RunInv, Threads
    <2>2. CASE program[r].got = sent[r]
      <3>1. PICK q, S : q = program[r].got /\ S = Answers
        OBVIOUS
      <3>2. IsPrefix(q, q)
        BY <2>1, <3>1 DEF IsPrefix
      <3> QED BY <2>2, <3>1, <3>2
    <2>3. CASE \E line : Unfetched(r, line)
      BY <2>1, <2>3, PrefixFacts DEF Unfetched
    <2>4. program[r].got = sent[r] \/ \E line : Unfetched(r, line)
      <3>1. CASE Phase(r) = "running"
        BY <3>1 DEF RunInv, Typed, Threads, Running, Handshake, Unasked, Asked, Underway,
                    Delivered
      <3>2. CASE Phase(r) # "running"
        BY <3>2 DEF RunInv, Settled
      <3> QED BY <3>1, <3>2
    <2> QED BY <2>2, <2>3, <2>4
  <1> QED BY <1>1, RunHolds, PTL

\* When the page believes that a program waits one does, and is not answered yet.
THEOREM RunWaiting == Spec => []WaitingIsHonest
  <1>1. (~hasty => RunInv) => WaitingIsHonest
    <2> SUFFICES ASSUME ~hasty, RunInv, waiting
                 PROVE  \E r \in Runs : /\ Phase(r) = "running" /\ program[r].pc = "wait"
                                        /\ ~control.ready
      BY DEF WaitingIsHonest, At
    <2>1. PICK r \in Runs : Phase(r) = "running"
      BY DEF RunInv, Quiet
    <2>2. Running(r) /\ program[r] \in Threads
      BY <2>1 DEF RunInv, Typed
    <2>3. program[r].pc = "wait" /\ ~control.ready
      BY <2>2 DEF Running, Handshake, Unasked, Asked, Underway, Delivered, Threads
    <2> QED BY <2>1, <2>3
  <1> QED BY <1>1, RunHolds, PTL

\* What run() says of the moment it sets the counters back: no program runs that
\* could count them up; if the reader has not been hasty before, which makes it
\* false (RunChannelHasty.cfg).
THEOREM RunReset ==
    Spec => [][~hasty => \A r \in Runs : Phase(r) = "starting" /\ Phase(r)' = "running"
                             => \A q \in Runs : program[q].pc \in {"new", "over"}]_vars
  <1> DEFINE Reset == ~hasty => \A r \in Runs : Phase(r) = "starting" /\ Phase(r)' = "running"
                                    => \A q \in Runs : program[q].pc \in {"new", "over"}
  <1>1. (~hasty => RunInv) => Reset
    <2> SUFFICES ASSUME RunInv, NEW r \in Runs, Phase(r) = "starting", NEW q \in Runs
                 PROVE  program[q].pc \in {"new", "over"}
      OBVIOUS
    <2>1. Active(r) /\ Phase(r) # "running"
      BY DEF Active
    <2>2. Unborn.pc = "new"
      BY DEF Unborn
    <2> QED BY <2>1, <2>2, NobodyRuns DEF Settled
  <1>2. (~hasty => RunInv) => [Reset]_vars
    BY <1>1
  <1> QED BY <1>2, RunHolds, PTL

-----------------------------------------------------------------------------
(* The promises of Console.                                                  *)

\* The variables of Console, as they are seen here.
StageOf == [q \in Runs |-> Stage(q)]
WrittenOf == [q \in Runs |-> Own(q, program[q].wrote)]
ScreenOf == [q \in Runs |-> OnScreen(q)]
ReadOf == [q \in Runs |-> program[q].got]

\* The button says Stop only while a program runs.
ButtonInv == status = "running" => \E r \in Runs : Phase(r) = "running"

\* What a compilation ends with, a run that runs is not.
LEMMA CompileAnswers ==
    ASSUME NEW r \in Runs, CompileEnds(r)
    PROVE  /\ status' # "running"
           /\ \E to \in {"asking", "over", "starting"} : page' = [page EXCEPT ![r].phase = to]
  <1>1. PICK end \in {<<"unauthorized", "asking">>, <<"busy", "over">>, <<"failed", "over">>,
                     <<"error", "over">>, <<"starting runtime", "starting">>} :
            status' = end[1] /\ page' = [page EXCEPT ![r].phase = end[2]]
    BY DEF CompileEnds
  <1>2. end[1] # "running" /\ end[2] \in {"asking", "over", "starting"}
    <2>1. CASE end = <<"unauthorized", "asking">>
      BY <2>1
    <2>2. CASE end = <<"busy", "over">>
      BY <2>2
    <2>3. CASE end = <<"failed", "over">>
      BY <2>3
    <2>4. CASE end = <<"error", "over">>
      BY <2>4
    <2>5. CASE end = <<"starting runtime", "starting">>
      BY <2>5
    <2> QED BY <1>1, <2>1, <2>2, <2>3, <2>4, <2>5
  <1> QED BY <1>1, <1>2

\* Every step keeps that, and so does none, while the reader is not hasty and when
\* the page is loaded again.
LEMMA ButtonStep ==
    ASSUME ~hasty => RunInv /\ ButtonInv, ~hasty', [Next]_vars
    PROVE  ButtonInv'
  <1>5. CASE StopsPage
    BY <1>5 DEF StopsPage, ButtonInv
  <1> SUFFICES ASSUME RunInv, ButtonInv
               PROVE  ButtonInv'
    BY <1>5, HasteEnds
  <1>0. page \in [Runs -> [phase : {"new", "compiling", "asking", "starting", "running",
                                    "over", "gone"},
                           shown : Nat, answered : Nat, live : Texts, text : Texts]]
    BY PageFacts DEF RunInv
  <1>1. ASSUME NEW r \in Runs, Starts(r) \/ CompileEnds(r) \/ Ends(r)
        PROVE  ButtonInv'
    <2>1. status' # "running"
      <3>1. Starts(r) => status' # "running"
        BY DEF Starts
      <3>2. CompileEnds(r) => status' # "running"
        BY CompileAnswers
      <3>3. Ends(r) => status' # "running"
        BY DEF Ends
      <3> QED BY <1>1, <3>1, <3>2, <3>3
    <2> QED BY <2>1 DEF ButtonInv
  <1>2. ASSUME NEW r \in Runs, TokenAnswered(r)
        PROVE  ButtonInv'
    <2>1. Active(r) /\ Phase(r) # "running"
      BY <1>2 DEF TokenAnswered, Active
    <2>2. status # "running"
      BY <2>1, NobodyRuns DEF ButtonInv
    <2>3. status' # "running"
      BY <1>2, <2>2 DEF TokenAnswered
    <2> QED BY <2>3 DEF ButtonInv
  <1>3. ASSUME NEW r \in Runs, RuntimeStarts(r)
        PROVE  ButtonInv'
    <2>1. status' = "error" \/ page' = [page EXCEPT ![r].phase = "running"]
      BY <1>3 DEF RuntimeStarts
    <2> QED BY <1>0, <2>1 DEF ButtonInv, Phase
  <1>4. ASSUME NEW r \in Runs, Poll(r)
        PROVE  ButtonInv'
    <2>1. status' = status /\ \A q \in Runs : Phase(q)' = Phase(q)
      BY <1>0, <1>4 DEF Poll, Phase
    <2> QED BY <2>1 DEF ButtonInv
  <1>6. ASSUME UNCHANGED <<status, page>>
        PROVE  ButtonInv'
    BY <1>6 DEF ButtonInv, Phase
  <1>7. ASSUME NEW line \in Lines \cup {End}, Types(line)
        PROVE  UNCHANGED <<status, page>>
    BY <1>7 DEF Types
  <1>8. Sends \/ StopsInput \/ UNCHANGED vars => UNCHANGED <<status, page>>
    BY DEF Sends, StopsInput, vars
  <1>9. ASSUME NEW r \in Runs, Thread(r) \/ Writes(r) \/ Reads(r) \/ Finishes(r)
        PROVE  UNCHANGED <<status, page>>
    BY <1>9 DEF Thread, Writes, Reads, Finishes, Enters, Publishes, Prepares, Hears, Takes,
                Clears, Fetches, Echoes, Emits, pageVars
  <1> QED BY <1>1, <1>2, <1>3, <1>4, <1>5, <1>6, <1>7, <1>8, <1>9 DEF Next

\* Console's beginnings are the ones meant here.
LEMMA SamePrefix == \A s, t : IsPrefix(s, t) => Console!IsPrefix(s, t)
  BY DEF IsPrefix, Console!IsPrefix

\* A step of one run changes what is seen of that run only.
LEMMA SeenOfOne ==
    ASSUME NEW r \in Runs,
           \A q \in Runs \ {r} : page'[q] = page[q] /\ program'[q] = program[q]
    PROVE  /\ StageOf' = [StageOf EXCEPT ![r] = Stage(r)']
           /\ WrittenOf' = [WrittenOf EXCEPT ![r] = Own(r, program'[r].wrote)]
           /\ ScreenOf' = [ScreenOf EXCEPT ![r] = OnScreen(r)']
           /\ ReadOf' = [ReadOf EXCEPT ![r] = program'[r].got]
  <1>1. \A q \in Runs \ {r} : Stage(q)' = Stage(q) /\ OnScreen(q)' = OnScreen(q)
    BY DEF Stage, OnScreen, Phase, At
  <1>2. StageOf' = [StageOf EXCEPT ![r] = Stage(r)']
    BY <1>1 DEF StageOf
  <1>3. ScreenOf' = [ScreenOf EXCEPT ![r] = OnScreen(r)']
    BY <1>1 DEF ScreenOf
  <1>4. ReadOf' = [ReadOf EXCEPT ![r] = program'[r].got]
    BY DEF ReadOf
  <1>5. WrittenOf' = [WrittenOf EXCEPT ![r] = Own(r, program'[r].wrote)]
    BY DEF WrittenOf, Own
  <1> QED BY <1>2, <1>3, <1>4, <1>5

\* What is seen of a run, where it is.
LEMMA SeenAt ==
    ASSUME NEW r \in Runs
    PROVE  /\ StageOf[r] = Stage(r) /\ WrittenOf[r] = Own(r, program[r].wrote)
           /\ ScreenOf[r] = OnScreen(r) /\ ReadOf[r] = program[r].got
  BY DEF StageOf, WrittenOf, ScreenOf, ReadOf

\* A step that changes nothing of what is seen is none of Console's.
LEMMA SeenAlike ==
    ASSUME StageOf' = StageOf, WrittenOf' = WrittenOf, ScreenOf' = ScreenOf,
           ReadOf' = ReadOf, sent' = sent
    PROVE  [Console!ConsoleNext]_(Console!consoleVars)
  BY DEF Console!consoleVars, StageOf, WrittenOf, ScreenOf, ReadOf

\* A step of the page or a thread that leaves a run at its stage, with what it
\* wrote, shows and has read, is none of Console's.
LEMMA UnseenStep ==
    ASSUME NEW r \in Runs,
           \A q \in Runs \ {r} : page'[q] = page[q] /\ program'[q] = program[q],
           Stage(r)' = Stage(r), OnScreen(r)' = OnScreen(r), sent' = sent,
           program'[r].wrote = program[r].wrote, program'[r].got = program[r].got
    PROVE  [Console!ConsoleNext]_(Console!consoleVars)
  <1>1. StageOf' = StageOf /\ ScreenOf' = ScreenOf
    BY SeenOfOne, SeenAt DEF StageOf, ScreenOf
  <1>2. ReadOf' = ReadOf
    BY SeenOfOne, SeenAt DEF ReadOf
  <1>3. WrittenOf' = WrittenOf
    BY SeenOfOne, SeenAt DEF WrittenOf
  <1> QED BY <1>1, <1>2, <1>3, SeenAlike

\* A run whose program runs, seen from the front.
LEMMA RunningSeen ==
    ASSUME RunInv, NEW r \in Runs, program[r].pc \notin {"new", "over"}
    PROVE  /\ Stage(r) = "running" /\ OnScreen(r) = page[r].live
           /\ page' = page => OnScreen(r)' = OnScreen(r)
           /\ page' = page /\ program'[r].pc # "over" => Stage(r)' = "running"
           /\ page' = page /\ program'[r].pc = "over" => Stage(r)' = "ended"
  BY ThreadRuns DEF Stage, OnScreen, Phase, At

\* A step of a program's thread that is not seen.
LEMMA ThreadUnseen ==
    ASSUME RunInv, NEW r \in Runs, program[r].pc \notin {"new", "over"},
           program'[r].pc # "over",
           \A q \in Runs \ {r} : program'[q] = program[q],
           UNCHANGED <<pageVars, sent>>,
           program'[r].wrote = program[r].wrote, program'[r].got = program[r].got
    PROVE  [Console!ConsoleNext]_(Console!consoleVars)
  <1>1. page' = page /\ sent' = sent
    BY DEF pageVars
  <1> QED BY <1>1, RunningSeen, UnseenStep

\* A run that does not come to running.
LEMMA RefuseSeen ==
    ASSUME NEW r \in Runs, Stage(r) = "before", Stage(r)' \in {"before", "after"},
           OnScreen(r)' = OnScreen(r), UNCHANGED <<program, sent>>,
           \A q \in Runs \ {r} : page'[q] = page[q]
    PROVE  [Console!ConsoleNext]_(Console!consoleVars)
  <1>1. CASE Stage(r)' = "before"
    BY <1>1, UnseenStep
  <1>2. CASE Stage(r)' = "after"
    <2>1. /\ StageOf' = [StageOf EXCEPT ![r] = "after"] /\ StageOf[r] = "before"
          /\ WrittenOf' = WrittenOf /\ ReadOf' = ReadOf
      BY <1>2, SeenOfOne, SeenAt DEF WrittenOf, ReadOf, Own
    <2>2. ScreenOf' = ScreenOf
      BY SeenOfOne, SeenAt DEF ScreenOf
    <2>3. Console!Refuse(r)
      BY <2>1, <2>2 DEF Console!Refuse, StageOf, WrittenOf, ScreenOf, ReadOf
    <2> QED BY <2>3 DEF Console!ConsoleNext
  <1> QED BY <1>1, <1>2

\* A run is started, or is too big to be.
LEMMA StartsSeen ==
    ASSUME RunInv, NEW r \in Runs, Starts(r)
    PROVE  [Console!ConsoleNext]_(Console!consoleVars)
  <1>1. PICK to \in {"over", "compiling"} : page' = [page EXCEPT ![r].phase = to]
    BY DEF Starts
  <1>2. Phase(r) = "new" /\ UNCHANGED <<program, sent>>
    BY DEF Starts, programVars
  <1>3. /\ page'[r].phase = to /\ page'[r].text = page[r].text
        /\ \A q \in Runs \ {r} : page'[q] = page[q]
    BY <1>1, PageFacts DEF RunInv
  <1>4. Stage(r) = "before" /\ Stage(r)' \in {"before", "after"} /\ OnScreen(r)' = OnScreen(r)
    BY <1>2, <1>3 DEF Stage, OnScreen, Phase
  <1> QED BY <1>2, <1>3, <1>4, RefuseSeen

\* A run goes from one point of its preparation to another, or is over.
LEMMA PreparedSeen ==
    ASSUME RunInv, NEW r \in Runs, Phase(r) \in {"compiling", "asking", "starting"},
           NEW to \in {"compiling", "asking", "starting", "over"},
           page' = [page EXCEPT ![r].phase = to], UNCHANGED <<program, sent>>
    PROVE  [Console!ConsoleNext]_(Console!consoleVars)
  <1>1. /\ page'[r].phase = to /\ page'[r].text = page[r].text
        /\ \A q \in Runs \ {r} : page'[q] = page[q]
    BY PageFacts DEF RunInv
  <1>2. Stage(r) = "before" /\ Stage(r)' \in {"before", "after"} /\ OnScreen(r)' = OnScreen(r)
    BY <1>1 DEF Stage, OnScreen, Phase
  <1> QED BY <1>1, <1>2, RefuseSeen

\* A run's program is called: it has the console, and nobody else has.
LEMMA RuntimeStartsSeen ==
    ASSUME RunInv, NEW r \in Runs, RuntimeStarts(r)
    PROVE  [Console!ConsoleNext]_(Console!consoleVars)
  <1>1. /\ Phase(r) = "starting" /\ Active(r) /\ sent' = sent
        /\ page \in [Runs -> [phase : {"new", "compiling", "asking", "starting", "running",
                                       "over", "gone"},
                              shown : Nat, answered : Nat, live : Texts, text : Texts]]
        /\ program \in [Runs -> Threads]
    BY PageFacts DEF RuntimeStarts, Active, RunInv, Typed
  <1>2. CASE page' = [page EXCEPT ![r].phase = "over"] /\ UNCHANGED program
    BY <1>1, <1>2, PreparedSeen
  <1>3. CASE /\ page' = [page EXCEPT ![r].phase = "running"]
             /\ program' = [program EXCEPT ![r].pc = "called"]
    <2>1. \A q \in Runs : Phase(q) # "running" /\ Settled(q)
      BY <1>1, NobodyRuns
    <2>2. \A q \in Runs : Stage(q) \in {"before", "after"}
      BY <2>1 DEF Stage
    <2>3. page[r] = [Idle EXCEPT !.phase = "starting"]
      BY <1>1, <2>1 DEF Settled
    <2>4. page[r].live = page[r].text
      BY <2>3 DEF Idle
    <2>5. /\ page'[r].phase = "running" /\ page'[r].live = page[r].live
          /\ program'[r].pc = "called" /\ program'[r].wrote = program[r].wrote
          /\ program'[r].got = program[r].got
          /\ \A q \in Runs \ {r} : page'[q] = page[q] /\ program'[q] = program[q]
      BY <1>1, <1>3 DEF Threads
    <2>6. Stage(r) = "before" /\ Stage(r)' = "running" /\ OnScreen(r)' = OnScreen(r)
      BY <1>1, <2>4, <2>5 DEF Stage, OnScreen, Phase, At
    <2>7. StageOf' = [StageOf EXCEPT ![r] = "running"] /\ StageOf[r] = "before"
      BY <2>5, <2>6, SeenOfOne, SeenAt
    <2>8. \A q \in Runs : StageOf[q] \in {"before", "after"}
      BY <2>2, SeenAt
    <2>9. ScreenOf' = ScreenOf
      BY <2>5, <2>6, SeenOfOne, SeenAt DEF ScreenOf
    <2>10. ReadOf' = ReadOf
      BY <2>5, SeenOfOne, SeenAt DEF ReadOf
    <2>11. WrittenOf' = WrittenOf
      BY <2>5, SeenOfOne, SeenAt DEF WrittenOf
    <2>12. Console!Enter(r)
      BY <1>1, <2>7, <2>8, <2>9, <2>10, <2>11
         DEF Console!Enter, StageOf, WrittenOf, ScreenOf, ReadOf
    <2> QED BY <2>12 DEF Console!ConsoleNext
  <1> QED BY <1>2, <1>3 DEF RuntimeStarts

\* A look of the page shows more of what has been written.
LEMMA PollSeen ==
    ASSUME RunInv, NEW r \in Runs, Poll(r)
    PROVE  [Console!ConsoleNext]_(Console!consoleVars)
  <1>1. /\ Phase(r) = "running" /\ Running(r) /\ Typed /\ Phase(r)' = "running"
        /\ \A q \in Runs \ {r} : page'[q] = page[q]
        /\ UNCHANGED <<program, sent>>
    BY PageFacts DEF RunInv, Poll, Phase, programVars
  <1>2. Running(r)'
    BY <1>1, PollStep DEF RunInv
  <1>3. /\ page[r].shown <= control.written /\ page'[r].shown = control.written
        /\ control.written <= program[r].wrote
        /\ page[r].live = Own(r, page[r].shown)
        /\ page[r].shown \in Nat /\ control.written \in Nat /\ program[r].wrote \in Nat
    <2>1. /\ page[r].shown <= control.written /\ control.written <= program[r].wrote
          /\ page[r].live = Own(r, page[r].shown)
          /\ page[r].shown \in Nat /\ control.written \in Nat /\ program[r].wrote \in Nat
      BY <1>1, TypedFacts, PageFacts DEF Running, Counted, Threads
    <2>2. page'[r].shown = IF control.written > page[r].shown THEN control.written
                           ELSE page[r].shown
      BY <1>1, PageFacts DEF Poll
    <2> QED BY <2>1, <2>2
  <1>4. page'[r].live = Own(r, control.written)
    <2>1. page'[r].live = Own(r, page'[r].shown)
      BY <1>2 DEF Running, Counted, Own
    <2> QED BY <1>3, <2>1
  <1>5. /\ IsPrefix(Own(r, page[r].shown), Own(r, control.written))
        /\ IsPrefix(Own(r, control.written), Own(r, program[r].wrote))
    BY <1>3, OwnPrefix
  <1>6. /\ OnScreen(r) = Own(r, page[r].shown) /\ OnScreen(r)' = Own(r, control.written)
        /\ Stage(r)' = Stage(r) /\ Stage(r) \in {"running", "ended"}
    BY <1>1, <1>3, <1>4 DEF OnScreen, Stage, Phase, At
  <1>7. /\ ScreenOf' = [ScreenOf EXCEPT ![r] = OnScreen(r)']
        /\ ScreenOf[r] = OnScreen(r) /\ WrittenOf[r] = Own(r, program[r].wrote)
        /\ StageOf[r] \in {"running", "ended"}
    BY <1>1, <1>6, SeenOfOne, SeenAt
  <1>8. ScreenOf'[r] = OnScreen(r)'
    BY <1>7 DEF ScreenOf
  <1>9. StageOf' = StageOf
    BY <1>1, <1>6, SeenOfOne, SeenAt DEF StageOf
  <1>10. WrittenOf' = WrittenOf /\ ReadOf' = ReadOf
    BY <1>1 DEF WrittenOf, ReadOf, Own
  <1>11. /\ IsPrefix(ScreenOf[r], ScreenOf'[r]) /\ IsPrefix(ScreenOf'[r], WrittenOf[r])
         /\ ScreenOf' = [ScreenOf EXCEPT ![r] = ScreenOf'[r]]
    BY <1>5, <1>6, <1>7, <1>8
  <1>12. Console!Show(r)
    <2>1. /\ Console!IsPrefix(ScreenOf[r], ScreenOf'[r])
          /\ Console!IsPrefix(ScreenOf'[r], WrittenOf[r])
      BY <1>11, SamePrefix
    <2> QED BY <1>1, <1>7, <1>9, <1>10, <1>11, <2>1
            DEF Console!Show, StageOf, WrittenOf, ScreenOf, ReadOf
  <1> QED BY <1>12 DEF Console!ConsoleNext

\* The page settles on all that was written.
LEMMA EndsSeen ==
    ASSUME RunInv, NEW r \in Runs, Ends(r)
    PROVE  [Console!ConsoleNext]_(Console!consoleVars)
  <1>1. /\ Phase(r) = "running" /\ program[r].pc = "over"
        /\ program[r].captured = Own(r, program[r].wrote)
        /\ page' = [page EXCEPT ![r].phase = "over", ![r].text = program[r].captured]
        /\ UNCHANGED <<program, sent>>
    BY DEF RunInv, Ends, At, programVars
  <1>2. /\ page'[r].phase = "over" /\ page'[r].text = Own(r, program[r].wrote)
        /\ \A q \in Runs \ {r} : page'[q] = page[q]
    BY <1>1, PageFacts DEF RunInv
  <1>3. Stage(r) = "ended" /\ Stage(r)' = "after" /\ OnScreen(r)' = Own(r, program[r].wrote)
    BY <1>1, <1>2 DEF Stage, OnScreen, Phase, At
  <1>4. /\ StageOf' = [StageOf EXCEPT ![r] = "after"] /\ StageOf[r] = "ended"
        /\ ScreenOf' = [ScreenOf EXCEPT ![r] = WrittenOf[r]]
    <2>1. \A q \in Runs \ {r} : page'[q] = page[q] /\ program'[q] = program[q]
      BY <1>1, <1>2
    <2>2. /\ StageOf' = [StageOf EXCEPT ![r] = Stage(r)']
          /\ ScreenOf' = [ScreenOf EXCEPT ![r] = OnScreen(r)']
      BY <2>1, SeenOfOne
    <2> QED BY <1>3, <2>2, SeenAt
  <1>5. WrittenOf' = WrittenOf /\ ReadOf' = ReadOf
    BY <1>1 DEF WrittenOf, ReadOf, Own
  <1>6. Console!Settle(r)
    BY <1>1, <1>4, <1>5 DEF Console!Settle, StageOf, WrittenOf, ScreenOf, ReadOf
  <1> QED BY <1>6 DEF Console!ConsoleNext

\* What is typed is an answer to a program that has read all there was.
LEMMA AnswerSeen ==
    ASSUME RunInv, waiting, sending = NoLine, NEW line \in Answers,
           sent' = [sent EXCEPT ![box] = Append(@, line)],
           UNCHANGED <<page, program>>
    PROVE  [Console!ConsoleNext]_(Console!consoleVars)
  <1>1. PICK r \in Runs : /\ Phase(r) = "running" /\ program[r].pc = "wait" /\ Asked(r)
    BY WhoWaits
  <1>2. box = r /\ program[r].got = sent[r]
    BY <1>1 DEF Asked
  <1>3. StageOf[r] = "running" /\ ReadOf[r] = sent[r]
    BY <1>1, <1>2, SeenAt DEF Stage, At
  <1>4. StageOf' = StageOf /\ WrittenOf' = WrittenOf /\ ScreenOf' = ScreenOf /\ ReadOf' = ReadOf
    BY DEF StageOf, WrittenOf, ScreenOf, ReadOf, Stage, OnScreen, Phase, At, Own
  <1>5. sent' = [sent EXCEPT ![r] = Append(@, line)]
    BY <1>2
  <1>6. Console!Answer(r)
    BY <1>3, <1>4, <1>5 DEF Console!Answer, StageOf, WrittenOf, ScreenOf, ReadOf
  <1> QED BY <1>6 DEF Console!ConsoleNext

\* The page is loaded again: what was seen is gone.
LEMMA StopsPageSeen ==
    ASSUME RunInv, ButtonInv, StopsPage
    PROVE  [Console!ConsoleNext]_(Console!consoleVars)
  <1>1. PICK r \in Runs : Phase(r) = "running"
    BY DEF ButtonInv, StopsPage
  <1>2. \A q \in Runs \ {r} : Phase(q) \in {"new", "over", "gone"}
    BY <1>1 DEF RunInv, Alone, Active
  <1>3. /\ page' = [q \in Runs |-> IF Phase(q) = "new" THEN Idle
                                   ELSE [Idle EXCEPT !.phase = "gone"]]
        /\ program' = [q \in Runs |-> Unborn] /\ sent' = [q \in Runs |-> <<>>]
    BY DEF StopsPage
  <1>4. \A q \in Runs : /\ program'[q].wrote = 0 /\ program'[q].got = <<>>
                        /\ page'[q].phase = (IF Phase(q) = "new" THEN "new" ELSE "gone")
                        /\ page'[q].text = <<>>
    <2> TAKE q \in Runs
    <2>1. program'[q].wrote = 0 /\ program'[q].got = <<>>
      BY <1>3 DEF Unborn
    <2>2. page'[q].phase = (IF Phase(q) = "new" THEN "new" ELSE "gone") /\ page'[q].text = <<>>
      BY <1>3 DEF Idle
    <2> QED BY <2>1, <2>2
  <1>5. \A q \in Runs : /\ Stage(q)' = (IF Phase(q) = "new" THEN "before" ELSE "after")
                        /\ OnScreen(q)' = <<>>
    BY <1>4 DEF Stage, OnScreen, Phase
  <1>6. Stage(r) \in {"running", "ended"} /\ Stage(r)' = "after"
    BY <1>1, <1>5 DEF Stage
  <1>7. \A q \in Runs \ {r} : Stage(q)' = Stage(q)
    BY <1>2, <1>5 DEF Stage
  <1>8. StageOf' = [StageOf EXCEPT ![r] = "after"] /\ StageOf[r] \in {"running", "ended"}
    BY <1>6, <1>7 DEF StageOf
  <1>9. /\ ScreenOf' = [q \in Runs |-> <<>>] /\ ReadOf' = [q \in Runs |-> <<>>]
    BY <1>4, <1>5 DEF ScreenOf, ReadOf
  <1>10. WrittenOf' = [q \in Runs |-> <<>>]
    <2>1. \A q \in Runs : Own(q, program'[q].wrote) = <<>>
      BY <1>4, OwnNone
    <2> QED BY <2>1 DEF WrittenOf, Own
  <1>11. Console!Reload(r)
    BY <1>3, <1>8, <1>9, <1>10
       DEF Console!Reload, Console!Empty, StageOf, WrittenOf, ScreenOf, ReadOf
  <1> QED BY <1>11 DEF Console!ConsoleNext

\* A step of a program's thread that writes n characters more.
LEMMA WritesSeen ==
    ASSUME RunInv, NEW r \in Runs, program[r].pc \notin {"new", "over"},
           program'[r].pc # "over",
           \A q \in Runs \ {r} : program'[q] = program[q],
           UNCHANGED <<pageVars, sent>>, NEW n \in Nat,
           program'[r].wrote = program[r].wrote + n, program'[r].got = program[r].got
    PROVE  [Console!ConsoleNext]_(Console!consoleVars)
  <1>1. page' = page /\ sent' = sent /\ program[r].wrote \in Nat
    BY ThreadRuns DEF pageVars, Threads
  <1>2. IsPrefix(Own(r, program[r].wrote), Own(r, program[r].wrote + n))
    <2>1. PICK m : m = program[r].wrote
      OBVIOUS
    <2>2. m \in Nat /\ m + n \in Nat /\ m <= m + n
      BY <1>1, <2>1
    <2>3. IsPrefix(Own(r, m), Own(r, m + n))
      BY <2>2, OwnPrefix
    <2> QED BY <2>1, <2>3
  <1>3. Stage(r) = "running" /\ Stage(r)' = "running" /\ OnScreen(r)' = OnScreen(r)
    BY <1>1, RunningSeen
  <1>4. /\ StageOf' = [StageOf EXCEPT ![r] = Stage(r)']
        /\ WrittenOf' = [WrittenOf EXCEPT ![r] = Own(r, program'[r].wrote)]
        /\ ScreenOf' = [ScreenOf EXCEPT ![r] = OnScreen(r)']
        /\ ReadOf' = [ReadOf EXCEPT ![r] = program'[r].got]
    BY <1>1, SeenOfOne
  <1>5. StageOf' = StageOf /\ ScreenOf' = ScreenOf /\ ReadOf' = ReadOf /\ StageOf[r] = "running"
    <2>1. StageOf' = StageOf /\ StageOf[r] = "running"
      BY <1>3, <1>4, SeenAt DEF StageOf
    <2>2. ScreenOf' = ScreenOf
      BY <1>3, <1>4, SeenAt DEF ScreenOf
    <2>3. ReadOf' = ReadOf
      BY <1>4, SeenAt DEF ReadOf
    <2> QED BY <2>1, <2>2, <2>3
  <1>6. WrittenOf'[r] = Own(r, program[r].wrote + n)
    BY <1>4 DEF WrittenOf
  <1>7. /\ Console!IsPrefix(WrittenOf[r], WrittenOf'[r])
        /\ WrittenOf' = [WrittenOf EXCEPT ![r] = WrittenOf'[r]]
    BY <1>2, <1>4, <1>6, SeenAt, SamePrefix
  <1>8. Console!Write(r)
    BY <1>1, <1>5, <1>7
       DEF Console!Write, Console!WritesMore, StageOf, WrittenOf, ScreenOf, ReadOf
  <1> QED BY <1>8 DEF Console!ConsoleNext

\* A program that ends has read all that was typed, and may have written more.
LEMMA FinishSeen ==
    ASSUME RunInv, NEW r \in Runs, program[r].pc \in {"called", "free"},
           program'[r].pc = "over",
           \A q \in Runs \ {r} : program'[q] = program[q],
           UNCHANGED <<pageVars, sent>>, NEW n \in Nat,
           program'[r].wrote = program[r].wrote + n, program'[r].got = program[r].got
    PROVE  [Console!ConsoleNext]_(Console!consoleVars)
  <1>1. page' = page /\ sent' = sent /\ program[r].wrote \in Nat /\ program[r].got = sent[r]
    BY ThreadRuns DEF pageVars, Threads, Running, Handshake, Unasked
  <1>2. IsPrefix(Own(r, program[r].wrote), Own(r, program[r].wrote + n))
    <2>1. PICK m : m = program[r].wrote
      OBVIOUS
    <2>2. m \in Nat /\ m + n \in Nat /\ m <= m + n
      BY <1>1, <2>1
    <2>3. IsPrefix(Own(r, m), Own(r, m + n))
      BY <2>2, OwnPrefix
    <2> QED BY <2>1, <2>3
  <1>3. Stage(r) = "running" /\ Stage(r)' = "ended" /\ OnScreen(r)' = OnScreen(r)
    BY <1>1, RunningSeen
  <1>4. /\ StageOf' = [StageOf EXCEPT ![r] = Stage(r)']
        /\ WrittenOf' = [WrittenOf EXCEPT ![r] = Own(r, program'[r].wrote)]
        /\ ScreenOf' = [ScreenOf EXCEPT ![r] = OnScreen(r)']
        /\ ReadOf' = [ReadOf EXCEPT ![r] = program'[r].got]
    BY <1>1, SeenOfOne
  <1>5. /\ StageOf' = [StageOf EXCEPT ![r] = "ended"] /\ StageOf[r] = "running"
        /\ ReadOf[r] = sent[r]
    BY <1>1, <1>3, <1>4, SeenAt
  <1>6. ScreenOf' = ScreenOf /\ ReadOf' = ReadOf
    <2>1. ScreenOf' = ScreenOf
      BY <1>3, <1>4, SeenAt DEF ScreenOf
    <2>2. ReadOf' = ReadOf
      BY <1>4, SeenAt DEF ReadOf
    <2> QED BY <2>1, <2>2
  <1>7. WrittenOf'[r] = Own(r, program[r].wrote + n)
    BY <1>4 DEF WrittenOf
  <1>8. /\ Console!IsPrefix(WrittenOf[r], WrittenOf'[r])
        /\ WrittenOf' = [WrittenOf EXCEPT ![r] = WrittenOf'[r]]
    BY <1>2, <1>4, <1>7, SeenAt, SamePrefix
  <1>9. Console!Finish(r)
    BY <1>1, <1>5, <1>6, <1>8
       DEF Console!Finish, Console!WritesMore, StageOf, WrittenOf, ScreenOf, ReadOf
  <1> QED BY <1>9 DEF Console!ConsoleNext

\* The line that is fetched is the next one typed.
LEMMA FetchesSeen ==
    ASSUME RunInv, NEW r \in Runs, Fetches(r)
    PROVE  [Console!ConsoleNext]_(Console!consoleVars)
  <1> DEFINE t == program[r]
  <1>1. /\ Phase(r) = "running" /\ Running(r) /\ t \in Threads /\ t.pc = "fetch"
        /\ program \in [Runs -> Threads]
    BY ThreadRuns DEF Fetches, At
  <1>2. PICK line, text :
            /\ line \in Answers /\ sent[r] = Append(t.got, line)
            /\ program' = [program EXCEPT ![r].pc = IF t.length < 0 THEN "free" ELSE "echo",
                                          ![r].got = Append(@, text)]
    BY <1>1 DEF Fetches, Running, Handshake, Delivered, Unfetched
  <1>3. UNCHANGED <<page, sent>>
    BY DEF Fetches, pageVars
  <1>4. /\ \A q \in Runs \ {r} : program'[q] = program[q]
        /\ program'[r].pc # "over" /\ program'[r].wrote = t.wrote
        /\ program'[r].got = Append(t.got, text)
    BY <1>1, <1>2 DEF Threads
  <1>5. RunInv'
    BY FetchesStep
  <1>6. /\ program'[r].got = sent[r] /\ t.got \in Seq(Answers)
    <2>1. program'[r].pc \in {"free", "echo"}
      BY <1>1, <1>2 DEF Threads
    <2>2. Phase(r)' = "running"
      BY <1>1, <1>3 DEF Phase
    <2>3. Running(r)'
      BY <1>5, <2>2 DEF RunInv
    <2>4. program'[r].got = sent'[r]
      BY <2>1, <2>3 DEF Running, Handshake, Unasked
    <2> QED BY <1>1, <1>3, <2>4 DEF Threads
  <1>7. /\ Len(t.got) < Len(sent[r]) /\ sent[r] = Append(t.got, sent[r][Len(t.got) + 1])
    BY <1>2, <1>6
  <1>8. Stage(r) = "running" /\ Stage(r)' = Stage(r) /\ OnScreen(r)' = OnScreen(r)
    BY <1>1, <1>3, <1>4, RunningSeen
  <1>9. /\ StageOf' = [StageOf EXCEPT ![r] = Stage(r)']
        /\ WrittenOf' = [WrittenOf EXCEPT ![r] = Own(r, program'[r].wrote)]
        /\ ScreenOf' = [ScreenOf EXCEPT ![r] = OnScreen(r)']
        /\ ReadOf' = [ReadOf EXCEPT ![r] = program'[r].got]
    BY <1>3, <1>4, SeenOfOne
  <1>10. /\ StageOf' = StageOf /\ WrittenOf' = WrittenOf /\ ScreenOf' = ScreenOf
         /\ StageOf[r] = "running" /\ ReadOf[r] = t.got
    <2>1. StageOf' = StageOf /\ StageOf[r] = "running"
      BY <1>8, <1>9, SeenAt DEF StageOf
    <2>2. WrittenOf' = WrittenOf
      BY <1>4, <1>9, SeenAt DEF WrittenOf
    <2>3. ScreenOf' = ScreenOf
      BY <1>8, <1>9, SeenAt DEF ScreenOf
    <2> QED BY <2>1, <2>2, <2>3, SeenAt
  <1>11. /\ Len(ReadOf[r]) < Len(sent[r])
         /\ ReadOf' = [ReadOf EXCEPT ![r] = Append(ReadOf[r], sent[r][Len(ReadOf[r]) + 1])]
    BY <1>6, <1>7, <1>9, <1>10
  <1>12. Console!Read(r)
    BY <1>3, <1>10, <1>11 DEF Console!Read, StageOf, WrittenOf, ScreenOf, ReadOf
  <1> QED BY <1>12 DEF Console!ConsoleNext

\* A write, by a program that has its own writer.
LEMMA EmitsSeen ==
    ASSUME RunInv, NEW r \in Runs, program[r].pc \in {"free", "echo"},
           NEW n \in Nat, Emits(r, r, n)
    PROVE  [Console!ConsoleNext]_(Console!consoleVars)
  <1>1. program \in [Runs -> Threads] /\ program[r] \in Threads /\ r # NoRun
    BY ThreadRuns
  <1>2. PICK isLive \in BOOLEAN :
            \E chars :
               program' = [[program EXCEPT ![r].wrote = @ + n,
                                           ![r].pc = IF isLive THEN "publish" ELSE "free",
                                           ![r].from = control.written, ![r].count = n]
                              EXCEPT ![r].captured = @ \o chars]
    BY <1>1 DEF Emits
  <1>3. /\ \A q \in Runs \ {r} : program'[q] = program[q]
        /\ program'[r].wrote = program[r].wrote + n /\ program'[r].got = program[r].got
        /\ program'[r].pc # "over"
    BY <1>1, <1>2 DEF Threads
  <1>4. UNCHANGED <<pageVars, sent>>
    BY DEF Emits
  <1> QED BY <1>3, <1>4, WritesSeen

\* What a thread does by itself.
LEMMA ThreadSeen ==
    ASSUME RunInv, NEW r \in Runs, Thread(r)
    PROVE  [Console!ConsoleNext]_(Console!consoleVars)
  <1>0. program \in [Runs -> Threads]
    BY DEF RunInv, Typed
  <1>1. CASE Enters(r)
    <2>1. program[r].pc = "called" /\ UNCHANGED <<pageVars, sent>>
      BY <1>1 DEF Enters, At
    <2>2. program[r].wrote = 0
      BY <2>1, ThreadRuns DEF Running
    <2>3. CASE program' = [program EXCEPT ![r].pc = "free", ![r].previous = stdout]
      <3>1. /\ \A q \in Runs \ {r} : program'[q] = program[q]
            /\ program'[r].pc = "free" /\ program'[r].wrote = program[r].wrote
            /\ program'[r].got = program[r].got
        BY <1>0, <2>3 DEF Threads
      <3> QED BY <2>1, <3>1, ThreadUnseen
    <2>4. CASE program' = [program EXCEPT ![r].pc = "over", ![r].wrote = 1,
                                          ![r].captured = Own(r, 1)]
      <3>1. /\ \A q \in Runs \ {r} : program'[q] = program[q]
            /\ program'[r].pc = "over" /\ program'[r].wrote = program[r].wrote + 1
            /\ program'[r].got = program[r].got
        BY <1>0, <2>2, <2>4 DEF Threads
      <3>2. 1 \in Nat
        OBVIOUS
      <3> QED BY <2>1, <3>1, <3>2, FinishSeen
    <2> QED BY <1>1, <2>3, <2>4 DEF Enters
  <1>2. ASSUME NEW pc \in {"free", "take", "clear", "fetch", "wait"},
               NEW step, NEW length,
               program[r].pc \notin {"new", "over"}, UNCHANGED <<pageVars, sent>>,
               \/ program' = [program EXCEPT ![r].pc = pc]
               \/ program' = [program EXCEPT ![r].step = step]
               \/ program' = [program EXCEPT ![r].pc = pc, ![r].length = length]
        PROVE  [Console!ConsoleNext]_(Console!consoleVars)
    <2>1. /\ \A q \in Runs \ {r} : program'[q] = program[q]
          /\ program'[r].pc # "over" /\ program'[r].wrote = program[r].wrote
          /\ program'[r].got = program[r].got
      BY <1>0, <1>2 DEF Threads
    <2> QED BY <1>2, <2>1, ThreadUnseen
  <1>3. CASE Publishes(r)
    <2>1. /\ program[r].pc = "publish" /\ UNCHANGED <<pageVars, sent>>
          /\ program' = [program EXCEPT ![r].pc = "free"]
      BY <1>3 DEF Publishes, Goes, At
    <2> QED BY <1>2, <2>1
  <1>4. CASE Prepares(r)
    <2>1. /\ program[r].pc = "prepare" /\ UNCHANGED <<pageVars, sent>>
          /\ \/ program' = [program EXCEPT ![r].step = program[r].step + 1]
             \/ program' = [program EXCEPT ![r].pc = "wait"]
      BY <1>4 DEF Prepares, Goes, At
    <2> QED BY <1>2, <2>1
  <1>5. CASE Hears(r)
    <2>1. /\ program[r].pc = "wait" /\ UNCHANGED <<pageVars, sent>>
          /\ program' = [program EXCEPT ![r].pc = "take"]
      BY <1>5 DEF Hears, Goes, At
    <2> QED BY <1>2, <2>1
  <1>6. CASE Takes(r)
    <2>1. /\ program[r].pc = "take" /\ UNCHANGED <<pageVars, sent>>
          /\ program' = [program EXCEPT ![r].pc = "clear", ![r].length = control.length]
      BY <1>6 DEF Takes, At
    <2> QED BY <1>2, <2>1
  <1>7. CASE Clears(r)
    <2>1. /\ program[r].pc = "clear" /\ UNCHANGED <<pageVars, sent>>
          /\ program' = [program EXCEPT ![r].pc = "fetch"]
      BY <1>7 DEF Clears, Goes, At
    <2> QED BY <1>2, <2>1
  <1>8. CASE Echoes(r)
    <2>1. program[r].pc = "echo" /\ program[r].via = r /\ 1 \in Nat
      BY <1>8, ThreadRuns DEF Echoes, At, Running, Redirected
    <2> QED BY <1>8, <2>1, EmitsSeen DEF Echoes
  <1> QED BY <1>1, <1>3, <1>4, <1>5, <1>6, <1>7, <1>8, FetchesSeen DEF Thread

\* What its program does.
LEMMA ProgramSeen ==
    ASSUME RunInv, NEW r \in Runs, Writes(r) \/ Reads(r) \/ Finishes(r)
    PROVE  [Console!ConsoleNext]_(Console!consoleVars)
  <1>0. /\ program[r].pc = "free" /\ stdout = r /\ stdin = r /\ r # NoRun
        /\ program \in [Runs -> Threads]
    <2>1. program[r].pc = "free"
      BY DEF Writes, Reads, Finishes, At
    <2> QED BY <2>1, ThreadRuns DEF Running, Redirected
  <1>1. CASE Writes(r)
    <2>1. PICK n \in 1..MaxChars - program[r].wrote : Emits(r, r, n)
      BY <1>0, <1>1 DEF Writes
    <2>2. n \in Nat
      BY <1>0, TypedFacts DEF RunInv, Threads
    <2> QED BY <1>0, <2>1, <2>2, EmitsSeen
  <1>2. CASE Reads(r)
    <2>1. /\ UNCHANGED <<pageVars, sent>>
          /\ program' = [program EXCEPT ![r].pc = "prepare", ![r].step = 1, ![r].via = r]
      BY <1>0, <1>2 DEF Reads
    <2>2. /\ \A q \in Runs \ {r} : program'[q] = program[q]
          /\ program'[r].pc = "prepare" /\ program'[r].wrote = program[r].wrote
          /\ program'[r].got = program[r].got
      BY <1>0, <2>1 DEF Threads
    <2> QED BY <1>0, <2>1, <2>2, ThreadUnseen
  <1>3. CASE Finishes(r)
    <2>1. PICK n \in {0, 1} :
              \E chars : program' = [program EXCEPT ![r].pc = "over", ![r].wrote = @ + n,
                                                   ![r].captured = @ \o chars]
      BY <1>3 DEF Finishes
    <2>2. UNCHANGED <<pageVars, sent>>
      BY <1>3 DEF Finishes
    <2>3. /\ \A q \in Runs \ {r} : program'[q] = program[q]
          /\ program'[r].pc = "over" /\ program'[r].wrote = program[r].wrote + n
          /\ program'[r].got = program[r].got
      BY <1>0, <2>1 DEF Threads
    <2>4. n \in Nat
      OBVIOUS
    <2> QED BY <1>0, <2>2, <2>3, <2>4, FinishSeen
  <1> QED BY <1>1, <1>2, <1>3

\* Every step of a reader who is not hasty is one of Console's, or none.
LEMMA ConsoleStep ==
    ASSUME RunInv, ButtonInv, ~hasty', [Next]_vars
    PROVE  [Console!ConsoleNext]_(Console!consoleVars)
  <1>1. ASSUME NEW r \in Runs, CompileEnds(r)
        PROVE  [Console!ConsoleNext]_(Console!consoleVars)
    <2>1. /\ Phase(r) = "compiling" /\ UNCHANGED <<program, sent>>
      BY <1>1 DEF CompileEnds, programVars
    <2>2. PICK to \in {"asking", "over", "starting"} : page' = [page EXCEPT ![r].phase = to]
      BY <1>1, CompileAnswers
    <2> QED BY <2>1, <2>2, PreparedSeen
  <1>2. ASSUME NEW r \in Runs, TokenAnswered(r)
        PROVE  [Console!ConsoleNext]_(Console!consoleVars)
    <2>1. /\ Phase(r) = "asking" /\ UNCHANGED <<program, sent>>
      BY <1>2 DEF TokenAnswered, programVars
    <2>2. PICK to \in {"compiling", "over"} : page' = [page EXCEPT ![r].phase = to]
      BY <1>2 DEF TokenAnswered
    <2> QED BY <2>1, <2>2, PreparedSeen
  <1>3. ASSUME NEW line \in Lines \cup {End}, Types(line)
        PROVE  [Console!ConsoleNext]_(Console!consoleVars)
    <2>1. /\ waiting /\ sending = NoLine /\ line \in Answers
          /\ sent' = [sent EXCEPT ![box] = Append(@, line)] /\ UNCHANGED <<page, program>>
      BY <1>3 DEF Types, Answers, programVars
    <2> QED BY <2>1, AnswerSeen
  <1>4. ASSUME StopsInput
        PROVE  [Console!ConsoleNext]_(Console!consoleVars)
    <2>1. /\ waiting /\ sending = NoLine /\ End \in Answers
          /\ sent' = [sent EXCEPT ![box] = Append(@, End)] /\ UNCHANGED <<page, program>>
      BY <1>4 DEF StopsInput, Answers, programVars
    <2> QED BY <2>1, AnswerSeen
  <1>5. ASSUME Sends \/ UNCHANGED vars
        PROVE  [Console!ConsoleNext]_(Console!consoleVars)
    <2>1. UNCHANGED <<page, program, sent>>
      BY <1>5 DEF Sends, vars, programVars
    <2>2. /\ StageOf' = StageOf /\ WrittenOf' = WrittenOf /\ ScreenOf' = ScreenOf
          /\ ReadOf' = ReadOf
      BY <2>1 DEF StageOf, WrittenOf, ScreenOf, ReadOf, Stage, OnScreen, Phase, At, Own
    <2> QED BY <2>1, <2>2, SeenAlike
  <1>6. ASSUME NEW r \in Runs, \/ Starts(r) \/ CompileEnds(r) \/ TokenAnswered(r)
                               \/ RuntimeStarts(r) \/ Poll(r) \/ Ends(r) \/ Thread(r)
                               \/ Writes(r) \/ Reads(r) \/ Finishes(r)
        PROVE  [Console!ConsoleNext]_(Console!consoleVars)
    BY <1>1, <1>2, <1>6, StartsSeen, RuntimeStartsSeen, PollSeen, EndsSeen, ThreadSeen,
       ProgramSeen
  <1>7. ASSUME StopsPage
        PROVE  [Console!ConsoleNext]_(Console!consoleVars)
    BY <1>7, StopsPageSeen
  <1> QED BY <1>3, <1>4, <1>5, <1>6, <1>7 DEF Next

\* Seen from in front of the page, every behaviour of a run's page, its program's
\* thread and the block of memory between them is one of a console that one
\* program has at a time, that shows more and more of what it writes, and that
\* is answered a line when the program has read the lines before; until the
\* reader is hasty, and again from when the page is loaded anew.
THEOREM ConsoleIsImplemented == Spec => ConsoleIsKept
  <1>1. Init => Console!ConsoleInit
    <2> SUFFICES ASSUME Init PROVE Console!ConsoleInit
      OBVIOUS
    <2>1. \A r \in Runs : /\ page[r].phase = "new" /\ page[r].text = <<>>
                          /\ program[r].wrote = 0 /\ program[r].got = <<>>
      BY DEF Init, Idle, Unborn
    <2>2. \A r \in Runs : Stage(r) = "before" /\ OnScreen(r) = <<>>
                          /\ Own(r, program[r].wrote) = <<>>
      BY <2>1, OwnNone DEF Stage, OnScreen, Phase
    <2> QED BY <2>1, <2>2 DEF Init, Console!ConsoleInit, Console!Empty
  <1>2. Init => ButtonInv
    <2>1. "" # "running"
      OBVIOUS
    <2> QED BY <2>1 DEF Init, ButtonInv
  <1>3. (~hasty => RunInv /\ ButtonInv) /\ [Next]_vars => (~hasty' => RunInv' /\ ButtonInv')
    BY RunNext, ButtonStep
  <1>4. (~hasty => RunInv /\ ButtonInv) /\ [Next]_vars
            => [hasty \/ hasty' \/ Console!ConsoleNext]_(Console!consoleVars)
    BY ConsoleStep
  <1>5. Init => (~hasty => RunInv /\ ButtonInv)
    BY <1>2, RunInit
  <1> QED BY <1>1, <1>3, <1>4, <1>5, PTL DEF Spec, ConsoleIsKept

-----------------------------------------------------------------------------
(* The pictures.  The page takes lines and pending pictures with folds: what *)
(* a fold comes to is shown once for any steps that stay in a set (FoldExists),*)
(* and then used as a row of outputs, one for each line or picture.          *)

\* Min() of a set of numbers is its least member.
LEMMA LeastFacts ==
    ASSUME NEW S, S \subseteq Nat, S # {}
    PROVE  Min(S) \in S /\ \A y \in S : Min(S) <= y
  <1>1. PICK x \in S : \A y \in S : ~ (<<y, x>> \in OpToRel(<, Nat))
    BY NatLessThanWellFounded, WFMin
  <1>2. \A y \in S : x <= y
    <2> TAKE y \in S
    <2>1. x \in Nat /\ y \in Nat
      OBVIOUS
    <2>2. ~ (y < x)
      BY <1>1, <2>1 DEF OpToRel
    <2> QED BY <2>1, <2>2
  <1> QED BY <1>2 DEF Min

\* From m to n, a step at a time.
LEMMA Upwards ==
    ASSUME NEW n \in Nat, NEW m \in 0..n, NEW P, m \in P,
           \A k \in m..n - 1 : k \in P => k + 1 \in P
    PROVE  n \in P
  <1> DEFINE bad == {k \in m..n : k \notin P}
             x == Min(bad)
  <1> SUFFICES ASSUME n \notin P PROVE FALSE
    OBVIOUS
  <1>1. bad # {} /\ bad \subseteq Nat
    OBVIOUS
  <1>2. x \in bad /\ \A y \in bad : x <= y
    BY <1>1, LeastFacts
  <1> HIDE DEF x
  <1>3. x # m /\ x \in m..n /\ x - 1 \in m..n - 1
    BY <1>2
  <1>4. x - 1 \in P
    BY <1>2, <1>3
  <1> QED BY <1>2, <1>3, <1>4

\* Max() of numbers up to n, one of which is n, is n.
LEMMA GreatestFacts ==
    ASSUME NEW n \in Nat, NEW s, s \subseteq 1..n, n \in s
    PROVE  Max(s) = n
  <1>1. \A y \in s : n >= y
    OBVIOUS
  <1>2. \A x \in s : (\A y \in s : x >= y) => x = n
    BY <1>1
  <1> QED BY <1>1, <1>2 DEF Max

\* What a fold over n members that starts with o and takes the step g has come
\* to, for every set of indices.
IsFold(f, S, n, o, g) ==
    /\ f \in [SUBSET (1..n) -> S]
    /\ \A s \in SUBSET (1..n) :
           f[s] = IF s = {} THEN o ELSE g[<<f[s \ {Max(s)}], Max(s)>>]

\* There is one when the steps stay in a set.
LEMMA FoldExists ==
    ASSUME NEW S, NEW n \in Nat, NEW o \in S, NEW g \in [S \X (1..n) -> S]
    PROVE  \E f : IsFold(f, S, n, o, g)
  <1> DEFINE Folds(k, f) == \A s \in SUBSET (1..k) :
                 f[s] = IF s = {} THEN o ELSE g[<<f[s \ {Max(s)}], Max(s)>>]
             P == {k \in 0..n : \E f \in [SUBSET (1..k) -> S] : Folds(k, f)}
  <1>1. 0 \in P
    <2> DEFINE f == [s \in SUBSET (1..0) |-> o]
    <2>1. \A s \in SUBSET (1..0) : s = {}
      OBVIOUS
    <2>2. f \in [SUBSET (1..0) -> S] /\ Folds(0, f)
      BY <2>1
    <2>3. 0 \in 0..n
      OBVIOUS
    <2> HIDE DEF f, Folds
    <2> QED BY <2>2, <2>3
  <1>2. ASSUME NEW k \in 0..n - 1, k \in P PROVE k + 1 \in P
    <2>1. PICK f \in [SUBSET (1..k) -> S] : Folds(k, f)
      BY <1>2
    <2> DEFINE h == [s \in SUBSET (1..k + 1) |->
                        IF k + 1 \in s THEN g[<<f[s \ {k + 1}], k + 1>>] ELSE f[s]]
    <2>2. \A s \in SUBSET (1..k + 1) : s \ {k + 1} \in SUBSET (1..k)
      OBVIOUS
    <2>3. \A s \in SUBSET (1..k + 1) : k + 1 \notin s => s \in SUBSET (1..k)
      OBVIOUS
    <2>4. k + 1 \in 1..n /\ k \in Nat
      OBVIOUS
    <2>5. h \in [SUBSET (1..k + 1) -> S]
      BY <2>2, <2>3, <2>4
    <2>6. \A s \in SUBSET (1..k) : h[s] = f[s] /\ s \in SUBSET (1..k + 1)
      OBVIOUS
    <2>7. ASSUME NEW s \in SUBSET (1..k + 1)
          PROVE  h[s] = IF s = {} THEN o ELSE g[<<h[s \ {Max(s)}], Max(s)>>]
      <3>1. CASE k + 1 \in s
        <4>1. Max(s) = k + 1
          <5>1. k + 1 \in Nat /\ s \subseteq 1..k + 1
            OBVIOUS
          <5> QED BY <3>1, <5>1, GreatestFacts
        <4>2. h[s] = g[<<f[s \ {k + 1}], k + 1>>]
          BY <3>1
        <4>3. h[s \ {k + 1}] = f[s \ {k + 1}]
          BY <2>2, <2>6
        <4> HIDE DEF h
        <4> QED BY <3>1, <4>1, <4>2, <4>3
      <3>2. CASE k + 1 \notin s
        <4>1. s \in SUBSET (1..k) /\ s \ {Max(s)} \in SUBSET (1..k)
          BY <3>2, <2>3
        <4>2. f[s] = IF s = {} THEN o ELSE g[<<f[s \ {Max(s)}], Max(s)>>]
          BY <2>1, <4>1
        <4>3. h[s] = f[s] /\ h[s \ {Max(s)}] = f[s \ {Max(s)}]
          BY <4>1, <2>6
        <4> HIDE DEF h
        <4> QED BY <4>2, <4>3
      <3> QED BY <3>1, <3>2
    <2> HIDE DEF h
    <2>8. Folds(k + 1, h)
      BY <2>7
    <2> HIDE DEF Folds
    <2> QED BY <2>4, <2>5, <2>8
  <1>3. n \in P
    <2> HIDE DEF P
    <2>1. 0 \in 0..n
      OBVIOUS
    <2> QED BY <1>1, <1>2, <2>1, Upwards
  <1> QED BY <1>3 DEF IsFold

\* What a step of a fold over prefixes is.
LEMMA FirstIndices ==
    ASSUME NEW n \in Nat, NEW k \in 1..n
    PROVE  /\ 1..k \in SUBSET (1..n) /\ 1..k # {}
           /\ Max(1..k) = k /\ (1..k) \ {k} = 1..k - 1
  <1>1. k \in Nat /\ k \in 1..k /\ 1..k \subseteq 1..k
    OBVIOUS
  <1>2. Max(1..k) = k
    <2> DEFINE t == 1..k
    <2>1. k \in t /\ t \subseteq 1..k
      BY <1>1
    <2> HIDE DEF t
    <2>2. Max(t) = k
      BY <1>1, <2>1, GreatestFacts
    <2> QED BY <2>2 DEF t
  <1>3. (1..k) \ {k} = 1..k - 1
    OBVIOUS
  <1>4. 1..k \in SUBSET (1..n)
    OBVIOUS
  <1> QED BY <1>1, <1>2, <1>3, <1>4

\* Max() of some of the numbers up to n is one of them.
LEMMA GreatestIsMember ==
    ASSUME NEW n \in Nat, NEW s \in SUBSET (1..n), s # {}
    PROVE  Max(s) \in s
  <1> DEFINE up == {n - x : x \in s}
             y == Min(up)
  <1>1. up \subseteq Nat /\ up # {}
    <2>1. \A x \in s : n - x \in Nat
      OBVIOUS
    <2>2. PICK x \in s : TRUE
      OBVIOUS
    <2>3. n - x \in up
      OBVIOUS
    <2> QED BY <2>1, <2>3
  <1>2. y \in up /\ \A z \in up : y <= z
    BY <1>1, LeastFacts
  <1> HIDE DEF y
  <1>3. PICK x \in s : y = n - x
    BY <1>2
  <1>4. \A z \in s : n - x <= n - z
    BY <1>2, <1>3
  <1>5. \A z \in s : x >= z
    <2> TAKE z \in s
    <2>1. n - x <= n - z /\ x \in Int /\ z \in Int
      BY <1>4
    <2> QED BY <2>1
  <1> QED BY <1>5 DEF Max

\* What an output holds of a picture.
Pictured == [path : Paths, bytes : Written]

\* The size of a picture is a number, whether it is all there or not.
LEMMA SizeFacts == \A w \in Written : Size(w) \in Nat
  BY BytesAssumption DEF Size, Written

\* The bytes that are held, one picture after another.
Charged(c, images) ==
    /\ c \in [0..Len(images) -> Nat] /\ c[0] = 0
    /\ \A k \in 1..Len(images) : c[k] = c[k - 1] + Size(images[k].bytes)
    /\ Held(images) = c[Len(images)]

\* The sum that Held() is, as a row of sums.
LEMMA HeldSteps ==
    ASSUME NEW images \in Seq(Pictured)
    PROVE  \E c : Charged(c, images)
  <1> DEFINE n == Len(images)
             g == [x \in Nat \X (1..n) |-> x[1] + Size(images[x[2]].bytes)]
             h == CHOOSE h : h = [s \in SUBSET (1..n) |->
                      IF s = {} THEN 0 ELSE h[s \ {Max(s)}] + Size(images[Max(s)].bytes)]
             c == [k \in 0..n |-> h[1..k]]
  <1>1. /\ n \in Nat /\ DOMAIN images = 1..n
        /\ \A i \in 1..n : images[i].bytes \in Written /\ Size(images[i].bytes) \in Nat
    <2>1. n \in Nat /\ DOMAIN images = 1..n /\ \A i \in 1..n : images[i] \in Pictured
      OBVIOUS
    <2>2. \A x \in Pictured : x.bytes \in Written
      BY DEF Pictured
    <2> HIDE DEF n
    <2> QED BY <2>1, <2>2, SizeFacts
  <1>2. g \in [Nat \X (1..n) -> Nat]
    BY <1>1
  <1>3. PICK e : IsFold(e, Nat, n, 0, g)
    <2> HIDE DEF g, n, h, c
    <2>1. n \in Nat /\ 0 \in Nat /\ g \in [Nat \X (1..n) -> Nat]
      BY <1>1, <1>2
    <2> QED BY <2>1, FoldExists
  <1>4. ASSUME NEW s \in SUBSET (1..n), s # {}
        PROVE  /\ Max(s) \in 1..n /\ e[s \ {Max(s)}] \in Nat
               /\ g[<<e[s \ {Max(s)}], Max(s)>>] = e[s \ {Max(s)}] + Size(images[Max(s)].bytes)
    <2>1. Max(s) \in s
      BY <1>1, <1>4, GreatestIsMember
    <2> QED BY <1>3, <2>1 DEF IsFold
  <1>5. e = [s \in SUBSET (1..n) |->
                IF s = {} THEN 0 ELSE e[s \ {Max(s)}] + Size(images[Max(s)].bytes)]
    <2> HIDE DEF g, n
    <2> QED BY <1>3, <1>4 DEF IsFold
  <1>6. h = [s \in SUBSET (1..n) |->
                IF s = {} THEN 0 ELSE h[s \ {Max(s)}] + Size(images[Max(s)].bytes)]
    <2> HIDE DEF g, n
    <2> QED BY <1>5
  <1>7. Held(images) = h[1..n]
    <2> HIDE DEF n
    <2> QED BY <1>1 DEF Held, FoldLeft, MapThenFoldSet
  <1> HIDE DEF h, g, n
  <1>8. c[0] = 0
    <2>1. 1..0 = {} /\ {} \in SUBSET (1..n) /\ 0 \in 0..n
      BY <1>1
    <2> QED BY <1>6, <2>1
  <1>9. ASSUME NEW k \in 1..n
        PROVE  c[k] = c[k - 1] + Size(images[k].bytes)
    <2>1. /\ 1..k \in SUBSET (1..n) /\ 1..k # {}
          /\ Max(1..k) = k /\ (1..k) \ {k} = 1..k - 1
      BY <1>1, FirstIndices
    <2>2. h[1..k] = h[1..k - 1] + Size(images[k].bytes)
      BY <1>6, <2>1
    <2>3. k \in 0..n /\ k - 1 \in 0..n
      BY <1>1
    <2> QED BY <2>2, <2>3
  <1>10. c[n] = h[1..n] /\ DOMAIN c = 0..n /\ c = [k \in 0..n |-> c[k]]
    BY <1>1
  <1> HIDE DEF c
  <1>11. ASSUME NEW k \in 0..n PROVE c[k] \in Nat
    <2> DEFINE P == {j \in 0..n : c[j] \in Nat}
    <2>1. 0 \in P /\ 0 \in 0..k
      BY <1>1, <1>8
    <2>2. \A j \in 0..k - 1 : j \in P => j + 1 \in P
      <3> TAKE j \in 0..k - 1
      <3>1. j + 1 \in 1..n /\ (j + 1) - 1 = j
        BY <1>1
      <3> QED BY <1>1, <1>9, <3>1
    <2>3. k \in P
      <3>1. k \in Nat
        OBVIOUS
      <3> HIDE DEF P
      <3> QED BY <2>1, <2>2, <3>1, Upwards
    <2> QED BY <2>3
  <1>12. c \in [0..n -> Nat]
    BY <1>10, <1>11
  <1> QED BY <1>7, <1>8, <1>9, <1>10, <1>12 DEF n, Charged

\* Two rows of pictures hold the same up to where they differ.
LEMMA HeldAlike ==
    ASSUME NEW s \in Seq(Pictured), NEW t \in Seq(Pictured), NEW c, NEW d,
           Charged(c, s), Charged(d, t),
           NEW m \in 0..Len(s), m <= Len(t), \A k \in 1..m : s[k] = t[k]
    PROVE  c[m] = d[m]
  <1> DEFINE P == {k \in 0..m : c[k] = d[k]}
  <1>0. Len(s) \in Nat /\ Len(t) \in Nat /\ m \in Nat
    OBVIOUS
  <1>1. 0 \in P /\ 0 \in 0..m
    BY <1>0 DEF Charged
  <1>2. ASSUME NEW k \in 0..m - 1, k \in P PROVE k + 1 \in P
    <2>1. k + 1 \in 1..m /\ k + 1 \in 1..Len(s) /\ k + 1 \in 1..Len(t) /\ (k + 1) - 1 = k
      BY <1>0
    <2>2. c[k + 1] = c[k] + Size(s[k + 1].bytes) /\ d[k + 1] = d[k] + Size(t[k + 1].bytes)
      BY <2>1 DEF Charged
    <2> QED BY <1>2, <2>1, <2>2
  <1>3. m \in P
    <2> HIDE DEF P
    <2> QED BY <1>0, <1>1, <1>2, Upwards
  <1> QED BY <1>3

\* No pictures hold nothing.
LEMMA HeldOfNone == Held(<<>>) = 0
  <1>1. <<>> \in Seq(Pictured) /\ Len(<<>>) = 0
    OBVIOUS
  <1> QED BY <1>1, HeldSteps DEF Charged

\* A picture added adds its bytes.
LEMMA HeldOfOneMore ==
    ASSUME NEW s \in Seq(Pictured), NEW x \in Pictured
    PROVE  Held(Append(s, x)) = Held(s) + Size(x.bytes) /\ Held(s) \in Nat
  <1> DEFINE t == Append(s, x)
             n == Len(s)
  <1>1. /\ t \in Seq(Pictured) /\ n \in Nat /\ Len(t) = n + 1 /\ t[n + 1] = x
        /\ \A k \in 1..n : s[k] = t[k]
    OBVIOUS
  <1> HIDE DEF t
  <1>2. PICK c : Charged(c, s)
    BY HeldSteps
  <1>3. PICK d : Charged(d, t)
    BY <1>1, HeldSteps
  <1>4. c[n] = d[n]
    <2>1. n \in 0..Len(s) /\ n <= Len(t) /\ \A k \in 1..n : s[k] = t[k]
      BY <1>1
    <2> QED BY <1>1, <1>2, <1>3, <2>1, HeldAlike
  <1>5. n + 1 \in 1..Len(t) /\ (n + 1) - 1 = n /\ n \in 0..n
    BY <1>1
  <1>6. d[n + 1] = d[n] + Size(x.bytes) /\ c[n] \in Nat
    BY <1>1, <1>2, <1>3, <1>5 DEF Charged
  <1> QED BY <1>1, <1>2, <1>3, <1>4, <1>6 DEF t, Charged

\* One put in another's place adds its own bytes and gives the other's back.
LEMMA HeldOfAnother ==
    ASSUME NEW s \in Seq(Pictured), NEW x \in Pictured, NEW at \in 1..Len(s)
    PROVE  /\ Held(s) \in Nat /\ Size(s[at].bytes) \in Nat /\ Size(s[at].bytes) <= Held(s)
           /\ Held([s EXCEPT ![at] = x]) = Held(s) - Size(s[at].bytes) + Size(x.bytes)
  <1> DEFINE t == [s EXCEPT ![at] = x]
             n == Len(s)
             old == Size(s[at].bytes)
             new == Size(x.bytes)
  <1>1. /\ t \in Seq(Pictured) /\ n \in Nat /\ Len(t) = n /\ t[at] = x /\ at \in 1..n
        /\ \A k \in 1..n : k # at => s[k] = t[k]
    OBVIOUS
  <1>2. old \in Nat /\ new \in Nat
    <2>1. s[at] \in Pictured
      OBVIOUS
    <2> QED BY <2>1, SizeFacts DEF Pictured
  <1> HIDE DEF t, old, new
  <1>3. PICK c : Charged(c, s)
    BY HeldSteps
  <1>4. PICK d : Charged(d, t)
    BY <1>1, HeldSteps
  <1>5. c[at - 1] = d[at - 1]
    <2>1. at - 1 \in 0..Len(s) /\ at - 1 <= Len(t) /\ \A k \in 1..at - 1 : s[k] = t[k]
      BY <1>1
    <2> QED BY <1>1, <1>3, <1>4, <2>1, HeldAlike
  <1> DEFINE P == {k \in at..n : old <= c[k] /\ d[k] = c[k] - old + new}
  <1>6. at \in P
    <2>1. at - 1 \in 0..n /\ at \in 1..n /\ at \in at..n
      BY <1>1
    <2>2. c[at] = c[at - 1] + old /\ d[at] = d[at - 1] + new /\ c[at - 1] \in Nat
      BY <1>1, <1>3, <1>4, <2>1 DEF Charged, old, new
    <2> QED BY <1>2, <1>5, <2>1, <2>2
  <1>7. ASSUME NEW k \in at..n - 1, k \in P PROVE k + 1 \in P
    <2>1. /\ k \in 0..n /\ k + 1 \in 1..n /\ k + 1 \in at..n /\ (k + 1) - 1 = k /\ k + 1 # at
          /\ s[k + 1] = t[k + 1]
      BY <1>1
    <2>2. /\ c[k + 1] = c[k] + Size(s[k + 1].bytes) /\ d[k + 1] = d[k] + Size(s[k + 1].bytes)
          /\ c[k] \in Nat
      BY <1>1, <1>3, <1>4, <2>1 DEF Charged
    <2>3. Size(s[k + 1].bytes) \in Nat
      <3>1. s[k + 1] \in Pictured
        BY <2>1
      <3> QED BY <3>1, SizeFacts DEF Pictured
    <2> QED BY <1>2, <1>7, <2>1, <2>2, <2>3
  <1>8. n \in P
    <2>1. at \in 0..n
      BY <1>1
    <2> HIDE DEF P
    <2> QED BY <1>1, <1>6, <1>7, <2>1, Upwards
  <1>9. Held(s) = c[n] /\ Held(t) = d[n] /\ c[n] \in Nat
    BY <1>1, <1>3, <1>4 DEF Charged
  <1> QED BY <1>2, <1>8, <1>9 DEF t, old, new

\* A sequence without one of its elements.
LEMMA DropFacts ==
    ASSUME NEW S, NEW s \in Seq(S), NEW i \in 1..Len(s)
    PROVE  /\ RemoveAt(s, i) \in Seq(S) /\ Len(RemoveAt(s, i)) = Len(s) - 1
           /\ \A j \in 1..Len(s) - 1 : RemoveAt(s, i)[j] = s[IF j < i THEN j ELSE j + 1]
  <1> DEFINE n == Len(s)
             r == RemoveAt(s, i)
             u == SubSeq(s, 1, i - 1)
             v == SubSeq(s, i + 1, n)
  <1>1. n \in Nat /\ i \in 1..n
    OBVIOUS
  <1>2. u \in Seq(S) /\ Len(u) = i - 1 /\ \A j \in 1..i - 1 : u[j] = s[1 + j - 1]
    BY SubSeqProperties
  <1>3. v \in Seq(S) /\ Len(v) = n - i /\ \A j \in 1..n - i : v[j] = s[(i + 1) + j - 1]
    BY SubSeqProperties
  <1>4. /\ r \in Seq(S) /\ Len(r) = Len(u) + Len(v)
        /\ \A j \in 1..Len(u) + Len(v) : r[j] = IF j <= Len(u) THEN u[j] ELSE v[j - Len(u)]
    <2>1. r = u \o v
      BY DEF RemoveAt
    <2> HIDE DEF r, u, v
    <2> QED BY <1>2, <1>3, <2>1, ConcatProperties
  <1> HIDE DEF n, r, u, v
  <1>5. ASSUME NEW j \in 1..n - 1 PROVE r[j] = s[IF j < i THEN j ELSE j + 1]
    BY <1>1, <1>2, <1>3, <1>4
  <1>6. Len(r) = n - 1
    BY <1>1, <1>2, <1>3, <1>4
  <1> QED BY <1>4, <1>5, <1>6 DEF n, r

-----------------------------------------------------------------------------
\* What is at a path now, as the page would hold it.
Image(p) == [path |-> p, bytes |-> file[p]]
\* That is shown, or the path is looked at again.
Has(o, p) == \E i \in DOMAIN o.images : o.images[i] = Image(p)
Waits(o, p) == \E i \in DOMAIN o.pending : o.pending[i] = p

\* An output as it is between any two lines: what it holds is what it is charged
\* for, and of no run whose pictures are gone.
Sound(o) ==
    /\ o \in Output
    /\ \A i, j \in DOMAIN o.images :
           NameOf[o.images[i].path] = NameOf[o.images[j].path] => i = j
    /\ \A i, j \in DOMAIN o.pending : NameOf[o.pending[i]] = NameOf[o.pending[j]] => i = j
    /\ o.total = Held(o.images) /\ o.total <= MaxBytes
    /\ \A i \in DOMAIN o.images : <<o.images[i].path, o.images[i].bytes.run>> \notin named

\* So are the files.
FilesAreFresh ==
    /\ file \in [Paths -> Written \cup {None}]
    /\ \A p \in Paths : file[p] # None => <<p, file[p].run>> \notin named

\* So is one that has been fed nothing.
LEMMA NewIsSound == Sound(NewOutput)
  <1>1. <<>> \in Seq(Pictured) /\ <<>> \in Seq(Paths) /\ DOMAIN <<>> = {}
    OBVIOUS
  <1> QED BY <1>1, HeldOfNone, BytesAssumption DEF Sound, NewOutput, Output, Pictured

\* What an output is made of.
LEMMA OutputFacts ==
    ASSUME NEW o, o \in Output
    PROVE  /\ o.images \in Seq(Pictured) /\ o.pending \in Seq(Paths)
           /\ o.paths \in SUBSET Paths /\ o.total \in Nat /\ o.dropped \in Nat
           /\ DOMAIN o.images = 1..Len(o.images) /\ DOMAIN o.pending = 1..Len(o.pending)
           /\ Len(o.images) \in Nat /\ Len(o.pending) \in Nat
           /\ \A i \in DOMAIN o.images :
                  o.images[i].path \in Paths /\ o.images[i].bytes \in Written
           /\ \A i \in DOMAIN o.pending : o.pending[i] \in Paths
  <1>1. /\ o.images \in Seq(Pictured) /\ o.pending \in Seq(Paths)
        /\ o.paths \in SUBSET Paths /\ o.total \in Nat /\ o.dropped \in Nat
    BY DEF Output, Pictured
  <1>2. \A x \in Pictured : x.path \in Paths /\ x.bytes \in Written
    BY DEF Pictured
  <1> QED BY <1>1, <1>2

\* Where the picture of a name is, if there is one.
LEMMA ImageOfFacts ==
    ASSUME NEW o, o \in Output, NEW n
    PROVE  /\ ImageOf(o, n) = 0 => \A i \in DOMAIN o.images : NameOf[o.images[i].path] # n
           /\ ImageOf(o, n) # 0 => /\ ImageOf(o, n) \in DOMAIN o.images
                                   /\ NameOf[o.images[ImageOf(o, n)].path] = n
  <1> DEFINE I == {i \in 1..Len(o.images) : NameOf[o.images[i].path] = n}
  <1>1. ImageOf(o, n) = IF I # {} THEN Min(I) ELSE 0
    BY DEF ImageOf, SelectInSeq
  <1>2. I \subseteq Nat /\ 0 \notin I /\ DOMAIN o.images = 1..Len(o.images)
    BY OutputFacts
  <1>3. I # {} => Min(I) \in I
    <2> HIDE DEF I
    <2> QED BY <1>2, LeastFacts
  <1> QED BY <1>1, <1>2, <1>3

\* Where the path to look at again is, for a name, if there is one.
LEMMA PendingOfFacts ==
    ASSUME NEW o, o \in Output, NEW n
    PROVE  /\ PendingOf(o, n) = 0 => \A i \in DOMAIN o.pending : NameOf[o.pending[i]] # n
           /\ PendingOf(o, n) # 0 => /\ PendingOf(o, n) \in DOMAIN o.pending
                                     /\ NameOf[o.pending[PendingOf(o, n)]] = n
  <1> DEFINE I == {i \in 1..Len(o.pending) : NameOf[o.pending[i]] = n}
  <1>1. PendingOf(o, n) = IF I # {} THEN Min(I) ELSE 0
    BY DEF PendingOf, SelectInSeq
  <1>2. I \subseteq Nat /\ 0 \notin I /\ DOMAIN o.pending = 1..Len(o.pending)
    BY OutputFacts
  <1>3. I # {} => Min(I) \in I
    <2> HIDE DEF I
    <2> QED BY <1>2, LeastFacts
  <1> QED BY <1>1, <1>2, <1>3

\* Looking no longer for a name.
LEMMA UnpendFacts ==
    ASSUME NEW o, Sound(o), NEW n
    PROVE  /\ Sound(Unpend(o, n))
           /\ Unpend(o, n).images = o.images /\ Unpend(o, n).dropped = o.dropped
           /\ Unpend(o, n).paths = o.paths
           /\ \A q \in Paths : NameOf[q] # n /\ Waits(o, q) => Waits(Unpend(o, n), q)
           /\ \A i \in DOMAIN Unpend(o, n).pending : NameOf[Unpend(o, n).pending[i]] # n
           /\ \A q : Waits(Unpend(o, n), q) => Waits(o, q)
  <1> DEFINE s == o.pending
             at == PendingOf(o, n)
             r == IF at = 0 THEN s ELSE RemoveAt(s, at)
             N == Len(s)
  <1>1. /\ o \in Output /\ s \in Seq(Paths) /\ DOMAIN s = 1..N /\ N \in Nat
        /\ \A i, j \in 1..N : NameOf[s[i]] = NameOf[s[j]] => i = j
    BY OutputFacts DEF Sound
  <1>2. /\ at = 0 => \A i \in 1..N : NameOf[s[i]] # n
        /\ at # 0 => at \in 1..N /\ NameOf[s[at]] = n
    BY <1>1, PendingOfFacts
  <1>3. Unpend(o, n) = [o EXCEPT !.pending = r]
    <2>1. (\E i \in 1..N : NameOf[s[i]] = n) <=> at # 0
      BY <1>1, <1>2
    <2>2. at = SelectInSeq(s, LAMBDA p : NameOf[p] = n)
      BY DEF PendingOf
    <2> HIDE DEF at
    <2>3. RemoveFirstMatch(s, LAMBDA p : NameOf[p] = n) = r
      BY <2>1, <2>2 DEF RemoveFirstMatch
    <2> QED BY <2>3 DEF Unpend
  <1> HIDE DEF at
  <1>4. CASE at = 0
    <2>1. r = s
      BY <1>4
    <2>2. Unpend(o, n) = o
      BY <1>1, <1>3, <2>1 DEF Output
    <2> QED BY <1>1, <1>2, <1>4, <2>2
  <1>5. CASE at # 0
    <2>1. at \in 1..Len(s) /\ at \in 1..N
      BY <1>2, <1>5
    <2>2. /\ r \in Seq(Paths) /\ Len(r) = N - 1
          /\ \A j \in 1..N - 1 : r[j] = s[IF j < at THEN j ELSE j + 1]
      <3>1. r = RemoveAt(s, at)
        BY <1>5
      <3>2. s \in Seq(Paths)
        BY <1>1
      <3> HIDE DEF s, r
      <3> QED BY <2>1, <3>1, <3>2, DropFacts DEF N
    <2> HIDE DEF r
    <2>3. DOMAIN r = 1..N - 1
      BY <1>1, <2>2
    <2>4. \A i, j \in DOMAIN r : NameOf[r[i]] = NameOf[r[j]] => i = j
      <3> TAKE i, j \in DOMAIN r
      <3> DEFINE From(k) == IF k < at THEN k ELSE k + 1
      <3>1. From(i) \in 1..N /\ From(j) \in 1..N /\ r[i] = s[From(i)] /\ r[j] = s[From(j)]
        <4>1. i \in 1..N - 1 /\ j \in 1..N - 1
          BY <2>3
        <4>2. r[i] = s[From(i)] /\ r[j] = s[From(j)]
          BY <2>2, <4>1
        <4>3. From(i) \in 1..N /\ From(j) \in 1..N
          <5> HIDE DEF s, N
          <5> QED BY <1>1, <2>1, <4>1
        <4> QED BY <4>2, <4>3
      <3>2. From(i) = From(j) => i = j
        BY <1>1, <2>1, <2>3
      <3> HIDE DEF From, s, N
      <3> QED BY <1>1, <3>1, <3>2
    <2>5. \A q : NameOf[q] # n /\ Waits(o, q) => \E i \in DOMAIN r : r[i] = q
      <3> SUFFICES ASSUME NEW q, NameOf[q] # n, NEW i \in 1..N, s[i] = q
                   PROVE  \E j \in DOMAIN r : r[j] = q
        BY <1>1 DEF Waits
      <3>1. i # at
        BY <1>2, <1>5
      <3>2. CASE i < at
        <4>1. i \in 1..N - 1 /\ r[i] = s[i]
          BY <1>1, <2>1, <2>2, <3>2
        <4> QED BY <2>3, <4>1
      <3>3. CASE i > at
        <4>1. i - 1 \in 1..N - 1 /\ ~ (i - 1 < at) /\ (i - 1) + 1 = i
          BY <1>1, <2>1, <3>3
        <4> QED BY <2>2, <2>3, <4>1
      <3> QED BY <1>1, <2>1, <3>1, <3>2, <3>3
    <2>6. \A i \in DOMAIN r : NameOf[r[i]] # n /\ \E j \in 1..N : s[j] = r[i]
      <3> TAKE i \in DOMAIN r
      <3>1. (IF i < at THEN i ELSE i + 1) \in 1..N /\ (IF i < at THEN i ELSE i + 1) # at
        BY <1>1, <2>1, <2>3
      <3> QED BY <1>1, <1>2, <1>5, <2>2, <2>3, <3>1
    <2>7. /\ Unpend(o, n) \in Output /\ Unpend(o, n).pending = r
          /\ Unpend(o, n).images = o.images /\ Unpend(o, n).dropped = o.dropped
          /\ Unpend(o, n).paths = o.paths /\ Unpend(o, n).total = o.total
      BY <1>1, <1>3, <2>2 DEF Output
    <2>8. Sound(Unpend(o, n))
      BY <2>4, <2>7 DEF Sound
    <2> QED BY <1>1, <2>5, <2>6, <2>7, <2>8 DEF Waits
  <1> QED BY <1>4, <1>5

\* Looking again for a path, in the place of the one its name had.
LEMMA PendFacts ==
    ASSUME NEW o, Sound(o), NEW p \in Paths
    PROVE  /\ Sound(Pend(o, p))
           /\ Pend(o, p).images = o.images /\ Pend(o, p).dropped = o.dropped
           /\ Waits(Pend(o, p), p)
           /\ \A q \in Paths : NameOf[q] # NameOf[p] /\ Waits(o, q) => Waits(Pend(o, p), q)
  <1> DEFINE s == o.pending
             at == PendingOf(o, NameOf[p])
             r == IF at = 0 THEN Append(s, p) ELSE [s EXCEPT ![at] = p]
             N == Len(s)
  <1>1. /\ o \in Output /\ s \in Seq(Paths) /\ DOMAIN s = 1..N /\ N \in Nat
        /\ \A i, j \in 1..N : NameOf[s[i]] = NameOf[s[j]] => i = j
    BY OutputFacts DEF Sound
  <1>2. /\ at = 0 => \A i \in 1..N : NameOf[s[i]] # NameOf[p]
        /\ at # 0 => at \in 1..N /\ NameOf[s[at]] = NameOf[p]
    BY <1>1, PendingOfFacts
  <1>3. Pend(o, p) = [o EXCEPT !.pending = r]
    BY DEF Pend
  <1> HIDE DEF at
  <1>4. /\ r \in Seq(Paths)
        /\ \A i, j \in DOMAIN r : NameOf[r[i]] = NameOf[r[j]] => i = j
        /\ \E i \in DOMAIN r : r[i] = p
        /\ \A i \in 1..N : NameOf[s[i]] # NameOf[p] => \E j \in DOMAIN r : r[j] = s[i]
    <2>1. CASE at = 0
      <3> DEFINE t == Append(s, p)
      <3>1. /\ t \in Seq(Paths) /\ DOMAIN t = 1..N + 1 /\ t[N + 1] = p /\ N + 1 \in 1..N + 1
            /\ \A i \in 1..N : t[i] = s[i] /\ i \in 1..N + 1
        BY <1>1
      <3>2. r = t
        BY <2>1
      <3> HIDE DEF t, r, s, N
      <3>3. \A i \in 1..N + 1 : i \in 1..N \/ i = N + 1
        BY <1>1
      <3> QED BY <1>1, <1>2, <2>1, <3>1, <3>2, <3>3
    <2>2. CASE at # 0
      <3> DEFINE t == [s EXCEPT ![at] = p]
      <3>1. /\ t \in Seq(Paths) /\ DOMAIN t = 1..N /\ t[at] = p /\ at \in 1..N
            /\ \A i \in 1..N : i # at => t[i] = s[i]
        BY <1>1, <1>2, <2>2
      <3>2. r = t
        BY <2>2
      <3> HIDE DEF t, r, s, N
      <3> QED BY <1>1, <1>2, <2>2, <3>1, <3>2
    <2> QED BY <2>1, <2>2
  <1> HIDE DEF r
  <1>5. /\ Pend(o, p) \in Output /\ Pend(o, p).pending = r
        /\ Pend(o, p).images = o.images /\ Pend(o, p).dropped = o.dropped
        /\ Pend(o, p).paths = o.paths /\ Pend(o, p).total = o.total
    BY <1>1, <1>3, <1>4 DEF Output
  <1>6. Sound(Pend(o, p))
    BY <1>4, <1>5 DEF Sound
  <1> QED BY <1>1, <1>4, <1>5, <1>6 DEF Waits

\* Showing a picture, or turning it away.
LEMMA ShowFacts ==
    ASSUME NEW o, Sound(o), NEW p \in Paths, file[p] # None, FilesAreFresh
    PROVE  /\ Sound(Show(o, p))
           /\ Show(o, p).paths = o.paths
           /\ Show(o, p).dropped = o.dropped \/ Show(o, p).dropped = o.dropped + 1
           /\ Show(o, p).dropped = o.dropped => Has(Show(o, p), p)
           /\ \A q \in Paths : NameOf[q] # NameOf[p] =>
                  /\ Has(o, q) => Has(Show(o, p), q)
                  /\ Waits(o, q) => Waits(Show(o, p), q)
  <1> DEFINE n == NameOf[p]
             at == ImageOf(o, n)
             s == o.images
             N == Len(s)
             x == Image(p)
             freed == IF at = 0 THEN 0 ELSE Size(s[at].bytes)
             t == IF at = 0 THEN Append(s, x) ELSE [s EXCEPT ![at] = x]
  <1>1. /\ o \in Output /\ s \in Seq(Pictured) /\ DOMAIN s = 1..N /\ N \in Nat
        /\ o.total \in Nat /\ o.dropped \in Nat /\ MaxBytes \in Nat
        /\ o.total = Held(s) /\ o.total <= MaxBytes
        /\ \A i, j \in 1..N : NameOf[s[i].path] = NameOf[s[j].path] => i = j
        /\ \A i \in 1..N : <<s[i].path, s[i].bytes.run>> \notin named
    <2>1. /\ o \in Output /\ o.total = Held(s) /\ o.total <= MaxBytes
          /\ \A i, j \in DOMAIN s : NameOf[s[i].path] = NameOf[s[j].path] => i = j
          /\ \A i \in DOMAIN s : <<s[i].path, s[i].bytes.run>> \notin named
      BY DEF Sound
    <2>2. /\ s \in Seq(Pictured) /\ DOMAIN s = 1..N /\ N \in Nat
          /\ o.total \in Nat /\ o.dropped \in Nat
      BY <2>1, OutputFacts
    <2> QED BY <2>1, <2>2, BytesAssumption
  <1>2. /\ at = 0 => \A i \in 1..N : NameOf[s[i].path] # n
        /\ at # 0 => at \in 1..N /\ NameOf[s[at].path] = n
    BY <1>1, ImageOfFacts
  <1>3. /\ x \in Pictured /\ x.path = p /\ x.bytes = file[p] /\ Size(file[p]) \in Nat
        /\ <<x.path, x.bytes.run>> \notin named
    BY SizeFacts DEF Image, Pictured, FilesAreFresh
  <1>4. Show(o, p) = IF at # 0 /\ s[at] = x THEN Unpend(o, n)
                     ELSE IF o.total - freed + Size(file[p]) > MaxBytes
                          THEN [o EXCEPT !.dropped = @ + 1]
                     ELSE [o EXCEPT !.total = @ - freed + Size(file[p]), !.images = t]
    BY DEF Show, Image
  <1> HIDE DEF at, x
  <1>5. CASE at # 0 /\ s[at] = x
    <2>1. Show(o, p) = Unpend(o, n)
      BY <1>4, <1>5
    <2>2. Has(o, p)
      BY <1>1, <1>2, <1>5 DEF Has, x
    <2> QED BY <1>1, <2>1, <2>2, UnpendFacts DEF Has
  <1>6. CASE ~ (at # 0 /\ s[at] = x) /\ o.total - freed + Size(file[p]) > MaxBytes
    <2> DEFINE r == [o EXCEPT !.dropped = @ + 1]
    <2>1. Show(o, p) = r
      BY <1>4, <1>6
    <2>2. /\ r \in Output /\ r.images = o.images /\ r.pending = o.pending /\ r.paths = o.paths
          /\ r.total = o.total /\ r.dropped = o.dropped + 1
      BY <1>1 DEF Output
    <2> HIDE DEF r
    <2>3. Sound(r)
      BY <2>2 DEF Sound
    <2> QED BY <1>1, <2>1, <2>2, <2>3 DEF Has, Waits
  <1>7. CASE ~ (at # 0 /\ s[at] = x) /\ ~ (o.total - freed + Size(file[p]) > MaxBytes)
    <2> DEFINE r == [o EXCEPT !.total = @ - freed + Size(file[p]), !.images = t]
    <2>1. Show(o, p) = r
      BY <1>4, <1>7
    <2>2. /\ freed \in Nat /\ freed <= o.total
          /\ t \in Seq(Pictured) /\ Held(t) = o.total - freed + Size(file[p])
          /\ \A i, j \in DOMAIN t : NameOf[t[i].path] = NameOf[t[j].path] => i = j
          /\ \E i \in DOMAIN t : t[i] = x
          /\ \A i \in 1..N : NameOf[s[i].path] # n => \E j \in DOMAIN t : t[j] = s[i]
          /\ \A i \in DOMAIN t : <<t[i].path, t[i].bytes.run>> \notin named
      <3>1. CASE at = 0
        <4> DEFINE u == Append(s, x)
        <4>1. /\ u \in Seq(Pictured) /\ DOMAIN u = 1..N + 1 /\ u[N + 1] = x
              /\ N + 1 \in 1..N + 1 /\ \A i \in 1..N : u[i] = s[i] /\ i \in 1..N + 1
          BY <1>1, <1>3
        <4>2. Held(u) = Held(s) + Size(x.bytes)
          BY <1>1, <1>3, HeldOfOneMore
        <4>3. t = u /\ freed = 0
          BY <3>1
        <4>4. \A i \in 1..N + 1 : i \in 1..N \/ i = N + 1
          BY <1>1
        <4> HIDE DEF t, u, s, N, freed
        <4>5. \A i, j \in DOMAIN u : NameOf[u[i].path] = NameOf[u[j].path] => i = j
          BY <1>1, <1>2, <1>3, <3>1, <4>1, <4>4
        <4>6. Held(t) = o.total - freed + Size(file[p])
          BY <1>1, <1>3, <4>2, <4>3
        <4>7. \A i \in DOMAIN u : <<u[i].path, u[i].bytes.run>> \notin named
          BY <1>1, <1>3, <4>1, <4>4
        <4>8. \A i \in 1..N : \E j \in DOMAIN u : u[j] = s[i]
          BY <4>1
        <4>9. freed \in Nat /\ freed <= o.total
          BY <1>1, <4>3
        <4>10. \E i \in DOMAIN u : u[i] = x
          BY <4>1
        <4> QED BY <4>1, <4>3, <4>5, <4>6, <4>7, <4>8, <4>9, <4>10
      <3>2. CASE at # 0
        <4> DEFINE u == [s EXCEPT ![at] = x]
        <4>1. /\ u \in Seq(Pictured) /\ DOMAIN u = 1..N /\ u[at] = x /\ at \in 1..N
              /\ \A i \in 1..N : i # at => u[i] = s[i]
          BY <1>1, <1>2, <1>3, <3>2
        <4>2. /\ Held(u) = Held(s) - Size(s[at].bytes) + Size(x.bytes)
              /\ Size(s[at].bytes) \in Nat /\ Size(s[at].bytes) <= Held(s)
          <5>1. at \in 1..Len(s)
            BY <4>1
          <5> QED BY <1>1, <1>3, <5>1, HeldOfAnother
        <4>3. t = u /\ freed = Size(s[at].bytes)
          BY <3>2
        <4> HIDE DEF t, u, s, N, freed
        <4>5. \A i, j \in DOMAIN u : NameOf[u[i].path] = NameOf[u[j].path] => i = j
          BY <1>1, <1>2, <1>3, <3>2, <4>1
        <4>6. Held(t) = o.total - freed + Size(file[p])
          BY <1>1, <1>3, <4>2, <4>3
        <4> QED BY <1>1, <1>2, <1>3, <3>2, <4>1, <4>2, <4>3, <4>5, <4>6
      <3> QED BY <3>1, <3>2
    <2> HIDE DEF t, freed
    <2>3. /\ r.images = t /\ r.pending = o.pending /\ r.paths = o.paths
          /\ r.total = o.total - freed + Size(file[p]) /\ r.dropped = o.dropped
      BY <1>1 DEF Output
    <2>4. o.total - freed + Size(file[p]) \in Nat
      BY <1>1, <1>3, <2>2
    <2>5. r \in Output
      BY <1>1, <2>2, <2>4 DEF Output, Pictured
    <2> HIDE DEF r
    <2>6. r.total <= MaxBytes
      BY <1>1, <1>7, <2>3, <2>4
    <2>7. Sound(r)
      BY <2>2, <2>3, <2>5, <2>6 DEF Sound
    <2>8. \A q \in Paths : NameOf[q] # n /\ Has(o, q) => Has(r, q)
      <3> SUFFICES ASSUME NEW q \in Paths, NameOf[q] # n, NEW i \in 1..N, s[i] = Image(q)
                   PROVE  Has(r, q)
        BY <1>1 DEF Has
      <3>1. NameOf[s[i].path] # n
        BY DEF Image
      <3> QED BY <2>2, <2>3, <3>1 DEF Has
    <2> QED BY <1>1, <2>1, <2>2, <2>3, <2>7, <2>8 DEF Has, Waits, x
  <1> QED BY <1>5, <1>6, <1>7

\* No two paths have a name in common.
Distinct == \A p, q \in Paths : NameOf[p] = NameOf[q] => p = q

\* The picture at a path is shown, and is that or will be looked at again; unless
\* one has been turned away.
Shown(o, q) == o.dropped = 0 => Has(o, q)
Seen(o, q) == o.dropped = 0 => Waits(o, q) \/ (file[q].whole /\ Has(o, q))

\* That a path has been named keeps an output sound.
LEMMA SeenFacts ==
    ASSUME NEW o, Sound(o), NEW p \in Paths
    PROVE  LET seen == [o EXCEPT !.paths = @ \cup {p}]
           IN /\ Sound(seen) /\ seen.dropped = o.dropped
              /\ seen.images = o.images /\ seen.pending = o.pending
  <1> DEFINE seen == [o EXCEPT !.paths = @ \cup {p}]
  <1>1. o \in Output
    BY DEF Sound
  <1>2. /\ seen \in Output /\ seen.images = o.images /\ seen.pending = o.pending
        /\ seen.total = o.total /\ seen.dropped = o.dropped
    BY <1>1 DEF Output
  <1> HIDE DEF seen
  <1>3. Sound(seen)
    BY <1>2 DEF Sound
  <1> QED BY <1>2, <1>3 DEF seen

\* A line keeps an output sound; the path it names is seen after, as is every one
\* that was seen before.
LEMMA LineFacts ==
    ASSUME FilesAreFresh, NEW o, Sound(o), NEW p \in Paths, NEW last \in BOOLEAN
    PROVE  /\ Sound(Line(o, p, last))
           /\ Distinct /\ ~last =>
                  /\ file[p] # None => Seen(Line(o, p, last), p)
                  /\ \A q \in Paths : Seen(o, q) => Seen(Line(o, p, last), q)
  <1> DEFINE seen == [o EXCEPT !.paths = @ \cup {p}]
  <1>1. CASE file[p] = None
    BY <1>1 DEF Line
  <1>2. CASE file[p] # None
    <2>1. /\ Sound(seen) /\ seen.dropped = o.dropped
          /\ seen.images = o.images /\ seen.pending = o.pending /\ seen.dropped \in Nat
      BY SeenFacts DEF Sound, Output
    <2>2. Line(o, p, last) = IF file[p].whole \/ last THEN Show(seen, p) ELSE Pend(seen, p)
      BY <1>2 DEF Line
    <2> HIDE DEF seen
    <2>3. \A q \in Paths : Seen(o, q) => Seen(seen, q)
      BY <2>1 DEF Seen, Has, Waits
    <2>4. CASE file[p].whole \/ last
      <3>1. /\ Sound(Show(seen, p))
            /\ Show(seen, p).dropped = seen.dropped \/ Show(seen, p).dropped = seen.dropped + 1
            /\ Show(seen, p).dropped = seen.dropped => Has(Show(seen, p), p)
            /\ \A q \in Paths : NameOf[q] # NameOf[p] =>
                  /\ Has(seen, q) => Has(Show(seen, p), q)
                  /\ Waits(seen, q) => Waits(Show(seen, p), q)
        BY <1>2, <2>1, ShowFacts
      <3>2. Show(seen, p).dropped = 0 => Show(seen, p).dropped = seen.dropped
        BY <2>1, <3>1
      <3> QED BY <1>2, <2>1, <2>2, <2>3, <2>4, <3>1, <3>2 DEF Seen, Distinct
    <2>5. CASE ~ (file[p].whole \/ last)
      <3>1. /\ Sound(Pend(seen, p))
            /\ Pend(seen, p).images = seen.images /\ Pend(seen, p).dropped = seen.dropped
            /\ Waits(Pend(seen, p), p)
            /\ \A q \in Paths : NameOf[q] # NameOf[p] /\ Waits(seen, q) => Waits(Pend(seen, p), q)
        BY <2>1, PendFacts
      <3> QED BY <1>2, <2>1, <2>2, <2>3, <2>5, <3>1 DEF Seen, Has, Distinct
    <2> QED BY <2>4, <2>5
  <1> QED BY <1>1, <1>2

\* The fold over the lines, and the row of outputs it goes through.
Decided(o, ps) == FoldLeft(LAMBDA s, p : Line(s, p, FALSE), o, ps)
Decides(f, o, ps) ==
    /\ f[0] = o /\ \A k \in 1..Len(ps) : f[k] = Line(f[k - 1], ps[k], FALSE)
    /\ Decided(o, ps) = f[Len(ps)]

\* There is such a row for any lines.
LEMMA FeedSteps ==
    ASSUME FilesAreFresh, NEW o, Sound(o), NEW ps \in Seq(Paths)
    PROVE  \E f : Decides(f, o, ps)
  <1> DEFINE S == {s \in Output : Sound(s)}
             n == Len(ps)
             g == [x \in S \X (1..n) |-> Line(x[1], ps[x[2]], FALSE)]
             h == CHOOSE h : h = [s \in SUBSET (1..n) |->
                      IF s = {} THEN o ELSE Line(h[s \ {Max(s)}], ps[Max(s)], FALSE)]
             f == [k \in 0..n |-> h[1..k]]
  <1>1. n \in Nat /\ DOMAIN ps = 1..n /\ \A i \in 1..n : ps[i] \in Paths
    OBVIOUS
  <1>2. g \in [S \X (1..n) -> S]
    <2>1. \A s \in S : \A i \in 1..n : Line(s, ps[i], FALSE) \in S
      <3> TAKE s \in S
      <3> TAKE i \in 1..n
      <3>1. Sound(s) /\ ps[i] \in Paths /\ FALSE \in BOOLEAN
        BY <1>1
      <3>2. Sound(Line(s, ps[i], FALSE))
        BY <3>1, LineFacts
      <3> QED BY <3>2 DEF Sound
    <2> HIDE DEF S, n
    <2> QED BY <2>1
  <1>3. PICK e : IsFold(e, S, n, o, g)
    <2>1. n \in Nat /\ o \in S /\ g \in [S \X (1..n) -> S]
      BY <1>1, <1>2 DEF Sound
    <2> HIDE DEF g, n, h, f, S
    <2> QED BY <2>1, FoldExists
  <1> HIDE DEF S
  <1>4. ASSUME NEW s \in SUBSET (1..n), s # {}
        PROVE  /\ Max(s) \in 1..n /\ e[s \ {Max(s)}] \in S
               /\ g[<<e[s \ {Max(s)}], Max(s)>>] = Line(e[s \ {Max(s)}], ps[Max(s)], FALSE)
    <2>1. Max(s) \in s
      BY <1>1, <1>4, GreatestIsMember
    <2> QED BY <1>3, <2>1 DEF IsFold
  <1>5. e = [s \in SUBSET (1..n) |->
                IF s = {} THEN o ELSE Line(e[s \ {Max(s)}], ps[Max(s)], FALSE)]
    <2> HIDE DEF g, n
    <2> QED BY <1>3, <1>4 DEF IsFold
  <1>6. h = [s \in SUBSET (1..n) |->
                IF s = {} THEN o ELSE Line(h[s \ {Max(s)}], ps[Max(s)], FALSE)]
    <2> HIDE DEF g, n
    <2> QED BY <1>5
  <1>7. Decided(o, ps) = h[1..n]
    <2> HIDE DEF n
    <2> QED BY <1>1 DEF Decided, FoldLeft, MapThenFoldSet
  <1> HIDE DEF h, g, n
  <1>8. f[0] = o
    <2>1. 1..0 = {} /\ {} \in SUBSET (1..n) /\ 0 \in 0..n
      BY <1>1
    <2> QED BY <1>6, <2>1
  <1>9. ASSUME NEW k \in 1..n
        PROVE  f[k] = Line(f[k - 1], ps[k], FALSE)
    <2>1. /\ 1..k \in SUBSET (1..n) /\ 1..k # {}
          /\ Max(1..k) = k /\ (1..k) \ {k} = 1..k - 1
      BY <1>1, FirstIndices
    <2>2. h[1..k] = Line(h[1..k - 1], ps[k], FALSE)
      BY <1>6, <2>1
    <2>3. k \in 0..n /\ k - 1 \in 0..n
      BY <1>1
    <2> QED BY <2>2, <2>3
  <1>10. f[n] = h[1..n]
    BY <1>1
  <1> HIDE DEF f
  <1> QED BY <1>7, <1>8, <1>9, <1>10 DEF n, Decides

\* One turn of the loop over what is pending.
Again(s, p, last) ==
    IF file[p] # None /\ (file[p].whole \/ last) THEN Show(Unpend(s, NameOf[p]), p)
    ELSE IF last THEN Unpend(s, NameOf[p]) ELSE s

\* What keeps for a picture that is not all there: it is looked at again.
StillWaits(o, q) == o.dropped = 0 => Waits(o, q)

\* A turn of the loop keeps an output sound, shows the picture if it is to be
\* shown, and leaves those of other names shown and looked at again.
LEMMA AgainFacts ==
    ASSUME FilesAreFresh, NEW o, Sound(o), NEW p \in Paths, NEW last \in BOOLEAN
    PROVE  /\ Sound(Again(o, p, last))
           /\ Distinct =>
                /\ file[p] # None /\ (file[p].whole \/ last) => Shown(Again(o, p, last), p)
                /\ \A q \in Paths : Shown(o, q) => Shown(Again(o, p, last), q)
                /\ \A q \in Paths : ~last /\ ~file[q].whole /\ StillWaits(o, q)
                                        => StillWaits(Again(o, p, last), q)
  <1> DEFINE u == Unpend(o, NameOf[p])
  <1>1. /\ Sound(u) /\ u.images = o.images /\ u.dropped = o.dropped /\ u.dropped \in Nat
        /\ \A q \in Paths : NameOf[q] # NameOf[p] /\ Waits(o, q) => Waits(u, q)
    <2>1. /\ Sound(u) /\ u.images = o.images /\ u.dropped = o.dropped
          /\ \A q \in Paths : NameOf[q] # NameOf[p] /\ Waits(o, q) => Waits(u, q)
      BY UnpendFacts
    <2> HIDE DEF u
    <2>2. u \in Output
      BY <2>1 DEF Sound
    <2>3. u.dropped \in Nat
      BY <2>2 DEF Output
    <2> QED BY <2>1, <2>3
  <1> HIDE DEF u
  <1>2. \A q \in Paths : Shown(o, q) => Shown(u, q)
    BY <1>1 DEF Shown, Has
  <1>3. CASE file[p] # None /\ (file[p].whole \/ last)
    <2> DEFINE r == Show(u, p)
    <2>1. /\ Sound(r)
          /\ r.dropped = u.dropped \/ r.dropped = u.dropped + 1
          /\ r.dropped = u.dropped => Has(r, p)
          /\ \A q \in Paths : NameOf[q] # NameOf[p] =>
                /\ Has(u, q) => Has(r, q)
                /\ Waits(u, q) => Waits(r, q)
      BY <1>1, <1>3, ShowFacts
    <2>2. Again(o, p, last) = r
      BY <1>3 DEF Again, u
    <2> HIDE DEF r
    <2>3. r.dropped = 0 => r.dropped = u.dropped
      BY <1>1, <2>1
    <2>4. Shown(r, p)
      BY <2>1, <2>3 DEF Shown
    <2>5. ASSUME Distinct, NEW q \in Paths, Shown(o, q) PROVE Shown(r, q)
      BY <1>2, <2>1, <2>3, <2>4, <2>5 DEF Shown, Distinct
    <2>6. ASSUME Distinct, NEW q \in Paths, ~last, ~file[q].whole, StillWaits(o, q)
          PROVE StillWaits(r, q)
      <3>1. q # p
        BY <1>3, <2>6
      <3> QED BY <1>1, <2>1, <2>3, <2>6, <3>1 DEF StillWaits, Distinct
    <2> QED BY <2>1, <2>2, <2>4, <2>5, <2>6
  <1>4. CASE ~ (file[p] # None /\ (file[p].whole \/ last)) /\ last
    <2>1. Again(o, p, last) = u
      BY <1>4 DEF Again, u
    <2> QED BY <1>1, <1>2, <1>4, <2>1
  <1>5. CASE ~ (file[p] # None /\ (file[p].whole \/ last)) /\ ~last
    <2>1. Again(o, p, last) = o
      BY <1>5 DEF Again
    <2> QED BY <1>5, <2>1
  <1> QED BY <1>3, <1>4, <1>5

\* The fold over what is pending, as a row of outputs.
LEMMA RetrySteps ==
    ASSUME FilesAreFresh, NEW o, Sound(o), NEW last \in BOOLEAN
    PROVE  \E f : /\ f[0] = o
                  /\ \A k \in 1..Len(o.pending) : f[k] = Again(f[k - 1], o.pending[k], last)
                  /\ Retry(o, last) = f[Len(o.pending)]
  <1> DEFINE S == {s \in Output : Sound(s)}
             ps == o.pending
             n == Len(ps)
             g == [x \in S \X (1..n) |-> Again(x[1], ps[x[2]], last)]
             h == CHOOSE h : h = [s \in SUBSET (1..n) |->
                      IF s = {} THEN o ELSE Again(h[s \ {Max(s)}], ps[Max(s)], last)]
             f == [k \in 0..n |-> h[1..k]]
  <1>1. n \in Nat /\ DOMAIN ps = 1..n /\ \A i \in 1..n : ps[i] \in Paths
    BY OutputFacts DEF Sound
  <1>2. g \in [S \X (1..n) -> S]
    <2>1. \A s \in S : \A i \in 1..n : Again(s, ps[i], last) \in S
      <3> TAKE s \in S
      <3> TAKE i \in 1..n
      <3>1. Sound(s) /\ ps[i] \in Paths
        BY <1>1
      <3>2. Sound(Again(s, ps[i], last))
        BY <3>1, AgainFacts
      <3> QED BY <3>2 DEF Sound
    <2> HIDE DEF S, n
    <2> QED BY <2>1
  <1>3. PICK e : IsFold(e, S, n, o, g)
    <2>1. n \in Nat /\ o \in S /\ g \in [S \X (1..n) -> S]
      BY <1>1, <1>2 DEF Sound
    <2> HIDE DEF g, n, h, f, S
    <2> QED BY <2>1, FoldExists
  <1> HIDE DEF S
  <1>4. ASSUME NEW s \in SUBSET (1..n), s # {}
        PROVE  /\ Max(s) \in 1..n /\ e[s \ {Max(s)}] \in S
               /\ g[<<e[s \ {Max(s)}], Max(s)>>] = Again(e[s \ {Max(s)}], ps[Max(s)], last)
    <2>1. Max(s) \in s
      BY <1>1, <1>4, GreatestIsMember
    <2> QED BY <1>3, <2>1 DEF IsFold
  <1>5. e = [s \in SUBSET (1..n) |->
                IF s = {} THEN o ELSE Again(e[s \ {Max(s)}], ps[Max(s)], last)]
    <2> HIDE DEF g, n
    <2> QED BY <1>3, <1>4 DEF IsFold
  <1>6. h = [s \in SUBSET (1..n) |->
                IF s = {} THEN o ELSE Again(h[s \ {Max(s)}], ps[Max(s)], last)]
    <2> HIDE DEF g, n
    <2> QED BY <1>5
  <1>7. Retry(o, last) = h[1..n]
    <2> HIDE DEF n
    <2> QED BY <1>1 DEF Retry, Again, FoldLeft, MapThenFoldSet
  <1> HIDE DEF h, g, n
  <1>8. f[0] = o
    <2>1. 1..0 = {} /\ {} \in SUBSET (1..n) /\ 0 \in 0..n
      BY <1>1
    <2> QED BY <1>6, <2>1
  <1>9. ASSUME NEW k \in 1..n
        PROVE  f[k] = Again(f[k - 1], ps[k], last)
    <2>1. /\ 1..k \in SUBSET (1..n) /\ 1..k # {}
          /\ Max(1..k) = k /\ (1..k) \ {k} = 1..k - 1
      BY <1>1, FirstIndices
    <2>2. h[1..k] = Again(h[1..k - 1], ps[k], last)
      BY <1>6, <2>1
    <2>3. k \in 0..n /\ k - 1 \in 0..n
      BY <1>1
    <2> QED BY <2>2, <2>3
  <1>10. f[n] = h[1..n]
    BY <1>1
  <1> HIDE DEF f
  <1> QED BY <1>7, <1>8, <1>9, <1>10 DEF n

\* Looking at what is pending keeps an output sound, and shows what is all there.
LEMMA RetryFacts ==
    ASSUME FilesAreFresh, NEW o, Sound(o), NEW last \in BOOLEAN
    PROVE  /\ Sound(Retry(o, last))
           /\ Distinct => \A q \in Paths : Seen(o, q) =>
                /\ file[q] # None /\ file[q].whole => Shown(Retry(o, last), q)
                /\ ~last /\ ~file[q].whole => StillWaits(Retry(o, last), q)
  <1> DEFINE ps == o.pending
             n == Len(ps)
  <1>1. n \in Nat /\ DOMAIN ps = 1..n /\ \A i \in 1..n : ps[i] \in Paths
    BY OutputFacts DEF Sound
  <1>2. PICK f : /\ f[0] = o /\ \A k \in 1..n : f[k] = Again(f[k - 1], ps[k], last)
                 /\ Retry(o, last) = f[n]
    BY RetrySteps
  <1> HIDE DEF n, ps
  <1>3. \A k \in 0..n : Sound(f[k])
    <2> TAKE k \in 0..n
    <2> DEFINE P == {j \in 0..n : Sound(f[j])}
    <2>1. 0 \in P /\ 0 \in 0..k /\ k \in Nat
      BY <1>1, <1>2
    <2>2. ASSUME NEW j \in 0..k - 1, j \in P PROVE j + 1 \in P
      <3>1. j + 1 \in 1..n /\ (j + 1) - 1 = j /\ j + 1 \in 0..n
        BY <1>1
      <3>2. f[j + 1] = Again(f[j], ps[j + 1], last) /\ ps[j + 1] \in Paths
        BY <1>1, <1>2, <3>1
      <3>3. Sound(f[j])
        BY <2>2
      <3>4. Sound(Again(f[j], ps[j + 1], last))
        BY <3>2, <3>3, AgainFacts
      <3> QED BY <3>1, <3>2, <3>4
    <2>3. k \in P
      <3> HIDE DEF P
      <3> QED BY <2>1, <2>2, Upwards
    <2> QED BY <2>3
  <1>4. Sound(Retry(o, last))
    <2>1. n \in 0..n
      BY <1>1
    <2> QED BY <1>2, <1>3, <2>1
  <1>5. ASSUME NEW k \in 1..n
        PROVE  /\ f[k] = Again(f[k - 1], ps[k], last) /\ Sound(f[k - 1]) /\ ps[k] \in Paths
               /\ k - 1 \in 0..n
    BY <1>1, <1>2, <1>3
  \* Once it has been shown, it stays.
  <1>6. ASSUME Distinct, NEW q \in Paths, NEW m \in 0..n, Shown(f[m], q)
        PROVE  Shown(f[n], q)
    <2> DEFINE P == {j \in m..n : Shown(f[j], q)}
    <2>1. m \in P /\ m \in 0..n
      BY <1>1, <1>6
    <2>2. ASSUME NEW j \in m..n - 1, j \in P PROVE j + 1 \in P
      <3>1. j + 1 \in 1..n /\ (j + 1) - 1 = j /\ j + 1 \in m..n
        BY <1>1
      <3>2. f[j + 1] = Again(f[j], ps[j + 1], last) /\ Sound(f[j]) /\ ps[j + 1] \in Paths
        BY <1>5, <3>1
      <3>3. Shown(f[j], q)
        BY <2>2
      <3>4. Shown(Again(f[j], ps[j + 1], last), q)
        BY <1>6, <3>2, <3>3, AgainFacts
      <3> QED BY <3>1, <3>2, <3>4
    <2>3. n \in P
      <3> HIDE DEF P
      <3> QED BY <1>1, <2>1, <2>2, Upwards
    <2> QED BY <2>3
  <1>7. ASSUME Distinct, NEW q \in Paths, Seen(o, q), file[q] # None, file[q].whole
        PROVE  Shown(Retry(o, last), q)
    <2>1. CASE Shown(o, q)
      <3>1. 0 \in 0..n /\ Shown(f[0], q)
        BY <1>1, <1>2, <2>1
      <3> QED BY <1>2, <1>6, <1>7, <3>1
    <2>2. CASE ~Shown(o, q)
      <3>1. PICK m \in 1..n : ps[m] = q
        BY <1>1, <1>7, <2>2 DEF Seen, Shown, Waits, ps
      <3>2. Shown(f[m], q)
        <4>1. f[m] = Again(f[m - 1], q, last) /\ Sound(f[m - 1])
          BY <1>5, <3>1
        <4> QED BY <1>7, <4>1, AgainFacts
      <3>3. m \in 0..n
        BY <1>1
      <3> QED BY <1>2, <1>6, <1>7, <3>2, <3>3
    <2> QED BY <2>1, <2>2
  <1>8. ASSUME Distinct, NEW q \in Paths, Seen(o, q), ~last, ~file[q].whole
        PROVE  StillWaits(Retry(o, last), q)
    <2> DEFINE P == {j \in 0..n : StillWaits(f[j], q)}
    <2>1. 0 \in P /\ 0 \in 0..n
      BY <1>1, <1>2, <1>8 DEF Seen, StillWaits
    <2>2. ASSUME NEW j \in 0..n - 1, j \in P PROVE j + 1 \in P
      <3>1. j + 1 \in 1..n /\ (j + 1) - 1 = j /\ j + 1 \in 0..n
        BY <1>1
      <3>2. f[j + 1] = Again(f[j], ps[j + 1], last) /\ Sound(f[j]) /\ ps[j + 1] \in Paths
        BY <1>5, <3>1
      <3>3. StillWaits(f[j], q)
        BY <2>2
      <3>4. StillWaits(Again(f[j], ps[j + 1], last), q)
        BY <1>8, <3>2, <3>3, AgainFacts
      <3> QED BY <3>1, <3>2, <3>4
    <2>3. n \in P
      <3> HIDE DEF P
      <3> QED BY <1>1, <2>1, <2>2, Upwards
    <2> QED BY <1>2, <2>3
  <1> QED BY <1>4, <1>7, <1>8

\* So does being fed lines; every path they name has been seen after.
LEMMA FeedFacts ==
    ASSUME FilesAreFresh, NEW o, Sound(o), NEW ps \in Seq(Paths)
    PROVE  /\ Sound(Feed(o, ps))
           /\ Distinct => \A q \in Paths :
                  file[q] # None /\ (Seen(o, q) \/ \E k \in DOMAIN ps : ps[k] = q)
                      => Seen(Feed(o, ps), q)
  <1> DEFINE n == Len(ps)
             fed == Decided(o, ps)
  <1>1. n \in Nat /\ DOMAIN ps = 1..n /\ \A i \in 1..n : ps[i] \in Paths
    OBVIOUS
  <1>2. PICK f : Decides(f, o, ps)
    BY FeedSteps
  <1>3. /\ f[0] = o /\ \A k \in 1..n : f[k] = Line(f[k - 1], ps[k], FALSE)
        /\ fed = f[n]
    BY <1>2 DEF Decides
  <1> HIDE DEF n, fed
  <1>4. \A k \in 0..n : Sound(f[k])
    <2> TAKE k \in 0..n
    <2> DEFINE P == {j \in 0..n : Sound(f[j])}
    <2>1. 0 \in P /\ 0 \in 0..k /\ k \in Nat
      BY <1>1, <1>3
    <2>2. ASSUME NEW j \in 0..k - 1, j \in P PROVE j + 1 \in P
      <3>1. j + 1 \in 1..n /\ (j + 1) - 1 = j /\ j + 1 \in 0..n
        BY <1>1
      <3>2. f[j + 1] = Line(f[j], ps[j + 1], FALSE) /\ ps[j + 1] \in Paths
        BY <1>1, <1>3, <3>1
      <3>3. Sound(f[j]) /\ FALSE \in BOOLEAN
        BY <2>2
      <3>4. Sound(Line(f[j], ps[j + 1], FALSE))
        BY <3>2, <3>3, LineFacts
      <3> QED BY <3>1, <3>2, <3>4
    <2>3. k \in P
      <3> HIDE DEF P
      <3> QED BY <2>1, <2>2, Upwards
    <2> QED BY <2>3
  <1>5. Sound(fed) /\ n \in 0..n
    BY <1>1, <1>3, <1>4
  <1>6. ASSUME NEW k \in 1..n
        PROVE  /\ f[k] = Line(f[k - 1], ps[k], FALSE) /\ Sound(f[k - 1]) /\ ps[k] \in Paths
               /\ k - 1 \in 0..n /\ FALSE \in BOOLEAN
    <2>1. k - 1 \in 0..n
      BY <1>1
    <2> QED BY <1>1, <1>3, <1>4, <2>1
  <1>7. ASSUME Distinct, NEW q \in Paths, file[q] # None, NEW m \in 0..n, Seen(f[m], q)
        PROVE  Seen(fed, q)
    <2> DEFINE P == {j \in m..n : Seen(f[j], q)}
    <2>1. m \in P /\ m \in 0..n
      BY <1>1, <1>7
    <2>2. ASSUME NEW j \in m..n - 1, j \in P PROVE j + 1 \in P
      <3>1. j + 1 \in 1..n /\ (j + 1) - 1 = j /\ j + 1 \in m..n
        BY <1>1
      <3>2. /\ f[j + 1] = Line(f[j], ps[j + 1], FALSE) /\ Sound(f[j]) /\ ps[j + 1] \in Paths
            /\ FALSE \in BOOLEAN
        BY <1>6, <3>1
      <3>3. Seen(f[j], q)
        BY <2>2
      <3>4. Seen(Line(f[j], ps[j + 1], FALSE), q)
        BY <1>7, <3>2, <3>3, LineFacts
      <3> QED BY <3>1, <3>2, <3>4
    <2>3. n \in P
      <3> HIDE DEF P
      <3> QED BY <1>1, <2>1, <2>2, Upwards
    <2> QED BY <1>3, <2>3
  <1>8. ASSUME Distinct, NEW q \in Paths, file[q] # None,
               Seen(o, q) \/ \E k \in DOMAIN ps : ps[k] = q
        PROVE  Seen(fed, q)
    <2>1. CASE Seen(o, q)
      <3>1. 0 \in 0..n /\ Seen(f[0], q)
        BY <1>1, <1>3, <2>1
      <3> QED BY <1>7, <1>8, <3>1
    <2>2. CASE \E k \in DOMAIN ps : ps[k] = q
      <3>1. PICK m \in 1..n : ps[m] = q
        BY <1>1, <2>2
      <3>2. f[m] = Line(f[m - 1], q, FALSE) /\ Sound(f[m - 1]) /\ FALSE \in BOOLEAN
        BY <1>6, <3>1
      <3>3. Seen(Line(f[m - 1], q, FALSE), q)
        BY <1>8, <3>2, LineFacts
      <3>4. m \in 0..n
        BY <1>1
      <3> QED BY <1>7, <1>8, <3>2, <3>3, <3>4
    <2> QED BY <1>8, <2>1, <2>2
  <1>9. Feed(o, ps) = Retry(fed, FALSE) /\ FALSE \in BOOLEAN
    BY DEF Feed, Decided, fed
  <1>10. /\ Sound(Retry(fed, FALSE))
         /\ Distinct => \A q \in Paths : Seen(fed, q) =>
                /\ file[q] # None /\ file[q].whole => Shown(Retry(fed, FALSE), q)
                /\ ~FALSE /\ ~file[q].whole => StillWaits(Retry(fed, FALSE), q)
    BY <1>5, <1>9, RetryFacts
  <1>11. ASSUME Distinct, NEW q \in Paths, file[q] # None,
                Seen(o, q) \/ \E k \in DOMAIN ps : ps[k] = q
         PROVE  Seen(Feed(o, ps), q)
    BY <1>8, <1>9, <1>10, <1>11 DEF Seen, Shown, StillWaits
  <1> QED BY <1>9, <1>10, <1>11

\* The last look decides on everything; the line that has not ended may add one.
LEMMA FinishFacts ==
    ASSUME FilesAreFresh, NEW o, Sound(o), half \in Paths \cup {None}
    PROVE  /\ Sound(Finish(o))
           /\ Distinct /\ half = None => \A q \in Paths :
                  Seen(o, q) /\ file[q] # None /\ file[q].whole => Shown(Finish(o), q)
  <1> DEFINE r == IF half = None THEN o ELSE Line(o, half, TRUE)
  <1>1. Sound(r) /\ TRUE \in BOOLEAN
    BY LineFacts
  <1>2. Finish(o) = Retry(r, TRUE)
    BY DEF Finish
  <1>3. half = None => r = o
    OBVIOUS
  <1> HIDE DEF r
  <1> QED BY <1>1, <1>2, <1>3, RetryFacts

-----------------------------------------------------------------------------
\* The variables that are not outputs or files.
Places ==
    /\ half \in Paths \cup {None} /\ lines \in Seq(Paths) /\ read \in 0..Len(lines)
    /\ runs \in 0..MaxPictureRuns /\ going \in BOOLEAN
    /\ named \subseteq Paths \X Nat /\ due \subseteq Paths

\* A path whose marker is younger than its file, when the page has been given
\* that marker.
Told(p) ==
    /\ file[p] # None /\ \E k \in DOMAIN lines : lines[k] = p
    /\ (\A k \in read + 1..Len(lines) : lines[k] # p) => Seen(live, p)

\* The inductive invariant: outputs are sound, whatever may still be shown is of
\* this run, and what is due has been seen or is still to be read.
PictureInv ==
    /\ Places /\ FilesAreFresh
    /\ Sound(live) /\ (final # None => Sound(final))
    /\ \A p \in Paths : file[p] # None => file[p].run <= runs
    /\ \A x \in named : x[2] < runs
    /\ going => final = None /\ runs > 0
    /\ final # None => \A o \in Outputs : \A p \in o.paths : file[p] = None
    /\ Distinct => (going => \A p \in due : Told(p)) /\ FinalAgrees

\* It holds at first.
LEMMA PictureInvStarts == PictureInit => PictureInv
  <1> SUFFICES ASSUME PictureInit PROVE PictureInv
    OBVIOUS
  <1>1. <<>> \in Seq(Paths) /\ Len(<<>>) = 0
    OBVIOUS
  <1>2. Places
    <2>1. lines \in Seq(Paths) /\ read \in 0..Len(lines)
      BY <1>1 DEF PictureInit
    <2>2. runs \in 0..MaxPictureRuns /\ going \in BOOLEAN
      <3>1. runs = 0 /\ going = FALSE /\ MaxPictureRuns \in Nat
        BY PictureBoundsAssumption DEF PictureInit
      <3>2. 0 \in 0..MaxPictureRuns /\ FALSE \in BOOLEAN
        BY <3>1
      <3> QED BY <3>1, <3>2
    <2>3. half \in Paths \cup {None} /\ named \subseteq Paths \X Nat /\ due \subseteq Paths
      BY DEF PictureInit
    <2> QED BY <2>1, <2>2, <2>3 DEF Places
  <1>3. FilesAreFresh /\ Sound(live) /\ final = None
    BY NewIsSound DEF FilesAreFresh, PictureInit
  <1>4. Outputs = {NewOutput} /\ NewOutput.paths = {}
    BY DEF Outputs, PictureInit, NewOutput
  <1> QED BY <1>2, <1>3, <1>4 DEF PictureInv, PictureInit, FinalAgrees

\* What is true of the numbers of runs and of the files, for every action.
LEMMA PlacesFacts ==
    ASSUME Places
    PROVE  runs \in Nat /\ read \in Nat /\ Len(lines) \in Nat /\ DOMAIN lines = 1..Len(lines)
  BY PictureBoundsAssumption DEF Places

\* A file that is begun is of this run, and its path is not due any more.
LEMMA BeginsFileKeeps == PictureInv /\ BeginsFile => PictureInv'
  <1> SUFFICES ASSUME PictureInv, BeginsFile PROVE PictureInv'
    OBVIOUS
  <1>1. PICK p \in Paths, b \in Pictures :
            /\ going
            /\ file' = [file EXCEPT ![p] = [run |-> runs, bytes |-> b, whole |-> FALSE]]
            /\ due' = due \ {p}
            /\ UNCHANGED <<lines, half, read, live, final, runs, going, named>>
    BY DEF BeginsFile, shownVars
  <1> DEFINE w == [run |-> runs, bytes |-> b, whole |-> FALSE]
  <1>2. w \in Written /\ w.run = runs /\ <<p, w.run>> \notin named
    <2>1. runs \in 1..MaxPictureRuns
      BY <1>1 DEF PictureInv, Places
    <2>2. \A x \in named : x[2] < runs
      BY DEF PictureInv
    <2> QED BY <2>1, <2>2 DEF Written
  <1>3. file \in [Paths -> Written \cup {None}]
    BY DEF PictureInv, FilesAreFresh
  <1>4. /\ file' \in [Paths -> Written \cup {None}] /\ file'[p] = w
        /\ \A q \in Paths : q # p => file'[q] = file[q]
    BY <1>1, <1>2, <1>3
  <1> HIDE DEF w
  <1>5. Places'
    BY <1>1 DEF PictureInv, Places
  <1>6. FilesAreFresh' /\ \A q \in Paths : file'[q] # None => file'[q].run <= runs'
    BY <1>1, <1>2, <1>4, PlacesFacts DEF PictureInv, FilesAreFresh
  <1>7. Sound(live)' /\ final' = None
    BY <1>1 DEF PictureInv, Sound
  <1>8. ASSUME Distinct, NEW q \in due' PROVE Told(q)'
    <2>1. q \in Paths /\ q # p /\ Told(q)
      BY <1>1, <1>8 DEF PictureInv, Places
    <2>2. file'[q] = file[q]
      BY <1>4, <2>1
    <2> QED BY <1>1, <2>1, <2>2 DEF Told, Seen, Waits, Has, Image
  <1> QED BY <1>1, <1>5, <1>6, <1>7, <1>8 DEF PictureInv, FinalAgrees, Distinct

\* A file that is all there was looked at again, or is still to be read of.
LEMMA EndsFileKeeps == PictureInv /\ EndsFile => PictureInv'
  <1> SUFFICES ASSUME PictureInv, EndsFile PROVE PictureInv'
    OBVIOUS
  <1>1. PICK p \in Paths :
            /\ going /\ file[p] # None /\ ~file[p].whole
            /\ file' = [file EXCEPT ![p].whole = TRUE]
            /\ UNCHANGED <<lines, half, due, read, live, final, runs, going, named>>
    BY DEF EndsFile, shownVars
  <1> DEFINE w == [file[p] EXCEPT !.whole = TRUE]
  <1>2. file \in [Paths -> Written \cup {None}] /\ file[p] \in Written
    BY <1>1 DEF PictureInv, FilesAreFresh
  <1>3. w \in Written /\ w.run = file[p].run /\ w # None
    BY <1>2, NoneAssumption DEF Written
  <1>4. /\ file' \in [Paths -> Written \cup {None}] /\ file'[p] = w
        /\ \A q \in Paths : q # p => file'[q] = file[q]
    BY <1>1, <1>2, <1>3
  <1> HIDE DEF w
  <1>5. Places'
    BY <1>1 DEF PictureInv, Places
  <1>6. FilesAreFresh' /\ \A q \in Paths : file'[q] # None => file'[q].run <= runs'
    BY <1>1, <1>3, <1>4 DEF PictureInv, FilesAreFresh
  <1>7. Sound(live)' /\ final' = None
    BY <1>1 DEF PictureInv, Sound
  <1>8. ASSUME Distinct, NEW q \in due' PROVE Told(q)'
    <2>1. q \in Paths /\ Told(q)
      BY <1>1, <1>8 DEF PictureInv, Places
    <2>2. CASE q # p
      <3>1. file'[q] = file[q]
        BY <1>4, <2>1, <2>2
      <3> QED BY <1>1, <2>1, <3>1 DEF Told, Seen, Waits, Has, Image
    <2>3. CASE q = p
      BY <1>1, <1>3, <1>4, <2>1, <2>3 DEF Told, Seen, Waits
    <2> QED BY <2>2, <2>3
  <1> QED BY <1>1, <1>5, <1>6, <1>7, <1>8 DEF PictureInv, FinalAgrees, Distinct

\* A file that is gone is not due.
LEMMA DeletesFileKeeps == PictureInv /\ DeletesFile => PictureInv'
  <1> SUFFICES ASSUME PictureInv, DeletesFile PROVE PictureInv'
    OBVIOUS
  <1>1. PICK p \in Paths :
            /\ going /\ file' = [file EXCEPT ![p] = None] /\ due' = due \ {p}
            /\ UNCHANGED <<lines, half, read, live, final, runs, going, named>>
    BY DEF DeletesFile, shownVars
  <1>2. file \in [Paths -> Written \cup {None}]
    BY DEF PictureInv, FilesAreFresh
  <1>3. /\ file' \in [Paths -> Written \cup {None}] /\ file'[p] = None
        /\ \A q \in Paths : q # p => file'[q] = file[q]
    BY <1>1, <1>2
  <1>4. Places'
    BY <1>1 DEF PictureInv, Places
  <1>5. FilesAreFresh' /\ \A q \in Paths : file'[q] # None => file'[q].run <= runs'
    BY <1>1, <1>3 DEF PictureInv, FilesAreFresh
  <1>6. Sound(live)' /\ final' = None
    BY <1>1 DEF PictureInv, Sound
  <1>7. ASSUME Distinct, NEW q \in due' PROVE Told(q)'
    <2>1. q \in Paths /\ q # p /\ Told(q)
      BY <1>1, <1>7 DEF PictureInv, Places
    <2>2. file'[q] = file[q]
      BY <1>3, <2>1
    <2> QED BY <1>1, <2>1, <2>2 DEF Told, Seen, Waits, Has, Image
  <1> QED BY <1>1, <1>4, <1>5, <1>6, <1>7 DEF PictureInv, FinalAgrees, Distinct

\* A line begun is seen by neither pass yet.
LEMMA PrintsKeeps == PictureInv /\ Prints => PictureInv'
  <1> SUFFICES ASSUME PictureInv, Prints PROVE PictureInv'
    OBVIOUS
  <1>1. /\ going /\ half' \in Paths
        /\ UNCHANGED <<file, lines, due, read, live, final, runs, going, named>>
    BY DEF Prints, shownVars
  <1>2. Places' /\ FilesAreFresh' /\ Sound(live)' /\ final' = None
    BY <1>1 DEF PictureInv, Places, FilesAreFresh, Sound
  <1>3. ASSUME Distinct, NEW q \in due' PROVE Told(q)'
    <2>1. Told(q)
      BY <1>1, <1>3 DEF PictureInv
    <2> QED BY <1>1, <2>1 DEF Told, Seen, Waits, Has, Image
  <1> QED BY <1>1, <1>2, <1>3 DEF PictureInv, FinalAgrees, Distinct

\* A line that has ended is due if its file is there, and is still to be read.
LEMMA EndsLineKeeps == PictureInv /\ EndsLine => PictureInv'
  <1> SUFFICES ASSUME PictureInv, EndsLine PROVE PictureInv'
    OBVIOUS
  <1>1. /\ going /\ half # None /\ lines' = Append(lines, half) /\ half' = None
        /\ due' = IF file[half] = None THEN due ELSE due \cup {half}
        /\ UNCHANGED <<file, read, live, final, runs, going, named>>
    BY DEF EndsLine, shownVars
  <1>2. half \in Paths /\ lines \in Seq(Paths) /\ read \in 0..Len(lines)
    BY <1>1 DEF PictureInv, Places
  <1>3. /\ lines' \in Seq(Paths) /\ Len(lines') = Len(lines) + 1 /\ Len(lines) \in Nat
        /\ DOMAIN lines' = 1..Len(lines) + 1 /\ lines'[Len(lines) + 1] = half
        /\ \A k \in 1..Len(lines) : lines'[k] = lines[k]
        /\ DOMAIN lines = 1..Len(lines)
    BY <1>1, <1>2
  <1>4. Places'
    <2>1. read' \in 0..Len(lines')
      BY <1>1, <1>2, <1>3
    <2> QED BY <1>1, <1>2, <1>3, <2>1 DEF PictureInv, Places
  <1>5. FilesAreFresh' /\ Sound(live)' /\ final' = None
    BY <1>1 DEF PictureInv, FilesAreFresh, Sound
  <1>6. ASSUME Distinct, NEW q \in due' PROVE Told(q)'
    <2>1. file'[q] # None
      BY <1>1, <1>6 DEF PictureInv, Told
    <2>2. \E k \in DOMAIN lines' : lines'[k] = q
      <3>1. CASE q = half
        <4>1. Len(lines) + 1 \in DOMAIN lines'
          BY <1>3
        <4> QED BY <1>3, <3>1, <4>1
      <3>2. CASE q # half
        <4>1. PICK k \in DOMAIN lines : lines[k] = q
          BY <1>1, <1>6, <3>2 DEF PictureInv, Told
        <4>2. k \in DOMAIN lines' /\ lines'[k] = q
          BY <1>3, <4>1
        <4> QED BY <4>2
      <3> QED BY <3>1, <3>2
    <2>3. ASSUME \A k \in read' + 1..Len(lines') : lines'[k] # q
          PROVE  Seen(live, q)'
      <3>1. Len(lines) + 1 \in read' + 1..Len(lines')
        BY <1>1, <1>2, <1>3
      <3>2. q # half
        BY <1>3, <2>3, <3>1
      <3>3. Told(q)
        BY <1>1, <1>6, <3>2 DEF PictureInv
      <3>4. \A k \in read + 1..Len(lines) : lines[k] # q
        <4> TAKE k \in read + 1..Len(lines)
        <4>1. k \in 1..Len(lines) /\ k \in read' + 1..Len(lines')
          BY <1>1, <1>2, <1>3
        <4> QED BY <1>3, <2>3, <4>1
      <3> QED BY <1>1, <3>3, <3>4 DEF Told, Seen, Waits, Has, Image
    <2> QED BY <2>1, <2>2, <2>3 DEF Told
  <1> QED BY <1>1, <1>4, <1>5, <1>6 DEF PictureInv, FinalAgrees, Distinct

\* A look of the page sees what is new, and all that is pending.
LEMMA LooksKeeps == PictureInv /\ Looks => PictureInv'
  <1> SUFFICES ASSUME PictureInv, Looks PROVE PictureInv'
    OBVIOUS
  <1> DEFINE ps == SubSeq(lines, read + 1, Len(lines))
             fed == Feed(live, ps)
  <1>1. /\ going /\ read' = Len(lines) /\ live' = fed
        /\ UNCHANGED <<file, lines, half, due, final, runs, going, named>>
    BY DEF Looks, drawingVars
  <1>2. lines \in Seq(Paths) /\ read \in 0..Len(lines) /\ Len(lines) \in Nat
    BY DEF PictureInv, Places
  <1>3. /\ ps \in Seq(Paths) /\ Len(ps) = Len(lines) - read
        /\ \A i \in 1..Len(lines) - read : ps[i] = lines[read + i]
    <2>1. \A i \in read + 1..Len(lines) : lines[i] \in Paths
      BY <1>2
    <2>2. /\ ps \in Seq(Paths)
          /\ Len(ps) = IF read + 1 <= Len(lines) THEN Len(lines) - (read + 1) + 1 ELSE 0
          /\ \A i \in 1..Len(lines) - (read + 1) + 1 : ps[i] = lines[read + 1 + i - 1]
      BY <1>2, SubSeqProperties
    <2> HIDE DEF ps
    <2> QED BY <1>2, <2>2
  <1>4. /\ Sound(fed)
        /\ Distinct => \A q \in Paths :
               file[q] # None /\ (Seen(live, q) \/ \E k \in DOMAIN ps : ps[k] = q)
                   => Seen(fed, q)
    <2>1. FilesAreFresh /\ Sound(live) /\ ps \in Seq(Paths)
      BY <1>3 DEF PictureInv
    <2> HIDE DEF ps
    <2> QED BY <2>1, FeedFacts
  <1> HIDE DEF ps, fed
  <1>5. Places' /\ FilesAreFresh' /\ final' = None
    <2>1. read' \in 0..Len(lines')
      BY <1>1, <1>2
    <2> QED BY <1>1, <2>1 DEF PictureInv, Places, FilesAreFresh
  <1>6. Sound(live)'
    BY <1>1, <1>4 DEF Sound
  <1>7. ASSUME Distinct, NEW q \in due' PROVE Told(q)'
    <2>1. Told(q) /\ q \in Paths
      BY <1>1, <1>7 DEF PictureInv, Places
    <2>2. Seen(fed, q)
      <3>1. CASE \A k \in read + 1..Len(lines) : lines[k] # q
        BY <1>4, <1>7, <2>1, <3>1 DEF Told
      <3>2. CASE \E k \in read + 1..Len(lines) : lines[k] = q
        <4>1. PICK k \in read + 1..Len(lines) : lines[k] = q
          BY <3>2
        <4>2. k - read \in 1..Len(lines) - read /\ read + (k - read) = k
          BY <1>2
        <4>3. k - read \in DOMAIN ps /\ ps[k - read] = q
          BY <1>3, <4>1, <4>2
        <4> QED BY <1>4, <1>7, <2>1, <4>3 DEF Told
      <3> QED BY <3>1, <3>2
    <2> QED BY <1>1, <2>1, <2>2 DEF Told, Seen, Waits, Has, Image
  <1> QED BY <1>1, <1>5, <1>6, <1>7 DEF PictureInv, FinalAgrees, Distinct

\* The pass over everything comes to what the live one did; no file that either
\* showed is left.
LEMMA RunEndsKeeps == PictureInv /\ RunEnds => PictureInv'
  <1> SUFFICES ASSUME PictureInv, RunEnds PROVE PictureInv'
    OBVIOUS
  <1> DEFINE fed == Feed(NewOutput, lines)
             last == Finish(fed)
  <1>1. /\ going /\ going' = FALSE /\ final' = last
        /\ file' = [p \in Paths |-> IF p \in live.paths \cup final'.paths THEN None ELSE file[p]]
        /\ UNCHANGED <<lines, half, due, read, live, runs, named>>
    BY DEF RunEnds
  <1>2. FilesAreFresh /\ lines \in Seq(Paths) /\ half \in Paths \cup {None}
    BY DEF PictureInv, Places
  <1>3. /\ Sound(fed)
        /\ Distinct => \A q \in Paths :
               file[q] # None /\ (Seen(NewOutput, q) \/ \E k \in DOMAIN lines : lines[k] = q)
                   => Seen(fed, q)
    BY <1>2, NewIsSound, FeedFacts
  <1> HIDE DEF fed
  <1>4. /\ Sound(last)
        /\ Distinct /\ half = None => \A q \in Paths :
               Seen(fed, q) /\ file[q] # None /\ file[q].whole => Shown(last, q)
    BY <1>2, <1>3, FinishFacts
  <1> HIDE DEF last
  <1>5. /\ Places' /\ Sound(live)' /\ Sound(final)'
    BY <1>1, <1>4 DEF PictureInv, Places, Sound
  <1>6. /\ FilesAreFresh' /\ \A q \in Paths : file'[q] # None => file'[q].run <= runs'
    BY <1>1 DEF PictureInv, FilesAreFresh
  <1>7. \A o \in Outputs' : \A p \in o.paths : file'[p] = None
    <2>1. \A o \in Outputs' : o = live' \/ o = final'
      BY DEF Outputs
    <2>2. live'.paths \subseteq Paths /\ final'.paths \subseteq Paths
      BY <1>1, <1>4 DEF PictureInv, Sound, Output
    <2> QED BY <1>1, <2>1, <2>2
  <1>8. ASSUME Distinct PROVE FinalAgrees'
    <2> SUFFICES ASSUME read = Len(lines), half = None, live.pending = <<>>,
                        live.dropped = 0, final'.dropped = 0, NEW p \in due
                 PROVE  \E i \in DOMAIN live.images, j \in DOMAIN final'.images :
                            live.images[i].path = p /\ live.images[i] = final'.images[j]
      BY <1>1 DEF FinalAgrees
    <2>1. p \in Paths /\ Told(p)
      BY <1>1, <1>8 DEF PictureInv, Places
    <2>2. \A k \in read + 1..Len(lines) : lines[k] # p
      <3>1. Len(lines) \in Nat
        BY <1>2
      <3> QED BY <3>1
    <2>3. Seen(live, p)
      BY <2>1, <2>2 DEF Told
    <2>4. ~Waits(live, p)
      BY DEF Waits
    <2>5. file[p].whole /\ Has(live, p)
      BY <2>3, <2>4 DEF Seen
    <2>6. Seen(fed, p) /\ file[p] # None
      BY <1>3, <1>8, <2>1 DEF Told
    <2>7. Has(last, p)
      BY <1>1, <1>4, <1>8, <2>1, <2>5, <2>6 DEF Shown
    <2> QED BY <1>1, <2>5, <2>7 DEF Has, Image
  <1> QED BY <1>1, <1>5, <1>6, <1>7, <1>8 DEF PictureInv, Distinct

\* A run that is rejected leaves everything as it is.
LEMMA RunFailsKeeps == PictureInv /\ RunFails => PictureInv'
  <1> SUFFICES ASSUME PictureInv, RunFails PROVE PictureInv'
    OBVIOUS
  <1>1. /\ going /\ going' = FALSE
        /\ UNCHANGED <<file, lines, half, due, read, live, final, runs, named>>
    BY DEF RunFails, drawingVars, shownVars
  <1>2. Places' /\ FilesAreFresh' /\ Sound(live)' /\ final' = None
    BY <1>1 DEF PictureInv, Places, FilesAreFresh, Sound
  <1> QED BY <1>1, <1>2 DEF PictureInv, FinalAgrees

\* A run starts with an output of its own, and no file of what the last one showed.
LEMMA RunStartsKeeps == PictureInv /\ RunStarts => PictureInv'
  <1> SUFFICES ASSUME PictureInv, RunStarts PROVE PictureInv'
    OBVIOUS
  <1>1. /\ ~going /\ runs < MaxPictureRuns
        /\ going' = TRUE /\ runs' = runs + 1
        /\ lines' = <<>> /\ half' = None /\ due' = {}
        /\ read' = 0 /\ live' = NewOutput /\ final' = None
        /\ named' = named \cup IF final = None THEN {}
                               ELSE {<<p, runs>> : p \in live.paths \cup final.paths}
        /\ file' = file
    BY DEF RunStarts
  <1>2. runs \in Nat
    BY PlacesFacts DEF PictureInv
  <1>3. final # None => \A p \in live.paths \cup final.paths : p \in Paths /\ file[p] = None
    BY DEF PictureInv, Outputs, Sound, Output
  <1>4. Places'
    <2>1. lines' \in Seq(Paths) /\ read' \in 0..Len(lines')
      BY <1>1
    <2>2. runs' \in 0..MaxPictureRuns
      BY <1>1, <1>2, PictureBoundsAssumption
    <2>3. named' \subseteq Paths \X Nat
      BY <1>1, <1>2, <1>3 DEF PictureInv, Places
    <2> QED BY <1>1, <2>1, <2>2, <2>3 DEF Places
  <1>5. \A x \in named' : x[2] < runs'
    <2>1. \A x \in named : x[2] \in Nat /\ x[2] < runs
      BY DEF PictureInv, Places
    <2> QED BY <1>1, <1>2, <2>1
  <1>6. FilesAreFresh' /\ \A p \in Paths : file'[p] # None => file'[p].run <= runs'
    <2>1. ASSUME NEW p \in Paths, file[p] # None PROVE <<p, file[p].run>> \notin named'
      BY <1>1, <1>3, <2>1 DEF PictureInv, FilesAreFresh
    <2>2. ASSUME NEW p \in Paths, file[p] # None PROVE file[p].run <= runs + 1
      <3>1. file[p].run \in Nat /\ file[p].run <= runs
        BY <2>2 DEF PictureInv, FilesAreFresh, Written
      <3> QED BY <1>2, <3>1
    <2>3. file \in [Paths -> Written \cup {None}]
      BY DEF PictureInv, FilesAreFresh
    <2> QED BY <1>1, <2>1, <2>2, <2>3 DEF FilesAreFresh
  <1>7. Sound(live)'
    <2>1. /\ NewOutput \in Output /\ NewOutput.total = Held(NewOutput.images)
          /\ NewOutput.total <= MaxBytes
          /\ DOMAIN NewOutput.images = {} /\ DOMAIN NewOutput.pending = {}
      BY NewIsSound DEF Sound, NewOutput
    <2> QED BY <1>1, <2>1 DEF Sound
  <1> QED BY <1>1, <1>2, <1>4, <1>5, <1>6, <1>7 DEF PictureInv, FinalAgrees

\* Every step keeps it, and so does none.
LEMMA PictureInvKept == PictureInv /\ [PictureNext]_pictureVars => PictureInv'
  <1> SUFFICES ASSUME PictureInv, [PictureNext]_pictureVars PROVE PictureInv'
    OBVIOUS
  <1>1. CASE BeginsFile BY <1>1, BeginsFileKeeps
  <1>2. CASE EndsFile BY <1>2, EndsFileKeeps
  <1>3. CASE DeletesFile BY <1>3, DeletesFileKeeps
  <1>4. CASE Prints BY <1>4, PrintsKeeps
  <1>5. CASE EndsLine BY <1>5, EndsLineKeeps
  <1>6. CASE Looks BY <1>6, LooksKeeps
  <1>7. CASE RunEnds BY <1>7, RunEndsKeeps
  <1>8. CASE RunStarts BY <1>8, RunStartsKeeps
  <1>10. CASE RunFails BY <1>10, RunFailsKeeps
  <1>9. CASE UNCHANGED pictureVars
    <2>1. UNCHANGED <<file, lines, half, due, read, live, final, runs, going, named>>
      BY <1>9 DEF pictureVars, drawingVars, shownVars
    <2>2. Places' /\ FilesAreFresh' /\ Sound(live)' /\ (final' # None => Sound(final)')
      BY <2>1 DEF PictureInv, Places, FilesAreFresh, Sound
    <2>3. Outputs' = Outputs /\ Distinct' = Distinct
      BY <2>1 DEF Outputs, Distinct
    <2>4. \A p : Told(p) => Told(p)'
      BY <2>1 DEF Told, Seen, Waits, Has, Image
    <2>5. FinalAgrees => FinalAgrees'
      BY <2>1 DEF FinalAgrees
    <2> QED BY <2>1, <2>2, <2>3, <2>4, <2>5 DEF PictureInv
  <1> QED BY <1>1, <1>2, <1>3, <1>4, <1>5, <1>6, <1>7, <1>8, <1>9,
            <1>10
         DEF PictureNext

\* So it always holds.
LEMMA PictureInvHolds == PictureSpec => []PictureInv
  <1> QED BY PictureInvStarts, PictureInvKept, PTL DEF PictureSpec

\* The outputs, the files and the run hold what their comments say; a name has at
\* most one picture, and one place among those to look at again (the two Maps of
\* web/wwwroot/live-output.js).
THEOREM PictureTypes == PictureSpec => []PictureTypeOK
  <1>1. PictureInv => PictureTypeOK
    <2> SUFFICES ASSUME PictureInv PROVE PictureTypeOK
      OBVIOUS
    <2>1. \A o \in Outputs : Sound(o)
      BY DEF PictureInv, Outputs
    <2> QED BY <2>1 DEF PictureInv, PictureTypeOK, Places, FilesAreFresh, Sound
  <1> QED BY <1>1, PictureInvHolds, PTL

\* The total that _show() keeps is the bytes of what is held, and within
\* MAX_IMAGE_BYTES, however often pictures replace one another or are turned away.
THEOREM Budget == PictureSpec => []BudgetIsKept
  <1>1. PictureInv => BudgetIsKept
    BY DEF PictureInv, BudgetIsKept, Outputs, Sound
  <1> QED BY <1>1, PictureInvHolds, PTL

\* A path that was shown in one run shows no picture of that run in any later one:
\* what the end of run() removes is enough, for any number of runs.
THEOREM OwnPictures == PictureSpec => []PicturesAreThisRuns
  <1>1. PictureInv => PicturesAreThisRuns
    BY DEF PictureInv, PicturesAreThisRuns, Outputs, Sound
  <1> QED BY <1>1, PictureInvHolds, PTL

\* What the page settles on is what it showed while the program ran, under the
\* conditions FinalAgrees names, when no two paths have a base name in common: two
\* that have share one picture, and the two passes may differ in which it is.
THEOREM LastLookAgrees ==
    ASSUME Distinct PROVE PictureSpec => []FinalAgrees
  <1>1. PictureInv => FinalAgrees
    BY DEF PictureInv
  <1> QED BY <1>1, PictureInvHolds, PTL
=============================================================================
