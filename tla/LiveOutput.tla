----------------------------- MODULE LiveOutput -----------------------------
(***************************************************************************)
(* The pictures of a run (web/wwwroot/live-output.js, and run() of         *)
(* playground.js): the program writes files, in steps, and prints markers  *)
(* that name them; the page looks from time to time, and reads everything  *)
(* once more when the run is over.                                         *)
(*                                                                         *)
(* A line is a marker or not; the text that is shown is not modelled.  How *)
(* the output gets to the page is RunChannel, and so is that main.js may   *)
(* start a run beside another: here each is over when the next one starts. *)
(***************************************************************************)
EXTENDS Naturals, Sequences, FiniteSets, SequencesExt, FiniteSetsExt

CONSTANTS Paths,     \* of the files a program writes
          Names,     \* what is after their last slash
          NameOf,    \* baseName()
          Pictures,  \* what a run may draw, as the number of its bytes
          MaxBytes,  \* MAX_IMAGE_BYTES
          None,
          MaxLines,  \* bound: the markers one run prints
          MaxPictureRuns    \* bound: the runs of the tab

ASSUME NamesAssumption == NameOf \in [Paths -> Names]
ASSUME BytesAssumption == Pictures \subseteq Nat \ {0} /\ MaxBytes \in Nat
ASSUME PictureBoundsAssumption == MaxLines \in Nat /\ MaxPictureRuns \in Nat \ {0}

VARIABLES
    file,   \* what is at each path: see Written, or None
    lines,  \* the paths in the markers of the lines that have ended
    half,   \* the path in the line that has not, or None
    read,   \* how many of the lines the page has been given
    live,   \* the LiveOutput of the run: see Output
    final,  \* the one of its end, None before
    runs,   \* the runs started
    going,  \* the program runs
    due,    \* the paths whose last marker is younger than the file's last writing
    named   \* <<p, r>> when the output of run r, which came to its end, showed the path p

drawingVars == <<file, lines, half, due>>
shownVars == <<read, live, final>>
pictureVars == <<drawingVars, shownVars, runs, going, named>>

\* A PNG says where it ends: isCompletePng().
Written == [run : 1..MaxPictureRuns, bytes : Pictures, whole : BOOLEAN]

ASSUME NoneAssumption == None \notin Paths \cup Written

\* An image is of a path under a name; pending are the paths to look at again;
\* both are in the order the names came in.
Output == [images : Seq([path : Paths, bytes : Written]), pending : Seq(Paths),
           paths : SUBSET Paths, total : Nat, dropped : Nat]
NewOutput == [images |-> <<>>, pending |-> <<>>, paths |-> {}, total |-> 0, dropped |-> 0]

Outputs == {live} \cup IF final = None THEN {} ELSE {final}

\* Where the image, or the pending path, of a name is: 0 when there is none.
ImageOf(o, n) == SelectInSeq(o.images, LAMBDA i : NameOf[i.path] = n)
PendingOf(o, n) == SelectInSeq(o.pending, LAMBDA p : NameOf[p] = n)
Size(w) == IF w.whole THEN w.bytes ELSE 1

\* The bytes of the pictures that are held.
Held(images) == FoldLeft(LAMBDA n, i : n + Size(i.bytes), 0, images)

-----------------------------------------------------------------------------
(* The class LiveOutput; what is at a path is read as it is at the time.    *)

Unpend(o, n) ==
    [o EXCEPT !.pending = RemoveFirstMatch(@, LAMBDA p : NameOf[p] = n)]

\* Broken: the bytes of the picture that is replaced are not given back.
ShowKeeping(o, p) ==
    LET at == ImageOf(o, NameOf[p])
        image == [path |-> p, bytes |-> file[p]]
    IN IF at # 0 /\ o.images[at] = image THEN Unpend(o, NameOf[p])
       ELSE IF o.total + Size(file[p]) > MaxBytes
            THEN [o EXCEPT !.dropped = @ + 1]
       ELSE [o EXCEPT !.total = @ + Size(file[p]),
                      !.images = IF at = 0 THEN Append(@, image) ELSE [@ EXCEPT ![at] = image]]

\* Broken: a picture of the same size is taken for the same.
ShowBySize(o, p) ==
    LET at == ImageOf(o, NameOf[p])
        image == [path |-> p, bytes |-> file[p]]
        freed == IF at = 0 THEN 0 ELSE Size(o.images[at].bytes)
    IN IF at # 0 /\ freed = Size(file[p]) THEN Unpend(o, NameOf[p])
       ELSE IF o.total - freed + Size(file[p]) > MaxBytes
            THEN [o EXCEPT !.dropped = @ + 1]
       ELSE [o EXCEPT !.total = @ - freed + Size(file[p]),
                      !.images = IF at = 0 THEN Append(@, image) ELSE [@ EXCEPT ![at] = image]]

\* _show(): the same again changes nothing; too many bytes are not shown.
Show(o, p) ==
    LET at == ImageOf(o, NameOf[p])
        image == [path |-> p, bytes |-> file[p]]
        freed == IF at = 0 THEN 0 ELSE Size(o.images[at].bytes)
    IN IF at # 0 /\ o.images[at] = image THEN Unpend(o, NameOf[p])
       ELSE IF o.total - freed + Size(file[p]) > MaxBytes
            THEN [o EXCEPT !.dropped = @ + 1]
       ELSE [o EXCEPT !.total = @ - freed + Size(file[p]),
                      !.images = IF at = 0 THEN Append(@, image) ELSE [@ EXCEPT ![at] = image]]

\* this._pending.set(): a name keeps its place.
Pend(o, p) ==
    LET at == PendingOf(o, NameOf[p])
    IN [o EXCEPT !.pending = IF at = 0 THEN Append(@, p) ELSE [@ EXCEPT ![at] = p]]

\* Broken: a picture that is not all there is not looked at again.
LineOnce(o, p, last) ==
    IF file[p] = None \/ (~file[p].whole /\ ~last) THEN o
    ELSE Show([o EXCEPT !.paths = @ \cup {p}], p)

\* _line(): without a file, the line is text.
Line(o, p, last) ==
    IF file[p] = None THEN o
    ELSE LET seen == [o EXCEPT !.paths = @ \cup {p}]
         IN IF file[p].whole \/ last THEN Show(seen, p) ELSE Pend(seen, p)

\* _retry(), over the pending pictures in their order.
Retry(o, last) ==
    FoldLeft(LAMBDA s, p :
                 IF file[p] # None /\ (file[p].whole \/ last) THEN Show(Unpend(s, NameOf[p]), p)
                 ELSE IF last THEN Unpend(s, NameOf[p]) ELSE s,
             o, o.pending)

\* feed() of whole lines; finish() decides on the line that has not ended.
Feed(o, ps) == Retry(FoldLeft(LAMBDA s, p : Line(s, p, FALSE), o, ps), FALSE)
Finish(o) == Retry(IF half = None THEN o ELSE Line(o, half, TRUE), TRUE)

-----------------------------------------------------------------------------
(* The program.  A file is written from its start; a marker may name any.  *)

BeginsFile ==
    \E p \in Paths, b \in Pictures :
        /\ going /\ (file[p] # None => file[p].whole)
        /\ file' = [file EXCEPT ![p] = [run |-> runs, bytes |-> b, whole |-> FALSE]]
        /\ due' = due \ {p}
        /\ UNCHANGED <<lines, half, shownVars, runs, going, named>>

EndsFile ==
    \E p \in Paths :
        /\ going /\ file[p] # None /\ ~file[p].whole
        /\ file' = [file EXCEPT ![p].whole = TRUE]
        /\ UNCHANGED <<lines, half, due, shownVars, runs, going, named>>

DeletesFile ==
    \E p \in Paths :
        /\ going /\ file[p] # None
        /\ file' = [file EXCEPT ![p] = None] /\ due' = due \ {p}
        /\ UNCHANGED <<lines, half, shownVars, runs, going, named>>

\* A line is begun, and ended.
Prints ==
    /\ going /\ half = None /\ Len(lines) < MaxLines
    /\ \E p \in Paths : half' = p
    /\ UNCHANGED <<file, lines, due, shownVars, runs, going, named>>

EndsLine ==
    /\ going /\ half # None
    /\ lines' = Append(lines, half) /\ half' = None
    /\ due' = IF file[half] = None THEN due ELSE due \cup {half}
    /\ UNCHANGED <<file, shownVars, runs, going, named>>

-----------------------------------------------------------------------------
(* run().                                                                   *)

\* The interval: what is new is fed, and what is pending looked at, always.
Looks ==
    /\ going /\ read' = Len(lines)
    /\ UNCHANGED <<drawingVars, final, runs, going, named>>
    /\ live' = Feed(live, SubSeq(lines, read + 1, Len(lines)))

\* Broken: only what the live pass showed is removed.
RunEndsWithLive ==
    /\ going /\ going' = FALSE
    /\ final' = Finish(Feed(NewOutput, lines))
    /\ file' = [p \in Paths |-> IF p \in live.paths THEN None ELSE file[p]]
    /\ UNCHANGED <<lines, half, due, read, live, runs, named>>

\* The run is over: everything is read from the start, with the files as they
\* are, and what either pass showed is removed.
RunEnds ==
    /\ going /\ going' = FALSE
    /\ final' = Finish(Feed(NewOutput, lines))
    /\ file' = [p \in Paths |-> IF p \in live.paths \cup final'.paths THEN None ELSE file[p]]
    /\ UNCHANGED <<lines, half, due, read, live, runs, named>>

\* Run is rejected: there is no last look, and nothing is removed.
RunFails ==
    /\ going /\ going' = FALSE
    /\ UNCHANGED <<drawingVars, shownVars, runs, named>>

RunStarts ==
    /\ ~going /\ runs < MaxPictureRuns
    /\ going' = TRUE /\ runs' = runs + 1
    /\ lines' = <<>> /\ half' = None /\ due' = {}
    /\ read' = 0 /\ live' = NewOutput /\ final' = None
    /\ named' = named \cup IF final = None THEN {}
                           ELSE {<<p, runs>> : p \in live.paths \cup final.paths}
    /\ UNCHANGED file

PictureInit ==
    /\ file = [p \in Paths |-> None] /\ lines = <<>> /\ half = None /\ due = {}
    /\ read = 0 /\ live = NewOutput /\ final = None
    /\ runs = 0 /\ going = FALSE /\ named = {}

PictureNext ==
    \/ BeginsFile \/ EndsFile \/ DeletesFile \/ Prints \/ EndsLine
    \/ Looks \/ RunEnds \/ RunFails \/ RunStarts

PictureSpec == PictureInit /\ [][PictureNext]_pictureVars

\* The interval fires.  Nothing is asked of the program: it may wait forever.
FairPictureSpec == PictureSpec /\ WF_pictureVars(Looks)

-----------------------------------------------------------------------------

\* Every variable holds a value of its kind; at most one picture, and one path
\* to look at again, for each name.
PictureTypeOK ==
    /\ file \in [Paths -> Written \cup {None}] /\ half \in Paths \cup {None}
    /\ lines \in Seq(Paths) /\ read \in 0..Len(lines)
    /\ \A o \in Outputs :
           /\ o \in Output
           /\ \A i, j \in DOMAIN o.images :
                  NameOf[o.images[i].path] = NameOf[o.images[j].path] => i = j
           /\ \A i, j \in DOMAIN o.pending :
                  NameOf[o.pending[i]] = NameOf[o.pending[j]] => i = j
    /\ runs \in 0..MaxPictureRuns /\ going \in BOOLEAN
    /\ named \subseteq Paths \X Nat /\ due \subseteq Paths

\* What is held is what is charged for, however often pictures have replaced
\* one another and whatever was turned away, and it is never too much.
\* (this._total and MAX_IMAGE_BYTES)
BudgetIsKept ==
    \A o \in Outputs :
        o.total = Held(o.images) /\ o.total <= MaxBytes

\* A path that has been shown in one run shows no picture of that run in a later
\* one, whatever the later one writes and in whatever order; if the run was not
\* rejected, which leaves its files.
\* (the unlink() at the end of run(): "would otherwise be shown the last run's
\* picture")
PicturesAreThisRuns ==
    \A o \in Outputs : \A i \in DOMAIN o.images :
        <<o.images[i].path, o.images[i].bytes.run>> \notin named

\* What the page settles on is what the live pass showed, for every path whose
\* marker came after its file's last writing, once the live pass has seen all and
\* neither pass has turned a picture away.
\* ("which is what the live pass last showed", in run())
FinalAgrees ==
    final # None /\ read = Len(lines) /\ half = None /\ live.pending = <<>>
        /\ live.dropped = 0 /\ final.dropped = 0
    => \A p \in due : \E i \in DOMAIN live.images, j \in DOMAIN final.images :
           live.images[i].path = p /\ live.images[i] = final.images[j]

\* A picture the program has finished, and has named since it began it, is
\* shown while the program runs, even if it prints nothing more; unless it is
\* drawn again, or there is no room for it.
\* (feed() with nothing, on every tick of the interval)
Showing(p) == \E i \in DOMAIN live.images : live.images[i] = [path |-> p, bytes |-> file[p]]
CatchesUp ==
    \A p \in Paths :
        (going /\ p \in due /\ file[p].whole)
            ~> (Showing(p) \/ ~going \/ p \notin due \/ live.dropped > 0)
=============================================================================
