----------------------------- MODULE EditorPage -----------------------------
(***************************************************************************)
(* What the editor's page holds around the editor (web/wwwroot/main.js):   *)
(* the program its address names, the swap to another one, the reader's    *)
(* file (files.js), the text kept for the next visit, and which run each   *)
(* of them starts.  How a run goes is RunChannel.                          *)
(*                                                                         *)
(* A text is what it was made from and how many edits ago; what is in the  *)
(* reader's files is not modelled.  The browser has the File System Access *)
(* API, its storage works, and one tab is open.                            *)
(***************************************************************************)
EXTENDS Naturals, Sequences, FiniteSets, SequencesExt

CONSTANTS Programs,     \* the names of the collections
          Takes,        \* those with a run.args
          Unsupported,  \* those with a playground-unsupported
          Files,        \* the reader's files
          NameOf,       \* the name a program is offered to be saved under
          None,         \* nothing; the address of no program; no arguments
          Own,          \* the reader's own: a text, or arguments
          MaxEdits,     \* bound: the edits of a text
          MaxLoads,     \* bound: the programs being loaded for a swap at a time
          MaxHistory    \* bound: the entries of the tab's history

ASSUME ProgramsAssumption ==
    /\ Takes \subseteq Programs /\ Unsupported \subseteq Programs
    /\ None \notin Programs \cup Files \cup {Own}
    /\ Own \notin Programs \cup Files /\ Programs \cap Files = {}
ASSUME NamesAssumption == NameOf \in [Programs -> Files \cup {None}]
ASSUME BoundsAssumption == MaxEdits \in Nat /\ MaxLoads \in Nat /\ MaxHistory \in Nat \ {0}

VARIABLES
    entries,      \* the tab's history: programs and None
    at,           \* where in it the tab is
    page,         \* "loading" until loadProgram() answers and there is an editor,
                  \* "starting" until anything listens to it, then "ready"
    requested,    \* requested, program, provenance, currentName: main.js's
    program,
    provenance,
    currentName,
    title,        \* what document.title names
    text,         \* the editor's
    loadedSource,
    files,        \* the program whose data files the next run writes
    field,        \* the arguments' field: whose are shown; None when hidden
    loads,        \* the swaps that await loadProgram(): see Load
    pending,      \* the debounced write of the text is due
    early,        \* what became of the text before anything listened: see Early
    stored,       \* STORAGE_KEY, None when there is nothing
    handle,       \* HANDLE_KEY: the file Save writes to
    job,          \* a file being read or written: see Job
    note,         \* STOPPED_KEY
    run           \* the last run, until it ends: see RunsItself

historyVars == <<entries, at>>
programVars == <<requested, program, provenance, title, loadedSource, files>>
editorVars == <<text, pending, early>>
fileVars == <<currentName, handle, job>>
runVars == <<field, run>>
vars == <<historyVars, page, programVars, editorVars, fileVars, runVars, loads, stored, note>>

Texts == [of : Programs \cup Files \cup {Own}, n : 0..MaxEdits]
As(x) == [of |-> x, n |-> 0]

\* push: pushState when it arrives; clean: the text had no changes when it was
\* asked for, nor has since.  Kept for the properties.
Load == [name : Programs, push : BOOLEAN, clean : BOOLEAN]

\* "unstored": it was typed in, and no change has been heard of since; "replaced":
\* the whole of it went, and only edits have followed.  Kept for the properties.
Early == {"unstored", "replaced"}

NoJob == [kind |-> "none"]
Job == {NoJob} \cup [kind : {"read"}, file : Files]
    \cup [kind : {"write"}, file : Files]
    \cup [kind : {"saveAs"}, offered : Files \cup {None}]

Address == entries[at]

-----------------------------------------------------------------------------
(* The change handler of the editor.                                       *)

ForgetProvenance ==
    /\ provenance' = None
    /\ entries' = IF provenance = None THEN entries ELSE [entries EXCEPT ![at] = None]
    /\ title' = IF provenance = None THEN title ELSE currentName

\* Broken: what replaces the whole of the text is not written.
ChangesUnwritten(t, replaced) ==
    /\ text' = t /\ pending' = ~replaced
    /\ early' = IF replaced THEN {} ELSE early \ {"unstored"}
    /\ loads' = [i \in DOMAIN loads |-> [loads[i] EXCEPT !.clean = FALSE]]
    /\ IF replaced /\ t # loadedSource
       THEN ForgetProvenance
       ELSE UNCHANGED <<provenance, entries, title>>

Changes(t, replaced) ==
    /\ text' = t /\ pending' = TRUE
    /\ early' = IF replaced THEN {} ELSE early \ {"unstored"}
    /\ loads' = [i \in DOMAIN loads |-> [loads[i] EXCEPT !.clean = FALSE]]
    /\ IF replaced /\ t # loadedSource
       THEN ForgetProvenance
       ELSE UNCHANGED <<provenance, entries, title>>

\* An edit, or its undoing; or the whole of the text goes, at once or in pieces.
Types ==
    /\ page = "ready"
    /\ \/ \E n \in {text.n + 1, text.n - 1} \cap (0..MaxEdits) :
              Changes([text EXCEPT !.n = n], FALSE)
       \/ Changes(As(Own), TRUE)
    /\ UNCHANGED <<at, page, requested, program, loadedSource, files, fileVars, runVars,
                   stored, note>>

\* The same before the handler is registered: it is not heard of.
TypesUnheard ==
    /\ page = "starting"
    /\ \/ /\ \E n \in {text.n + 1, text.n - 1} \cap (0..MaxEdits) :
                  text' = [text EXCEPT !.n = n]
          /\ early' = early \cup {"unstored"}
       \/ text' = As(Own) /\ early' = Early
    /\ UNCHANGED <<historyVars, page, programVars, pending, fileVars, runVars, loads,
                   stored, note>>

\* 500 ms without a change.
Debounced ==
    /\ pending /\ pending' = FALSE /\ stored' = text
    /\ UNCHANGED <<historyVars, page, programVars, text, early, fileVars, runVars, loads, note>>

-----------------------------------------------------------------------------
(* runProgram().                                                           *)

\* A run is None, Own when the reader started it, or the program that was opened
\* and started of itself.  Its arguments are what the field shows then.
RunsItself(p) == run' = IF p \in Unsupported THEN run ELSE p

RunStarts ==
    /\ page = "ready" /\ run' = Own
    /\ UNCHANGED <<historyVars, page, programVars, editorVars, fileVars, field, loads,
                   stored, note>>

\* It ends by itself, or Stop ends its input.
RunEnds ==
    /\ run # None /\ run' = None
    /\ UNCHANGED <<historyVars, page, programVars, editorVars, fileVars, field, loads,
                   stored, note>>

\* The reader types arguments, where the field is shown; showArguments() from the
\* menu shows it.
TypesArguments ==
    /\ page = "ready" \/ (page = "starting" /\ field # None)
    /\ field' = Own
    /\ UNCHANGED <<historyVars, page, programVars, editorVars, fileVars, run, loads,
                   stored, note>>

-----------------------------------------------------------------------------
(* swapTo().                                                               *)

\* Broken: Back and Forward do not ask.
SwapsTravelling(p, push) ==
    \/ /\ text = loadedSource \/ ~push
       /\ loads' = Append(loads, [name |-> p, push |-> push, clean |-> TRUE])
    \/ /\ text # loadedSource /\ push
       /\ \/ loads' = Append(loads, [name |-> p, push |-> push, clean |-> FALSE])
          \/ UNCHANGED loads

\* It asks first when there are changes, and stops when they are to be kept.
SwapTo(p, push) ==
    \/ /\ text = loadedSource
       /\ loads' = Append(loads, [name |-> p, push |-> push, clean |-> TRUE])
    \/ /\ text # loadedSource
       /\ \/ loads' = Append(loads, [name |-> p, push |-> push, clean |-> FALSE])
          \/ UNCHANGED loads

\* A suggestion, or the link to another part: there are none without provenance.
TakesLink ==
    /\ page = "ready" /\ provenance # None /\ Len(loads) < MaxLoads
    /\ \E p \in Programs \ {provenance} : SwapTo(p, TRUE)
    /\ UNCHANGED <<historyVars, page, programVars, editorVars, fileVars, runVars, stored, note>>

\* Back or Forward, and popstate: the address has moved already.
Travels ==
    /\ page = "ready" /\ Len(loads) < MaxLoads
    /\ at' \in {at - 1, at + 1} \cap DOMAIN entries
    /\ LET wanted == entries[at']
       IN IF wanted \notin {None, requested} THEN SwapTo(wanted, FALSE) ELSE UNCHANGED loads
    /\ UNCHANGED <<entries, page, programVars, editorVars, fileVars, runVars, stored, note>>

\* The same before popstate is listened to: only the address moves.
TravelsUnheard ==
    /\ page # "ready" /\ at' \in {at - 1, at + 1} \cap DOMAIN entries
    /\ UNCHANGED <<entries, page, programVars, editorVars, fileVars, runVars, loads,
                   stored, note>>

\* The files are not always there when the program is; a new pushState drops
\* what lay forward.
PushesAddress(p, push) ==
    IF push THEN /\ at < MaxHistory /\ at' = at + 1
                 /\ entries' = Append(SubSeq(entries, 1, at), p)
            ELSE UNCHANGED historyVars

\* Broken: the identity is that of the swap, the data files stay.
ArrivesWithout(i) ==
    LET p == loads[i].name
    IN /\ PushesAddress(p, loads[i].push)
       /\ requested' = p /\ program' = p /\ provenance' = p /\ title' = p
       /\ UNCHANGED files
       /\ loadedSource' = As(p) /\ text' = As(p) /\ pending' = TRUE /\ early' = {}
       /\ RunsItself(p)
       /\ loads' = [j \in DOMAIN RemoveAt(loads, i) |->
                        [RemoveAt(loads, i)[j] EXCEPT !.clean = FALSE]]

Arrives(i) ==
    LET p == loads[i].name
    IN /\ PushesAddress(p, loads[i].push)
       /\ requested' = p /\ program' = p /\ provenance' = p /\ title' = p
       /\ files' \in {p, None}
       /\ loadedSource' = As(p) /\ text' = As(p) /\ pending' = TRUE /\ early' = {}
       /\ RunsItself(p)
       /\ loads' = [j \in DOMAIN RemoveAt(loads, i) |->
                        [RemoveAt(loads, i)[j] EXCEPT !.clean = FALSE]]

\* Nothing is swapped for a program that does not load.
SwapEnds ==
    /\ \E i \in DOMAIN loads :
           \/ Arrives(i)
           \/ /\ loads' = RemoveAt(loads, i)
              /\ UNCHANGED <<historyVars, programVars, editorVars, run>>
    /\ UNCHANGED <<page, fileVars, field, stored, note>>

-----------------------------------------------------------------------------
(* The file menu, and files.js.                                            *)

Acknowledge(f) == currentName' = f /\ title' = f

\* openFile() as far as remember(); without a file picked, nothing happens.
OpensFile ==
    /\ page = "ready" /\ job = NoJob
    /\ \E f \in Files : handle' = f /\ job' = [kind |-> "read", file |-> f]
    /\ UNCHANGED <<historyVars, page, programVars, editorVars, currentName, runVars,
                   loads, stored, note>>

\* The file's text, which may be the one the page loaded; or it cannot be read.
FileRead ==
    /\ job.kind = "read" /\ job' = NoJob
    /\ \/ \E t \in {As(job.file), loadedSource} :
             /\ text' = t /\ pending' = TRUE /\ early' = {}
             /\ loads' = [i \in DOMAIN loads |-> [loads[i] EXCEPT !.clean = FALSE]]
             /\ IF t # loadedSource /\ provenance # None
                THEN provenance' = None /\ entries' = [entries EXCEPT ![at] = None]
                ELSE UNCHANGED <<provenance, entries>>
             /\ Acknowledge(job.file)
       \/ UNCHANGED <<editorVars, loads, provenance, entries, currentName, title>>
    /\ UNCHANGED <<at, page, requested, program, loadedSource, files, handle, runVars,
                   stored, note>>

\* defaultName(), as far as anything depends on it.
DefaultName == IF currentName # None THEN currentName
               ELSE IF provenance # None THEN NameOf[provenance] ELSE None

SavesAs == job' = [kind |-> "saveAs", offered |-> DefaultName]

\* saveFile() and saveFileAs(): a Save with no file to write to asks for one.
SavesFile ==
    /\ page = "ready" /\ job = NoJob
    /\ \/ handle # None /\ job' = [kind |-> "write", file |-> handle]
       \/ SavesAs
    /\ UNCHANGED <<historyVars, page, programVars, editorVars, currentName, handle,
                   runVars, loads, stored, note>>

\* The file is written, or cannot be.
FileWritten ==
    /\ job.kind = "write" /\ job' = NoJob
    /\ \/ Acknowledge(job.file)
       \/ UNCHANGED <<currentName, title>>
    /\ UNCHANGED <<historyVars, page, requested, program, provenance, loadedSource, files,
                   editorVars, handle, runVars, loads, stored, note>>

\* Another name than the one offered makes it the reader's own.
SavedUnder(f) ==
    /\ handle' = f
    /\ IF f # job.offered /\ provenance # None
       THEN provenance' = None /\ entries' = [entries EXCEPT ![at] = None]
       ELSE UNCHANGED <<provenance, entries>>
    /\ Acknowledge(f)

\* A name is picked and written, or none.
SaveAsEnds ==
    /\ job.kind = "saveAs" /\ job' = NoJob
    /\ \/ \E f \in Files : SavedUnder(f)
       \/ UNCHANGED <<handle, provenance, entries, currentName, title>>
    /\ UNCHANGED <<at, page, requested, program, loadedSource, files, editorVars, runVars,
                   loads, stored, note>>

-----------------------------------------------------------------------------
(* The page loads, and loads again.                                        *)

Source == IF stored = None THEN As(Own) ELSE stored

\* Everything but the history and what is stored starts anew; a write of the
\* text or of a file that was due is not made.
Anew ==
    /\ page' = "loading" /\ requested' = Address /\ provenance' = Address
    /\ program' = None /\ title' = None /\ files' = None /\ field' = None
    /\ text' = Source /\ loadedSource' = Source /\ pending' = FALSE /\ early' = {}
    /\ currentName' = None /\ job' = NoJob /\ loads' = <<>> /\ run' = None
    /\ UNCHANGED <<historyVars, handle, stored>>

\* The reader reloads; or Stop does, for a program that does not wait for input.
Reloads(stopped) == Anew /\ note' = (note \/ stopped)

ReloadsPage == Reloads(FALSE) \/ (page = "ready" /\ run # None /\ Reloads(TRUE))

\* loadProgram() has answered: all of it, the program without its files, or
\* nothing.  The editor is made, and the page waits for /health, and for the
\* reader's token where one is wanted.
ProgramLoads ==
    /\ page = "loading" /\ page' = "starting"
    /\ \/ /\ requested # None
          /\ program' = requested /\ title' = requested
          /\ text' = As(requested) /\ loadedSource' = As(requested)
          /\ field' = IF requested \in Takes THEN requested ELSE None
          /\ files' \in {requested, None}
       \/ UNCHANGED <<program, title, text, loadedSource, field, files>>
    /\ UNCHANGED <<historyVars, requested, provenance, pending, early, fileVars, run, loads,
                   stored, note>>

\* What is shown with a notice is not run, nor what Stop stopped, nor anything
\* without the token that is wanted.  Then all the handlers are there.
RunsOnArrival == program \notin {None} \cup Unsupported /\ files = program /\ ~note

PageStarts ==
    /\ page = "starting" /\ page' = "ready" /\ note' = FALSE
    /\ run' \in {None} \cup IF RunsOnArrival THEN {program} ELSE {}
    /\ UNCHANGED <<historyVars, programVars, editorVars, fileVars, field, loads, stored>>

-----------------------------------------------------------------------------

Init ==
    /\ entries \in {<<x>> : x \in Programs \cup {None}} /\ at = 1
    /\ page = "loading" /\ requested = Address /\ provenance = Address
    /\ program = None /\ title = None /\ files = None /\ field = None
    /\ text = As(Own) /\ loadedSource = As(Own) /\ pending = FALSE /\ early = {}
    /\ currentName = None /\ handle = None /\ job = NoJob
    /\ loads = <<>> /\ stored = None /\ note = FALSE /\ run = None

Next ==
    \/ Types \/ TypesUnheard \/ Debounced \/ TypesArguments \/ RunStarts \/ RunEnds
    \/ TakesLink \/ Travels \/ TravelsUnheard \/ SwapEnds
    \/ OpensFile \/ FileRead \/ SavesFile \/ FileWritten \/ SaveAsEnds
    \/ ReloadsPage \/ ProgramLoads \/ PageStarts

Spec == Init /\ [][Next]_vars

\* The debounce's timer fires.
FairSpec == Spec /\ WF_vars(Debounced)

-----------------------------------------------------------------------------

\* Every variable holds a value of its kind.
TypeOK ==
    /\ entries \in Seq(Programs \cup {None}) /\ at \in DOMAIN entries
    /\ page \in {"loading", "starting", "ready"} /\ early \subseteq Early
    /\ {requested, program, provenance, files} \subseteq Programs \cup {None}
    /\ {currentName, handle} \subseteq Files \cup {None}
    /\ title \in Programs \cup Files \cup {None}
    /\ text \in Texts /\ loadedSource \in Texts /\ stored \in Texts \cup {None}
    /\ field \in Programs \cup {Own, None} /\ run \in Programs \cup {Own, None}
    /\ loads \in Seq(Load) /\ pending \in BOOLEAN /\ note \in BOOLEAN
    /\ job \in Job

\* What the page says of the program goes together: while it names one as where
\* the text is from, that is the program it opened last, the text was made from
\* it and the data files are no other program's; and the title names no other
\* program.  A page whose own program never loaded names it all the same.  The
\* text may not be from it when the reader threw it away before the page listened
\* to the editor, and has only edited since.
\* (provenance, requested, program, setFiles() and document.title in main.js)
PartsAgree ==
    /\ provenance # None =>
           /\ requested = provenance
           /\ program # None => /\ program = provenance /\ files \in {None, provenance}
                                /\ text.of = provenance \/ "replaced" \in early
    /\ title \in Programs => title = provenance

\* Closing the tab loses nothing but the last half second: what the reader has
\* changed is in storage unless its write is due, whatever was swapped, opened,
\* saved or reloaded before; but not what was typed before the page listened to
\* the editor, until the next change.  (the change handler; files.js:10-13)
TypedIsStored ==
    page # "loading" /\ text # loadedSource /\ ~pending
        => stored = text \/ "unstored" \in early

\* A swap discards the reader's changes only when the reader has agreed to it,
\* or makes them while the program loads.  (confirm() in swapTo())
DiscardsWhenAgreed ==
    [][page = "ready" /\ text # loadedSource /\ text' # text /\ Len(loads') < Len(loads)
       => \/ page' = "loading"
          \/ \E i \in DOMAIN loads : /\ As(loads[i].name) = text'
                                    /\ ~loads[i].clean]_vars

\* A program that is run because it was opened is run with its own arguments, or
\* with what the reader has typed in their place.
\* (showArguments() on loading: "Without this the page would run such a task
\* with nothing", and swapTo(): "The same promise a link makes")
RunsWithItsArguments ==
    [][run' \in Programs /\ run' # run
       => field' \in {Own, IF run' \in Takes THEN run' ELSE None}]_vars
=============================================================================
