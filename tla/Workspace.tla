------------------------------ MODULE Workspace ------------------------------
(***************************************************************************)
(* One language server process and the directory it works in, from         *)
(* createWorkspace() to kill() (analyse-service/analyser.js), with the     *)
(* messages of the one session that uses it (class Session of              *)
(* analyse-service/server.js).  Which connection gets which process, and   *)
(* when a session closes, is AnalyseService.                               *)
(*                                                                         *)
(* Every operation on files is asynchronous: one action starts it, another *)
(* is its end, and anything may happen in between.  What is written to the *)
(* process arrives at once and in order.                                   *)
(***************************************************************************)
EXTENDS Naturals, Sequences, FiniteSets, SequencesExt

CONSTANTS Texts,         \* what a client's document may be
          WarmUpSource,  \* WARM_UP_SOURCE
          NoText,        \* no document open
          Cells,         \* the cells of a REPL session
          Asks,          \* what it may ask to have added: sequences of cells
          Requests,      \* names for its playground/addCells requests
          MaxWrites      \* bound: the writes of the document under way at a time

ASSUME TextsAssumption == WarmUpSource \notin Texts /\ NoText \notin Texts \cup {WarmUpSource}
ASSUME AsksAssumption == Asks \subseteq Seq(Cells) \ {<<>>}
ASSUME WritesAssumption == MaxWrites \in Nat \ {0}

VARIABLES
    stage,    \* see Stages
    cold,     \* started for one client: startCold(), not replenish()
    process,  \* "none", "running", "exited" by itself, or "killed"
    dead,     \* this.dead
    entries,  \* what there is of the workspace: see Entries
    removing, \* kill()'s rm() is under way
    late,     \* an operation on a file took effect after kill()
    stored,   \* the cells that have been copied into the workspace
    disk,     \* the text in src/main.ghul
    writes,   \* the texts being written there
    connected, \* the client's messages still arrive
    doc,      \* the text the process has open
    cache,    \* the cells in the compile service's cache
    request,  \* the playground/addCells requests: see Asked
    told      \* the references the process has been told to use

lifeVars == <<stage, cold, process, dead>>
fileVars == <<entries, removing, late, stored, disk, writes>>
messageVars == <<connected, doc, cache, request, told>>
vars == <<lifeVars, fileVars, messageVars>>

\* start() and warmUp() up to "idle"; "open" from the Session's constructor to
\* its close().
Stages == {"making", "filling", "initializing", "opening", "idle", "open", "over"}

\* The directory itself, the one with the document, and that with the cells.
Entries == {"root", "src", "cells"}

\* Where a reference is, and whether it is there.
Places == {"workspace", "cache"} \X Cells
Exists(p) == p[2] \in IF p[1] = "cache" THEN cache ELSE stored

\* A request for no cells is no request; it awaits the next mkdir, the opening
\* of the next cell's files, its copy, or the process; "silent" when it ended
\* without a reply.
NoRequest == [at |-> "none", todo |-> <<>>, paths |-> {}]
Taking == {"mkdir", "copy", "copying"}
Asked == Taking \cup {"process"}

-----------------------------------------------------------------------------
(* kill().                                                                 *)

\* Broken: the workspace goes with a process, but not without one.
KillsProcess(s) ==
    /\ stage' = s /\ dead' = TRUE
    /\ process' = IF process = "running" THEN "killed" ELSE process
    /\ removing' = (removing \/ process = "running")
    /\ UNCHANGED <<cold, entries, late, stored, disk, writes>>

\* Nothing is done for a process that has exited: it is dead already.
Kills(s) ==
    /\ stage' = s /\ dead' = TRUE
    /\ process' = IF process = "running" THEN "killed" ELSE process
    /\ removing' = (removing \/ (~dead /\ entries # {}))
    /\ UNCHANGED <<cold, entries, late, stored, disk, writes>>

\* rm() ends.  A directory in which something has landed meanwhile may stay.
Removed ==
    /\ removing
    /\ removing' = FALSE
    /\ entries' \in {{}} \cup IF late THEN {e \in SUBSET entries : "root" \in e} ELSE {}
    /\ stored' = IF "cells" \in entries' THEN stored ELSE {}
    /\ UNCHANGED <<lifeVars, late, disk, writes, messageVars>>

-----------------------------------------------------------------------------
(* start().                                                                *)

\* mkdtemp(), which may fail; start() throws and its caller kills.
Made ==
    /\ stage = "making"
    /\ \/ /\ stage' = "filling" /\ entries' = {"root"}
          /\ UNCHANGED <<cold, process, dead, removing, late, stored, disk, writes>>
       \/ Kills("over")
    /\ UNCHANGED messageVars

\* The rest of createWorkspace(), and the process is spawned.
Filled ==
    /\ stage = "filling"
    /\ stage' = "initializing" /\ process' = "running"
    /\ entries' = entries \cup {"src"} /\ disk' = WarmUpSource
    /\ UNCHANGED <<cold, dead, removing, late, stored, writes, messageVars>>

\* Something of createWorkspace() fails; or the process does not spawn, which
\* is an event, and start() returns.
NotFilled ==
    /\ stage = "filling"
    /\ Kills("over") \/ Kills("initializing")
    /\ UNCHANGED messageVars

-----------------------------------------------------------------------------
(* warmUp().                                                               *)

Initialized ==
    /\ stage = "initializing" /\ process = "running"
    /\ stage' = "opening" /\ doc' = WarmUpSource
    /\ UNCHANGED <<cold, process, dead, fileVars, connected, cache, request, told>>

\* The first diagnostics.
Warm ==
    /\ stage = "opening" /\ process = "running"
    /\ stage' = "idle"
    /\ UNCHANGED <<cold, process, dead, fileVars, messageVars>>

\* Neither in time.  The pool discards the analyser, startCold() does not look.
WarmUpTimesOut ==
    /\ stage \in {"initializing", "opening"}
    /\ IF cold THEN stage' = "idle" /\ UNCHANGED <<cold, process, dead, fileVars>>
               ELSE Kills("over")
    /\ UNCHANGED messageVars

\* The process exits by itself; a session closes for it.
Exits ==
    /\ process = "running"
    /\ process' = "exited" /\ dead' = TRUE
    /\ stage' = IF stage = "open" THEN "over" ELSE stage
    /\ UNCHANGED <<cold, fileVars, messageVars>>

-----------------------------------------------------------------------------
(* The session.                                                            *)

\* A connection takes the analyser, or it is killed: the connection has gone,
\* or the service ends.
Taken ==
    /\ stage = "idle"
    /\ stage' = "open" /\ connected' = TRUE
    /\ UNCHANGED <<cold, process, dead, fileVars, doc, cache, request, told>>

NotTaken == stage = "idle" /\ Kills("over") /\ UNCHANGED messageVars

\* The client hangs up; or the service closes the session, and then the socket
\* goes on delivering what the client had sent until both ends have closed it.
Closes ==
    /\ stage = "open" /\ Kills("over")
    /\ connected' \in BOOLEAN
    /\ UNCHANGED <<doc, cache, request, told>>

Disconnects ==
    /\ stage = "over" /\ connected
    /\ connected' = FALSE
    /\ UNCHANGED <<lifeVars, fileVars, doc, cache, request, told>>

\* didOpen and didChange: replaceDocument(), of a closed session as well.
Changes(t) ==
    /\ connected /\ Len(writes) < MaxWrites
    /\ writes' = Append(writes, t)
    /\ doc' = IF process = "running" /\ doc # NoText THEN t ELSE doc
    /\ UNCHANGED <<lifeVars, entries, removing, late, stored, disk,
                   connected, cache, request, told>>

\* A write ends, or fails for want of its directory.
WriteLands ==
    /\ \E i \in 1..Len(writes) :
          /\ writes' = RemoveAt(writes, i)
          /\ disk' = IF "src" \in entries THEN writes[i] ELSE disk
    /\ late' = (late \/ (dead /\ "src" \in entries))
    /\ UNCHANGED <<lifeVars, entries, removing, stored, messageVars>>

-----------------------------------------------------------------------------
(* playground/addCells.                                                    *)

\* Nothing asks whether the session has closed before the cells are taken.
AddCells(r) ==
    /\ connected /\ request[r] = NoRequest
    /\ \E todo \in Asks : request' = [request EXCEPT ![r] =
                                 [at |-> "mkdir", todo |-> todo, paths |-> {}]]
    /\ UNCHANGED <<lifeVars, fileVars, connected, doc, cache, told>>

\* takeCell(): mkdir() makes whatever is missing on the way.
CellDirectoryMade(r) ==
    /\ request[r].at = "mkdir"
    /\ entries' = entries \cup {"root", "cells"}
    /\ late' = (late \/ dead)
    /\ request' = [request EXCEPT ![r].at = "copy"]
    /\ UNCHANGED <<lifeVars, removing, stored, disk, writes, connected, doc, cache, told>>

\* The cell's file is opened in the cache, and the copy of it, which is emptied.
CellOpened(r) ==
    /\ request[r].at = "copy" /\ "cells" \in entries
    /\ Head(request[r].todo) \in cache
    /\ late' = (late \/ dead)
    /\ request' = [request EXCEPT ![r].at = "copying"]
    /\ UNCHANGED <<lifeVars, entries, removing, stored, disk, writes,
                   connected, doc, cache, told>>

\* The cell at the head is at place p: on to the next, or to the process.
Took(r, p) ==
    LET paths == request[r].paths \cup {p}
        todo == Tail(request[r].todo)
    IN  IF todo # <<>>
        THEN /\ request' = [request EXCEPT ![r] = [at |-> "mkdir", todo |-> todo, paths |-> paths]]
             /\ UNCHANGED told
        ELSE IF stage = "over"
        THEN /\ request' = [request EXCEPT ![r] = [NoRequest EXCEPT !.at = "silent"]]
             /\ UNCHANGED told
        ELSE /\ request' = [request EXCEPT ![r] = [at |-> "process", todo |-> <<>>, paths |-> paths]]
             /\ told' = IF process = "running" THEN told \cup paths ELSE told

\* Broken: the reference is the file in the cache.
CellLeftInCache(r) ==
    /\ request[r].at = "copying"
    /\ Took(r, <<"cache", Head(request[r].todo)>>)
    /\ UNCHANGED <<lifeVars, fileVars, connected, doc, cache>>

CellCopied(r) ==
    /\ request[r].at = "copying"
    /\ LET c == Head(request[r].todo)
       IN  /\ stored' = IF "cells" \in entries THEN stored \cup {c} ELSE stored
           /\ Took(r, <<"workspace", c>>)
    /\ UNCHANGED <<lifeVars, entries, removing, late, disk, writes, connected, doc, cache>>

\* Broken: the client is not told.
CellMissedSilently(r) ==
    /\ request[r].at = "copy"
    /\ Head(request[r].todo) \notin cache \/ "cells" \notin entries
    /\ request' = [request EXCEPT ![r] = [NoRequest EXCEPT !.at = "silent"]]
    /\ UNCHANGED <<lifeVars, fileVars, connected, doc, cache, told>>

\* The cell is not in the cache, and the client is told so; the cells taken for
\* the same request stay where they are, and the process does not hear of them.
CellMissed(r) ==
    /\ request[r].at = "copy"
    /\ Head(request[r].todo) \notin cache \/ "cells" \notin entries
    /\ request' = [request EXCEPT ![r] = NoRequest]
    /\ UNCHANGED <<lifeVars, fileVars, connected, doc, cache, told>>

\* fromAnalyser(): the reply to the service's own request.
ReferencesAdded(r) ==
    /\ request[r].at = "process" /\ process = "running" /\ stage = "open"
    /\ request' = [request EXCEPT ![r] = NoRequest]
    /\ UNCHANGED <<lifeVars, fileVars, connected, doc, cache, told>>

\* The compile service evicts cells, or compiles them again.
CacheChanges ==
    /\ \E c \in Cells : cache' \in {cache \cup {c}, cache \ {c}}
    /\ UNCHANGED <<lifeVars, fileVars, connected, doc, request, told>>

-----------------------------------------------------------------------------
Init ==
    /\ stage = "making" /\ cold \in BOOLEAN /\ process = "none" /\ dead = FALSE
    /\ entries = {} /\ removing = FALSE /\ late = FALSE /\ stored = {}
    /\ disk = NoText /\ writes = <<>>
    /\ connected = FALSE /\ doc = NoText /\ cache \in SUBSET Cells
    /\ request = [r \in Requests |-> NoRequest] /\ told = {}

RequestNext(r) ==
    \/ CellDirectoryMade(r) \/ CellOpened(r) \/ CellCopied(r) \/ CellMissed(r)
    \/ ReferencesAdded(r)

Next ==
    \/ Made \/ Filled \/ NotFilled \/ Initialized \/ Warm \/ WarmUpTimesOut \/ Exits
    \/ Taken \/ NotTaken \/ Closes \/ Disconnects \/ Removed
    \/ \E t \in Texts : Changes(t)
    \/ WriteLands
    \/ \E r \in Requests : AddCells(r) \/ RequestNext(r)
    \/ CacheChanges

Spec == Init /\ [][Next]_vars

\* Operations on files end, the warm-up's timer fires, and a process that runs
\* answers.  No session has to close.
Fairness ==
    /\ WF_vars(Made) /\ WF_vars(Filled \/ NotFilled) /\ WF_vars(WarmUpTimesOut)
    /\ WF_vars(WriteLands) /\ WF_vars(Removed)
    /\ \A r \in Requests : WF_vars(RequestNext(r))

FairSpec == Spec /\ Fairness

-----------------------------------------------------------------------------
(* Properties.                                                             *)

\* The type of every variable; a process that runs is not dead.
TypeOK ==
    /\ stage \in Stages /\ cold \in BOOLEAN
    /\ process \in {"none", "running", "exited", "killed"} /\ dead \in BOOLEAN
    /\ entries \subseteq Entries /\ removing \in BOOLEAN /\ late \in BOOLEAN
    /\ connected \in BOOLEAN /\ stored \subseteq Cells /\ cache \subseteq Cells /\ told \subseteq Places
    /\ {disk, doc} \cup ToSet(writes) \subseteq Texts \cup {WarmUpSource, NoText}
    /\ Len(writes) <= MaxWrites
    /\ \A r \in Requests :
          /\ request[r].at \in Asked \cup {"none", "silent"}
          /\ request[r].at \in Taking <=> request[r].todo # <<>>
          /\ request[r].paths \subseteq Places
    /\ process = "running" => ~dead

\* "The analyser can read a reference again at any rebuild" (analyser.js:112),
\* and its document: while the process runs, everything it was told of has been
\* copied and is still there, whatever the cache evicts and however requests
\* overlap.  (A client that asked for one cell twice would have the copy
\* emptied and filled again; repl.js asks a session for each cell once.)
WhatItReadsIsThere ==
    process = "running" => /\ {"root", "src"} \subseteq entries
                           /\ \A p \in told : Exists(p)

\* A reader's program does not outlive the session: kill() leaves nothing
\* behind, unless a write or a cell took effect behind it, for a message that
\* was being served or came while the socket closed, or the process had exited
\* by itself.
KilledLeavesNothing ==
    stage = "over" /\ ~removing /\ ~late /\ process # "exited" => entries = {}

\* A client that adds cells is answered, while its session and process last.
EveryRequestIsAnswered ==
    \A r \in Requests :
        request[r].at \in Asked ~> (request[r] = NoRequest \/ process # "running")
=============================================================================
