-------------------------- MODULE WorkspaceProofs --------------------------
(* What is on disk for an analyser while its process runs, and after kill(), *)
(* for any cells, any requests at a time and any writes of the document.     *)
EXTENDS Workspace, SequenceTheorems, TLAPS

\* Where the analyser is in its life: a process that runs is not dead, what is
\* being removed, or has closed, is, and messages come from its session on.
Life ==
    /\ {dead, removing, late, connected} \subseteq BOOLEAN
    /\ connected => stage \in {"open", "over"}
    /\ stage = "open" => connected
    /\ process = "running" => ~dead
    /\ removing \/ stage = "over" => dead
    /\ stage = "making" => process = "none" /\ ~dead /\ entries = {}
    /\ stage = "filling" => process = "none" /\ ~dead /\ entries = {"root"}

\* A request is a record for each name, and there is none before the session.
RequestShape ==
    /\ DOMAIN request = Requests
    /\ \A r \in Requests : DOMAIN request[r] = {"at", "todo", "paths"}
    /\ stage \in {"making", "filling", "initializing", "opening", "idle"}
          => told = {} /\ \A r \in Requests : request[r] = NoRequest

Copies == {"workspace"} \X stored

\* Every reference the process has, or a request holds for it, is a copy, and
\* what is being copied has its directory.
ReferencedIsStored ==
    process = "running" =>
        /\ {"root", "src"} \subseteq entries
        /\ told \subseteq Copies
        /\ \A r \in Requests : request[r].paths \subseteq Copies
        /\ \A r \in Requests : request[r].at \in {"copy", "copying"} => "cells" \in entries

\* What kill() was called for goes, unless something landed behind it.
RemovalIsComing == dead /\ process # "exited" /\ ~late => removing \/ entries = {}

WorkspaceInv == Life /\ RequestShape /\ ReferencedIsStored /\ RemovalIsComing

-----------------------------------------------------------------------------
(* kill() and the end of its removal.                                        *)

\* kill() leaves no process running, and nothing that it is not removing.
LEMMA KillsKeeps ==
    ASSUME WorkspaceInv, NEW s, Kills(s), s \in {"over", "initializing"},
           s = "initializing" => stage = "filling",
           connected' \in BOOLEAN, connected' => connected, UNCHANGED <<request, told>>
    PROVE  WorkspaceInv'
  <1> USE DEF WorkspaceInv, Kills
  <1>1. Life'
    BY DEF Life
  <1>2. RequestShape'
    BY DEF RequestShape
  <1>3. ReferencedIsStored'
    BY DEF ReferencedIsStored
  <1>4. RemovalIsComing'
    BY DEF RemovalIsComing, Life
  <1> QED BY <1>1, <1>2, <1>3, <1>4

\* The removal ends: no process runs, and without a late write all has gone.
LEMMA RemovedKeeps == ASSUME WorkspaceInv, Removed PROVE WorkspaceInv'
  <1> USE DEF WorkspaceInv, messageVars, lifeVars, Removed
  <1>1. dead /\ process # "running" /\ stage \notin {"making", "filling"}
    BY DEF Life
  <1>2. Life'
    BY <1>1 DEF Life
  <1>3. RequestShape'
    BY DEF RequestShape
  <1>4. ReferencedIsStored'
    BY <1>1 DEF ReferencedIsStored
  <1>5. RemovalIsComing'
    BY DEF RemovalIsComing
  <1> QED BY <1>2, <1>3, <1>4, <1>5

-----------------------------------------------------------------------------
(* From the start to the end of a session.                                   *)

\* start() and warmUp(), and a process that exits.
LEMMA StartKeeps ==
    ASSUME WorkspaceInv,
           Made \/ Filled \/ NotFilled \/ Initialized \/ Warm \/ WarmUpTimesOut \/ Exits
    PROVE  WorkspaceInv'
  <1> USE DEF WorkspaceInv
  <1>1. CASE Made
    <2>1. CASE Kills("over")
      BY <1>1, <2>1, KillsKeeps DEF Made, messageVars, Life
    <2>2. CASE /\ stage' = "filling" /\ entries' = {"root"}
               /\ UNCHANGED <<cold, process, dead, removing, late, stored, disk, writes>>
      <3> USE <1>1, <2>2 DEF Made, messageVars
      <3>1. Life'
        BY DEF Life
      <3>2. RequestShape' /\ ReferencedIsStored' /\ RemovalIsComing'
        BY DEF RequestShape, ReferencedIsStored, RemovalIsComing, Life
      <3> QED BY <3>1, <3>2
    <2> QED BY <1>1, <2>1, <2>2 DEF Made
  <1>2. CASE Filled
    <2> USE <1>2 DEF Filled, messageVars
    <2>1. told = {} /\ \A r \in Requests : request[r].paths = {} /\ request[r].at = "none"
      BY DEF RequestShape, NoRequest
    <2>2. Life'
      BY DEF Life
    <2>3. RequestShape'
      BY DEF RequestShape
    <2>4. ReferencedIsStored'
      BY <2>1 DEF ReferencedIsStored, Life
    <2>5. RemovalIsComing'
      BY DEF RemovalIsComing, Life
    <2> QED BY <2>2, <2>3, <2>4, <2>5
  <1>3. CASE NotFilled
    BY <1>3, KillsKeeps DEF NotFilled, messageVars, Life
  <1>4. CASE Initialized \/ Warm \/ Exits
    <2> USE <1>4 DEF Initialized, Warm, Exits, fileVars, messageVars
    <2>1. Life'
      <3>1. {dead', removing', late', connected'} \subseteq BOOLEAN
        BY DEF Life
      <3>4. (connected' => stage' \in {"open", "over"}) /\ (stage' = "open" => connected')
        BY DEF Life
      <3>2. stage' \notin {"making", "filling"}
        BY DEF Life
      <3>3. (process' = "running" => ~dead') /\ (removing' \/ stage' = "over" => dead')
        BY DEF Life
      <3> QED BY <3>1, <3>2, <3>3, <3>4 DEF Life
    <2>2. RequestShape'
      BY DEF RequestShape
    <2>3. ReferencedIsStored'
      BY DEF ReferencedIsStored, Copies
    <2>4. RemovalIsComing'
      BY DEF RemovalIsComing, Life
    <2> QED BY <2>1, <2>2, <2>3, <2>4
  <1>5. CASE WarmUpTimesOut
    <2>1. CASE Kills("over")
      BY <1>5, <2>1, KillsKeeps DEF WarmUpTimesOut, messageVars, Life
    <2>2. CASE stage' = "idle" /\ UNCHANGED <<cold, process, dead, fileVars>>
      <3> USE <1>5, <2>2 DEF WarmUpTimesOut, fileVars, messageVars
      <3>1. Life' /\ RequestShape' /\ ReferencedIsStored' /\ RemovalIsComing'
        BY DEF Life, RequestShape, ReferencedIsStored, RemovalIsComing, Copies
      <3> QED BY <3>1
    <2> QED BY <1>5, <2>1, <2>2 DEF WarmUpTimesOut
  <1> QED BY <1>1, <1>2, <1>3, <1>4, <1>5

\* The session's beginning and end, and the writes of its document.
LEMMA SessionKeeps ==
    ASSUME WorkspaceInv,
           Taken \/ NotTaken \/ Closes \/ Disconnects
              \/ (\E t \in Texts : Changes(t)) \/ WriteLands
    PROVE  WorkspaceInv'
  <1> USE DEF WorkspaceInv
  <1>1. CASE NotTaken \/ Closes
    BY <1>1, KillsKeeps DEF NotTaken, Closes, messageVars, Life
  <1>2. CASE Taken \/ Disconnects
    <2> USE <1>2 DEF Taken, Disconnects, lifeVars, fileVars, messageVars
    <2>1. Life'
      <3>1. CASE Taken
        BY <3>1 DEF Life
      <3>2. CASE Disconnects
        BY <3>2 DEF Life
      <3> QED BY <1>2, <3>1, <3>2
    <2>2. RequestShape'
      BY DEF RequestShape
    <2>3. ReferencedIsStored' /\ RemovalIsComing'
      BY DEF ReferencedIsStored, RemovalIsComing, Copies
    <2> QED BY <2>1, <2>2, <2>3
  <1>3. CASE \E t \in Texts : Changes(t)
    <2>1. UNCHANGED <<lifeVars, entries, removing, late, stored, connected, request, told>>
      BY <1>3 DEF Changes
    <2> QED BY <2>1 DEF lifeVars,
                Life, RequestShape, ReferencedIsStored, RemovalIsComing, Copies
  <1>4. CASE WriteLands
    <2>1. /\ UNCHANGED <<lifeVars, entries, removing, stored, messageVars>>
          /\ late' = (late \/ (dead /\ "src" \in entries))
      BY <1>4 DEF WriteLands
    <2>2. late' \in BOOLEAN
      BY <2>1 DEF Life
    <2> QED BY <2>1, <2>2 DEF lifeVars, messageVars,
                Life, RequestShape, ReferencedIsStored, RemovalIsComing, Copies
  <1> QED BY <1>1, <1>2, <1>3, <1>4

-----------------------------------------------------------------------------
(* playground/addCells.                                                      *)

\* What a change of one request to record q keeps of the shape of the others.
LEMMA OneRequest ==
    ASSUME WorkspaceInv, NEW r \in Requests, NEW q,
           DOMAIN q = {"at", "todo", "paths"}, request' = [request EXCEPT ![r] = q],
           UNCHANGED stage,
           stage \notin {"making", "filling", "initializing", "opening", "idle"}
    PROVE  /\ RequestShape'
           /\ \A x \in Requests : request'[x] = IF x = r THEN q ELSE request[x]
  BY DEF WorkspaceInv, RequestShape

\* A request comes: no references yet.
LEMMA AddCellsKeeps ==
    ASSUME WorkspaceInv, NEW r \in Requests, AddCells(r) PROVE WorkspaceInv'
  <1>1. PICK todo \in Asks :
           request' = [request EXCEPT ![r] = [at |-> "mkdir", todo |-> todo, paths |-> {}]]
    BY DEF AddCells
  <1>2. UNCHANGED <<lifeVars, fileVars, connected, told>> /\ stage \in {"open", "over"}
    BY DEF AddCells, WorkspaceInv, Life
  <1> DEFINE q == [at |-> "mkdir", todo |-> todo, paths |-> {}]
  <1>3. DOMAIN q = {"at", "todo", "paths"} /\ q.paths = {} /\ q.at = "mkdir"
    OBVIOUS
  <1> HIDE DEF q
  <1>4. /\ RequestShape'
        /\ \A x \in Requests : request'[x] = IF x = r THEN q ELSE request[x]
    BY <1>1, <1>2, <1>3, OneRequest DEF q, lifeVars
  <1>5. ReferencedIsStored'
    BY <1>2, <1>3, <1>4 DEF WorkspaceInv, ReferencedIsStored, Copies, lifeVars, fileVars
  <1>6. Life' /\ RemovalIsComing'
    BY <1>2 DEF WorkspaceInv, Life, RemovalIsComing, lifeVars, fileVars
  <1> QED BY <1>4, <1>5, <1>6 DEF WorkspaceInv

\* Only a session has requests.
LEMMA AskedInSession ==
    ASSUME WorkspaceInv, NEW r \in Requests, request[r].at # "none"
    PROVE  stage \notin {"making", "filling", "initializing", "opening", "idle"}
  BY DEF WorkspaceInv, RequestShape, NoRequest

\* A request loses its references, or keeps them.
LEMMA RequestChanges ==
    ASSUME WorkspaceInv, NEW r \in Requests, NEW q,
           request[r].at # "none", DOMAIN q = {"at", "todo", "paths"},
           q.paths \subseteq request[r].paths, request' = [request EXCEPT ![r] = q],
           process = "running" /\ q.at \in {"copy", "copying"} => "cells" \in entries',
           UNCHANGED <<lifeVars, removing, stored, connected, told>>,
           entries \subseteq entries', late' \in BOOLEAN, late => late',
           entries' # entries => late' \/ ~dead
    PROVE  WorkspaceInv'
  <1> USE DEF WorkspaceInv, lifeVars
  <1>1. stage \notin {"making", "filling", "initializing", "opening", "idle"}
    BY AskedInSession
  <1>2. /\ RequestShape'
        /\ \A x \in Requests : request'[x] = IF x = r THEN q ELSE request[x]
    BY <1>1, OneRequest
  <1>3. ReferencedIsStored'
    BY <1>2 DEF ReferencedIsStored, Copies
  <1>4. Life'
    BY <1>1 DEF Life
  <1>5. RemovalIsComing'
    BY DEF RemovalIsComing
  <1> QED BY <1>2, <1>3, <1>4, <1>5

\* A cell is copied: what is referenced afterwards is the cells before, and it.
LEMMA CellCopiedKeeps ==
    ASSUME WorkspaceInv, NEW r \in Requests, CellCopied(r) PROVE WorkspaceInv'
  <1> DEFINE c == Head(request[r].todo)
             paths == request[r].paths \cup {<<"workspace", c>>}
  <1>1. /\ request[r].at = "copying"
        /\ stored' = IF "cells" \in entries THEN stored \cup {c} ELSE stored
        /\ Took(r, <<"workspace", c>>)
        /\ UNCHANGED <<lifeVars, entries, removing, late, connected>>
    BY DEF CellCopied
  <1>2. stage \notin {"making", "filling", "initializing", "opening", "idle"}
    BY <1>1, AskedInSession
  <1> HIDE DEF c
  <1>3. \E q : /\ request' = [request EXCEPT ![r] = q]
               /\ DOMAIN q = {"at", "todo", "paths"} /\ q.paths \subseteq paths
               /\ q.at \notin {"copy", "copying"}
    <2>1. CASE \E t : request' = [request EXCEPT ![r] = [at |-> "mkdir", todo |-> t, paths |-> paths]]
      <3>1. PICK t : request' = [request EXCEPT ![r] = [at |-> "mkdir", todo |-> t, paths |-> paths]]
        BY <2>1
      <3> DEFINE q == [at |-> "mkdir", todo |-> t, paths |-> paths]
      <3>2. DOMAIN q = {"at", "todo", "paths"} /\ q.paths \subseteq paths /\ q.at = "mkdir"
        OBVIOUS
      <3> QED BY <3>1, <3>2
    <2>2. CASE request' = [request EXCEPT ![r] = [NoRequest EXCEPT !.at = "silent"]]
      <3> DEFINE q == [NoRequest EXCEPT !.at = "silent"]
      <3>1. DOMAIN q = {"at", "todo", "paths"} /\ q.paths \subseteq paths /\ q.at = "silent"
        BY DEF NoRequest
      <3> QED BY <2>2, <3>1
    <2>3. CASE request' = [request EXCEPT ![r] =
                              [at |-> "process", todo |-> <<>>, paths |-> paths]]
      <3> DEFINE q == [at |-> "process", todo |-> <<>>, paths |-> paths]
      <3>1. DOMAIN q = {"at", "todo", "paths"} /\ q.paths \subseteq paths /\ q.at = "process"
        OBVIOUS
      <3> QED BY <2>3, <3>1
    <2> QED BY <1>1, <2>1, <2>2, <2>3 DEF Took
  <1>4. told' \subseteq told \cup paths
    BY <1>1 DEF Took
  <1>5. PICK q : /\ request' = [request EXCEPT ![r] = q]
                 /\ DOMAIN q = {"at", "todo", "paths"} /\ q.paths \subseteq paths
                 /\ q.at \notin {"copy", "copying"}
    BY <1>3
  <1>6. /\ RequestShape'
        /\ \A x \in Requests : request'[x] = IF x = r THEN q ELSE request[x]
    BY <1>1, <1>2, <1>5, OneRequest DEF lifeVars
  <1>7. ReferencedIsStored'
    <2> SUFFICES ASSUME process = "running"
                 PROVE  /\ {"root", "src"} \subseteq entries' /\ told' \subseteq Copies'
                        /\ \A x \in Requests : request'[x].paths \subseteq Copies'
                        /\ \A x \in Requests : request'[x].at \in {"copy", "copying"}
                              => "cells" \in entries'
      BY <1>1 DEF ReferencedIsStored, lifeVars
    <2>1. /\ {"root", "src"} \subseteq entries /\ told \subseteq Copies
          /\ \A x \in Requests : request[x].paths \subseteq Copies
          /\ \A x \in Requests : request[x].at \in {"copy", "copying"} => "cells" \in entries
      BY DEF WorkspaceInv, ReferencedIsStored
    <2>2. Copies \subseteq Copies' /\ <<"workspace", c>> \in Copies'
      BY <1>1, <2>1 DEF Copies
    <2>3. paths \subseteq Copies'
      BY <2>1, <2>2
    <2> HIDE DEF paths
    <2> QED BY <1>1, <1>4, <1>5, <1>6, <2>1, <2>2, <2>3
  <1>8. Life'
    BY <1>1, <1>2 DEF WorkspaceInv, Life, lifeVars
  <1>9. RemovalIsComing'
    BY <1>1 DEF WorkspaceInv, RemovalIsComing, lifeVars
  <1> QED BY <1>6, <1>7, <1>8, <1>9 DEF WorkspaceInv

\* The other steps of a request.
LEMMA RequestKeeps ==
    ASSUME WorkspaceInv, NEW r \in Requests, RequestNext(r) PROVE WorkspaceInv'
  <1>1. CASE CellDirectoryMade(r) \/ CellOpened(r)
    <2> DEFINE q == [request[r] EXCEPT !.at = IF @ = "mkdir" THEN "copy" ELSE "copying"]
    <2>1. request[r].at \in {"mkdir", "copy"} /\ DOMAIN request[r] = {"at", "todo", "paths"}
      BY <1>1 DEF CellDirectoryMade, CellOpened, WorkspaceInv, RequestShape
    <2>2. DOMAIN q = {"at", "todo", "paths"} /\ q.paths \subseteq request[r].paths
      BY <2>1
    <2>3. request' = [request EXCEPT ![r] = q]
      BY <1>1 DEF CellDirectoryMade, CellOpened
    <2>4. late' \in BOOLEAN /\ (late => late') /\ (late' \/ ~dead) /\ entries \subseteq entries'
          /\ UNCHANGED <<lifeVars, removing, stored, connected, told>>
      BY <1>1 DEF CellDirectoryMade, CellOpened, WorkspaceInv, Life
    <2>5. process = "running" => "cells" \in entries'
      BY <1>1 DEF CellDirectoryMade, CellOpened
    <2> HIDE DEF q
    <2> QED BY <2>1, <2>2, <2>3, <2>4, <2>5, RequestChanges
  <1>2. CASE CellCopied(r)
    BY <1>2, CellCopiedKeeps
  <1>3. CASE CellMissed(r) \/ ReferencesAdded(r)
    <2>1. /\ request[r].at # "none" /\ request' = [request EXCEPT ![r] = NoRequest]
          /\ UNCHANGED <<lifeVars, fileVars, connected, told>>
      BY <1>3 DEF CellMissed, ReferencesAdded
    <2>2. DOMAIN NoRequest = {"at", "todo", "paths"} /\ NoRequest.paths \subseteq request[r].paths
          /\ NoRequest.at = "none"
      BY DEF NoRequest
    <2>3. late' \in BOOLEAN
      BY <2>1 DEF WorkspaceInv, Life, fileVars
    <2> QED BY <2>1, <2>2, <2>3, RequestChanges DEF fileVars
  <1> QED BY <1>1, <1>2, <1>3 DEF RequestNext

-----------------------------------------------------------------------------
(* Type correctness.                                                         *)

AnyText == Texts \cup {WarmUpSource, NoText}

\* A request as it is on its way.
Message == [at : Asked \cup {"none", "silent"}, todo : Seq(Cells), paths : SUBSET Places]

\* While there are cells to take, it awaits a directory or a copy.
HasMore(q) == q.at \in Taking <=> q.todo # <<>>

Typed ==
    /\ stage \in Stages /\ cold \in BOOLEAN
    /\ process \in {"none", "running", "exited", "killed"} /\ dead \in BOOLEAN
    /\ entries \subseteq Entries /\ removing \in BOOLEAN /\ late \in BOOLEAN
    /\ connected \in BOOLEAN /\ stored \subseteq Cells /\ cache \subseteq Cells /\ told \subseteq Places
    /\ disk \in AnyText /\ doc \in AnyText
    /\ writes \in Seq(AnyText) /\ Len(writes) <= MaxWrites
    /\ request \in [Requests -> Message] /\ \A r \in Requests : HasMore(request[r])

\* A request that is none, or ended without a reply.
LEMMA EndedTypes ==
    \A x \in {"none", "silent"} : /\ [NoRequest EXCEPT !.at = x] \in Message
                                  /\ HasMore([NoRequest EXCEPT !.at = x])
                                  /\ NoRequest \in Message /\ HasMore(NoRequest)
  <1>1. <<>> \in Seq(Cells)
    OBVIOUS
  <1> QED BY <1>1 DEF NoRequest, Message, HasMore, Asked, Taking

\* One request goes on, the others stay as they are.
LEMMA OneMessage ==
    ASSUME request \in [Requests -> Message], \A x \in Requests : HasMore(request[x]),
           NEW r \in Requests, NEW q \in Message, HasMore(q),
           request' = [request EXCEPT ![r] = q]
    PROVE  request' \in [Requests -> Message] /\ \A x \in Requests : HasMore(request'[x])
  <1>1. request' \in [Requests -> Message]
    OBVIOUS
  <1>2. \A x \in Requests : request'[x] = IF x = r THEN q ELSE request[x]
    OBVIOUS
  <1> QED BY <1>1, <1>2

\* The life of the analyser; the session's messages are not touched.
LEMMA LifeTypes ==
    ASSUME Typed, Made \/ Filled \/ NotFilled \/ Initialized \/ Warm \/ WarmUpTimesOut
                       \/ Exits \/ Taken \/ NotTaken \/ Closes \/ Disconnects \/ Removed
    PROVE  Typed'
  <1> USE DEF Typed, Stages, Entries, AnyText, lifeVars, fileVars, messageVars
  <1>1. ASSUME NEW s \in Stages, Kills(s),
               connected' \in BOOLEAN, UNCHANGED <<doc, cache, request, told>>
        PROVE  Typed'
    BY <1>1 DEF Kills
  <1>2. CASE Made
    BY <1>1, <1>2 DEF Made
  <1>3. CASE Filled
    BY <1>3 DEF Filled
  <1>4. CASE NotFilled \/ NotTaken \/ Closes
    BY <1>1, <1>4 DEF NotFilled, NotTaken, Closes
  <1>5. CASE Initialized \/ Warm \/ Exits \/ Taken \/ Disconnects
    BY <1>5 DEF Initialized, Warm, Exits, Taken, Disconnects
  <1>6. CASE WarmUpTimesOut
    BY <1>1, <1>6 DEF WarmUpTimesOut
  <1>7. CASE Removed
    <2>1. entries' \subseteq Entries /\ stored' \subseteq Cells
      BY <1>7 DEF Removed
    <2> QED BY <1>7, <2>1 DEF Removed
  <1> QED BY <1>2, <1>3, <1>4, <1>5, <1>6, <1>7

\* The document: a write is one more, and one that lands, whichever it is, is
\* one less.
LEMMA WriteTypes ==
    ASSUME Typed, (\E t \in Texts : Changes(t)) \/ WriteLands
    PROVE  Typed'
  <1> USE DEF Typed, lifeVars, messageVars
  <1>1. ASSUME NEW t \in Texts, Changes(t) PROVE Typed'
    <2>1. t \in AnyText
      BY DEF AnyText
    <2>2. writes' = Append(writes, t) /\ Len(writes) < MaxWrites /\ Len(writes) \in Nat
      BY <1>1 DEF Changes
    <2>3. writes' \in Seq(AnyText) /\ Len(writes') <= MaxWrites
      BY <2>1, <2>2, WritesAssumption
    <2>4. doc' \in AnyText
      BY <1>1, <2>1 DEF Changes
    <2> QED BY <1>1, <2>3, <2>4 DEF Changes
  <1>2. ASSUME NEW i \in 1..Len(writes), writes' = RemoveAt(writes, i),
               disk' = IF "src" \in entries THEN writes[i] ELSE disk, WriteLands
        PROVE  Typed'
    <2> DEFINE u == SubSeq(writes, 1, i - 1)
               v == SubSeq(writes, i + 1, Len(writes))
    <2>1. Len(writes) \in Nat /\ \A j \in 1..Len(writes) : writes[j] \in AnyText
      OBVIOUS
    <2>2. u \in Seq(AnyText) /\ Len(u) = i - 1
      BY <2>1, SubSeqProperties
    <2>3. v \in Seq(AnyText) /\ Len(v) = Len(writes) - i
      BY <2>1, SubSeqProperties
    <2>4. writes' = u \o v
      BY <1>2 DEF RemoveAt
    <2> HIDE DEF u, v
    <2>5. writes' \in Seq(AnyText) /\ Len(writes') = Len(u) + Len(v)
      BY <2>2, <2>3, <2>4, ConcatProperties
    <2>6. Len(writes') <= MaxWrites
      BY <2>1, <2>2, <2>3, <2>5, WritesAssumption
    <2>7. disk' \in AnyText
      BY <1>2, <2>1
    <2> QED BY <1>2, <2>5, <2>6, <2>7 DEF WriteLands
  <1> QED BY <1>1, <1>2 DEF WriteLands

\* playground/addCells, up to the reply.
LEMMA RequestTypes ==
    ASSUME Typed, NEW r \in Requests, AddCells(r) \/ RequestNext(r)
    PROVE  Typed'
  <1> DEFINE q == request'[r]
  <1>1. /\ UNCHANGED <<lifeVars, removing, disk, writes, connected, doc, cache>>
        /\ late' = late \/ late' = (late \/ dead)
        /\ entries' = entries \/ entries' = entries \cup {"root", "cells"}
    BY DEF AddCells, RequestNext, CellDirectoryMade, CellOpened, CellCopied, CellMissed,
           ReferencesAdded,
           fileVars
  <1>2. ASSUME NEW m \in Message, HasMore(m), request' = [request EXCEPT ![r] = m],
               stored' \subseteq Cells, told' \subseteq Places
        PROVE  Typed'
    <2>1. request' \in [Requests -> Message] /\ \A x \in Requests : HasMore(request'[x])
      BY <1>2, OneMessage DEF Typed
    <2> QED BY <1>1, <1>2, <2>1 DEF Typed, Entries, lifeVars
  <1>3. CASE AddCells(r)
    <2>1. PICK todo \in Asks :
             request' = [request EXCEPT ![r] = [at |-> "mkdir", todo |-> todo, paths |-> {}]]
      BY <1>3 DEF AddCells
    <2> DEFINE m == [at |-> "mkdir", todo |-> todo, paths |-> {}]
    <2>2. m \in Message /\ HasMore(m)
      BY AsksAssumption DEF Message, HasMore, Asked, Taking
    <2>3. stored' \subseteq Cells /\ told' \subseteq Places
      BY <1>3 DEF AddCells, Typed, fileVars
    <2> QED BY <1>2, <2>1, <2>2, <2>3
  <1>4. CASE CellDirectoryMade(r) \/ CellOpened(r)
    <2> DEFINE m == [request[r] EXCEPT !.at = IF @ = "mkdir" THEN "copy" ELSE "copying"]
    <2>1. request[r] \in Message /\ HasMore(request[r]) /\ request[r].at \in {"mkdir", "copy"}
      BY <1>4 DEF CellDirectoryMade, CellOpened, Typed
    <2>2. m \in Message /\ HasMore(m)
      BY <2>1 DEF Message, HasMore, Asked, Taking
    <2>3. stored' \subseteq Cells /\ told' \subseteq Places
      BY <1>4 DEF CellDirectoryMade, CellOpened, Typed
    <2>4. request' = [request EXCEPT ![r] = m]
      BY <1>4 DEF CellDirectoryMade, CellOpened
    <2> HIDE DEF m
    <2> QED BY <1>2, <2>2, <2>3, <2>4
  <1>5. CASE CellMissed(r) \/ ReferencesAdded(r)
    <2>1. stored' \subseteq Cells /\ told' \subseteq Places
      BY <1>5 DEF CellMissed, ReferencesAdded, Typed, fileVars
    <2> QED BY <1>2, <1>5, <2>1, EndedTypes DEF CellMissed, ReferencesAdded
  <1>6. CASE CellCopied(r)
    <2> DEFINE c == Head(request[r].todo)
               p == <<"workspace", c>>
               paths == request[r].paths \cup {p}
               todo == Tail(request[r].todo)
    <2>1. request[r] \in Message /\ HasMore(request[r]) /\ request[r].at = "copying"
      BY <1>6 DEF CellCopied, Typed
    <2>2. c \in Cells /\ stored' \subseteq stored \cup {c} /\ Took(r, p)
      BY <1>6, <2>1 DEF CellCopied, Message, HasMore, Taking
    <2>3. todo \in Seq(Cells)
      BY <2>1 DEF Message, HasMore, Taking
    <2>4. paths \subseteq Places
      BY <2>1, <2>2 DEF Message, Places
    <2>5. stored' \subseteq Cells /\ told' \subseteq Places
      BY <2>2, <2>4 DEF Took, Typed
    <2>6. \/ todo # <<>> /\ request' = [request EXCEPT ![r] =
                               [at |-> "mkdir", todo |-> todo, paths |-> paths]]
          \/ request' = [request EXCEPT ![r] = [NoRequest EXCEPT !.at = "silent"]]
          \/ request' = [request EXCEPT ![r] =
                               [at |-> "process", todo |-> <<>>, paths |-> paths]]
      BY <2>2 DEF Took
    <2> HIDE DEF todo, paths
    <2>7. todo # <<>> => /\ [at |-> "mkdir", todo |-> todo, paths |-> paths] \in Message
                         /\ HasMore([at |-> "mkdir", todo |-> todo, paths |-> paths])
      BY <2>3, <2>4 DEF Message, HasMore, Asked, Taking
    <2>8. /\ [at |-> "process", todo |-> <<>>, paths |-> paths] \in Message
          /\ HasMore([at |-> "process", todo |-> <<>>, paths |-> paths])
      <3>1. <<>> \in Seq(Cells)
        OBVIOUS
      <3> QED BY <3>1, <2>4 DEF Message, HasMore, Asked, Taking
    <2> QED BY <1>2, <2>5, <2>6, <2>7, <2>8, EndedTypes
  <1> QED BY <1>3, <1>4, <1>5, <1>6 DEF RequestNext

\* Nothing is made, asked or typed yet.
LEMMA TypeInit == Init => Typed
  <1>1. <<>> \in Seq(AnyText) /\ Len(<<>>) <= MaxWrites
    BY WritesAssumption
  <1> QED BY <1>1, EndedTypes DEF Init, Typed, Stages, AnyText

\* Every step leaves each variable its type.
LEMMA TypeStep == Typed /\ [Next]_vars => Typed'
  <1> SUFFICES ASSUME Typed, [Next]_vars PROVE Typed'
    OBVIOUS
  <1>1. CASE CacheChanges
    BY <1>1 DEF CacheChanges, Typed, lifeVars, fileVars
  <1>2. CASE UNCHANGED vars
    BY <1>2 DEF Typed, vars, lifeVars, fileVars, messageVars
  <1> QED BY <1>1, <1>2, LifeTypes, WriteTypes, RequestTypes DEF Next

-----------------------------------------------------------------------------
(* The theorems.                                                             *)

\* Nothing is made yet.
LEMMA InitHolds == Init => WorkspaceInv
  <1> SUFFICES ASSUME Init PROVE WorkspaceInv
    OBVIOUS
  <1> USE DEF Init
  <1>1. DOMAIN NoRequest = {"at", "todo", "paths"}
    BY DEF NoRequest
  <1>2. Life /\ ReferencedIsStored /\ RemovalIsComing
    BY DEF Life, ReferencedIsStored, RemovalIsComing
  <1>3. RequestShape
    BY <1>1 DEF RequestShape
  <1> QED BY <1>2, <1>3 DEF WorkspaceInv

\* Every step keeps the invariant; the cache is nothing to it.
LEMMA StepKeeps == WorkspaceInv /\ [Next]_vars => WorkspaceInv'
  <1> SUFFICES ASSUME WorkspaceInv, [Next]_vars PROVE WorkspaceInv'
    OBVIOUS
  <1>1. CASE Made \/ Filled \/ NotFilled \/ Initialized \/ Warm \/ WarmUpTimesOut \/ Exits
    BY <1>1, StartKeeps
  <1>2. CASE Taken \/ NotTaken \/ Closes \/ Disconnects
               \/ (\E t \in Texts : Changes(t)) \/ WriteLands
    BY <1>2, SessionKeeps
  <1>3. CASE Removed
    BY <1>3, RemovedKeeps
  <1>4. CASE \E r \in Requests : AddCells(r) \/ RequestNext(r)
    BY <1>4, AddCellsKeeps, RequestKeeps
  <1>5. CASE CacheChanges \/ UNCHANGED vars
    <2>1. UNCHANGED <<lifeVars, fileVars, connected, request, told>>
      BY <1>5 DEF CacheChanges, vars, messageVars
    <2> QED BY <2>1 DEF lifeVars, fileVars, WorkspaceInv, Life, RequestShape,
                        ReferencedIsStored, RemovalIsComing, Copies
  <1> QED BY <1>1, <1>2, <1>3, <1>4, <1>5 DEF Next

\* The invariant holds, always.
LEMMA WorkspaceInvHolds == Spec => []WorkspaceInv
  BY InitHolds, StepKeeps, PTL DEF Spec

\* Every variable of the workspace has its type, and a process that runs is not
\* dead, however files, messages and kill() overlap.
THEOREM WorkspaceTyped == Spec => []TypeOK
  <1>1. Typed /\ WorkspaceInv => TypeOK
    <2> SUFFICES ASSUME Typed, WorkspaceInv PROVE TypeOK
      OBVIOUS
    <2>1. {disk, doc} \cup ToSet(writes) \subseteq AnyText
      BY DEF Typed, ToSet
    <2>2. process = "running" => ~dead
      BY DEF WorkspaceInv, Life
    <2>3. \A r \in Requests :
             /\ request[r].at \in Asked \cup {"none", "silent"}
             /\ request[r].paths \subseteq Places
      BY DEF Typed, Message
    <2> QED BY <2>1, <2>2, <2>3 DEF TypeOK, Typed, HasMore, AnyText
  <1>2. Spec => []Typed
    BY TypeInit, TypeStep, PTL DEF Spec
  <1> QED BY <1>1, <1>2, WorkspaceInvHolds, PTL

\* The document and every cell a running process was told of are on disk, once
\* copied, for
\* takeCell() copies them and rm() starts only in kill() (analyser.js).
THEOREM ReferencesStay == Spec => []WhatItReadsIsThere
  <1>1. WorkspaceInv => WhatItReadsIsThere
    <2> SUFFICES ASSUME WorkspaceInv, process = "running"
                 PROVE  {"root", "src"} \subseteq entries /\ \A p \in told : Exists(p)
      BY DEF WhatItReadsIsThere
    <2>1. {"root", "src"} \subseteq entries /\ told \subseteq {"workspace"} \X stored
      BY DEF WorkspaceInv, ReferencedIsStored, Copies
    <2>2. \A p \in {"workspace"} \X stored : p[1] = "workspace" /\ p[2] \in stored
      OBVIOUS
    <2> QED BY <2>1, <2>2 DEF Exists
  <1> QED BY <1>1, WorkspaceInvHolds, PTL

\* kill() (analyser.js) leaves no workspace behind, whenever in the analyser's
\* life it is called, unless an operation on a file took effect after it, also
\* for a message that came when the session had closed.
THEOREM KillRemovesEverything == Spec => []KilledLeavesNothing
  <1>1. WorkspaceInv => KilledLeavesNothing
    BY DEF WorkspaceInv, Life, RemovalIsComing, KilledLeavesNothing
  <1> QED BY <1>1, WorkspaceInvHolds, PTL
=============================================================================
