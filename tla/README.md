# Verification of ghul-playground

TLA+ models of the ghūl playground, the TLC configurations that check them on
small instances, and TLAPS proofs of what matters most for every size. Paths
below are relative to the repository (`src/`), unless they name a file here.

    tlc -workers 2 -config AnalyseService.cfg MCAnalyseService.tla     # a run
    tlapm AnalyseServiceProofs.tla                                     # a proof

`PROJECT.json` lists the runs, the deliberately broken definitions each
property has been seen to catch, the source lines every definition stands for,
the disagreements found and the hazards of the code.

## 1. The system

A page holds an editor. What it does is spread over the reader's browser and
two Node services behind one nginx (`docs/design.md`): the **analyse service**
runs one compiler in analysis mode per editor; the **compile service** turns
source into an assembly, once per request; the **program** itself runs in the
browser, on a .NET runtime in WebAssembly, on a thread of its own. The server
never runs what it compiles.

| part | state | operations | talks to | what makes it hard |
| --- | --- | --- | --- | --- |
| analyse service, `analyse-service/server.js` | sessions, those being acquired, the pool, the queue for it, the processes warming | connect, evict, acquire, message, idle and lifetime timeouts, close, process exit, top-up | the client over a WebSocket; analyser processes | every handler awaits; a client may leave, a timer fire or a process die between two halves of one |
| analyser, `analyse-service/analyser.js` | a workspace directory, a process, the document it has open, copied cells | start, warm up, replace the document, take cells, kill | its session; the cell cache's files | kill() overlaps calls still awaiting the disk; a process may exit at any of them |
| compile service, `compile-service/server.js` | a counter of compiles, a queue, the last health verdict | compile, compile a cell, health check | the page, compiler processes | slots handed over, clients that leave while queued |
| cell cache, `compile-service/cells.js` | entries in memory, files, a byte count | get, put, evict, read the directory at start | the compiles under way | several compiles share it across awaits; restart |
| editor's client, `web/wwwroot/lsp.js` | socket, retry and hidden timers, five flags, status | connect, initialize, edit, release, wake, probe after a refusal | analyse service, `playground.js`, the reader | callbacks of old sockets, timers, page visibility and the reader in any order |
| running a program, `web/wwwroot/playground.js`, `main.js`, `runner/src/*.ghul` | status, input row, what was shown; control block, two buffers; the program's console | run, poll, send a line, stop; write, read, end | compile service; two threads over shared memory | plain stores in a fixed order; what one run leaves to the next |
| REPL, `web/wwwroot/repl.js`, `cell-runtime.js`, `cell-host.js`, `runner/src/repl_session.ghul` | the number in the prompt, generations, a frame with its own runtime and session, the cells the analyser has, the text analysed | submit, stop, reset, analyse what is typed | both services, a frame by messages | three parties that each hold the session; answers of one that was reset |
| page chrome, `main.js`, `files.js`, `collections.js`, `embed.js` | the program and where it came from, its data files, the text and what is stored of it, the reader's file, the tab's history | swap programs, travel, open, save, stop, reload | all of the above | loads that overlap; the reader's edits and the page's own go through one handler |
| pictures, `live-output.js` | images and their bytes, pictures to look at again | read a line, look again, finish | the run, the runtime's filesystem | files are read while they are written; the filesystem outlives the run |
| text and arguments, `cell-output.js`, `arguments.js` | none beyond the text so far | chunks to lines; arguments shown and parsed | the runs | |
| origins, limits, tokens, toolchain | none | one request allowed or not | | |
| snapshot, deployment, proxy, scripts | files | | | not modelled |

What makes each correct:

* *Analyse service.* The limits hold while analysers are being acquired as well
  as after; no process is shared, used twice or left behind; the pool is
  always on its way back to its size; a connection gets an analyser or learns
  that it gets none; an eviction is only of an address's own oldest quiet
  session, and never for nothing.
* *Compile gate.* The counter is the number of compiles; the queue is
  first come first served and is skipped by those who have left; nobody waits
  while a slot is free; nothing is compiled for a client that has gone.
* *Cell cache.* A cell is compiled against all the cells before it although
  the cache evicts; a copy is never of half a file; nothing that did not
  compile is served; no assembly escapes the accounting; the size is kept.
* *Client.* One WebSocket, unless what an earlier one left behind is taken for
  sleep; with one, it comes back by itself or says that it sleeps, the status is
  so, and the service has the text of the editor; a hidden page holds no session.
* *Analyser.* What the process was told of is there as long as it runs; a
  request of the client is answered; a killed analyser leaves no directory.
* *REPL.* Page, frame and analyser hold the same session whenever the reader
  can submit; what is analysed is the input as it is; a submission ends.
* *Page.* Text, data files and title are of one program; the reader's
  changes are stored, and given up only when the reader agrees, once the page
  listens to the editor; a program that is opened is run as a link would run it.
* *Pictures.* Never more than the budget, and exactly what is charged; of this
  run and not the last; shown once finished; the same at the end.
* *Running.* As long as no run is started beside another: the page shows this
  run's output, all of it and in order; the n-th line typed is the n-th line read;
  a program that asks is heard; Stop knows whether the program waits.

The hazards behind these are in `PROJECT.json`, each at its line with the
properties that would catch it, or with the reason why none does yet.

## 2. The modules

| module | models | file |
| --- | --- | --- |
| `AnalyseService` | connections, sessions, limits, eviction, the pool and its queue, processes | `analyse-service/server.js`; of `analyser.js`, that a process warms up, is killed or exits |
| `SlotGate` | what a bounded gate promises: abstract | |
| `CompileGate` | requests through the gate, the health check; implements `SlotGate` | `compile-service/server.js` |
| `CellCache` | cell requests and the shared cache | `compile-service/cells.js` |
| `LspClient` | the client and as much of the service, the page and the reader as it meets | `web/wwwroot/lsp.js`, parts of `playground.js` and `main.js` |
| `Console` | what a running program and its page promise a reader: abstract | |
| `RunChannel` | run(), polling, input, Stop; channel and console; the thread of the program; implements `Console` | `playground.js`, `main.js`, `runner/src/{runner,channel,console}.ghul` |
| `Workspace` | one analyser's process, directory, document and cells, from createWorkspace() to kill() | `analyse-service/analyser.js`, class Session of `server.js` |
| `ReplPage` | the REPL page, the session in its frame, the analyser's cells | `web/wwwroot/{repl,cell-runtime,cell-host}.js`, `runner/src/repl_session.ghul` |
| `EditorPage` | the program, the file and the text of the page, the tab's history | `web/wwwroot/{main,files,collections}.js` |
| `LiveOutput` | the pictures of a run | `web/wwwroot/live-output.js`, run() of `playground.js` |
| `MC*` | instances for TLC | |
| `AnalyseServiceProofs`, `CompileGateProofs`, `CellCacheProofs`, `LspClientProofs`, `RunProofs` (of `RunChannel` and `LiveOutput`), `ReplPageProofs`, `WorkspaceProofs`, `EditorPageProofs` | the theorems of each, and the lemmas they rest on | |

In all of them an action is what the code does between two returns to its
scheduler. In the services and the page that is a handler up to its first
`await`, or what follows an `await`; an `await` of the disk in `CellCache` is
two steps, the effect on the disk and the return, because another request runs
between them. Only in `RunChannel` do two threads really run at once, and there
each access to the control block whose order matters is a step.

Time is order. A timer that is armed may fire at any moment; who was active
before whom and who has been quiet long enough are kept as relations, and ties
of `Date.now()` are left out. Names of connections, processes and sockets are
used again once what they named is gone, so the sets bound how much exists at a
time and not how long a behaviour is.

**AnalyseService.** `phase` is the client's place in `sessions`: a placeholder
while it waits for the pool or for a cold start, a session, a socket closed
with 1013. `Connect` and `ConnectEvicting` are the handler of the WebSocket server's 'connection' up to
`acquire`'s await, the eviction and the `replenish()` it causes included;
`AcquireTimesOut` is the timer in `acquire`; `Settle` is what follows the
await, where a client that hung up is found out. `WarmUpSucceeds` and
`WarmUpFails` are the two ends of a warm-up that `replenish()` began, `TopUp` the
`setTimeout(replenish, 250)` in its finally. `Restart` is SIGTERM or a container restart, which ends the processes.
`AnalyserExits` marks the process dead and closes the session, if any, that had it.

**CompileGate.** `acquireSlot` and `releaseSlot` are `AcquireSlot` and
`ReleaseSlot`; `Arrives`, `BodyEnds`, `WorkEnds` and `ClientGoes` the life of a
request around them. `Rejected` and `TurnedAway` stand for every answer
given without a compile. `CheckHealth` takes a slot like any request, or
answers busy when the gate is saturated, and the verdict is kept for a while.

**CellCache.** A worker is a place inside the gate. `LooksUp` and `CopyLands`
go through the earlier cells, then `Compiled` for each one missing, `WriteLands`,
`RenameLands` and `Records` put it or `PutFails`, `Evicts` and `RemoveLands` go through the
snapshot of the entries. A key fixes the cell and all before it, as the chained
hash does, and so what compiling it answers. `Restart` forgets the entries and
reads the directory, which is a tmpfs volume and may or may not have survived.

**LspClient.** Every WebSocket has its handlers and outlives its replacement.
`Connects`, `Opens`, `InitializeEnds`, `Fails`, `Closes` and `ProbeEnds` are the
client's handlers, `Retries`, `Releases` and `EditSettles` its timers,
`Types`, `Moves`, `Reconnect`, `Hides`, `Shows`, `Dispose` what reader and
page do, at any moment: the reader may click an indicator that says dormant or
refused, as its tooltip invites (`main.js:72`), and the debounce may end while the
socket opens. Of the service it has `Acquires` and the reasons of a close; it may take
longer than the ten seconds the client waits. `crossed` says that an earlier socket was
still about when `connect()` last ran, `unheard` on which sockets the text was last sent
before the service listened.

**RunChannel.** `page[r]` is a call of `run()`: compile, token prompt, start of
the runtime, the run, its end. `Rewound` sets the counters back; `Poll` is the
interval's function; `Sends` is `sendInput()`, store by store, since the
program can come between. Of the thread, `Emits` is `CONSOLE_OUT.write` (the
channel until it is full, and the capture), published in a second step; `Prepares`,
`Hears`, `Takes`, `Clears`, `Fetches` are `take_line`. A line that was read is
echoed into the run that reads. A runtime that fails to start stays failed,
because the page keeps the rejected promise. Stop ends the input of a program
that waits and reloads the page under one that is busy. `Starts` may happen at any
time: the button, Ctrl+Enter and the arguments' form ask whether a program is running
(`main.js:991`), but not whether one is compiling, and `swapTo()` asks neither
(`main.js:833`). A run that begins while another is between its start and its end,
or a line typed into a row left behind, sets `hasty`. `Stage` and `OnScreen` say
how a run looks from in front of the page, and `ConsoleIsKept` that seen so it is a
`Console`: what a program wrote is what it has handed to its console, a line is
typed once `sendInput()` has begun to store it, and read once it has been fetched.

**Workspace.** `stage` follows `start()` and `warmUp()` to the pool, the session and its
`close()`. `Kills` is `kill()`, the start of its `rm()` included, and `Removed` the
end of that; `Exits` the handler of 'exit'. `takeCell()` is `CellDirectoryMade`,
`CellOpened` and `CellCopied`, or `CellMissed`; `replaceDocument()` is `Changes` and
`WriteLands`: each operation on a file is over some time after it began. Nothing asks
whether the session has closed before it begins, so a message that comes while the
socket is closing (`connected`) is served like any other; `late` records an
operation that took effect behind a `kill()`. A volume that is full is not modelled. `CacheChanges` is the compile service's cache, seen
from outside. It composes with `AnalyseService` by the life of one name of
`Analysers`: starting, warming, warm, held, gone.

**ReplPage.** `sub` is the `await` that `submit()` is at, `stale` whether its generation
has passed; `calls` are the messages to the frame, answered in order. `Submit`,
`Prepared`, `PostEnds`, `Accepted` and `Refused` are the parts of `submit()` between its
awaits, with what the frame's session does for each, `HostThrows` the answer when it
throws before it takes the cell; `Stop` and `Reset` the buttons,
which end the frame and with it every answer. `AnalyserReady`, `AnalyserLost` and
`AddingEnds` are the analyser's side of `addCells()`.

**EditorPage.** A text is what it was made from and how far it has been edited.
`Changes` is the handler of the editor's changes, whoever makes them; `SwapTo`,
`Arrives` and `SwapEnds` are `swapTo()` before and after its `await`, `Travels` the
handler of popstate, `Reloads` Stop on a busy program or the reader's own reload.
A page comes up in two steps: with `ProgramLoads` it has its program and an editor
(`main.js:448`), with `PageStarts` all its handlers (`main.js:1023`) and perhaps a run.
Between them it waits for `/health` and for the reader's token (`main.js:624`), and what
the reader types, or where the tab travels, is not heard (`TypesUnheard`,
`TravelsUnheard`); the second `await`, at line 1014, is of the same answer, and nothing
comes in between. `early` says what was typed then and has not been made good since.
`OpensFile` to `SaveAsEnds` are the file menu over `files.js`.

**LiveOutput.** An output is a record and the methods of the class are operators
on it: `Line`, `Retry` and `Show` read the files as they are at that moment. `Looks` is
the interval of `run()`, `RunEnds` what follows the program's answer: a second
output, read from the start, and the removal of what either showed; `RunFails` is the
run that rejects, which has neither. One run is going at a time: what a run started
beside another (`hasty` in `RunChannel`) does to the files of both is not modelled.

## 3. The runs

| run | shows | instance |
| --- | --- | --- |
| `analyse_sessions` | the limits, ownership of processes, eviction | five connections, three of one address and two of none; 3 sessions, 2 per address, pool of 1, 5 process names |
| `analyse_pool` | the queue and the pool; every acquisition ends | three connections; 2 sessions, pool of 2, 4 process names |
| `compile_gate` | queue, refinement of `SlotGate`, progress | four requests and a health check, 2 slots, 2 places |
| `cell_cache` | what is cached, copied, referenced and left on disk | two workers; sessions that share a prefix, one with a large cell, one that never compiles; room for 2 |
| `lsp_client` | when a second socket may appear; what the client promises with one | two sockets |
| `run_channel` | whose output is shown, refinement of `Console`, progress of two runs in a row | 2 runs, lines of 1 and 2 characters and end of input, buffer of 2, 3 characters, 2 reads; as far as the first hasty step |
| `run_channel_hasty` | **violated:** nothing runs at the reset | as above, without that limit: a run started beside another |
| `workspace` | the directory, the cells in it and the requests for them, against every failure and kill | one analyser, two cells, two requests that overlap, one write at a time |
| `repl_page` | page, frame and analyser agree; a submission ends | four submissions to sessions of three cells, two texts, two unanswered calls, a runtime that may fail |
| `editor_page` | text, program, files and title belong together; edits are stored, and kept | two programs and a file, one edit, two swaps that overlap, two entries of history |
| `page_arguments` | **violated:** a program that is opened is run with its own arguments | as above, one program with arguments, one swap |
| `live_output` | budget, whose picture it is, the two passes agree, a finished picture is shown | two paths, pictures of 1 and 2 of 3 bytes, 2 markers a run, 2 runs |

*Why the bounds are enough.* The analyse instances have one connection more
than there are sessions, and one more than an address may hold, so both limits
bite together, an eviction leaves a newcomer that meets the global limit, and
an address has two sessions to choose from; the second has a pool larger than
one, and a queue behind it. There is a process name for everything that may
run at a time (an assumption of the module). Four requests fill both slots and
both places of the gate, with the fifth for the health check; a longer queue
adds no case, and the proofs do not bound it. Two workers make every pair of
cache operations meet, and the budget is smaller than what the sessions need, so
evictions overlap copies, writes and each other. Two sockets are the client's own and
one left behind, whose handlers then write over each other; three were checked too (1.95
million states), and the proofs are of any number. Two runs put what one leaves in memory under the next, the
second line is longer than the first, and a program may write past the buffer.
One workspace needs no second: nothing in `analyser.js` is shared but the cache,
which changes as it likes; two requests for the same cells make every pair of copies
meet. Four submissions fill a session of three cells and begin the next one, with a
refusal, a retry, a stop or a reset at any of them. Two swaps are the fewest that can
answer in the other order, and two entries the fewest to travel between; one edit
tells a changed text from an unchanged one. Two pictures of 2 do not fit into 3
bytes and two of 1 and 2 do, so one replaces, completes or excludes the other; a
second run meets the files of the first.

*A run beside another.* `run_channel` has `CONSTRAINT Unhurried`: TLC finds the states
in which a run has just been started beside another, or a line typed into a row left
behind, and does not go on from them. Nothing is lost by it: the properties of
`RunChannel` except what is `hasty`, because both runs then use one control block, one
`waiting` and one input channel, and nothing of what they promise is left. Only loading
the page again ends it, and leaves nothing but which runs were started, as it does when
there was no haste. The proofs need no such limit.
`run_channel_hasty` has no constraint, and shows what happens.

*Environment switches.* `RuntimeFails` is on: the frame may not load and its runtime may
not start. `AddingFails`, in `ReplPage`, is off: with a `playground/addCells` that fails
or is never answered, `AnalyserHasTheCells` fails at once (section 4). `Takes` is empty
in `editor_page` and not in `page_arguments`.

*Deadlock* is checked in the services, which never stop. It is not for the
client, which may be disposed of, nor for `RunChannel`, whose runs end and
whose program may wait for good; nor for `Workspace`, one analyser that ends, and
the bounded histories of the three pages' models.

*Fairness.* Nothing is assumed of clients, readers or programs.

* `AnalyseService`: timers that are armed fire; a cold start and a warm-up end:
  `start()` waits for the disk alone, and every wait of `warmUp()` is raced with
  `WARM_UP_TIMEOUT_MS`.
* `CompileGate`: a compiler answers or is killed at its timeout.
* `LspClient`: timers fire; a socket that connects opens or fails, one that
  closes is reported closed; a fetch ends. The service need never find an
  analyser.
* `RunChannel`: the interval fires, a handler runs to its end, and the thread
  is scheduled when it is not waiting.
* `Workspace`: operations on files end, the warm-up's timer fires, and a process that
  runs answers a request of the service; no session has to close.
* `ReplPage`: a frame loads or fails, its runtime too, a cell ends, a fetch ends. A
  cell that never ends is what Stop is for, and is outside `SubmissionEnds`.
* `EditorPage`: the debounce's timer fires. `LiveOutput`: the interval does.
* `CellCache` states nothing temporal that needs any.

## 4. What disagrees with the code's own words

Two have a run that TLC refutes, and are findings in `PROJECT.json`:

* A run started beside another resets the counters under it (`run_channel_hasty`;
  `playground.js:486`: "Reset here, where nothing is running"). `swapTo()` starts one
  while a program runs (`main.js:833`), Ctrl+Enter while one compiles (`main.js:991`).
  From then on two programs write into one buffer, read one input channel, and share
  `waiting`: no property of `RunChannel` says anything of them. (There the model is also
  coarser than the code: two threads that take a turn at once do so in one step.)
* A program opened by a suggestion, a part's link, Back or Forward is run with the
  arguments of the one before it, or with none (`page_arguments`; `main.js:833`).

The others are what the models say the code does. Where a constant is named, TLC
shows it when that constant is changed in the run's cfg:

* `connect()` clears neither `dormant` nor `refused` (`lsp.js:151`), so after a click on
  an indicator that says either, or a retry after a refusal, the reader's next move or
  edit makes `wake()` open a second WebSocket beside the one that is connecting or open
  (`lsp.js:381`; "Each editor gets one WebSocket", `docs/design.md:76`). A click while
  `overLimit()` is awaited does the same. `OnlyStaleFlagsCross` says that nothing else
  does; TLC reaches both. From then on (`crossed`, until the client connects again with
  every socket closed) a close of the old socket makes the status dormant, or drops the
  requests, of the new one, `release()` and `dispose()` close only the newer of the two,
  and `ComesBack`, `StatusIsHonest`, `InSync` and `HiddenHoldsNothing` promise nothing:
  TLC violates each of them when its `crossed` is removed.
* What the client sends before the service has found an analyser is lost, and it
  takes its own timeout for an answer (`analyse-service/server.js:601`, `lsp.js:281`): it
  is ready, on a session that has no document until the next edit. This is the `unheard`
  of `InSync`, which TLC violates without it.
* `addCells()` counts cells as added before it is answered, `repl.js:287`:
  `AddingFails = TRUE` violates `AnalyserHasTheCells` until the next connection.
* A cold start whose process dies while it warms up becomes a session with
  no process, which nothing closes until its timeouts: `server.js:144` ignores
  what `warmUp` answers ("or null if it would not start", `server.js:137`). If only
  `initialize` timed out, the session has an analyser with no document open, and
  every change the client sends is of a document the process does not have.
* Two evictions that overlap subtract one entry twice (`cells.js:222`): the
  count falls below the truth and the cache stays above its size.
* The removal of an evicted file may land behind another request's rename of the same
  key (`cells.js:224`): the entry has no file, every request for it misses at the copy
  and compiles the cell again, and `put()` returns early as long as the entry lives.
  The model has it, and no property forbids it.
* A `put()` whose write or rename fails leaves its temporary file (`cells.js:204`),
  outside the count of bytes, until the next `init()`: `litter` in `CellCache`, and the
  last part of `NoFileIsForgotten`.
* Stop on a program that waits leaves the input row (`playground.js:661`;
  `main.js:465` says it does not).
* The workspace of an analyser that exits by itself is not removed: `exit` marks
  it dead, and `kill()` returns at once (`analyser.js:294`). The exception
  `process # "exited"` in `KilledLeavesNothing` is this.
* A cell that is being copied when its analyser is killed makes the directory
  again behind the removal (`analyser.js:117`), and so does one that is asked for
  while the socket is closing, since `fromClient()` does not look at `closed`
  (`analyse-service/server.js:323`): the exception `late`. Nothing removes it then.
* A client that asked twice for one cell in a session would have the copy emptied
  under the process that was told of it (`analyser.js:119`). `repl.js` asks once;
  the service does not require it, and `WhatItReadsIsThere` says of a reference
  that it has been copied, not that it is not being copied again.
* Two writes of the document that overlap may land in either order
  (`analyser.js:285`), so the file may be older than what the process was told;
  the next edit mends it. The process reads what it was told.
* A frame whose runtime did not start stays as it is, and Reset, which would
  replace it, is not offered while the number is 1 (`repl.js:202`).
* "The buffer is written to local storage on every edit" (`files.js:10-13`) from line
  1023 of `main.js` on, where the change handler is registered. The editor is there
  from line 448, and the page waits in between for `/health` and for the reader's token
  (line 624): what is typed then is neither stored nor due until the next change, and a
  text that is replaced then keeps the address and the title of the program it does
  not come from (`main.js:1026-1028` says such an edit gives them up). These are the
  exceptions of `TypedIsStored` and `PartsAgree` by `early`; TLC violates each property
  in two steps without its exception.
* What is typed while a program loads for a swap is discarded unasked (`main.js:789` asks
  before the `await`): `DiscardsWhenAgreed` excludes it by `clean`.
* Opening a file does not reset `loadedSource`, as its comment says
  (`main.js:564-566`): the reader is then asked about changes that were not made.
* Stop's reload brings an edited program of a collection back as published
  ("The editor's content is saved as it is typed, so that much survives",
  `main.js:944`): the stored text is not read when the address names a program.
* After a swap, Save writes the new program over the file the one before was
  saved to: `currentName` and the handle stay.
* A swap runs a program whose data files did not load; the page's own load
  does not (`main.js:1014` looks at `notice`).
* Back that is declined, or whose program does not load, leaves the address of
  the program that is not shown.
* After a 401 the program is run without its arguments (`playground.js:440`).
* Two paths with one base name share a picture: one that is pending may replace a
  newer one of the other (`live-output.js:211`). A file that is overwritten in
  place may pass `isCompletePng()` while it is torn. After a picture has been
  turned away, or a file written again without a marker, the end of the run may
  show what the live pass did not (`playground.js:568` says otherwise); the
  conditions of `FinalAgrees` are these. A run that rejects removes no file
  (`playground.js:606-609`), so `PicturesAreThisRuns` promises nothing of its pictures.

## 5. The proofs

For every finite set of connections, requests, workers or keys, every set of sockets,
programs and files, any number of runs, and every value of the limits and bounds. The
assumptions are the named `ASSUME`s of the modules and, where the table says so, one
more: `AddingFails` is off, or no two paths have a base name in common.

| theorem | property | by |
| --- | --- | --- |
| `AnalyseServiceProofs!TypeCorrect`, `QueueIsExact` | `TypeOK`, `NobodyWaitsInVain` | together: one needs the other |
| `SlotsStayInBudget` | `SlotBudget` | from these two |
| `PoolIsRefilled` | `ShortfallIsScheduled` | `TypeOK` and itself |
| `ProcessesAreNotShared` | `SingleOwner` | the form `Apart(idle, warming, held)` |
| `NoProcessIsLeaked` | `NoOrphan` | the form `Kept(live, idle, warming, held)` |
| `ProcessesStayInBudget` | `ProcessBudget` | no induction: `NoOrphan`, `SlotBudget` and `ShortfallIsScheduled`, by cardinality |
| `EvictionsAreEarned` | `EvictionIsEarned` | `QuietIsOldest`, with `SlotBudget` |
| `ProcessesAreNotRecycled` | `NeverRecycled` | no induction: each step from `SingleOwner` and `NobodyWaitsInVain` |
| `CompileGateProofs!TypeCorrect`, `CounterIsAccurate`, `QueueStaysExact` | `TypeOK`, `RunningIsAccurate`, `QueueIsExact` | `GateInv` |
| `GateIsImplemented` | `GateIsKept` | each step is one of `SlotGate` or a stutter, under `GateInv` |
| `CellCacheProofs!TypeCorrect` | `TypeOK` | `CacheInv`, and that a sum over a set of keys is a number |
| `OnlyGoodCells`, `ReferencesAreReady`, `FilesAreAccountedFor`, `CopiesAreWhole` | `OnlyCompiledIsCached`, `ReferencesReady`, `NoFileIsForgotten`, `NoTornCopy` | `CacheInv` |
| `ReplPageProofs!NumberAndCellsAgree`, `AnalysisCatchesUp`, `TypeCorrect` | `PageKnowsTheSession`, `AnalysisIsCurrent`, `TypeOK` | `PageInv` |
| `ReplPageProofs!AnalyserIsTold` | `AnalyserHasTheCells`, assuming `~AddingFails` | `PageInv` |
| `WorkspaceProofs!ReferencesStay`, `KillRemovesEverything` | `WhatItReadsIsThere`, `KilledLeavesNothing` | `WorkspaceInv` |
| `WorkspaceTyped` | `TypeOK` | `Typed`, with requests as records and the writes as a sequence; that a running process is not dead from `WorkspaceInv` |
| `LspClientProofs!ClientTyped`, `ClientComesBack`, `ClientIsHonest` | `TypeOK`, `ComesBack`, `StatusIsHonest` | `LspInv` |
| `ClientCrossesOnlyStale` | `OnlyStaleFlagsCross` | `LspInv`, by steps |
| `ClientInSync` | `InSync` | `SyncInv` |
| `RunProofs!RunTyped`, `RunOutput`, `RunInput`, `RunWaiting` | `TypeOK` wherever not `hasty`, `OutputIsItsOwn`, `AnswersInOrder`, `WaitingIsHonest` | `RunInv`, unless `hasty` |
| `RunReset` | `NothingRunsAtReset`, in steps that are not of a `hasty` page | `RunInv`, by steps |
| `ConsoleIsImplemented` | `ConsoleIsKept` | each step is one of `Console` or a stutter, under `RunInv` and `ButtonInv` |
| `PictureTypes`, `Budget`, `OwnPictures` | `PictureTypeOK`, `BudgetIsKept`, `PicturesAreThisRuns` | `PictureInv` |
| `LastLookAgrees` | `FinalAgrees`, assuming that paths have different base names | `PictureInv` |
| `EditorPageProofs!PageTyped`, `PagePartsAgree`, `PageTextIsStored` | `TypeOK`, `PartsAgree`, `TypedIsStored` | `EditorInv` |
| `PageDiscardsWhenAgreed` | `DiscardsWhenAgreed` | `EditorInv`, by steps |

*Analyse service.* `TypeOK` by itself is not inductive. When an analyser warms
up it goes to the head of `waiting`; that this connection is still waiting,
and has no analyser yet, is `NobodyWaitsInVain`, which in turn says that the
queue is the set of connections in phase "waiting", once each. The pair is
inductive, and the budget of slots follows: a slot is only ever taken in
`Accept`, after both comparisons. Ownership is stated of four values rather
than of a state, because `Replenish` changes three of them after its caller has
changed the fourth: the lemmas on `Apart` and on `Kept` carry it through the two
halves of such a step.

The two action properties need opposite amounts of the past. That a process is not
recycled is true of each step by itself once nobody else has it. That an eviction takes
the oldest is not: the code takes the first session of the address that is quiet
in the order of activity, so a session that is not quiet could stand before it.
`QuietIsOldest` is the fact that it cannot: who was active before a quiet session is
quiet too. It is inductive because whoever becomes active goes to the end.

*Compile gate.* `GateInv` is `RunningIsAccurate` with `QueueIsExact`: the
counter is the cardinality of the requests at work, and the queue is those
queued, once each, empty while a slot is free. A hand-over past clients that
left changes both at once (`HandOnKeeps`). The refinement mapping is the
identity, but for who has given up: in `SlotGate` a caller may say at any time that it
no longer wants its slot, and the head of the line is passed over if and only if it has.
What the abstract gate leaves out is the health check and what the work is.

*Cell cache.* `CacheInv` is `Shape` (types), `Place(w)` for each worker (what its
position says of its directory, of the cells still missing and of the
file it holds), that only compiled cells are cached, and `Accounted` (every assembly
is that of an entry, of a write under way or of a removal); `Litter`, about the temporary
files, is an invariant by itself. `Place` is the
heart of `ReferencesReady`: an index is either in the directory or in `missing`,
and compiling takes the least that is missing, so that all before it are there. A torn
copy would need a file that is being written under its final name; renames
make that impossible: `Shape` has no file in part, and only `CopyLands` copies.
That the count is a number after a restart is of a recursive sum over the keys on
disk: such a sum exists, and is a number, for sets of every size, because there is no
least size at which it fails.

*REPL.* None of the properties is inductive: they speak of moments when the page
is idle, and what makes them true then is what was going on before. `PageInv` says
it: `OneSession`, that number and cells are the session's also while it is busy;
`Submission`, that of the calls outstanding only the one `submit()` awaits is no
analysis, and that what it will accept is the session and one cell (so that a
reset, which empties the queue, can never let an old answer through);
`AnalysisComing`, that an analysis that is not current has been asked for, by the
last call in the queue, whose answer nothing can overtake; `CellsComing`, that
what the analyser has and what it is being told are together the session's cells.
`BeyondAllButOne` is the arithmetic of `cells.slice(added)`.

*Workspace.* `ReferencedIsStored` extends `WhatItReadsIsThere` to the references
that requests still hold, which become the process's in one step, and `RemovalIsComing`
extends `KilledLeavesNothing` to analysers that are dead before they are over;
`Life` keeps both apart: nothing is removed under a process that runs.

*Client.* `LspInv` has a part for every state and one for those of a client that is not
`crossed`. `Rooted` is the first: a client that is connected has a socket that opened,
and with every socket closed nothing is open and nothing outstanding. It is just enough
for `connect()`, with all sockets closed, to establish the second, `Own`, from nothing
(`ConnectsKeeps`), which is what lets a client that had two sockets recover. `Own` says
of every callback still to come what it will find. `NoOther`: a socket other than the
current one is closed. `OfMine`: the flags speak of the current socket, and it is the
only one that is asked for a session. `Told`: which statuses go with which flags and
sockets. `RetryDue`: while a retry is due all sockets are closed, so that a retry is never
what opens the second one, which `OnlyStaleFlagsCross` needs.

*Running.* `RunInv` is proved of every access to the control block by either thread. Its
parts: `Typed`; `Alone`, that one run at most is between its start and its end; that what
a run's console captured is what its program wrote; for the run whose program is
running, `Running`; for all others `Settled`, that they have no thread and no
line to read; and `Quiet`, that nothing is asked or redirected while none runs. `Running` has
three parts. `Handshake` says at each position of `read_line()` whether the line
typed is not there, being stored, stored, or taken with only its length still known;
the page may look, and the reader may answer, between any two of them. `Counted`
orders what was shown, published and written, and says that the characters up to the
published count are this run's own, which the reset of the counters establishes.
`Redirected` is the console's writer and reader. All of it is claimed of pages that are
not `hasty`: a run started beside another breaks `Alone`, and with it everything else.
Only a page that is loaded again stops being hasty, and `StopsPage` establishes `RunInv`
from any state at all (`HasteEnds`). `run_channel_hasty` is the counterexample to
`RunReset` for the others.

The refinement of `Console` is then shown action by action. What a step may do to what
is seen is said of one run at a time (`SeenOfOne`, `SeenAt`), every other run is seen as
before, and a step that shows nothing new is none of `Console` (`UnseenStep`). Four steps are more than a renaming. A write is one of `Console` only
while the program's own run is redirected, which `Running` says. An answer is
one because the handshake lets the reader type nothing while a line is on its way. The
end of `run()` shows the rest of what was captured, whatever the last look had shown. And
Stop reloads the page only when there is a program to stop: `ButtonInv` is the fact
that the button says Stop only then.

*Pictures.* `PictureInv` says of both outputs that they are `Sound`: one image and one
pending path for each name, the total that of the images, within the budget, and of
no file that an earlier run had shown. What `feed()` and `finish()` make of an output
is a fold over lines or over pending paths. The lemmas turn it into the row of outputs
between the turns of the loop (`FoldExists`: for no number of turns is there a least
counterexample), so that what one turn keeps, all keep. The total is a fold itself, over
the images, and replacing one exchanges one summand (`HeldSteps` and after).
`OwnPictures` needs `FilesAreFresh`: no file was written by a run that showed its path
and is over, which is what removing the paths of both passes establishes. `FinalAgrees` compares two passes over files that changed
between them. `Told` says what the live pass knows of a path that is due: there is a
line about it to come, or it is pending, or its image is the file as it is, or a picture was
turned away; the pass at the end, over the same files, ends in the same image. With
two paths of one base name this is not so (section 4), and `Distinct` excludes it.

*Page.* Three facts make the properties of `EditorPage` inductive. `Loading`: until its
program has arrived a page is where it was asked for, with nothing typed, and until it
listens no swap or file has been begun. `Opened`: the text that counts as unchanged is that of the program that was opened.
`CleanIsUnchanged`: a swap that began without changes is marked so only as long as
there are none. `TypedIsStored` then follows each write that is due: the change
handler, whoever calls it, leaves either no difference or a write to come.

What is only model-checked:

* liveness (`EveryConnectionSettles`, `NobodyWaitsForever`, `AsksAreHeard`,
  `AnswersArrive`, `EveryRequestIsAnswered`, `SubmissionEnds`, `CatchesUp`), which is
  beyond this prover with fairness; `HiddenHoldsNothing` is of that kind too.

The type invariants are not among the runs' properties; each `TypeOK` can be
added to its cfg as it stands and holds there.

## 6. What is not modelled

* Contents: messages, sources, assemblies and diagnostics appear as what tells
  them apart, if at all. Formatting and logging do not.
* Predicates of one request (origin, token, size, the toolchain's version) are a
  choice: accepted or not.
* Lengths of time, and with them how long a client backs off.
* In `RunChannel`, memory is sequentially consistent. The program's side
  uses plain stores and loads, which the build may reorder; the model says the
  order in the source is a right one, not that the build keeps it.
* The text of a run's output and of a cell's (`overprint`, `cell-output.js`), and
  arguments shown and parsed: sequential text processing, which the repository's
  tests reach.
* The embedded editor's messages (`embed.js`); browsers without the File System
  Access API or without storage; which tasks are suggested.
* The health check turned away by a full gate and cached for a minute
  (`compile-service/server.js:254`) is in `CompileGate`, without a property; the
  promise `getCellState` keeps when it is rejected is not.
* A session that throws after it has taken a cell, while it writes the value down
  (`Program.cs:138` answers that it was not accepted): whether it can is a matter of
  `CELL_DISPLAY`, which is a library's.
* Configuration of nginx, Docker, Prometheus, Grafana; build scripts; examples.

## 7. Plan

Done, most important first: the analyse service, the gate, the cell cache, the
client, the channel; then the REPL, the analyser's workspace, the editor's page
and the pictures; then every safety property of the runs proved, and the two refinements.

Next, in this order:

1. `EditorSession`: `LspClient` composed with `AnalyseService`, in place of the
   service's share inside `LspClient`.
2. `Embed`: the messages of `embed.js` with the page that frames it.
3. `Arguments`: arguments shown and parsed are the same, as operators checked
   against a reference definition.
4. `Snapshot`: the order of its commands with `set -e` suppressed
   (`deploy/snapshot/snapshot.sh:102`), if it turns out to be more than one fact.
