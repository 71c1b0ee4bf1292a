------------------------------ MODULE CellCache ------------------------------
(***************************************************************************)
(* compile-service/cells.js: the requests that compile a cell of an        *)
(* interactive session, and the cache of assemblies they share: a map of   *)
(* entries in memory, the files they stand for in a directory, and a count *)
(* of their bytes.                                                         *)
(*                                                                         *)
(* Each of Workers is a place inside the gate of server.js (CompileGate),  *)
(* so there are MAX_CONCURRENT of them.  An action is what runs between    *)
(* two awaits, or one file operation taking effect on the disk, which it   *)
(* does some time before its await returns.  A key identifies a cell with  *)
(* all the cells before it, and so it also fixes what compiling them       *)
(* answers.  Time is kept as the order of last use.                        *)
(***************************************************************************)
EXTENDS Integers, Sequences, FiniteSets, SequencesExt, FiniteSetsExt

CONSTANTS Workers,
          Keys,
          Chains,    \* the requests: the keys of the cells, in order
          Compiles,  \* the keys whose last cell compiles after the others
          SizeOf,    \* the bytes of each assembly
          MaxBytes   \* CELL_CACHE_BYTES

\* The keys of a chain all differ, since each folds in the one before it.
ASSUME ChainsAssumption ==
    Chains \subseteq {s \in Seq(Keys) : s # <<>> /\ IsInjective(s)}
ASSUME KeysAssumption == IsFiniteSet(Keys)
ASSUME SizesAssumption == SizeOf \in [Keys -> Nat] /\ MaxBytes \in Nat

VARIABLES
    at,      \* what each worker awaits: see Places
    chain,   \* the request it serves
    next,    \* the cell it looks up next
    missing, \* toCompile: the cells found missing and not compiled yet
    dir,     \* the assemblies in the request's own directory
    victims, \* what is left of the snapshot its eviction goes through
    lru,     \* the entries, least recently used first
    bytes,   \* the cache's count of their sizes
    files,   \* what the directory has of each key's file
    litter,  \* whether it has a temporary file that no put will rename
    failed   \* whether a put has failed since the service started

tempVars == <<litter, failed>>
cacheVars == <<lru, bytes, files, tempVars>>
vars == <<at, chain, next, missing, dir, victims, cacheVars>>

\* "looking" goes through the earlier cells; "copying" one of them out of the
\* cache; "compiling" a cell; "writing" it to a temporary file, "written",
\* "renamed"; "removing" an evicted file, "removed".
Places == {"idle", "looking", "copying", "compiling", "writing", "written",
           "renamed", "removing", "removed"}

Cached == ToSet(lru)
Now(w) == chain[w][Min(missing[w])]   \* the cell being compiled

Without(s, k) ==
    IF k \in ToSet(s) THEN RemoveAt(s, CHOOSE i \in 1..Len(s) : s[i] = k) ELSE s

MostRecent(s, k) == Append(Without(s, k), k)

-----------------------------------------------------------------------------
(* compileCells(): what the cache has is copied, the rest is compiled.     *)

Begins(w) ==
    /\ at[w] = "idle"
    /\ at' = [at EXCEPT ![w] = "looking"]
    /\ \E c \in Chains : chain' = [chain EXCEPT ![w] = c]
    /\ next' = [next EXCEPT ![w] = 1]
    /\ missing' = [missing EXCEPT ![w] = {}]
    /\ dir' = [dir EXCEPT ![w] = {}]
    /\ UNCHANGED <<victims, cacheVars>>

\* The loop up to its next await: cells without an entry are passed over.
LooksUp(w) ==
    LET last == Len(chain[w])
        hits == {i \in next[w]..last - 1 : chain[w][i] \in Cached}
    IN  /\ at[w] = "looking"
        /\ IF hits = {}
           THEN /\ missing' = [missing EXCEPT ![w] = @ \cup next[w]..last]
                /\ next' = [next EXCEPT ![w] = last]
                /\ at' = [at EXCEPT ![w] = "compiling"]
                /\ UNCHANGED lru
           ELSE /\ missing' = [missing EXCEPT ![w] = @ \cup next[w]..Min(hits) - 1]
                /\ next' = [next EXCEPT ![w] = Min(hits)]
                /\ at' = [at EXCEPT ![w] = "copying"]
                /\ lru' = MostRecent(lru, chain[w][Min(hits)])
        /\ UNCHANGED <<chain, dir, victims, bytes, files, tempVars>>

\* Broken: a file that has gone is not noticed.
CopyLandsUnnoticed(w) ==
    LET k == chain[w][next[w]]
    IN  /\ at[w] = "copying"
        /\ dir' = [dir EXCEPT ![w] = IF files[k] = "absent" THEN @ ELSE @ \cup {k}]
        /\ next' = [next EXCEPT ![w] = @ + 1]
        /\ at' = [at EXCEPT ![w] = "looking"]
        /\ UNCHANGED <<chain, missing, victims, cacheVars>>

\* The copy opens the file, or finds that it has been evicted: a miss.
CopyLands(w) ==
    LET k == chain[w][next[w]]
    IN  /\ at[w] = "copying"
        /\ IF files[k] = "absent"
           THEN missing' = [missing EXCEPT ![w] = @ \cup {next[w]}] /\ UNCHANGED dir
           ELSE dir' = [dir EXCEPT ![w] = @ \cup {k}] /\ UNCHANGED missing
        /\ next' = [next EXCEPT ![w] = @ + 1]
        /\ at' = [at EXCEPT ![w] = "looking"]
        /\ UNCHANGED <<chain, victims, cacheVars>>

\* A cell is in the cache: on to the next one, or the answer.
Proceeds(w) ==
    /\ missing' = [missing EXCEPT ![w] = @ \ {Min(@)}]
    /\ at' = [at EXCEPT ![w] = IF missing'[w] = {} THEN "idle" ELSE "compiling"]

\* Broken: the cell is put in the cache whatever the compiler's status.
CompiledUnchecked(w) ==
    /\ at[w] = "compiling"
    /\ dir' = [dir EXCEPT ![w] = @ \cup {Now(w)}]
    /\ IF Now(w) \in Cached
       THEN Proceeds(w)
       ELSE at' = [at EXCEPT ![w] = "writing"] /\ UNCHANGED missing
    /\ UNCHANGED <<chain, next, victims, cacheVars>>

\* The compiler's reply, and put() up to its first await.
Compiled(w) ==
    /\ at[w] = "compiling" /\ Now(w) \in Compiles
    /\ dir' = [dir EXCEPT ![w] = @ \cup {Now(w)}]
    /\ IF Now(w) \in Cached
       THEN Proceeds(w)
       ELSE at' = [at EXCEPT ![w] = "writing"] /\ UNCHANGED missing
    /\ UNCHANGED <<chain, next, victims, cacheVars>>

Ends(w) ==
    /\ at' = [at EXCEPT ![w] = "idle"]
    /\ UNCHANGED <<chain, next, missing, dir, victims, cacheVars>>

\* Diagnostics for the last cell, 409 sessionBroken for an earlier one.
DoesNotCompile(w) == at[w] = "compiling" /\ Now(w) \notin Compiles /\ Ends(w)

\* The compiler is killed at its timeout, or dies.
CompilerStops(w) == at[w] = "compiling" /\ Ends(w)

-----------------------------------------------------------------------------
(* CellCache.put().                                                        *)

\* Broken: written in place, not to a temporary file that is then renamed.
WriteLandsInPlace(w) ==
    /\ at[w] = "writing"
    /\ at' = [at EXCEPT ![w] = "written"]
    /\ files' = [files EXCEPT ![Now(w)] = "partial"]
    /\ UNCHANGED <<chain, next, missing, dir, victims, lru, bytes, tempVars>>

\* The assembly cannot be read, or the volume is full, or the rename fails: the
\* request answers 500.  A temporary file that is there by then stays there.
PutFails(w) ==
    /\ \/ at[w] = "writing" /\ litter' \in {litter, TRUE}
       \/ at[w] = "written" /\ litter' = TRUE
    /\ failed' = TRUE
    /\ at' = [at EXCEPT ![w] = "idle"]
    /\ UNCHANGED <<chain, next, missing, dir, victims, lru, bytes, files>>

\* A temporary file of its own, which nobody else looks for.
WriteLands(w) ==
    /\ at[w] = "writing"
    /\ at' = [at EXCEPT ![w] = "written"]
    /\ UNCHANGED <<chain, next, missing, dir, victims, cacheVars>>

RenameLands(w) ==
    /\ at[w] = "written"
    /\ at' = [at EXCEPT ![w] = "renamed"]
    /\ files' = [files EXCEPT ![Now(w)] = "whole"]
    /\ UNCHANGED <<chain, next, missing, dir, victims, lru, bytes, tempVars>>

\* Broken: the entry is dropped and its file left where it is.
EvictsEntryOnly(w, l, b, s) ==
    IF b <= MaxBytes \/ s = <<>>
    THEN /\ lru' = l /\ bytes' = b
         /\ victims' = [victims EXCEPT ![w] = <<>>]
         /\ Proceeds(w)
    ELSE /\ lru' = Without(l, Head(s)) /\ bytes' = b - SizeOf[Head(s)]
         /\ victims' = [victims EXCEPT ![w] = s]
         /\ at' = [at EXCEPT ![w] = "removed"]
         /\ UNCHANGED missing

\* _evict() up to its next await: entries l of b bytes, snapshot s to go.
Evicts(w, l, b, s) ==
    IF b <= MaxBytes \/ s = <<>>
    THEN /\ lru' = l /\ bytes' = b
         /\ victims' = [victims EXCEPT ![w] = <<>>]
         /\ Proceeds(w)
    ELSE /\ lru' = Without(l, Head(s)) /\ bytes' = b - SizeOf[Head(s)]
         /\ victims' = [victims EXCEPT ![w] = s]
         /\ at' = [at EXCEPT ![w] = "removing"]
         /\ UNCHANGED missing

\* The entry is made, whether or not another request has made it meanwhile.
Records(w) ==
    /\ at[w] = "renamed"
    /\ LET l == MostRecent(lru, Now(w))
       IN  Evicts(w, l, bytes + SizeOf[Now(w)], l)
    /\ UNCHANGED <<chain, next, dir, files, tempVars>>

RemoveLands(w) ==
    /\ at[w] = "removing"
    /\ at' = [at EXCEPT ![w] = "removed"]
    /\ files' = [files EXCEPT ![Head(victims[w])] = "absent"]
    /\ UNCHANGED <<chain, next, missing, dir, victims, lru, bytes, tempVars>>

EvictsOn(w) ==
    /\ at[w] = "removed"
    /\ Evicts(w, lru, bytes, Tail(victims[w]))
    /\ UNCHANGED <<chain, next, dir, files, tempVars>>

-----------------------------------------------------------------------------
BytesOf(S) == MapThenSumSet(LAMBDA k : SizeOf[k], S)

Init ==
    /\ at = [w \in Workers |-> "idle"]
    /\ chain \in [Workers -> Chains] /\ \A v, w \in Workers : chain[v] = chain[w]
    /\ next = [w \in Workers |-> 1]
    /\ missing = [w \in Workers |-> {}] /\ dir = [w \in Workers |-> {}]
    /\ victims = [w \in Workers |-> <<>>]
    /\ lru = <<>> /\ bytes = 0
    /\ files = [k \in Keys |-> "absent"]
    /\ litter = FALSE /\ failed = FALSE

\* The service stops and starts again.  The directory is a volume of its own:
\* it may have survived, and init() then counts the assemblies in it and
\* removes every other file.
Restart ==
    /\ at' = [w \in Workers |-> "idle"]
    /\ victims' = [w \in Workers |-> <<>>]
    /\ UNCHANGED <<chain, next, missing, dir>>
    /\ \/ files' = [k \in Keys |-> "absent"]
       \/ files' = files
    /\ LET found == {k \in Keys : files'[k] # "absent"}
       IN  /\ lru' \in SetToSeqs(found)
           /\ bytes' = BytesOf(found)
    /\ litter' = FALSE /\ failed' = FALSE

WorkerNext(w) ==
    \/ Begins(w) \/ LooksUp(w) \/ CopyLands(w)
    \/ Compiled(w) \/ DoesNotCompile(w) \/ CompilerStops(w)
    \/ PutFails(w) \/ WriteLands(w) \/ RenameLands(w) \/ Records(w)
    \/ RemoveLands(w) \/ EvictsOn(w)

Next == Restart \/ \E w \in Workers : WorkerNext(w)

Spec == Init /\ [][Next]_vars

-----------------------------------------------------------------------------
(* Properties.                                                             *)

\* The type of every variable, and what each place has to go on with.
TypeOK ==
    /\ at \in [Workers -> Places]
    /\ chain \in [Workers -> Chains]
    /\ \A w \in Workers : /\ next[w] \in 1..Len(chain[w])
                          /\ missing[w] \subseteq 1..Len(chain[w])
                          /\ dir[w] \subseteq Keys
                          /\ victims[w] \in Seq(Keys)
    /\ \A w \in Workers : at[w] = "copying" => next[w] < Len(chain[w])
    /\ \A w \in Workers : at[w] \in {"removing", "removed"} <=> victims[w] # <<>>
    /\ \A w \in Workers : at[w] \notin {"idle", "looking", "copying"} => missing[w] # {}
    /\ lru \in Seq(Keys) /\ IsInjective(lru)
    /\ bytes \in Int
    /\ files \in [Keys -> {"absent", "partial", "whole"}]
    /\ litter \in BOOLEAN /\ failed \in BOOLEAN

\* "Only a cell that compiled is cached" (cells.js:16), on disk as in memory,
\* whatever is killed, evicted and restarted around it.
OnlyCompiledIsCached ==
    /\ Cached \subseteq Compiles
    /\ \A k \in Keys : files[k] # "absent" => k \in Compiles

\* A cell is compiled with the assembly of every cell before it in the
\* request's directory, although the cache may lose any of them between the
\* lookup, the copy and the compile.
ReferencesReady ==
    \A w \in Workers : at[w] = "compiling" =>
        \A i \in 1..Min(missing[w]) - 1 : chain[w][i] \in dir[w]

\* What a request copies out of the cache is a whole assembly, even while
\* another request is writing or evicting it.
NoTornCopy ==
    [][\A w \in Workers : at[w] = "copying" /\ dir'[w] # dir[w]
          => files[chain[w][next[w]]] = "whole"]_vars

\* No assembly is left on the disk that no entry stands for, where nothing would
\* ever evict it: it is an entry's, or one about to become an entry, or one
\* that an eviction is removing.  A temporary file that will never be renamed
\* is there only because a put has failed since the service started: nothing
\* removes it (cells.js:201-205) before the next init() does.
NoFileIsForgotten ==
    /\ \A k \in Keys : files[k] # "absent" =>
           \/ k \in Cached
           \/ \E w \in Workers : at[w] = "renamed" /\ Now(w) = k
           \/ \E w \in Workers : at[w] = "removing" /\ Head(victims[w]) = k
    /\ litter => failed
=============================================================================
