-------------------------- MODULE EditorPageProofs --------------------------
(* What the page of the editor keeps together, for any programs and files, a *)
(* history of any length, and any number of swaps on their way at a time.    *)
EXTENDS EditorPage, SequenceTheorems, TLAPS

\* Until its program has answered, a page shows what was stored or nothing; and
\* until it listens, nothing else has been begun.
Loading ==
    /\ page = "loading" =>
           provenance = requested /\ program = None /\ text = loadedSource
    /\ page # "ready" => loads = <<>> /\ job = NoJob

\* What the text is compared with is the program opened last, as it arrived.
Opened == program # None => loadedSource = As(program)

\* A swap that was begun without changes, and without any since, finds none.
CleanIsUnchanged == \A i \in DOMAIN loads : loads[i].clean => text = loadedSource

EditorInv == Loading /\ Opened /\ CleanIsUnchanged /\ PartsAgree /\ TypedIsStored

-----------------------------------------------------------------------------
(* The swaps on their way.                                                   *)

\* The swaps `s', after a change of the text.
Changed(s) == [i \in DOMAIN s |-> [s[i] EXCEPT !.clean = FALSE]]

\* As many as before, none of them clean.
LEMMA ChangedFacts ==
    ASSUME NEW s \in Seq(Load)
    PROVE  /\ Changed(s) \in Seq(Load) /\ Len(Changed(s)) = Len(s)
           /\ \A i \in DOMAIN Changed(s) : ~Changed(s)[i].clean
  <1>1. DOMAIN s = 1..Len(s) /\ Len(s) \in Nat /\ \A i \in 1..Len(s) : s[i] \in Load
    OBVIOUS
  <1>2. DOMAIN Changed(s) = 1..Len(s)
    BY <1>1 DEF Changed
  <1>3. ASSUME NEW i \in 1..Len(s) PROVE Changed(s)[i] \in Load /\ ~Changed(s)[i].clean
    BY <1>1 DEF Changed, Load
  <1>4. Changed(s) \in [1..Len(s) -> Load]
    BY <1>1, <1>3 DEF Changed
  <1>5. Changed(s) \in Seq(Load)
    BY <1>1, <1>4 DEF Seq
  <1> QED BY <1>1, <1>2, <1>3, <1>5

\* One of them ends, the others are what they were.
LEMMA EndedFacts ==
    ASSUME NEW s \in Seq(Load), NEW i \in DOMAIN s
    PROVE  /\ RemoveAt(s, i) \in Seq(Load)
           /\ \A j \in DOMAIN RemoveAt(s, i) : \E k \in DOMAIN s : RemoveAt(s, i)[j] = s[k]
  <1> DEFINE n == Len(s)
             u == SubSeq(s, 1, i - 1)
             v == SubSeq(s, i + 1, n)
  <1>1. n \in Nat /\ i \in 1..n /\ DOMAIN s = 1..n /\ \A j \in 1..n : s[j] \in Load
    OBVIOUS
  <1>2. u \in Seq(Load) /\ Len(u) = i - 1 /\ \A j \in 1..i - 1 : u[j] = s[1 + j - 1]
    BY <1>1, SubSeqProperties
  <1>3. v \in Seq(Load) /\ Len(v) = n - i /\ \A j \in 1..n - i : v[j] = s[(i + 1) + j - 1]
    BY <1>1, SubSeqProperties
  <1>4. RemoveAt(s, i) = u \o v
    BY DEF RemoveAt
  <1> HIDE DEF n, u, v
  <1>5. /\ u \o v \in Seq(Load) /\ DOMAIN (u \o v) = 1..Len(u) + Len(v)
        /\ \A j \in 1..Len(u) + Len(v) : (u \o v)[j] = IF j <= Len(u) THEN u[j] ELSE v[j - Len(u)]
    BY <1>2, <1>3, ConcatProperties
  <1>6. ASSUME NEW j \in 1..Len(u) + Len(v) PROVE \E k \in 1..n : (u \o v)[j] = s[k]
    <2>1. CASE j <= Len(u)
      <3>1. j \in 1..i - 1 /\ 1 + j - 1 \in 1..n
        BY <1>1, <1>2, <1>3, <2>1
      <3> QED BY <1>2, <1>5, <2>1, <3>1
    <2>2. CASE ~(j <= Len(u))
      <3>1. j - Len(u) \in 1..n - i /\ (i + 1) + (j - Len(u)) - 1 \in 1..n
        BY <1>1, <1>2, <1>3, <2>2
      <3> QED BY <1>3, <1>5, <2>2, <3>1
    <2> QED BY <2>1, <2>2
  <1> QED BY <1>1, <1>4, <1>5, <1>6

-----------------------------------------------------------------------------
(* Types.                                                                    *)

\* As it comes, a program, a file or an empty text has no edits.
LEMMA AsIsText == \A x \in Programs \cup Files \cup {Own} : As(x) \in Texts
  BY BoundsAssumption DEF As, Texts

\* What the address is replaced by is an address.
LEMMA EntriesFacts ==
    ASSUME TypeOK, NEW x \in Programs \cup {None}
    PROVE  /\ [entries EXCEPT ![at] = x] \in Seq(Programs \cup {None})
           /\ DOMAIN [entries EXCEPT ![at] = x] = DOMAIN entries
           /\ Address \in Programs \cup {None}
  BY DEF TypeOK, Address

\* pushState drops what lay forward, and goes on from there.
LEMMA PushTypes ==
    ASSUME TypeOK, NEW p \in Programs, NEW push \in BOOLEAN, PushesAddress(p, push)
    PROVE  entries' \in Seq(Programs \cup {None}) /\ at' \in DOMAIN entries'
  <1> DEFINE u == SubSeq(entries, 1, at)
  <1>1. CASE push
    <2>1. /\ entries \in Seq(Programs \cup {None}) /\ at \in 1..Len(entries)
          /\ Len(entries) \in Nat
      BY DEF TypeOK
    <2>2. u \in Seq(Programs \cup {None}) /\ Len(u) = at
      BY <2>1, SubSeqProperties
    <2> HIDE DEF u
    <2>3. /\ Append(u, p) \in Seq(Programs \cup {None})
          /\ DOMAIN Append(u, p) = 1..at + 1
      BY <2>1, <2>2
    <2>4. entries' = Append(u, p) /\ at' = at + 1
      BY <1>1 DEF PushesAddress, u
    <2> QED BY <2>1, <2>3, <2>4
  <1>2. CASE ~push
    BY <1>2 DEF PushesAddress, TypeOK, historyVars
  <1> QED BY <1>1, <1>2

\* The change handler writes what it is given.
LEMMA ChangesTypes ==
    ASSUME TypeOK, NEW t \in Texts, NEW replaced \in BOOLEAN, Changes(t, replaced),
           UNCHANGED <<at, currentName>>
    PROVE  /\ entries' \in Seq(Programs \cup {None}) /\ at' \in DOMAIN entries'
           /\ provenance' \in {provenance, None} /\ title' \in {title, currentName}
           /\ text' = t /\ pending' = TRUE /\ loads' = Changed(loads)
           /\ loads' \in Seq(Load)
           /\ early' = IF replaced THEN {} ELSE early \ {"unstored"}
           /\ early' \subseteq Early
  <1>1. None \in Programs \cup {None}
    OBVIOUS
  <1>2. /\ entries' \in Seq(Programs \cup {None}) /\ at' \in DOMAIN entries'
        /\ provenance' \in {provenance, None} /\ title' \in {title, currentName}
    BY <1>1, EntriesFacts DEF Changes, ForgetProvenance, TypeOK
  <1>3. text' = t /\ pending' = TRUE /\ loads' = Changed(loads)
    BY DEF Changes, Changed
  <1>4. loads' \in Seq(Load)
    BY <1>3, ChangedFacts DEF TypeOK
  <1>5. early' = IF replaced THEN {} ELSE early \ {"unstored"}
    BY DEF Changes
  <1>6. early' \subseteq Early
    BY <1>5 DEF TypeOK
  <1> QED BY <1>2, <1>3, <1>4, <1>5, <1>6

\* A swap is begun, or it is not.
LEMMA SwapToTypes ==
    ASSUME TypeOK, NEW p \in Programs, NEW push \in BOOLEAN, SwapTo(p, push)
    PROVE  loads' \in Seq(Load)
  <1>1. /\ [name |-> p, push |-> push, clean |-> TRUE] \in Load
        /\ [name |-> p, push |-> push, clean |-> FALSE] \in Load
    BY DEF Load
  <1>2. loads \in Seq(Load)
    BY DEF TypeOK
  <1> QED BY <1>1, <1>2 DEF SwapTo

\* A swap arrives, or fails.
LEMMA SwapEndsTypes ==
    ASSUME TypeOK, SwapEnds PROVE TypeOK'
  <1>1. PICK i \in DOMAIN loads :
          \/ Arrives(i)
          \/ /\ loads' = RemoveAt(loads, i)
             /\ UNCHANGED <<historyVars, programVars, editorVars, run>>
    BY DEF SwapEnds
  <1>2. UNCHANGED <<page, fileVars, field, stored, note>>
    BY DEF SwapEnds
  <1>3. RemoveAt(loads, i) \in Seq(Load) /\ loads[i] \in Load
    BY EndedFacts DEF TypeOK
  <1>4. CASE Arrives(i)
    <2> DEFINE p == loads[i].name
    <2>1. p \in Programs /\ loads[i].push \in BOOLEAN
      BY <1>3 DEF Load
    <2>2. entries' \in Seq(Programs \cup {None}) /\ at' \in DOMAIN entries'
      BY <1>4, <2>1, PushTypes DEF Arrives
    <2>3. loads' = Changed(RemoveAt(loads, i))
      BY <1>4 DEF Arrives, Changed
    <2>4. loads' \in Seq(Load)
      BY <1>3, <2>3, ChangedFacts
    <2>5. /\ requested' = p /\ program' = p /\ provenance' = p /\ title' = p
          /\ files' \in {p, None} /\ loadedSource' = As(p) /\ text' = As(p) /\ pending' = TRUE
          /\ early' = {} /\ run' \in {run, p}
      BY <1>4 DEF Arrives, RunsItself
    <2>6. As(p) \in Texts
      BY <2>1, AsIsText
    <2> HIDE DEF p
    <2> QED BY <1>2, <2>1, <2>2, <2>4, <2>5, <2>6 DEF TypeOK, fileVars
  <1>5. CASE /\ loads' = RemoveAt(loads, i)
             /\ UNCHANGED <<historyVars, programVars, editorVars, run>>
    BY <1>2, <1>3, <1>5 DEF TypeOK, historyVars, programVars, editorVars, fileVars
  <1> QED BY <1>1, <1>4, <1>5

\* The file menu: what is read, written or saved is the reader's.
LEMMA FilesTypes ==
    ASSUME TypeOK, OpensFile \/ FileRead \/ SavesFile \/ FileWritten \/ SaveAsEnds
    PROVE  TypeOK'
  <1> USE DEF TypeOK, historyVars, programVars, editorVars, fileVars, runVars
  <1>1. [entries EXCEPT ![at] = None] \in Seq(Programs \cup {None})
        /\ DOMAIN [entries EXCEPT ![at] = None] = DOMAIN entries
    BY EntriesFacts
  <1>2. NoJob \in Job
    BY DEF Job
  <1>3. CASE OpensFile
    BY <1>3 DEF OpensFile, Job
  <1>4. CASE FileRead
    <2>1. job.file \in Files
      BY <1>4 DEF FileRead, Job, NoJob
    <2>2. UNCHANGED <<at, page, requested, program, loadedSource, files, handle, runVars,
                      stored, note>> /\ job' = NoJob
      BY <1>4 DEF FileRead
    <2>3. CASE UNCHANGED <<editorVars, loads, provenance, entries, currentName, title>>
      BY <1>2, <2>2, <2>3
    <2>4. CASE /\ text' \in {As(job.file), loadedSource} /\ pending' = TRUE /\ early' = {}
               /\ loads' = Changed(loads)
               /\ \/ provenance' = None /\ entries' = [entries EXCEPT ![at] = None]
                  \/ UNCHANGED <<provenance, entries>>
               /\ currentName' = job.file /\ title' = job.file
      <3>1. text' \in Texts
        BY <2>1, <2>4, AsIsText
      <3>2. loads' \in Seq(Load)
        BY <2>4, ChangedFacts
      <3>3. /\ entries' \in Seq(Programs \cup {None}) /\ at' \in DOMAIN entries'
            /\ provenance' \in Programs \cup {None}
        BY <1>1, <2>2, <2>4
      <3> QED BY <1>2, <2>1, <2>2, <2>4, <3>1, <3>2, <3>3
    <2> QED BY <1>4, <2>3, <2>4 DEF FileRead, Acknowledge, Changed
  <1>5. CASE SavesFile
    <2>1. DefaultName \in Files \cup {None}
      BY NamesAssumption DEF DefaultName
    <2>2. job' \in Job
      BY <1>5, <2>1 DEF SavesFile, SavesAs, Job
    <2> QED BY <1>5, <2>2 DEF SavesFile
  <1>6. CASE FileWritten
    <2>1. job.file \in Files
      BY <1>6 DEF FileWritten, Job, NoJob
    <2> QED BY <1>2, <1>6, <2>1 DEF FileWritten, Acknowledge
  <1>7. CASE SaveAsEnds
    <2>1. UNCHANGED <<at, page, requested, program, loadedSource, files, editorVars, runVars,
                      loads, stored, note>> /\ job' = NoJob
      BY <1>7 DEF SaveAsEnds
    <2>2. CASE UNCHANGED <<handle, provenance, entries, currentName, title>>
      BY <1>2, <2>1, <2>2
    <2>3. ASSUME NEW f \in Files, SavedUnder(f) PROVE TypeOK'
      <3>1. /\ handle' = f /\ currentName' = f /\ title' = f
            /\ \/ provenance' = None /\ entries' = [entries EXCEPT ![at] = None]
               \/ UNCHANGED <<provenance, entries>>
        BY <2>3 DEF SavedUnder, Acknowledge
      <3> QED BY <1>1, <1>2, <2>1, <2>3, <3>1
    <2> QED BY <1>7, <2>2, <2>3 DEF SaveAsEnds
  <1> QED BY <1>3, <1>4, <1>5, <1>6, <1>7

\* The page loads, and loads again.
LEMMA LoadingTypes ==
    ASSUME TypeOK, ReloadsPage \/ ProgramLoads \/ PageStarts PROVE TypeOK'
  <1> USE DEF TypeOK, historyVars, programVars, editorVars, fileVars, runVars
  <1>1. CASE ReloadsPage
    <2>1. Anew /\ note' \in BOOLEAN
      BY <1>1 DEF ReloadsPage, Reloads
    <2>2. Source \in Texts
      BY AsIsText DEF Source
    <2>3. Address \in Programs \cup {None} /\ NoJob \in Job
      BY EntriesFacts DEF Job
    <2>4. <<>> \in Seq(Load)
      OBVIOUS
    <2>5. loads' \in Seq(Load)
      BY <2>1, <2>4 DEF Anew
    <2> QED BY <2>1, <2>2, <2>3, <2>5 DEF Anew
  <1>2. CASE ProgramLoads
    <2>1. requested # None => As(requested) \in Texts
      BY AsIsText
    <2> QED BY <1>2, <2>1 DEF ProgramLoads
  <1>3. CASE PageStarts
    <2>1. run' \in {None, program}
      BY <1>3 DEF PageStarts
    <2> QED BY <1>3, <2>1 DEF PageStarts
  <1> QED BY <1>1, <1>2, <1>3

\* Every step leaves each variable its type.
LEMMA TypeStep == TypeOK /\ [Next]_vars => TypeOK'
  <1> SUFFICES ASSUME TypeOK, [Next]_vars PROVE TypeOK'
    OBVIOUS
  <1> USE DEF historyVars, programVars, editorVars, fileVars, runVars
  <1>1. CASE Types
    <2>1. PICK t \in Texts, replaced \in BOOLEAN : Changes(t, replaced)
      <3>1. \A n \in 0..MaxEdits : [text EXCEPT !.n = n] \in Texts
        BY DEF TypeOK, Texts
      <3>2. As(Own) \in Texts
        BY AsIsText
      <3> QED BY <1>1, <3>1, <3>2 DEF Types
    <2>2. UNCHANGED <<at, page, requested, program, loadedSource, files, fileVars, runVars,
                      stored, note>>
      BY <1>1 DEF Types
    <2>3. /\ entries' \in Seq(Programs \cup {None}) /\ at' \in DOMAIN entries'
          /\ provenance' \in {provenance, None} /\ title' \in {title, currentName}
          /\ text' = t /\ pending' = TRUE /\ loads' \in Seq(Load) /\ early' \subseteq Early
      BY <2>1, <2>2, ChangesTypes
    <2> QED BY <2>2, <2>3 DEF TypeOK
  <1>2. CASE Debounced \/ TypesArguments \/ RunStarts \/ RunEnds
    BY <1>2 DEF Debounced, TypesArguments, RunStarts, RunEnds, TypeOK
  <1>3. CASE TakesLink
    <2>1. loads' \in Seq(Load)
      BY <1>3, SwapToTypes DEF TakesLink
    <2> QED BY <1>3, <2>1 DEF TakesLink, TypeOK
  <1>4. CASE Travels
    <2>1. at' \in DOMAIN entries /\ entries[at'] \in Programs \cup {None}
      BY <1>4 DEF Travels, TypeOK
    <2>2. loads' \in Seq(Load)
      <3>1. CASE entries[at'] \notin {None, requested}
        BY <1>4, <2>1, <3>1, SwapToTypes DEF Travels
      <3>2. CASE entries[at'] \in {None, requested}
        BY <1>4, <3>2 DEF Travels, TypeOK
      <3> QED BY <3>1, <3>2
    <2> QED BY <1>4, <2>1, <2>2 DEF Travels, TypeOK
  <1>5. CASE TravelsUnheard
    BY <1>5 DEF TravelsUnheard, TypeOK
  <1>6. CASE TypesUnheard
    <2>1. \A n \in 0..MaxEdits : [text EXCEPT !.n = n] \in Texts
      BY DEF TypeOK, Texts
    <2>2. As(Own) \in Texts
      BY AsIsText
    <2>3. text' \in Texts /\ early' \subseteq Early
      BY <1>6, <2>1, <2>2 DEF TypesUnheard, TypeOK, Early
    <2> QED BY <1>6, <2>3 DEF TypesUnheard, TypeOK
  <1>7. CASE SwapEnds
    BY <1>7, SwapEndsTypes
  <1>8. CASE OpensFile \/ FileRead \/ SavesFile \/ FileWritten \/ SaveAsEnds
    BY <1>8, FilesTypes
  <1>9. CASE ReloadsPage \/ ProgramLoads \/ PageStarts
    BY <1>9, LoadingTypes
  <1>10. CASE UNCHANGED vars
    BY <1>10 DEF vars, TypeOK
  <1> QED BY <1>1, <1>2, <1>3, <1>4, <1>5, <1>6, <1>7, <1>8, <1>9, <1>10 DEF Next

\* A page not yet loaded has its types, whatever was stored.
LEMMA TypeInit == Init => TypeOK
  <1> SUFFICES ASSUME Init PROVE TypeOK
    OBVIOUS
  <1>1. PICK x \in Programs \cup {None} : entries = <<x>>
    BY DEF Init
  <1>2. entries \in Seq(Programs \cup {None}) /\ at \in DOMAIN entries
    BY <1>1 DEF Init
  <1>3. As(Own) \in Texts /\ Address \in Programs \cup {None} /\ NoJob \in Job
    BY <1>1, <1>2, AsIsText DEF Address, Job
  <1>4. <<>> \in Seq(Load)
    OBVIOUS
  <1>5. loads \in Seq(Load)
    BY <1>4 DEF Init
  <1> QED BY <1>2, <1>3, <1>5 DEF Init, TypeOK

-----------------------------------------------------------------------------
(* The invariant, action by action.                                          *)

\* A step that changes neither the text, nor what the page says it is.
LEMMA OutsideKeeps ==
    ASSUME EditorInv, UNCHANGED <<page, requested, program, provenance, title, text, early,
                                  loadedSource, files>>,
           (pending' = pending /\ stored' = stored) \/ stored' = text,
           page # "ready" => loads' = loads /\ job' = job,
           CleanIsUnchanged'
    PROVE  EditorInv'
  <1> USE DEF EditorInv
  <1>1. Loading' /\ Opened'
    BY DEF Loading, Opened
  <1>2. PartsAgree'
    BY DEF PartsAgree
  <1>3. TypedIsStored'
    BY DEF TypedIsStored
  <1> QED BY <1>1, <1>2, <1>3

\* No swap is begun or ends, and none of them is clean that was not.
LEMMA SwapsUntouched ==
    ASSUME CleanIsUnchanged, UNCHANGED <<text, loadedSource, loads>> PROVE CleanIsUnchanged'
  BY DEF CleanIsUnchanged

\* A swap begun without changes is clean, and one begun with changes is not.
LEMMA SwapToKeepsClean ==
    ASSUME TypeOK, CleanIsUnchanged, NEW p \in Programs, NEW push \in BOOLEAN, SwapTo(p, push),
           UNCHANGED <<text, loadedSource>>
    PROVE  CleanIsUnchanged'
  <1>1. CASE UNCHANGED loads
    BY <1>1, SwapsUntouched
  <1>2. ASSUME NEW c \in BOOLEAN, c => text = loadedSource,
               loads' = Append(loads, [name |-> p, push |-> push, clean |-> c])
        PROVE  CleanIsUnchanged'
    <2> DEFINE one == [name |-> p, push |-> push, clean |-> c]
    <2>1. loads \in Seq(Load) /\ one \in Load /\ one.clean = c
      BY DEF TypeOK, Load
    <2> HIDE DEF one
    <2>2. /\ DOMAIN Append(loads, one) = 1..Len(loads) + 1 /\ DOMAIN loads = 1..Len(loads)
          /\ \A i \in 1..Len(loads) : Append(loads, one)[i] = loads[i]
          /\ Append(loads, one)[Len(loads) + 1] = one /\ Len(loads) \in Nat
      BY <2>1
    <2>3. loads' = Append(loads, one)
      BY <1>2 DEF one
    <2>4. ASSUME NEW i \in DOMAIN loads', loads'[i].clean PROVE text' = loadedSource'
      <3>1. CASE i \in 1..Len(loads)
        BY <2>2, <2>3, <2>4, <3>1 DEF CleanIsUnchanged
      <3>2. CASE i = Len(loads) + 1
        BY <1>2, <2>1, <2>2, <2>3, <2>4, <3>2
      <3> QED BY <2>2, <2>3, <3>1, <3>2
    <2> QED BY <2>4 DEF CleanIsUnchanged
  <1> QED BY <1>1, <1>2 DEF SwapTo

\* Once the text has changed no swap is clean.
LEMMA ChangedIsNotClean ==
    ASSUME NEW s \in Seq(Load), loads' = Changed(s) PROVE CleanIsUnchanged'
  BY ChangedFacts DEF CleanIsUnchanged

\* An edit stays one of what the text was made from; a text of the reader's own
\* is no program's.
LEMMA TypesKeeps ==
    ASSUME TypeOK, EditorInv, Types PROVE EditorInv'
  <1> USE DEF EditorInv
  <1>1. PICK t \in Texts, replaced \in BOOLEAN :
          /\ Changes(t, replaced)
          /\ ~replaced => t.of = text.of
          /\ replaced => t = As(Own)
    <2>1. \A n \in 0..MaxEdits : [text EXCEPT !.n = n] \in Texts
                                 /\ [text EXCEPT !.n = n].of = text.of
      BY DEF TypeOK, Texts
    <2>2. As(Own) \in Texts
      BY AsIsText
    <2>3. \/ \E n \in 0..MaxEdits : Changes([text EXCEPT !.n = n], FALSE)
          \/ Changes(As(Own), TRUE)
      BY DEF Types
    <2>4. ASSUME NEW n \in 0..MaxEdits, Changes([text EXCEPT !.n = n], FALSE)
          PROVE  \E t \in Texts : Changes(t, FALSE) /\ t.of = text.of
      BY <2>1, <2>4
    <2>5. CASE \E n \in 0..MaxEdits : Changes([text EXCEPT !.n = n], FALSE)
      <3>1. PICK t \in Texts : Changes(t, FALSE) /\ t.of = text.of
        BY <2>4, <2>5
      <3> WITNESS t \in Texts, FALSE \in BOOLEAN
      <3> QED BY <3>1
    <2>6. CASE Changes(As(Own), TRUE)
      <3> USE <2>2
      <3> WITNESS As(Own) \in Texts, TRUE \in BOOLEAN
      <3> QED BY <2>6
    <2> QED BY <2>3, <2>5, <2>6
  <1>2. /\ UNCHANGED <<page, requested, program, loadedSource, files, currentName>>
        /\ page = "ready"
    BY DEF Types, fileVars
  <1>3. /\ text' = t /\ pending' = TRUE /\ loads' = Changed(loads)
        /\ early' = IF replaced THEN {} ELSE early \ {"unstored"}
    BY <1>1 DEF Changes, Changed
  <1>4. Loading' /\ Opened' /\ TypedIsStored'
    BY <1>2, <1>3 DEF Loading, Opened, TypedIsStored
  <1>5. CleanIsUnchanged'
    BY <1>3, ChangedIsNotClean DEF TypeOK
  <1>6. PartsAgree'
    <2>1. currentName \notin Programs
      BY ProgramsAssumption DEF TypeOK
    <2>2. CASE ~(replaced /\ t # loadedSource)
      <3>1. UNCHANGED <<provenance, title>>
        BY <1>1, <2>2 DEF Changes
      <3>2. program # None => t.of = text.of /\ ~replaced
        <4>1. CASE t = As(Own) /\ t = loadedSource /\ program # None
          <5>1. loadedSource = As(program) /\ program \in Programs
            BY <4>1 DEF Opened, TypeOK
          <5> QED BY <4>1, <5>1, ProgramsAssumption DEF As
        <4> QED BY <1>1, <2>2, <4>1
      <3>3. program # None => ("replaced" \in early => "replaced" \in early')
        BY <1>3, <3>2
      <3> QED BY <1>2, <1>3, <3>1, <3>2, <3>3 DEF PartsAgree
    <2>3. CASE replaced /\ t # loadedSource
      <3>1. provenance' = None /\ title' = IF provenance = None THEN title ELSE currentName
        BY <1>1, <2>3 DEF Changes, ForgetProvenance
      <3> QED BY <2>1, <3>1 DEF PartsAgree
    <2> QED BY <2>2, <2>3
  <1> QED BY <1>4, <1>5, <1>6

\* What is typed before the page listens is known to be so.
LEMMA TypesUnheardKeeps ==
    ASSUME TypeOK, EditorInv, TypesUnheard PROVE EditorInv'
  <1> USE DEF EditorInv, programVars, fileVars
  <1>1. /\ page = "starting" /\ UNCHANGED <<page, programVars, job, loads>> /\ loads = <<>>
        /\ "unstored" \in early'
    BY DEF TypesUnheard, Loading, Early
  <1>2. \/ "replaced" \in early'
        \/ text'.of = text.of /\ "replaced" \notin early
    BY DEF TypesUnheard, TypeOK, Texts, Early
  <1>3. Loading' /\ Opened' /\ TypedIsStored' /\ CleanIsUnchanged'
    BY <1>1 DEF Loading, Opened, TypedIsStored, CleanIsUnchanged
  <1>4. PartsAgree'
    BY <1>1, <1>2 DEF PartsAgree
  <1> QED BY <1>3, <1>4

\* The program, its text and its files arrive together.
LEMMA SwapEndsKeeps ==
    ASSUME TypeOK, EditorInv, SwapEnds PROVE EditorInv'
  <1> USE DEF EditorInv
  <1>1. PICK i \in DOMAIN loads :
          \/ Arrives(i)
          \/ /\ loads' = RemoveAt(loads, i)
             /\ UNCHANGED <<historyVars, programVars, editorVars, run>>
    BY DEF SwapEnds
  <1>2. UNCHANGED <<page, stored>>
    BY DEF SwapEnds
  <1>3. RemoveAt(loads, i) \in Seq(Load) /\ loads[i] \in Load
    BY EndedFacts DEF TypeOK
  <1>4. page = "ready"
    BY DEF Loading
  <1>5. CASE Arrives(i)
    <2>1. PICK p \in Programs :
            /\ requested' = p /\ program' = p /\ provenance' = p /\ title' = p
            /\ files' \in {p, None} /\ loadedSource' = As(p) /\ text' = As(p)
      BY <1>3, <1>5 DEF Arrives, Load
    <2>2. loads' = Changed(RemoveAt(loads, i))
      BY <1>5 DEF Arrives, Changed
    <2>3. CleanIsUnchanged'
      BY <1>3, <2>2, ChangedIsNotClean
    <2>4. Loading' /\ Opened' /\ TypedIsStored'
      BY <1>2, <1>4, <2>1 DEF Loading, Opened, TypedIsStored
    <2>5. PartsAgree'
      BY <2>1 DEF PartsAgree, As
    <2> QED BY <2>3, <2>4, <2>5
  <1>6. CASE /\ loads' = RemoveAt(loads, i)
             /\ UNCHANGED <<historyVars, programVars, editorVars, run>>
    <2>1. UNCHANGED <<requested, program, provenance, title, text, early, loadedSource, files,
                      pending>>
      BY <1>6 DEF programVars, editorVars
    <2>2. CleanIsUnchanged'
      <3>1. \A j \in DOMAIN loads' : \E k \in DOMAIN loads : loads'[j] = loads[k]
        BY <1>6, EndedFacts DEF TypeOK
      <3> QED BY <2>1, <3>1 DEF CleanIsUnchanged
    <2> QED BY <1>2, <1>4, <2>1, <2>2, OutsideKeeps
  <1> QED BY <1>1, <1>5, <1>6

\* A file that is opened takes the program's place, unless its text is the
\* program's; a file that is saved, only under another name.
LEMMA FilesKeep ==
    ASSUME TypeOK, EditorInv, OpensFile \/ FileRead \/ SavesFile \/ FileWritten \/ SaveAsEnds
    PROVE  EditorInv'
  <1> USE DEF EditorInv, programVars, editorVars
  <1>1. page = "ready"
    BY DEF Loading, OpensFile, FileRead, SavesFile, FileWritten, SaveAsEnds, NoJob
  <1>2. CASE OpensFile \/ SavesFile
    <2>1. CleanIsUnchanged'
      BY <1>2, SwapsUntouched DEF OpensFile, SavesFile
    <2> QED BY <1>1, <1>2, <2>1, OutsideKeeps DEF OpensFile, SavesFile
  <1>3. CASE FileRead
    <2>1. UNCHANGED <<page, requested, program, loadedSource, files, stored>>
      BY <1>3 DEF FileRead
    <2>2. CASE UNCHANGED <<editorVars, loads, provenance, entries, currentName, title>>
      <3>1. CleanIsUnchanged'
        BY <2>1, <2>2, SwapsUntouched
      <3> QED BY <1>1, <2>1, <2>2, <3>1, OutsideKeeps
    <2>3. CASE /\ text' \in {As(job.file), loadedSource} /\ pending' = TRUE
               /\ loads' = Changed(loads)
               /\ IF text' # loadedSource /\ provenance # None
                  THEN provenance' = None ELSE UNCHANGED provenance
               /\ title' = job.file
      <3>1. job.file \in Files /\ job.file \notin Programs
        BY <1>3, ProgramsAssumption DEF FileRead, TypeOK, Job, NoJob
      <3>2. CleanIsUnchanged'
        BY <2>3, ChangedIsNotClean DEF TypeOK
      <3>3. Loading' /\ Opened' /\ TypedIsStored'
        BY <1>1, <2>1, <2>3 DEF Loading, Opened, TypedIsStored
      <3>4. PartsAgree'
        BY <2>1, <2>3, <3>1 DEF PartsAgree, Opened, As
      <3> QED BY <3>2, <3>3, <3>4
    <2> QED BY <1>3, <2>2, <2>3 DEF FileRead, Acknowledge, Changed
  <1>4. CASE FileWritten \/ SaveAsEnds
    <2>1. UNCHANGED <<page, requested, program, loadedSource, files, stored, editorVars, loads>>
      BY <1>4 DEF FileWritten, SaveAsEnds
    <2>2. PICK f \in Files \cup {title} :
            /\ provenance' \in {provenance, None}
            /\ title' = f /\ (f = title => UNCHANGED provenance \/ title \in Files)
      <3>1. CASE FileWritten
        <4>1. job.file \in Files
          BY <3>1 DEF FileWritten, TypeOK, Job, NoJob
        <4> QED BY <3>1, <4>1 DEF FileWritten, Acknowledge
      <3>2. CASE SaveAsEnds
        BY <3>2 DEF SaveAsEnds, SavedUnder, Acknowledge
      <3> QED BY <1>4, <3>1, <3>2
    <2>3. CleanIsUnchanged'
      BY <2>1, SwapsUntouched
    <2>4. Loading' /\ Opened' /\ TypedIsStored'
      BY <1>1, <2>1 DEF Loading, Opened, TypedIsStored
    <2>5. PartsAgree'
      BY <2>1, <2>2, ProgramsAssumption DEF PartsAgree
    <2> QED BY <2>3, <2>4, <2>5
  <1> QED BY <1>2, <1>3, <1>4

\* A page that loads again is begun anew, from what is stored.
LEMMA ReloadsKeeps ==
    ASSUME TypeOK, EditorInv, ReloadsPage PROVE EditorInv'
  <1> USE DEF EditorInv
  <1>1. Anew
    BY DEF ReloadsPage, Reloads
  <1>2. /\ page' = "loading" /\ provenance' = requested' /\ program' = None /\ title' = None
        /\ text' = loadedSource' /\ loads' = <<>> /\ job' = NoJob
    BY <1>1 DEF Anew
  <1>3. Loading' /\ Opened' /\ TypedIsStored' /\ CleanIsUnchanged'
    BY <1>2 DEF Loading, Opened, TypedIsStored, CleanIsUnchanged
  <1>4. PartsAgree'
    BY <1>2, ProgramsAssumption DEF PartsAgree
  <1> QED BY <1>3, <1>4

\* Its program arrives with its text, or does not load, and then only its name
\* is known.
LEMMA ProgramLoadsKeeps ==
    ASSUME TypeOK, EditorInv, ProgramLoads PROVE EditorInv'
  <1> USE DEF EditorInv
  <1>1. /\ page' = "starting" /\ provenance = requested /\ program = None
        /\ text = loadedSource /\ loads = <<>> /\ job = NoJob
        /\ UNCHANGED <<requested, provenance, loads, job>>
    BY DEF ProgramLoads, Loading, fileVars
  <1>2. CASE /\ requested # None /\ program' = requested /\ title' = requested
             /\ text' = As(requested) /\ loadedSource' = As(requested)
             /\ files' \in {requested, None}
    <2>1. Loading' /\ Opened' /\ TypedIsStored' /\ CleanIsUnchanged'
      BY <1>1, <1>2 DEF Loading, Opened, TypedIsStored, CleanIsUnchanged
    <2>2. PartsAgree'
      BY <1>1, <1>2 DEF PartsAgree, As
    <2> QED BY <2>1, <2>2
  <1>3. CASE UNCHANGED <<program, title, text, loadedSource, field, files>>
    <2>1. Loading' /\ Opened' /\ TypedIsStored' /\ CleanIsUnchanged'
      BY <1>1, <1>3 DEF Loading, Opened, TypedIsStored, CleanIsUnchanged
    <2>2. PartsAgree'
      BY <1>1, <1>3 DEF PartsAgree
    <2> QED BY <2>1, <2>2
  <1> QED BY <1>2, <1>3 DEF ProgramLoads

\* The page listens, to what it shows.
LEMMA PageStartsKeeps ==
    ASSUME TypeOK, EditorInv, PageStarts PROVE EditorInv'
  <1> USE DEF EditorInv, PageStarts, programVars, editorVars
  <1>1. Loading' /\ Opened' /\ CleanIsUnchanged'
    BY DEF Loading, Opened, CleanIsUnchanged
  <1>2. PartsAgree' /\ TypedIsStored'
    BY DEF PartsAgree, TypedIsStored
  <1> QED BY <1>1, <1>2

\* Every step keeps the invariant.
LEMMA EditorStep == TypeOK /\ EditorInv /\ [Next]_vars => EditorInv'
  <1> SUFFICES ASSUME TypeOK, EditorInv, [Next]_vars PROVE EditorInv'
    OBVIOUS
  <1> USE DEF programVars, editorVars
  <1>1. page # "ready" => loads = <<>> /\ job = NoJob
    BY DEF EditorInv, Loading
  <1>2. CASE Types \/ TypesUnheard
    BY <1>2, TypesKeeps, TypesUnheardKeeps
  <1>3. CASE Debounced \/ TypesArguments \/ RunStarts \/ RunEnds \/ TravelsUnheard
    <2>1. CleanIsUnchanged'
      BY <1>3, SwapsUntouched
         DEF EditorInv, Debounced, TypesArguments, RunStarts, RunEnds, TravelsUnheard
    <2> QED BY <1>3, <2>1, OutsideKeeps
        DEF Debounced, TypesArguments, RunStarts, RunEnds, TravelsUnheard, fileVars
  <1>4. CASE TakesLink \/ Travels
    <2>1. /\ page = "ready"
          /\ UNCHANGED <<page, requested, program, provenance, title, text, early, loadedSource,
                         files, pending, stored>>
      BY <1>4 DEF TakesLink, Travels
    <2>2. \/ UNCHANGED loads
          \/ \E p \in Programs, push \in BOOLEAN : SwapTo(p, push)
      <3>1. CASE TakesLink
        BY <3>1, TRUE \in BOOLEAN DEF TakesLink
      <3>2. CASE Travels
        <4>1. at' \in DOMAIN entries /\ entries[at'] \in Programs \cup {None}
          BY <3>2 DEF Travels, TypeOK
        <4>2. \/ UNCHANGED loads
              \/ entries[at'] \in Programs /\ SwapTo(entries[at'], FALSE)
          BY <3>2, <4>1 DEF Travels
        <4> QED BY <4>2, FALSE \in BOOLEAN
      <3> QED BY <1>4, <3>1, <3>2
    <2>3. CleanIsUnchanged'
      BY <2>1, <2>2, SwapsUntouched, SwapToKeepsClean DEF EditorInv
    <2> QED BY <2>1, <2>3, OutsideKeeps
  <1>5. CASE SwapEnds
    BY <1>5, SwapEndsKeeps
  <1>6. CASE OpensFile \/ FileRead \/ SavesFile \/ FileWritten \/ SaveAsEnds
    BY <1>6, FilesKeep
  <1>7. CASE ReloadsPage \/ ProgramLoads \/ PageStarts
    BY <1>7, ReloadsKeeps, ProgramLoadsKeeps, PageStartsKeeps
  <1>8. CASE UNCHANGED vars
    <2>1. CleanIsUnchanged'
      BY <1>8, SwapsUntouched DEF EditorInv, vars
    <2> QED BY <1>8, <2>1, OutsideKeeps DEF vars, fileVars
  <1> QED BY <1>2, <1>3, <1>4, <1>5, <1>6, <1>7, <1>8 DEF Next

\* It holds before the page has loaded.
LEMMA EditorInit == Init => EditorInv
  <1> SUFFICES ASSUME Init PROVE EditorInv
    OBVIOUS
  <1>1. /\ provenance = requested /\ program = None /\ title = None /\ text = loadedSource
        /\ loads = <<>> /\ job = NoJob /\ page = "loading"
    BY DEF Init
  <1> QED BY <1>1, ProgramsAssumption
      DEF EditorInv, Loading, Opened, CleanIsUnchanged, PartsAgree, TypedIsStored

-----------------------------------------------------------------------------
(* The theorems.                                                             *)

\* The invariant of every page.
LEMMA EditorInvHolds == Spec => [](TypeOK /\ EditorInv)
  <1>1. Init => TypeOK /\ EditorInv
    BY TypeInit, EditorInit
  <1>2. TypeOK /\ EditorInv /\ [Next]_vars => (TypeOK /\ EditorInv)'
    BY TypeStep, EditorStep
  <1> QED BY <1>1, <1>2, PTL DEF Spec

\* What the page's variables hold always has its type.
THEOREM PageTyped == Spec => []TypeOK
  BY EditorInvHolds, PTL

\* Program, provenance, text, data files and title go together, in whatever
\* order swaps arrive, files are opened and saved, and the page is reloaded.
THEOREM PagePartsAgree == Spec => []PartsAgree
  <1>1. EditorInv => PartsAgree
    BY DEF EditorInv
  <1> QED BY <1>1, EditorInvHolds, PTL

\* What the reader has changed is in storage, or its write is due.
THEOREM PageTextIsStored == Spec => []TypedIsStored
  <1>1. EditorInv => TypedIsStored
    BY DEF EditorInv
  <1> QED BY <1>1, EditorInvHolds, PTL

\* A text that was changed goes for a swap only if its reader was asked, or has
\* changed it since.
LEMMA DiscardStep ==
    ASSUME TypeOK, EditorInv, [Next]_vars,
           page = "ready", text # loadedSource, text' # text, Len(loads') < Len(loads)
    PROVE  \/ page' = "loading"
           \/ \E i \in DOMAIN loads : As(loads[i].name) = text' /\ ~loads[i].clean
  <1>1. Len(Changed(loads)) = Len(loads) /\ Len(loads) \in Nat
    BY ChangedFacts DEF TypeOK
  <1>2. loads' # Changed(loads)
    BY <1>1
  <1>3. ~Types
    BY <1>2 DEF Types, Changes, Changed
  <1>4. ~FileRead
    BY <1>2 DEF FileRead, Changed
  <1>5. ~(Debounced \/ TypesArguments \/ RunStarts \/ RunEnds \/ TakesLink \/ Travels)
    BY DEF Debounced, TypesArguments, RunStarts, RunEnds, TakesLink, Travels, editorVars
  <1>6. ~(TypesUnheard \/ TravelsUnheard)
    BY DEF TypesUnheard, TravelsUnheard
  <1>7. ~(OpensFile \/ SavesFile \/ FileWritten \/ SaveAsEnds \/ ProgramLoads \/ PageStarts
          \/ UNCHANGED vars)
    BY DEF OpensFile, SavesFile, FileWritten, SaveAsEnds, ProgramLoads, PageStarts, editorVars,
           vars
  <1>8. CASE SwapEnds
    <2>1. PICK i \in DOMAIN loads : Arrives(i)
      BY <1>8 DEF SwapEnds, editorVars
    <2>2. As(loads[i].name) = text'
      BY <2>1 DEF Arrives
    <2>3. ~loads[i].clean
      BY DEF EditorInv, CleanIsUnchanged
    <2> QED BY <2>2, <2>3
  <1>9. CASE ReloadsPage
    BY <1>9 DEF ReloadsPage, Reloads, Anew
  <1> QED BY <1>3, <1>4, <1>5, <1>6, <1>7, <1>8, <1>9 DEF Next

\* No swap discards a change that the reader has not agreed to lose, or made
\* after agreeing.
THEOREM PageDiscardsWhenAgreed == Spec => DiscardsWhenAgreed
  <1> DEFINE Agreed ==
        page = "ready" /\ text # loadedSource /\ text' # text /\ Len(loads') < Len(loads)
        => \/ page' = "loading"
           \/ \E i \in DOMAIN loads : /\ As(loads[i].name) = text'
                                     /\ ~loads[i].clean
  <1>1. TypeOK /\ EditorInv /\ [Next]_vars => [Agreed]_vars
    BY DiscardStep
  <1>2. Spec => [][Agreed]_vars
    BY <1>1, EditorInvHolds, PTL DEF Spec
  <1> QED BY <1>2 DEF DiscardsWhenAgreed
=============================================================================
