--------------------------- MODULE LspClientProofs ---------------------------
(* What the client keeps to however the network, the service and the reader  *)
(* behave and whenever the page is hidden and shown, for any number of       *)
(* sockets.  The invariant has two parts: Rooted is kept by every step, Own  *)
(* by those of a client that has not put one socket beside another, and is   *)
(* made anew when such a client connects with every socket closed.           *)
EXTENDS LspClient, TLAPS

Disposed == "disposed" \in flags

\* The client's socket, if it has made one.
Mine(states) == current \in Sockets /\ sock[current] \in states

AllClosed == \A s \in Sockets : sock[s] = "closed"

\* Flags and status have something to go by, however many sockets there are.
Rooted ==
    /\ ~AllClosed \/ status = "ready" => current \in Sockets
    /\ \A s \in Sockets : sock[s] = "open" => s \in opened
    /\ "connected" \in flags => opened # {}
    /\ "initialized" \in flags => "connected" \in flags
    /\ status = "new" => /\ AllClosed /\ current = NoSocket /\ ~crossed
                         /\ flags \subseteq {"disposed"} /\ "retry" \notin timers

\* There is no other socket than the client's own.
NoOther == \A s \in Sockets : sock[s] # "closed" => s = current

\* What is outstanding, and what the flags say, is of that socket.
OfMine ==
    /\ \A s \in opened : s = current /\ sock[s] # "connecting"
    /\ "connected" \in flags <=> current \in opened
    /\ \A s \in asking : s = current

\* What a reader has been told says what the client is at.
Told ==
    /\ Disposed => ~Mine({"connecting", "open"})
    /\ ~Disposed =>
          /\ status # "connecting" /\ ~AllClosed => status = "ready"
          /\ status = "ready" => {"connected", "initialized"} \subseteq flags
          /\ status = "dormant" => "dormant" \in flags /\ AllClosed
          /\ status = "refused" => "refused" \in flags /\ AllClosed

\* A retry is due only while there is no socket.
RetryDue == "retry" \in timers => AllClosed

Own == NoOther /\ OfMine /\ Told /\ RetryDue /\ ComesBack

LspInv == TypeOK /\ Rooted /\ (~crossed => Own)

-----------------------------------------------------------------------------
(* What the callbacks call.                                                  *)

\* Without a socket there is nothing open and nothing outstanding.
LEMMA ClosedIsEmpty ==
    ASSUME TypeOK, Rooted, AllClosed
    PROVE  /\ opened = {} /\ serving = {} /\ fresh = {} /\ asking = {} /\ unheard = {}
           /\ "connected" \notin flags /\ "initialized" \notin flags
  <1>1. Live = {}
    BY DEF AllClosed, Live
  <1>2. opened = {} /\ serving = {} /\ fresh = {} /\ unheard = {}
    BY <1>1 DEF TypeOK
  <1> QED BY <1>2 DEF Rooted, TypeOK

\* connect() makes no more than a client that has one socket, or none, unless
\* another is still about.
LEMMA ConnectsKeeps ==
    ASSUME LspInv, NEW f \in SUBSET flags, NEW t \in SUBSET timers,
           flags \ {"dormant", "refused"} \subseteq f,
           hidden' \in BOOLEAN,
           UNCHANGED <<opened, serving, fresh, asking, unheard>>,
           Connects(f, t)
    PROVE  LspInv'
  <1> USE DEF LspInv
  <1>1. f \subseteq Flags /\ t \subseteq Timers /\ ("disposed" \in f <=> Disposed)
    BY DEF TypeOK, Disposed
  <1>2. CASE /\ Disposed
             /\ flags' = f /\ timers' = t
             /\ UNCHANGED <<sock, current, status, crossed>>
    <2>1. Disposed' /\ AllClosed' = AllClosed /\ Live' = Live
      BY <1>1, <1>2 DEF Disposed, AllClosed, Live
    <2>2. TypeOK'
      BY <1>1, <1>2, <2>1 DEF TypeOK
    <2>3. Rooted'
      BY <1>2, <2>1 DEF Rooted
    <2>4. ASSUME ~crossed' PROVE Own'
      <3>1. Own
        BY <1>2, <2>4
      <3>2. NoOther' /\ OfMine'
        BY <1>2, <3>1 DEF Own, NoOther, OfMine
      <3>3. Told'
        BY <1>2, <2>1, <3>1 DEF Own, Told, Mine
      <3>4. RetryDue' /\ ComesBack'
        BY <1>1, <1>2, <2>1, <3>1 DEF Own, RetryDue, ComesBack, Disposed
      <3> QED BY <3>2, <3>3, <3>4 DEF Own
    <2> QED BY <2>2, <2>3, <2>4
  <1>3. CASE ~Disposed
    <2>1. "disposed" \notin f /\ crossed' = (Pending # {}) /\ status' # "new"
      BY <1>1, <1>3 DEF Connects
    <2>2. ~crossed' => AllClosed
      BY <2>1 DEF Pending, AllClosed
    <2>3. "connected" \in f => "connected" \in flags
      OBVIOUS
    <2>4. CASE /\ hidden' /\ UNCHANGED <<sock, current>> /\ timers' = t
               /\ flags' = (f \cup {"dormant"}) \ {"refused"} /\ status' = "dormant"
      <3>1. Disposed' = FALSE /\ AllClosed' = AllClosed /\ Live' = Live
        BY <2>1, <2>4 DEF Disposed, AllClosed, Live
      <3>2. TypeOK'
        BY <1>1, <2>1, <2>4, <3>1 DEF TypeOK, Flags, Statuses
      <3>3. Rooted'
        BY <2>1, <2>4, <3>1 DEF Rooted
      <3>4. ASSUME ~crossed' PROVE Own'
        <4>1. AllClosed /\ AllClosed'
          BY <2>2, <3>1, <3>4
        <4>2. opened' = {} /\ asking' = {} /\ "connected" \notin flags'
          BY <2>4, <4>1, ClosedIsEmpty
        <4>3. NoOther' /\ OfMine'
          BY <4>1, <4>2 DEF NoOther, OfMine, AllClosed
        <4>4. Told'
          BY <2>4, <3>1, <4>1 DEF Told
        <4>5. RetryDue' /\ ComesBack'
          BY <2>4, <4>1 DEF RetryDue, ComesBack, Asleep
        <4> QED BY <4>3, <4>4, <4>5 DEF Own
      <3> QED BY <3>2, <3>3, <3>4
    <2>5. ASSUME ~hidden', flags' = f, status' = "connecting",
                 NEW s \in Sockets, sock[s] = "closed",
                 sock' = [sock EXCEPT ![s] = "connecting"], current' = s,
                 timers' = t \ {"retry"}
          PROVE  LspInv'
      <3>1. /\ sock' \in [Sockets -> SocketStates] /\ sock'[s] = "connecting"
            /\ \A r \in Sockets : r # s => sock'[r] = sock[r]
        BY <2>5 DEF TypeOK, SocketStates
      <3>2. Live \subseteq Live'
        BY <3>1, <2>5 DEF Live
      <3>3. TypeOK'
        BY <1>1, <2>1, <2>5, <3>1, <3>2 DEF TypeOK, Statuses
      <3>4. Rooted'
        BY <2>1, <2>5 DEF Rooted
      <3>5. ASSUME ~crossed' PROVE Own'
        <4>1. AllClosed
          BY <2>2, <3>5
        <4>2. opened' = {} /\ asking' = {} /\ "connected" \notin flags'
          BY <2>5, <4>1, ClosedIsEmpty
        <4>3. NoOther' /\ OfMine'
          BY <2>5, <3>1, <4>1, <4>2 DEF NoOther, OfMine, AllClosed
        <4>4. Told'
          BY <2>1, <2>5 DEF Told, Disposed
        <4>5. RetryDue' /\ ComesBack'
          BY <2>5, <3>1 DEF RetryDue, ComesBack, Live
        <4> QED BY <4>3, <4>4, <4>5 DEF Own
      <3> QED BY <3>3, <3>4, <3>5
    <2>6. CASE /\ ~hidden' /\ flags' = f /\ status' = "connecting"
               /\ timers' = t \cup {"retry"} /\ UNCHANGED <<sock, current>>
      <3>1. Disposed' = FALSE /\ AllClosed' = AllClosed /\ Live' = Live
        BY <2>1, <2>6 DEF Disposed, AllClosed, Live
      <3>2. TypeOK'
        BY <1>1, <2>1, <2>6, <3>1 DEF TypeOK, Statuses, Timers
      <3>3. Rooted'
        BY <2>1, <2>6, <3>1 DEF Rooted
      <3>4. ASSUME ~crossed' PROVE Own'
        <4>1. AllClosed /\ AllClosed'
          BY <2>2, <3>1, <3>4
        <4>2. opened' = {} /\ asking' = {} /\ "connected" \notin flags'
          BY <2>6, <4>1, ClosedIsEmpty
        <4>3. NoOther' /\ OfMine'
          BY <4>1, <4>2 DEF NoOther, OfMine, AllClosed
        <4>4. Told' /\ RetryDue' /\ ComesBack'
          BY <2>6, <3>1, <4>1 DEF Told, RetryDue, ComesBack
        <4> QED BY <4>3, <4>4 DEF Own
      <3> QED BY <3>2, <3>3, <3>4
    <2> QED BY <1>1, <1>3, <2>4, <2>5, <2>6 DEF Connects
  <1> QED BY <1>1, <1>2, <1>3 DEF Connects

\* wake() connects with what kept the client asleep put aside.
LEMMA WakesKeeps ==
    ASSUME LspInv, NEW t \in SUBSET timers, Wakes(t),
           hidden' \in BOOLEAN, UNCHANGED <<opened, serving, fresh, asking, unheard>>
    PROVE  LspInv'
  <1> DEFINE f == flags \ {"dormant", "refused"}
  <1>1. f \in SUBSET flags /\ flags \ {"dormant", "refused"} \subseteq f
    OBVIOUS
  <1>2. Connects(f, t)
    BY DEF Wakes
  <1> HIDE DEF f
  <1> QED BY <1>1, <1>2, ConnectsKeeps

-----------------------------------------------------------------------------
(* The sockets' events.                                                      *)

\* The client's socket is open, and no longer counts as refused.
LEMMA OpensKeeps ==
    ASSUME LspInv, NEW s \in Sockets, Opens(s) PROVE LspInv'
  <1> USE DEF LspInv
  <1>1. /\ sock' \in [Sockets -> SocketStates] /\ sock[s] = "connecting" /\ sock'[s] = "open"
        /\ \A r \in Sockets : r # s => sock'[r] = sock[r]
    BY DEF Opens, TypeOK, SocketStates
  <1>2. current \in Sockets /\ status # "new" /\ ~AllClosed
    BY <1>1 DEF Rooted, AllClosed
  <1>3. /\ opened' = opened \cup {s}
        /\ asking' = IF sock'[current] = "connecting" THEN asking ELSE asking \cup {current}
        /\ flags' = (flags \ {"refused"}) \cup {"connected"}
        /\ UNCHANGED <<serving, fresh, current, unheard, crossed, timers, hidden, status>>
    BY DEF Opens
  <1>4. Live' = Live
    BY <1>1 DEF Live
  <1>5. TypeOK'
    BY <1>1, <1>2, <1>3, <1>4 DEF TypeOK, Flags, Live
  <1>6. Rooted'
    BY <1>1, <1>2, <1>3 DEF Rooted
  <1>7. ASSUME ~crossed' PROVE Own'
    <2>1. Own
      BY <1>3, <1>7
    <2>2. s = current /\ ~Disposed /\ s \notin opened /\ "connected" \notin flags
      BY <1>1, <1>2, <2>1 DEF Own, NoOther, OfMine, Told, Mine
    <2>3. status = "connecting" /\ "retry" \notin timers
      BY <1>2, <2>1, <2>2 DEF Own, Told, RetryDue
    <2>4. NoOther' /\ OfMine'
      BY <1>1, <1>3, <2>1, <2>2 DEF Own, NoOther, OfMine
    <2>5. Told'
      BY <1>3, <2>2, <2>3 DEF Told, Disposed
    <2>6. RetryDue' /\ ComesBack'
      BY <1>1, <1>3, <1>4, <2>2, <2>3 DEF RetryDue, ComesBack, Live
    <2> QED BY <2>4, <2>5, <2>6 DEF Own
  <1> QED BY <1>5, <1>6, <1>7

\* What was sent last has been heard, or goes unheard, on a socket that opened.
LEMMA SendsTyped ==
    ASSUME TypeOK, Sends, UNCHANGED <<opened, serving>>
    PROVE  fresh' \subseteq serving' /\ unheard' \subseteq opened'
  BY DEF TypeOK, Sends, Delivered

\* The answer is that of the client's socket: the client is ready on it.
LEMMA InitializeEndsKeeps ==
    ASSUME LspInv, NEW s \in Sockets, InitializeEnds(s) PROVE LspInv'
  <1> USE DEF LspInv
  <1>1. /\ "connected" \in flags /\ opened # {} /\ s \in asking
        /\ asking' = asking \ {s} /\ UNCHANGED <<sock, opened, serving, current, crossed, timers, hidden>>
    BY DEF InitializeEnds, TypeOK, Rooted
  <1>2. /\ Live' = Live /\ AllClosed' = AllClosed /\ status # "new" /\ ~AllClosed
    BY <1>1, ClosedIsEmpty DEF Live, AllClosed, Rooted
  <1>3. CASE sock[current] = "connecting"
    <2>1. UNCHANGED <<flags, status, fresh, unheard>>
      BY <1>3 DEF InitializeEnds
    <2>2. TypeOK' /\ Rooted'
      BY <1>1, <1>2, <2>1 DEF TypeOK, Rooted
    <2>3. ASSUME ~crossed' PROVE FALSE
      BY <1>1, <1>3, <2>3 DEF Own, OfMine
    <2> QED BY <2>2, <2>3
  <1>4. CASE sock[current] # "connecting"
    <2>1. flags' = flags \cup {"initialized"} /\ status' = "ready" /\ Sends
      BY <1>4 DEF InitializeEnds
    <2>2. TypeOK'
      BY <1>1, <1>2, <2>1, SendsTyped DEF TypeOK, Flags, Statuses
    <2>3. Rooted'
      BY <1>1, <1>2, <2>1 DEF Rooted
    <2>4. ASSUME ~crossed' PROVE Own'
      <3>1. Own
        BY <1>1, <2>4
      <3>2. s = current /\ s \in Live /\ s \in opened
        BY <1>1, <3>1 DEF Own, OfMine, TypeOK
      <3>3. NoOther' /\ OfMine'
        BY <1>1, <2>1, <3>1 DEF Own, NoOther, OfMine
      <3>4. Told'
        BY <1>1, <1>2, <2>1, <3>1 DEF Own, Told, Disposed, Mine
      <3>5. RetryDue' /\ ComesBack'
        BY <1>1, <1>2, <3>1, <3>2 DEF Own, RetryDue, ComesBack
      <3> QED BY <3>3, <3>4, <3>5 DEF Own
    <2> QED BY <2>2, <2>3, <2>4
  <1> QED BY <1>3, <1>4

\* The close handler's end.
LEMMA FailsKeeps ==
    ASSUME LspInv, NEW s \in Sockets, sock[s] # "closed",
           NEW f \in SUBSET flags, NEW over \in BOOLEAN, Fails(s, f, over),
           "disposed" \in f <=> Disposed,
           ~crossed => {"connected", "initialized"} \cap f = {},
           "connected" \in f => opened' # {}, "initialized" \in f => "connected" \in f,
           fresh' \subseteq serving', serving' \subseteq opened', opened' \subseteq Live \ {s},
           opened \ {s} \subseteq opened', unheard' \subseteq opened', asking' \subseteq asking,
           asking' # {} => "connected" \in f,
           UNCHANGED <<current, crossed, hidden>>
    PROVE  LspInv'
  <1> USE DEF LspInv
  <1>1. current \in Sockets /\ status # "new" /\ f \subseteq Flags
    BY DEF Rooted, AllClosed, TypeOK
  <1>2. /\ sock' \in [Sockets -> SocketStates] /\ sock'[s] = "closed"
        /\ \A r \in Sockets : r # s => sock'[r] = sock[r]
    BY DEF Fails, TypeOK, SocketStates
  <1>3. flags' = IF over THEN f \cup {"refused"} ELSE f \ {"refused"}
    BY DEF Fails
  <1>4. \/ (Disposed \/ current # s) /\ UNCHANGED <<timers, status>>
        \/ /\ ~Disposed /\ timers' = timers \cup {"retry"}
           /\ status' = IF over THEN "refused" ELSE "disconnected"
    BY DEF Fails
  <1>5. Disposed' = Disposed /\ Live' = Live \ {s}
    BY <1>2, <1>3 DEF Disposed, Live
  <1>6. TypeOK'
    BY <1>1, <1>2, <1>3, <1>4, <1>5 DEF TypeOK, Flags, Timers, Statuses
  <1>7. Rooted'
    BY <1>1, <1>2, <1>3, <1>4 DEF Rooted
  <1>8. ASSUME ~crossed' PROVE Own'
    <2>1. Own /\ s = current /\ {"connected", "initialized"} \cap f = {}
      BY <1>8 DEF Own, NoOther
    <2>2. AllClosed'
      BY <1>2, <2>1 DEF Own, NoOther, AllClosed
    <2>3. opened' = {} /\ asking' = {}
      BY <2>1, <2>2, <1>2, <1>5 DEF AllClosed, Live
    <2>4. NoOther' /\ OfMine'
      BY <1>3, <2>1, <2>2, <2>3 DEF NoOther, OfMine, AllClosed
    <2>5. Told'
      <3>1. Disposed => ~Mine({"connecting", "open"})'
        BY <2>2 DEF Mine, AllClosed
      <3> QED BY <1>3, <1>4, <1>5, <2>1, <2>2, <3>1 DEF Told
    <2>6. RetryDue' /\ ComesBack'
      BY <1>4, <1>5, <2>1, <2>2 DEF RetryDue, ComesBack, Disposed
    <2> QED BY <2>4, <2>5, <2>6 DEF Own
  <1> QED BY <1>6, <1>7, <1>8

\* A socket closes: the client sleeps, asks why, or has failed.
LEMMA ClosesKeeps ==
    ASSUME LspInv, NEW s \in Sockets, Closes(s) PROVE LspInv'
  <1> USE DEF LspInv
  <1> DEFINE f == flags \ {"connected", "initialized", "releasing", "dormant"}
  <1>1. s \in Live /\ sock[s] # "closed" /\ status # "new" /\ current \in Sockets
    BY DEF Closes, Live, Rooted, AllClosed
  <1>2. /\ opened' = opened \ {s} /\ serving' = serving \ {s} /\ fresh' = fresh \ {s}
        /\ unheard' = unheard \ {s} /\ asking' = {}
        /\ UNCHANGED <<current, crossed, hidden>>
    BY DEF Closes
  <1>3. /\ f \in SUBSET flags /\ f \subseteq Flags
        /\ {"connected", "initialized"} \cap f = {}
        /\ "disposed" \in f <=> Disposed
    BY DEF TypeOK, Disposed
  <1>4. PICK reason \in Reasons(s) :
          \/ /\ flags' = f \cup {"dormant"} /\ status' = "dormant"
             /\ sock' = [sock EXCEPT ![s] = "closed"] /\ UNCHANGED timers
          \/ /\ s \notin opened /\ flags' = f
             /\ sock' = [sock EXCEPT ![s] = "probing"] /\ UNCHANGED <<timers, status>>
          \/ Fails(s, f, reason = "address limit")
    BY DEF Closes
  <1>5. /\ fresh' \subseteq serving' /\ serving' \subseteq opened' /\ unheard' \subseteq opened'
        /\ opened \ {s} \subseteq opened' /\ opened' \subseteq Live \ {s}
    BY <1>2 DEF TypeOK
  <1> HIDE DEF f
  <1>6. CASE /\ flags' = f \cup {"dormant"} /\ status' = "dormant"
             /\ sock' = [sock EXCEPT ![s] = "closed"] /\ UNCHANGED timers
    <2>1. /\ sock' \in [Sockets -> SocketStates] /\ sock'[s] = "closed"
          /\ \A r \in Sockets : r # s => sock'[r] = sock[r]
      BY <1>6 DEF TypeOK, SocketStates
    <2>2. Disposed' = Disposed /\ Live' = Live \ {s}
      BY <1>3, <1>6, <2>1 DEF Disposed, Live
    <2>3. TypeOK'
      BY <1>2, <1>3, <1>5, <1>6, <2>1, <2>2 DEF TypeOK, Flags, Statuses
    <2>4. Rooted'
      BY <1>1, <1>2, <1>3, <1>6, <2>1 DEF Rooted
    <2>5. ASSUME ~crossed' PROVE Own'
      <3>1. Own /\ s = current
        BY <1>1, <1>2, <2>5 DEF Own, NoOther
      <3>2. AllClosed' /\ opened' = {}
        BY <1>2, <2>1, <3>1 DEF Own, NoOther, OfMine, AllClosed
      <3>3. NoOther' /\ OfMine'
        BY <1>2, <1>3, <1>6, <3>2 DEF NoOther, OfMine, AllClosed
      <3>4. Told'
        <4>1. Disposed => ~Mine({"connecting", "open"})'
          BY <3>2 DEF Mine, AllClosed
        <4> QED BY <1>6, <2>2, <3>2, <4>1 DEF Told
      <3>5. RetryDue' /\ ComesBack'
        BY <1>6, <3>2 DEF RetryDue, ComesBack, Asleep
      <3> QED BY <3>3, <3>4, <3>5 DEF Own
    <2> QED BY <2>3, <2>4, <2>5
  <1>7. CASE /\ s \notin opened /\ flags' = f
             /\ sock' = [sock EXCEPT ![s] = "probing"] /\ UNCHANGED <<timers, status>>
    <2>1. /\ sock' \in [Sockets -> SocketStates] /\ sock'[s] = "probing"
          /\ \A r \in Sockets : r # s => sock'[r] = sock[r]
      BY <1>7 DEF TypeOK, SocketStates
    <2>2. Disposed' = Disposed /\ Live' = Live \ {s}
      BY <1>3, <1>7, <2>1 DEF Disposed, Live
    <2>3. TypeOK'
      BY <1>2, <1>3, <1>5, <1>7, <2>1, <2>2 DEF TypeOK
    <2>4. Rooted'
      BY <1>1, <1>2, <1>3, <1>7, <2>1 DEF Rooted
    <2>5. ASSUME ~crossed' PROVE Own'
      <3>1. Own /\ s = current
        BY <1>1, <1>2, <2>5 DEF Own, NoOther
      <3>2. "retry" \notin timers /\ (~Disposed => status = "connecting") /\ ~AllClosed
        BY <1>1, <1>7, <3>1 DEF Own, Told, OfMine, RetryDue, AllClosed
      <3>3. opened' = {} /\ \A r \in Sockets : r # s => sock'[r] = "closed"
        BY <1>2, <1>7, <2>1, <3>1 DEF Own, NoOther, OfMine
      <3>4. NoOther' /\ OfMine'
        BY <1>2, <1>3, <1>7, <2>1, <3>1, <3>3 DEF NoOther, OfMine
      <3>5. Told'
        BY <1>2, <1>7, <2>1, <2>2, <3>1, <3>2 DEF Told, Mine
      <3>6. RetryDue'
        BY <1>7, <3>2 DEF RetryDue
      <3>7. ComesBack'
        BY <1>1, <1>2, <2>1, <3>1, SocketsAssumption DEF ComesBack
      <3> QED BY <3>4, <3>5, <3>6, <3>7 DEF Own
    <2> QED BY <2>3, <2>4, <2>5
  <1>8. CASE Fails(s, f, reason = "address limit")
    <2>1. "connected" \notin f /\ "initialized" \notin f
      BY <1>3
    <2>2. asking' \subseteq asking /\ ~(asking' # {})
      BY <1>2
    <2>3. (reason = "address limit") \in BOOLEAN
      OBVIOUS
    <2> QED BY <1>1, <1>2, <1>3, <1>5, <1>8, <2>1, <2>2, <2>3, FailsKeeps
  <1> QED BY <1>4, <1>6, <1>7, <1>8

\* The socket that was asked about has closed, whoever's it is by now.
LEMMA ProbeEndsKeeps ==
    ASSUME LspInv, NEW s \in Sockets, ProbeEnds(s) PROVE LspInv'
  <1> USE DEF LspInv
  <1>1. /\ sock[s] = "probing" /\ s \notin opened
        /\ UNCHANGED <<opened, serving, fresh, asking, current, unheard, crossed, hidden>>
    BY DEF ProbeEnds, TypeOK, Live
  <1>2. ~crossed => {"connected", "initialized"} \cap flags = {}
    BY <1>1 DEF Own, NoOther, OfMine, Rooted
  <1>3. PICK over \in BOOLEAN : Fails(s, flags, over)
    BY DEF ProbeEnds
  <1>4. /\ fresh' \subseteq serving' /\ serving' \subseteq opened' /\ unheard' \subseteq opened'
        /\ opened \ {s} \subseteq opened' /\ opened' \subseteq Live \ {s}
        /\ (asking # {} => "connected" \in flags)
    BY <1>1 DEF TypeOK
  <1>5. /\ "disposed" \in flags <=> Disposed
        /\ "connected" \in flags => opened' # {}
        /\ "initialized" \in flags => "connected" \in flags
    BY <1>1 DEF Disposed, Rooted
  <1>6. flags \in SUBSET flags /\ sock[s] # "closed"
    BY <1>1
  <1> QED BY <1>1, <1>2, <1>3, <1>4, <1>5, <1>6, FailsKeeps

\* What the service acquires is for a socket that has opened.
LEMMA AcquiresKeeps ==
    ASSUME LspInv, NEW s \in Sockets, Acquires(s) PROVE LspInv'
  <1> USE DEF LspInv, Acquires
  <1>1. Live' = Live /\ AllClosed' = AllClosed /\ Disposed' = Disposed /\ Asleep' = Asleep
    BY DEF Live, AllClosed, Disposed, Asleep
  <1>2. s \in opened
    BY DEF Rooted
  <1>3. TypeOK' /\ Rooted'
    BY <1>1, <1>2 DEF TypeOK, Rooted
  <1>4. ASSUME ~crossed' PROVE Own'
    <2>1. Own
      BY <1>4
    <2>2. NoOther' /\ OfMine' /\ Told' /\ RetryDue' /\ ComesBack'
      BY <1>1, <2>1 DEF Own, NoOther, OfMine, Told, Mine, RetryDue, ComesBack
    <2> QED BY <2>2 DEF Own
  <1> QED BY <1>3, <1>4

-----------------------------------------------------------------------------
(* The timers.                                                               *)

\* A retry connects, whatever it finds.
LEMMA RetriesKeeps ==
    ASSUME LspInv, Retries PROVE LspInv'
  <1>1. /\ timers \ {"retry"} \in SUBSET timers /\ flags \in SUBSET flags
        /\ flags \ {"dormant", "refused"} \subseteq flags
    OBVIOUS
  <1>2. hidden' \in BOOLEAN
    BY DEF Retries, LspInv, TypeOK
  <1> QED BY <1>1, <1>2, ConnectsKeeps DEF Retries

\* The client's socket starts to close, and nothing is asked of it any more.
LEMMA ClosingKeeps ==
    ASSUME LspInv, current \in Live, sock' = Closing(current),
           NEW more \in SUBSET {"releasing", "disposed"}, flags' = flags \cup more,
           timers' \subseteq timers,
           UNCHANGED <<opened, serving, asking, fresh, current, unheard, crossed, hidden, status>>
    PROVE  LspInv'
  <1> USE DEF LspInv
  <1>1. /\ sock' \in [Sockets -> SocketStates] /\ sock'[current] = "closing"
        /\ \A r \in Sockets : r # current => sock'[r] = sock[r]
        /\ current \in Sockets /\ sock[current] # "closed"
    BY DEF TypeOK, SocketStates, Closing, Live
  <1>2. Live' = Live
    BY <1>1 DEF Live
  <1>3. /\ more \subseteq Flags /\ "connected" \notin more /\ "initialized" \notin more
        /\ "refused" \notin more /\ "dormant" \notin more
    BY DEF Flags
  <1>4. status # "new" /\ (Disposed => Disposed')
    BY <1>1 DEF Rooted, AllClosed, Disposed
  <1>5. TypeOK'
    BY <1>1, <1>2, <1>3 DEF TypeOK
  <1>6. Rooted'
    BY <1>1, <1>3, <1>4 DEF Rooted
  <1>7. ASSUME ~crossed' PROVE Own'
    <2>1. Own /\ "retry" \notin timers
      BY <1>1, <1>7 DEF Own, RetryDue, AllClosed
    <2>2. NoOther' /\ OfMine'
      BY <1>1, <1>3, <2>1 DEF Own, NoOther, OfMine
    <2>3. Told'
      BY <1>1, <1>3, <1>4, <2>1 DEF Own, Told, Mine, AllClosed
    <2>4. RetryDue' /\ ComesBack'
      BY <1>2, <1>4, <2>1 DEF RetryDue, ComesBack
    <2> QED BY <2>2, <2>3, <2>4 DEF Own
  <1> QED BY <1>5, <1>6, <1>7

\* A step of the page that concerns no socket: no timer but for a retry is
\* spoken of, and no text is where there is no session, or no socket.
LEMMA PageKeeps ==
    ASSUME LspInv, UNCHANGED <<sock, opened, serving, asking, current, crossed, flags, status>>,
           timers' \subseteq Timers, "retry" \in timers' <=> "retry" \in timers,
           fresh' \subseteq serving, unheard' \subseteq opened, hidden' \in BOOLEAN
    PROVE  LspInv'
  <1> USE DEF LspInv
  <1>1. Live' = Live /\ AllClosed' = AllClosed /\ Disposed' = Disposed /\ Asleep' = Asleep
    BY DEF Live, AllClosed, Disposed, Asleep
  <1>2. TypeOK' /\ Rooted'
    BY <1>1 DEF TypeOK, Rooted
  <1>3. ASSUME ~crossed' PROVE Own'
    <2>1. Own
      BY <1>3
    <2>2. NoOther' /\ OfMine' /\ Told'
      BY <1>1, <2>1 DEF Own, NoOther, OfMine, Told, Mine
    <2>3. RetryDue' /\ ComesBack'
      BY <1>1, <2>1 DEF Own, RetryDue, ComesBack
    <2> QED BY <2>2, <2>3 DEF Own
  <1> QED BY <1>2, <1>3

\* A client put away for long closes its socket, if it has one.
LEMMA ReleasesKeeps ==
    ASSUME LspInv, Releases PROVE LspInv'
  <1>1. CASE current \in Live
    <2>1. {"releasing"} \in SUBSET {"releasing", "disposed"}
      OBVIOUS
    <2>2. timers' \subseteq timers /\ flags' = flags \cup {"releasing"}
      BY <1>1 DEF Releases
    <2> HIDE DEF Closing
    <2> QED BY <1>1, <2>1, <2>2, ClosingKeeps DEF Releases
  <1>2. CASE current \notin Live
    <2>1. /\ UNCHANGED <<sock, opened, serving, asking, current, crossed, flags, status>>
          /\ UNCHANGED <<fresh, unheard, hidden>>
          /\ timers' = timers \ {"hidden"}
      BY <1>2 DEF Releases
    <2>2. /\ timers \subseteq Timers /\ fresh \subseteq serving /\ unheard \subseteq opened
          /\ hidden \in BOOLEAN
      BY DEF LspInv, TypeOK
    <2> QED BY <2>1, <2>2, PageKeeps
  <1> QED BY <1>1, <1>2

\* An edit wakes a client that sleeps, or is sent.
LEMMA EditSettlesKeeps ==
    ASSUME LspInv, EditSettles PROVE LspInv'
  <1>1. /\ timers \subseteq Timers /\ fresh \subseteq serving /\ unheard \subseteq opened
        /\ hidden \in BOOLEAN /\ TypeOK
    BY DEF LspInv, TypeOK
  <1>2. CASE Wakes(timers \ {"edit"}) /\ UNCHANGED <<fresh, unheard>>
    <2>1. timers \ {"edit"} \in SUBSET timers
      OBVIOUS
    <2> QED BY <1>1, <1>2, <2>1, WakesKeeps DEF EditSettles
  <1>3. CASE /\ Sends \/ UNCHANGED <<fresh, unheard>>
             /\ timers' = timers \ {"edit"}
             /\ UNCHANGED <<sock, current, crossed, flags, status>>
    <2>1. UNCHANGED <<opened, serving, asking, hidden>>
      BY DEF EditSettles
    <2>2. fresh' \subseteq serving /\ unheard' \subseteq opened
      BY <1>1, <1>3, <2>1, SendsTyped
    <2> QED BY <1>1, <1>3, <2>1, <2>2, PageKeeps
  <1> QED BY <1>2, <1>3 DEF EditSettles

-----------------------------------------------------------------------------
(* The page and its reader.                                                  *)

\* The first connection finds no socket.
LEMMA AttachKeeps ==
    ASSUME LspInv, Attach PROVE LspInv'
  <1>1. /\ timers \in SUBSET timers /\ flags \in SUBSET flags
        /\ flags \ {"dormant", "refused"} \subseteq flags
    OBVIOUS
  <1>2. hidden' \in BOOLEAN
    BY DEF Attach, LspInv, TypeOK
  <1> QED BY <1>1, <1>2, ConnectsKeeps DEF Attach

\* Typing only makes the analyser's text old.
LEMMA TypesKeeps ==
    ASSUME LspInv, Types PROVE LspInv'
  <1>1. timers \subseteq Timers /\ hidden \in BOOLEAN /\ unheard \subseteq opened
    BY DEF LspInv, TypeOK
  <1>2. timers' \subseteq Timers /\ ("retry" \in timers' <=> "retry" \in timers)
    BY <1>1 DEF Types, Timers
  <1> QED BY <1>1, <1>2, PageKeeps DEF Types, socketVars

\* A move wakes a client that sleeps.
LEMMA MovesKeeps ==
    ASSUME LspInv, Moves PROVE LspInv'
  <1>1. timers \in SUBSET timers /\ hidden' \in BOOLEAN
    BY DEF Moves, LspInv, TypeOK
  <1> QED BY <1>1, WakesKeeps DEF Moves

\* A click closes the socket there is, or connects whatever the client is at.
LEMMA ReconnectKeeps ==
    ASSUME LspInv, Reconnect PROVE LspInv'
  <1>1. CASE current \in Live
    <2>1. {} \in SUBSET {"releasing", "disposed"} /\ flags = flags \cup {}
      OBVIOUS
    <2>2. timers' \subseteq timers /\ flags' = flags \cup {}
      BY <1>1 DEF Reconnect
    <2> QED BY <1>1, <2>1, <2>2, ClosingKeeps DEF Reconnect
  <1>2. CASE current \notin Live
    <2>1. /\ timers \in SUBSET timers /\ flags \in SUBSET flags
          /\ flags \ {"dormant", "refused"} \subseteq flags
      OBVIOUS
    <2>2. hidden' \in BOOLEAN
      BY DEF Reconnect, LspInv, TypeOK
    <2> QED BY <1>2, <2>1, <2>2, ConnectsKeeps DEF Reconnect
  <1> QED BY <1>1, <1>2

\* A page that goes out of sight only sets the timer of its release.
LEMMA HidesKeeps ==
    ASSUME LspInv, Hides PROVE LspInv'
  <1>1. timers \subseteq Timers /\ fresh \subseteq serving /\ unheard \subseteq opened
    BY DEF LspInv, TypeOK
  <1>2. timers' \subseteq Timers /\ ("retry" \in timers' <=> "retry" \in timers)
    BY <1>1 DEF Hides, Timers
  <1> QED BY <1>1, <1>2, PageKeeps DEF Hides, socketVars

\* A page that comes in sight wakes its client.
LEMMA ShowsKeeps ==
    ASSUME LspInv, Shows PROVE LspInv'
  <1>1. timers \subseteq Timers /\ fresh \subseteq serving /\ unheard \subseteq opened
    BY DEF LspInv, TypeOK
  <1>2. CASE Wakes(timers \ {"hidden"})
    <2>1. timers \ {"hidden"} \in SUBSET timers /\ hidden' \in BOOLEAN
      BY DEF Shows
    <2> QED BY <1>2, <2>1, WakesKeeps DEF Shows
  <1>3. CASE timers' = timers \ {"hidden"} /\ UNCHANGED <<sock, current, crossed, flags, status>>
    BY <1>1, <1>3, PageKeeps DEF Shows
  <1> QED BY <1>2, <1>3 DEF Shows

\* Without a socket to close, no more than the flag and the timers change.
LEMMA DisposeKeeps ==
    ASSUME LspInv, Dispose PROVE LspInv'
  <1> USE DEF LspInv
  <1>1. CASE current \in Live
    <2>1. {"disposed"} \in SUBSET {"releasing", "disposed"}
      OBVIOUS
    <2>2. timers' \subseteq timers /\ flags' = flags \cup {"disposed"} /\ sock' = Closing(current)
      BY <1>1 DEF Dispose
    <2> QED BY <1>1, <2>1, <2>2, ClosingKeeps DEF Dispose
  <1>2. CASE current \notin Live
    <2>1. /\ UNCHANGED <<sock, opened, serving, fresh, asking, current, unheard, crossed, hidden, status>>
          /\ flags' = flags \cup {"disposed"} /\ timers' = timers \ {"retry", "hidden"}
      BY <1>2 DEF Dispose
    <2>2. Live' = Live /\ AllClosed' = AllClosed /\ Disposed'
      BY <2>1 DEF Live, AllClosed, Disposed
    <2>3. TypeOK' /\ Rooted'
      BY <2>1, <2>2 DEF TypeOK, Flags, Rooted
    <2>4. ASSUME ~crossed' PROVE Own'
      <3>1. Own
        BY <2>1, <2>4
      <3>2. NoOther' /\ OfMine'
        BY <2>1, <3>1 DEF Own, NoOther, OfMine
      <3>3. Told'
        BY <1>2, <2>1, <2>2 DEF Told, Mine, Live
      <3>4. RetryDue' /\ ComesBack'
        BY <2>1, <2>2 DEF RetryDue, ComesBack, Disposed
      <3> QED BY <3>2, <3>3, <3>4 DEF Own
    <2> QED BY <2>3, <2>4
  <1> QED BY <1>1, <1>2

-----------------------------------------------------------------------------
(* The invariant and the theorems.                                           *)

\* The client is made without a socket.
LEMMA InitHasLspInv == Init => LspInv
  <1> SUFFICES ASSUME Init PROVE LspInv
    OBVIOUS
  <1>1. AllClosed /\ Live = {} /\ Disposed = FALSE
    BY DEF Init, AllClosed, Live, Disposed
  <1>2. TypeOK
    BY <1>1 DEF Init, TypeOK, SocketStates, Flags, Timers, Statuses
  <1>3. Rooted
    BY <1>1 DEF Init, Rooted
  <1>4. NoOther /\ OfMine /\ RetryDue /\ ComesBack
    BY SocketsAssumption DEF Init, NoOther, OfMine, RetryDue, ComesBack
  <1>5. Told
    BY <1>1 DEF Init, Told
  <1> QED BY <1>2, <1>3, <1>4, <1>5 DEF LspInv, Own

\* A step of the environment changes nothing.
LEMMA StutterKeepsLspInv == ASSUME LspInv, UNCHANGED vars PROVE LspInv'
  <1>1. timers \subseteq Timers /\ fresh \subseteq serving /\ unheard \subseteq opened
        /\ hidden \in BOOLEAN
    BY DEF LspInv, TypeOK
  <1> QED BY <1>1, PageKeeps DEF vars, socketVars

\* Every step keeps the invariant.
LEMMA NextKeepsLspInv ==
    ASSUME LspInv, [Next]_vars PROVE LspInv'
  <1>1. ASSUME NEW s \in Sockets, SocketNext(s) PROVE LspInv'
    BY <1>1, OpensKeeps, InitializeEndsKeeps, ClosesKeeps, ProbeEndsKeeps, AcquiresKeeps
    DEF SocketNext
  <1>2. CASE Retries \/ Releases \/ EditSettles
    BY <1>2, RetriesKeeps, ReleasesKeeps, EditSettlesKeeps
  <1>3. CASE Attach \/ Types \/ Moves \/ Reconnect \/ Hides \/ Shows \/ Dispose
    BY <1>3, AttachKeeps, TypesKeeps, MovesKeeps, ReconnectKeeps, HidesKeeps, ShowsKeeps,
       DisposeKeeps
  <1>4. CASE UNCHANGED vars
    BY <1>4, StutterKeepsLspInv
  <1> QED BY <1>1, <1>2, <1>3, <1>4 DEF Next

\* The invariant of every state of the client.
LEMMA LspInvHolds == Spec => []LspInv
  <1>1. LspInv /\ [Next]_vars => LspInv'
    BY NextKeepsLspInv
  <1> QED BY <1>1, InitHasLspInv, PTL DEF Spec

\* What the client's variables hold always has its type.
THEOREM ClientTyped == Spec => []TypeOK
  <1>1. LspInv => TypeOK
    BY DEF LspInv
  <1> QED BY <1>1, LspInvHolds, PTL

\* A client that has been attached has a socket, a retry due, or sleeps, unless
\* an earlier socket was still about when it connected.
THEOREM ClientComesBack == Spec => []ComesBack
  <1>1. LspInv => ComesBack
    BY DEF LspInv, Own, ComesBack
  <1> QED BY <1>1, LspInvHolds, PTL

\* The reader is told that the client is ready only when it is, and that it
\* sleeps or was refused only when the next move wakes it, unless an earlier
\* socket was still about when the client connected.
THEOREM ClientIsHonest == Spec => []StatusIsHonest
  <1>1. LspInv => StatusIsHonest
    <2> SUFFICES ASSUME LspInv, ~Disposed, ~crossed
                 PROVE  /\ status = "ready" => /\ {"connected", "initialized"} \subseteq flags
                                               /\ sock[current] \in {"open", "closing"}
                        /\ status = "dormant" => "dormant" \in flags /\ Live = {}
                        /\ status = "refused" => "refused" \in flags /\ Live = {}
      BY DEF StatusIsHonest, Disposed
    <2> USE DEF LspInv, Own
    <2>1. AllClosed => Live = {}
      BY DEF AllClosed, Live
    <2>2. ASSUME status = "ready"
          PROVE  /\ {"connected", "initialized"} \subseteq flags
                 /\ sock[current] \in {"open", "closing"}
      BY <2>2 DEF Told, OfMine, TypeOK, Live
    <2>3. status = "dormant" => "dormant" \in flags /\ Live = {}
      BY <2>1 DEF Told
    <2>4. status = "refused" => "refused" \in flags /\ Live = {}
      BY <2>1 DEF Told
    <2> QED BY <2>2, <2>3, <2>4
  <1> QED BY <1>1, LspInvHolds, PTL

-----------------------------------------------------------------------------
(* What makes the client put one socket beside another.                      *)

\* A client that is not disposed crosses its sockets only when one is about.
LEMMA ConnectsCross ==
    ASSUME LspInv, ~crossed, NEW f, NEW t, Connects(f, t), crossed'
    PROVE  ~AllClosed
  BY DEF Connects, Pending, AllClosed

\* It is the move that finds the client asleep, or the click during a probe.
LEMMA NextCrosses ==
    ASSUME LspInv, ~crossed, Next, crossed'
    PROVE  Asleep \/ sock[current] = "probing"
  <1>1. Own
    BY DEF LspInv
  <1>2. ASSUME NEW t, Wakes(t) PROVE Asleep
    BY <1>2 DEF Wakes
  <1>3. CASE \E s \in Sockets : SocketNext(s)
    BY <1>3 DEF SocketNext, Opens, InitializeEnds, Closes, ProbeEnds, Acquires
  <1>4. CASE Retries
    BY <1>1, <1>4, ConnectsCross DEF Retries, Own, RetryDue
  <1>5. CASE Attach
    BY <1>5, ConnectsCross DEF Attach, LspInv, Rooted
  <1>6. CASE EditSettles
    BY <1>2, <1>6 DEF EditSettles
  <1>7. CASE Moves
    BY <1>2, <1>7 DEF Moves
  <1>8. CASE Shows
    BY <1>2, <1>8 DEF Shows
  <1>9. CASE Reconnect
    <2>1. current \notin Live /\ ~AllClosed
      BY <1>9, ConnectsCross DEF Reconnect
    <2>2. PICK s \in Sockets : sock[s] # "closed" /\ s = current
      BY <1>1, <2>1 DEF Own, NoOther, AllClosed
    <2> QED BY <2>1, <2>2 DEF Live, LspInv, TypeOK, SocketStates
  <1>10. CASE Releases \/ Types \/ Hides \/ Dispose
    BY <1>10 DEF Releases, Types, Hides, Dispose, socketVars
  <1> QED BY <1>3, <1>4, <1>5, <1>6, <1>7, <1>8, <1>9, <1>10 DEF Next

\* In whatever order closes, retries, releases, clicks, hidings and wakings come,
\* a client that has one WebSocket puts another beside it only by waking from
\* flags that the first one outlived, or by a click while the proxy is asked.
THEOREM ClientCrossesOnlyStale == Spec => OnlyStaleFlagsCross
  <1>1. LspInv /\ [Next]_vars
          => [~crossed /\ crossed' => Asleep \/ sock[current] = "probing"]_vars
    BY NextCrosses
  <1> QED BY <1>1, LspInvHolds, PTL DEF Spec, OnlyStaleFlagsCross

-----------------------------------------------------------------------------
(* The text at the analyser.                                                 *)

SyncInv == LspInv /\ InSync

\* Nothing is to be in step with after a step that leaves the client not ready,
\* its socket on its way out, or one socket beside another.
LEMMA NotReadyKeeps ==
    ASSUME LspInv',
           status' # "ready" \/ Disposed' \/ sock'[current'] # "open"
    PROVE  SyncInv'
  <1>1. ~(status' = "ready" /\ sock'[current'] = "open" /\ ~crossed')
    <2> SUFFICES ASSUME status' = "ready", sock'[current'] = "open", ~crossed'
                 PROVE  FALSE
      OBVIOUS
    <2>1. Told' /\ Rooted'
      BY DEF LspInv, Own
    <2> QED BY <2>1 DEF Told, Mine, Rooted, Disposed
  <1> QED BY <1>1 DEF SyncInv, InSync

\* connect() leaves the client not ready, unless it is disposed.
LEMMA ConnectsIsNotReady ==
    ASSUME NEW f, NEW t, Connects(f, t) PROVE status' # "ready" \/ Disposed'
  BY DEF Connects, Disposed

\* A step that concerns no socket, after which the analyser has the text still,
\* or more of it is to be sent.
LEMMA TextKeeps ==
    ASSUME SyncInv, LspInv', UNCHANGED <<sock, current, status, crossed>>,
           \/ "edit" \in timers'
           \/ /\ fresh \subseteq fresh' /\ unheard \subseteq unheard'
              /\ ("edit" \in timers => "edit" \in timers')
           \/ ~crossed /\ status = "ready" /\ sock[current] = "open"
                => current \in fresh' \cup unheard'
    PROVE  SyncInv'
  BY DEF SyncInv, InSync

\* What is sent on an open socket is heard there, or goes unheard.
LEMMA SendsReach ==
    ASSUME LspInv, ~crossed, Sends, sock[current] = "open", current \in Sockets
    PROVE  current \in fresh' \cup unheard'
  BY DEF LspInv, Rooted, Sends, Delivered

\* A client becomes ready with the editor's text; while it is closing it is not.
LEMMA SocketKeepsInSync ==
    ASSUME SyncInv, LspInv', NEW s \in Sockets, SocketNext(s)
    PROVE  SyncInv'
  <1> USE DEF SyncInv
  <1>1. UNCHANGED <<current, crossed>>
    BY DEF SocketNext, Opens, InitializeEnds, Closes, ProbeEnds, Acquires
  <1>2. CASE crossed
    BY <1>1, <1>2 DEF InSync
  <1>3. CASE ~crossed
    <2>1. Own /\ TypeOK /\ Rooted
      BY <1>3 DEF LspInv
    <2>2. ASSUME sock[s] # "closed" PROVE s = current
      BY <2>1, <2>2 DEF Own, NoOther
    <2>3. CASE Opens(s)
      <3>1. status = "connecting" \/ Disposed
        BY <2>1, <2>2, <2>3 DEF Opens, Own, Told, OfMine, AllClosed
      <3>2. UNCHANGED status /\ (Disposed => Disposed')
        BY <2>3 DEF Opens, Disposed
      <3> QED BY <3>1, <3>2, NotReadyKeeps
    <2>4. CASE InitializeEnds(s)
      <3>1. s = current /\ sock[s] # "connecting"
        BY <2>1, <2>4 DEF InitializeEnds, Own, OfMine, TypeOK, Live
      <3>2. Sends /\ UNCHANGED <<sock, current>>
        BY <2>4, <3>1 DEF InitializeEnds
      <3>3. sock[s] = "open" => s \in fresh' \cup unheard'
        BY <1>3, <3>1, <3>2, SendsReach
      <3> QED BY <3>1, <3>2, <3>3 DEF InSync
    <2>5. CASE Closes(s)
      <3>1. s = current
        BY <2>2, <2>5 DEF Closes, Live
      <3>2. sock' \in {[sock EXCEPT ![s] = "closed"], [sock EXCEPT ![s] = "probing"]}
        BY <2>5 DEF Closes, Fails
      <3>3. sock'[s] # "open"
        BY <3>2, <2>1 DEF TypeOK
      <3> QED BY <1>1, <3>1, <3>3, NotReadyKeeps
    <2>6. CASE ProbeEnds(s)
      <3>1. s = current /\ sock' = [sock EXCEPT ![s] = "closed"]
        BY <2>2, <2>6 DEF ProbeEnds, Fails
      <3>2. sock'[s] # "open"
        BY <3>1, <2>1 DEF TypeOK
      <3> QED BY <1>1, <3>1, <3>2, NotReadyKeeps
    <2>7. CASE Acquires(s)
      BY <2>7, TextKeeps DEF Acquires
    <2> QED BY <2>3, <2>4, <2>5, <2>6, <2>7 DEF SocketNext
  <1> QED BY <1>2, <1>3

\* A page that wakes has a socket to wait for, and nothing to be in sync with yet.
LEMMA WakesIsNotReady ==
    ASSUME LspInv', NEW t, Wakes(t) PROVE SyncInv'
  BY ConnectsIsNotReady, NotReadyKeeps DEF Wakes

\* A socket that starts to close is not asked for anything.
LEMMA ClosingIsNotReady ==
    ASSUME LspInv, LspInv', current \in Live, sock' = Closing(current), UNCHANGED current
    PROVE  SyncInv'
  <1>1. sock'[current'] # "open"
    BY DEF Closing, Live, LspInv, TypeOK
  <1> QED BY <1>1, NotReadyKeeps

\* An edit that settles on a client that is ready is sent to the analyser.
LEMMA TimersKeepInSync ==
    ASSUME SyncInv, LspInv', Retries \/ Releases \/ EditSettles PROVE SyncInv'
  <1> USE DEF SyncInv
  <1>1. CASE Retries
    BY <1>1, ConnectsIsNotReady, NotReadyKeeps DEF Retries
  <1>2. CASE Releases /\ current \in Live
    BY <1>2, ClosingIsNotReady DEF Releases
  <1>3. CASE Releases /\ current \notin Live
    <2>1. /\ UNCHANGED <<sock, current, status, crossed, fresh, unheard>>
          /\ timers' = timers \ {"hidden"}
      BY <1>3 DEF Releases
    <2> QED BY <2>1, TextKeeps
  <1>4. CASE EditSettles /\ Asleep
    BY <1>4, WakesIsNotReady DEF EditSettles
  <1>5. CASE EditSettles /\ ~Asleep
    <2>1. /\ UNCHANGED <<sock, current, crossed, flags, status, serving>>
          /\ IF {"connected", "initialized"} \subseteq flags
             THEN Sends ELSE UNCHANGED <<fresh, unheard>>
      BY <1>5 DEF EditSettles, Wakes
    <2>2. ASSUME ~crossed, status = "ready", sock[current] = "open"
          PROVE  current \in fresh' \cup unheard'
      <3>1. Own /\ TypeOK /\ current \in Sockets
        BY <2>2 DEF LspInv, Own, Told, OfMine, TypeOK, Live, Disposed, Rooted
      <3>2. ~Disposed /\ {"connected", "initialized"} \subseteq flags
        BY <2>2, <3>1 DEF Own, Told, Mine
      <3> QED BY <2>1, <2>2, <3>1, <3>2, SendsReach
    <2> QED BY <2>1, <2>2, TextKeeps
  <1> QED BY <1>1, <1>2, <1>3, <1>4, <1>5

\* What the reader types is on its way until the debounce has ended.
LEMMA PageKeepsInSync ==
    ASSUME SyncInv, LspInv',
           Attach \/ Types \/ Moves \/ Reconnect \/ Hides \/ Shows \/ Dispose
    PROVE  SyncInv'
  <1> USE DEF SyncInv
  <1>1. CASE Attach
    BY <1>1, ConnectsIsNotReady, NotReadyKeeps DEF Attach
  <1>2. CASE Types
    BY <1>2, TextKeeps DEF Types, socketVars
  <1>3. CASE Moves
    BY <1>3, WakesIsNotReady DEF Moves
  <1>4. CASE Reconnect
    BY <1>4, ClosingIsNotReady, ConnectsIsNotReady, NotReadyKeeps DEF Reconnect
  <1>5. CASE Hides
    BY <1>5, TextKeeps DEF Hides, socketVars
  <1>6. CASE Shows
    <2>1. CASE Wakes(timers \ {"hidden"})
      BY <2>1, WakesIsNotReady
    <2>2. CASE UNCHANGED <<sock, current, status, crossed, fresh, unheard>> /\ timers' = timers \ {"hidden"}
      BY <2>2, TextKeeps
    <2> QED BY <1>6, <2>1, <2>2 DEF Shows
  <1>7. CASE Dispose
    <2>1. Disposed'
      BY <1>7 DEF Dispose, Disposed
    <2> QED BY <2>1, NotReadyKeeps
  <1> QED BY <1>1, <1>2, <1>3, <1>4, <1>5, <1>6, <1>7

\* A client that is ready, and whose reader has stopped typing, has had the
\* editor's text analysed, or sent it before the service listened; unless an
\* earlier socket was still about when it connected.
THEOREM ClientInSync == Spec => []InSync
  <1>1. Init => SyncInv
    BY InitHasLspInv DEF SyncInv, InSync, Init
  <1>2. SyncInv /\ [Next]_vars => SyncInv'
    <2> SUFFICES ASSUME SyncInv, [Next]_vars PROVE SyncInv'
      OBVIOUS
    <2>1. LspInv'
      BY NextKeepsLspInv DEF SyncInv
    <2>2. CASE UNCHANGED vars
      BY <2>1, <2>2, TextKeeps DEF vars, socketVars
    <2> QED BY <2>1, <2>2, SocketKeepsInSync, TimersKeepInSync, PageKeepsInSync DEF Next
  <1>3. SyncInv => InSync
    BY DEF SyncInv
  <1> QED BY <1>1, <1>2, <1>3, PTL DEF Spec
=============================================================================
