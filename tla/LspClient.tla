------------------------------ MODULE LspClient ------------------------------
(***************************************************************************)
(* web/wwwroot/lsp.js: the editor's client of the analyse service, with    *)
(* what playground.js, main.js and the reader do to it, and as much of the *)
(* service as it can see: a socket that opens, an analyser acquired for it *)
(* some time later, a close with a reason.                                 *)
(*                                                                         *)
(* The reader, timers, the network and the service all act on the client   *)
(* through callbacks; each is an action.  Every WebSocket made has its own *)
(* handlers and lives on when the client has replaced it.  A name in       *)
(* Sockets is used again once its close has been handled.  How long the    *)
(* client backs off is left out: a timer fires at any time.                *)
(***************************************************************************)
EXTENDS FiniteSets

CONSTANTS Sockets, NoSocket

ASSUME SocketsAssumption == NoSocket \notin Sockets

VARIABLES
    sock,    \* the state of each WebSocket: see SocketStates
    opened,  \* the sockets that got as far as opening
    serving, \* those the service has a session for
    fresh,   \* those whose session has the text now in the editor
    asking,  \* those an initialize request is outstanding on
    current, \* this.socket
    flags,   \* the client's booleans: those that are true
    timers,  \* retryTimer, hiddenTimer and the editor's debounce: those set
    hidden,  \* document.hidden
    status,  \* what the reader was last told
    unheard, \* the sockets on which the text was last sent to nobody
    crossed  \* when connect() last ran, an earlier socket was not done with

socketVars == <<sock, opened, serving, asking, current, unheard, crossed>>
vars == <<socketVars, fresh, flags, timers, hidden, status>>

\* "closing" until its close event; "probing" while its close handler awaits
\* overLimit(); "closed" also before it is made.
SocketStates == {"closed", "connecting", "open", "closing", "probing"}
Flags == {"connected", "initialized", "dormant", "releasing", "refused", "disposed"}
Timers == {"retry", "hidden", "edit"}
Statuses == {"new", "connecting", "ready", "dormant", "refused", "disconnected"}

\* readyState is not CLOSED.
Live == {s \in Sockets : sock[s] \in {"connecting", "open", "closing"}}

\* A close event, or the rest of its handler, is still to come.
Pending == {s \in Sockets : sock[s] # "closed"}

Closing(s) == [sock EXCEPT ![s] = "closing"]

-----------------------------------------------------------------------------
(* What the callbacks call.  `f' and `t' are the flags and timers so far.  *)

\* Broken: a page out of sight connects like any other.
ConnectsUnseen(f, t) ==
    \E s \in Sockets :
       /\ sock[s] = "closed"
       /\ sock' = [sock EXCEPT ![s] = "connecting"] /\ current' = s
       /\ crossed' = (Pending # {})
       /\ flags' = f /\ timers' = t \ {"retry"} /\ status' = "connecting"

\* Broken: the timer of a retry goes on when something else has connected.
ConnectsWithRetryDue(f, t) ==
    \/ /\ "disposed" \notin f /\ ~hidden'
       /\ \E s \in Sockets :
             /\ sock[s] = "closed"
             /\ sock' = [sock EXCEPT ![s] = "connecting"] /\ current' = s
       /\ crossed' = (Pending # {})
       /\ flags' = f /\ timers' = t /\ status' = "connecting"
    \/ /\ "disposed" \in f \/ hidden'
       /\ flags' = IF "disposed" \in f THEN f ELSE (f \cup {"dormant"}) \ {"refused"}
       /\ timers' = t /\ status' = IF "disposed" \in f THEN status ELSE "dormant"
       /\ UNCHANGED <<sock, current, crossed>>

\* connect().  The WebSocket constructor throws when the token cannot be part
\* of a subprotocol.
Connects(f, t) ==
    \/ /\ "disposed" \in f
       /\ flags' = f /\ timers' = t
       /\ UNCHANGED <<sock, current, crossed, status>>
    \/ /\ "disposed" \notin f /\ hidden'
       /\ flags' = (f \cup {"dormant"}) \ {"refused"} /\ timers' = t
       /\ status' = "dormant" /\ crossed' = (Pending # {})
       /\ UNCHANGED <<sock, current>>
    \/ /\ "disposed" \notin f /\ ~hidden'
       /\ flags' = f /\ status' = "connecting"
       /\ \/ \E s \in Sockets :
                /\ sock[s] = "closed"
                /\ sock' = [sock EXCEPT ![s] = "connecting"] /\ current' = s
                /\ timers' = t \ {"retry"}
          \/ /\ timers' = t \cup {"retry"}
             /\ UNCHANGED <<sock, current>>
       /\ crossed' = (Pending # {})

Asleep == flags \cap {"dormant", "refused"} # {}

\* wake(), when there is something to wake from.
Wakes(t) == Asleep /\ Connects(flags \ {"dormant", "refused"}, t)

\* The session gets the editor's text, if there is one to get it.
Delivered == {s \in {current} \cap serving : sock[s] = "open"}

\* What is sent before the service listens, or when it no longer does, is lost.
Sends ==
    /\ fresh' = fresh \cup Delivered
    /\ unheard' = (unheard \cup ({current} \cap opened)) \ Delivered

-----------------------------------------------------------------------------
(* The sockets' events.                                                    *)

\* 'open', and initialize() up to its await.  The request goes to this.socket,
\* and send() throws if that one is still connecting.
Opens(s) ==
    /\ sock[s] = "connecting"
    /\ sock' = [sock EXCEPT ![s] = "open"]
    /\ opened' = opened \cup {s}
    /\ flags' = (flags \ {"refused"}) \cup {"connected"}
    /\ asking' = IF sock'[current] = "connecting" THEN asking ELSE asking \cup {current}
    /\ UNCHANGED <<serving, fresh, current, unheard, crossed, timers, hidden, status>>

\* The answer to initialize, or ten seconds without one, which come to the
\* same.  The text is sent with didOpen, heard or not.
InitializeEnds(s) ==
    /\ s \in asking
    /\ asking' = asking \ {s}
    /\ IF sock[current] = "connecting"
       THEN UNCHANGED <<flags, status, fresh, unheard>>
       ELSE /\ flags' = flags \cup {"initialized"}
            /\ status' = "ready"
            /\ Sends
    /\ UNCHANGED <<sock, opened, serving, current, crossed, timers, hidden>>

\* The reasons the service can give; the others are treated alike.
Reasons(s) ==
    IF sock[s] = "connecting" THEN {"other"}
    ELSE IF s \in serving THEN {"idle", "evicted", "other"}
    ELSE {"address limit", "other"}

\* Broken: a failure that is not retried.
FailsForGood(s, f, over) ==
    /\ flags' = IF over THEN f \cup {"refused"} ELSE f \ {"refused"}
    /\ sock' = [sock EXCEPT ![s] = "closed"]
    /\ status' = "disconnected"
    /\ UNCHANGED timers

\* Broken: only a client that never was ready is reported to have failed.
FailsUnreported(s, f, over) ==
    /\ flags' = IF over THEN f \cup {"refused"} ELSE f \ {"refused"}
    /\ sock' = [sock EXCEPT ![s] = "closed"]
    /\ timers' = timers \cup {"retry"}
    /\ status' = IF status = "ready" THEN status ELSE "disconnected"

\* The end of the close handler, for a close that is not going dormant.
Fails(s, f, over) ==
    /\ flags' = IF over THEN f \cup {"refused"} ELSE f \ {"refused"}
    /\ sock' = [sock EXCEPT ![s] = "closed"]
    /\ IF "disposed" \in f \/ current # s
       THEN UNCHANGED <<timers, status>>
       ELSE /\ timers' = timers \cup {"retry"}
            /\ status' = IF over THEN "refused" ELSE "disconnected"

\* The client's close handler, up to its await if it comes to one.  Every
\* request outstanding is resolved with null, whichever socket it went to.
Closes(s) ==
    LET f == flags \ {"connected", "initialized", "releasing", "dormant"}
    IN  /\ s \in Live
        /\ \E reason \in Reasons(s) :
             IF "releasing" \in flags \/ reason \in {"idle", "evicted"}
             THEN /\ flags' = f \cup {"dormant"} /\ status' = "dormant"
                  /\ sock' = [sock EXCEPT ![s] = "closed"]
                  /\ UNCHANGED timers
             ELSE IF s \notin opened
             THEN /\ flags' = f
                  /\ sock' = [sock EXCEPT ![s] = "probing"]
                  /\ UNCHANGED <<timers, status>>
             ELSE Fails(s, f, reason = "address limit")
        /\ asking' = {}
        /\ opened' = opened \ {s} /\ serving' = serving \ {s} /\ fresh' = fresh \ {s}
        /\ unheard' = unheard \ {s}
        /\ UNCHANGED <<current, crossed, hidden>>

\* overLimit() answers, and the rest of the close handler runs.
ProbeEnds(s) ==
    /\ sock[s] = "probing"
    /\ \E over \in BOOLEAN : Fails(s, flags, over)
    /\ UNCHANGED <<opened, serving, fresh, asking, current, unheard, crossed, hidden>>

\* The service has found an analyser, and listens to the socket from now on.
Acquires(s) ==
    /\ sock[s] = "open" /\ s \notin serving
    /\ serving' = serving \cup {s}
    /\ UNCHANGED <<sock, opened, fresh, asking, current, unheard, crossed,
                   flags, timers, hidden, status>>

-----------------------------------------------------------------------------
(* The timers.                                                             *)

Retries ==
    /\ "retry" \in timers
    /\ UNCHANGED <<opened, serving, fresh, asking, unheard, hidden>>
    /\ Connects(flags, timers \ {"retry"})

\* release(), thirty seconds after the page went out of sight.
Releases ==
    /\ "hidden" \in timers
    /\ IF current \in Live
       THEN /\ flags' = flags \cup {"releasing"}
            /\ timers' = timers \ {"hidden", "retry"}
            /\ sock' = Closing(current)
       ELSE timers' = timers \ {"hidden"} /\ UNCHANGED <<flags, sock>>
    /\ UNCHANGED <<opened, serving, fresh, asking, current, unheard, crossed, hidden, status>>

\* Broken: nothing is sent to a session that is ready.
EditSettlesUnsent ==
    /\ "edit" \in timers
    /\ UNCHANGED <<opened, serving, asking, fresh, unheard, hidden>>
    /\ \/ Wakes(timers \ {"edit"})
       \/ ~Asleep /\ timers' = timers \ {"edit"}
          /\ UNCHANGED <<sock, current, crossed, flags, status>>

\* The debounce ends, whatever the client is at: changed().
EditSettles ==
    /\ "edit" \in timers
    /\ UNCHANGED <<opened, serving, asking, hidden>>
    /\ \/ Wakes(timers \ {"edit"}) /\ UNCHANGED <<fresh, unheard>>
       \/ /\ ~Asleep
          /\ IF {"connected", "initialized"} \subseteq flags
             THEN Sends ELSE UNCHANGED <<fresh, unheard>>
          /\ timers' = timers \ {"edit"}
          /\ UNCHANGED <<sock, current, crossed, flags, status>>

-----------------------------------------------------------------------------
(* The page and its reader.                                                *)

Attach ==
    /\ status = "new"
    /\ UNCHANGED <<opened, serving, fresh, asking, unheard, hidden>>
    /\ Connects(flags, timers)

\* Whether a reader would do anything now.
Acts == status # "new" /\ "disposed" \notin flags

Types ==
    /\ Acts
    /\ fresh' = {} /\ timers' = timers \cup {"edit"}
    /\ UNCHANGED <<socketVars, flags, hidden, status>>

\* The cursor moves or the editor is focused: wake().
Moves ==
    /\ Acts /\ ~hidden
    /\ UNCHANGED <<opened, serving, fresh, asking, unheard, hidden>>
    /\ Wakes(timers)

\* The indicator is clicked, whatever it says, or a token entered.  What the
\* client was asleep for is still set when it connects.
Reconnect ==
    /\ Acts /\ ~hidden
    /\ UNCHANGED <<opened, serving, fresh, asking, unheard, hidden>>
    /\ IF current \in Live
       THEN sock' = Closing(current) /\ UNCHANGED <<current, crossed, flags, timers, status>>
       ELSE Connects(flags, timers)

Hides ==
    /\ ~hidden /\ "disposed" \notin flags
    /\ hidden' = TRUE
    /\ timers' = timers \cup {"hidden"}
    /\ UNCHANGED <<socketVars, fresh, flags, status>>

Shows ==
    /\ hidden /\ Acts
    /\ hidden' = FALSE
    /\ \/ Wakes(timers \ {"hidden"})
       \/ /\ ~Asleep /\ timers' = timers \ {"hidden"}
          /\ UNCHANGED <<sock, current, crossed, flags, status>>
    /\ UNCHANGED <<opened, serving, fresh, asking, unheard>>

\* The REPL starts a new session, or an embedded editor is taken away.
Dispose ==
    /\ "disposed" \notin flags
    /\ flags' = flags \cup {"disposed"}
    /\ timers' = timers \ {"retry", "hidden"}
    /\ sock' = IF current \in Live THEN Closing(current) ELSE sock
    /\ UNCHANGED <<opened, serving, fresh, asking, current, unheard, crossed, hidden, status>>

-----------------------------------------------------------------------------
Init ==
    /\ sock = [s \in Sockets |-> "closed"]
    /\ opened = {} /\ serving = {} /\ fresh = {} /\ asking = {}
    /\ current = NoSocket /\ flags = {} /\ timers = {}
    /\ hidden \in BOOLEAN /\ status = "new"
    /\ unheard = {} /\ crossed = FALSE

SocketNext(s) == Opens(s) \/ InitializeEnds(s) \/ Closes(s) \/ ProbeEnds(s) \/ Acquires(s)

Next ==
    \/ \E s \in Sockets : SocketNext(s)
    \/ Retries \/ Releases \/ EditSettles
    \/ Attach \/ Types \/ Moves \/ Reconnect \/ Hides \/ Shows \/ Dispose

Spec == Init /\ [][Next]_vars

\* Timers fire, a socket being closed closes, one that connects opens or fails,
\* and a fetch ends.  The service and the reader owe nothing more.
Fairness ==
    /\ WF_vars(Retries) /\ WF_vars(Releases)
    /\ \A s \in Sockets :
          /\ WF_vars(sock[s] \in {"connecting", "closing"} /\ (Opens(s) \/ Closes(s)))
          /\ WF_vars(ProbeEnds(s))

FairSpec == Spec /\ Fairness

-----------------------------------------------------------------------------
(* Properties.                                                             *)

\* The type of every variable; a request is outstanding only while connected.
TypeOK ==
    /\ sock \in [Sockets -> SocketStates]
    /\ fresh \subseteq serving /\ serving \subseteq opened /\ opened \subseteq Live
    /\ unheard \subseteq opened /\ crossed \in BOOLEAN
    /\ current \in Sockets \cup {NoSocket}
    /\ asking \subseteq Sockets /\ (asking # {} => "connected" \in flags)
    /\ flags \subseteq Flags /\ timers \subseteq Timers
    /\ hidden \in BOOLEAN /\ status \in Statuses

\* "Each editor gets one WebSocket" (docs/design.md:76), except for two things
\* an earlier socket leaves behind: `dormant` or `refused`, still set beside the
\* socket that a click or a retry made, which the next move takes for sleep; and
\* a handshake the proxy is being asked about.  Nothing else, a retry, a page
\* shown again, a close or a click, connects beside a socket.
OnlyStaleFlagsCross ==
    [][~crossed /\ crossed' => Asleep \/ sock[current] = "probing"]_vars

\* The client never gives up in silence: without a socket it has a retry due,
\* or sleeps in a way that "the next thing the reader does wakes" (lsp.js:82),
\* unless an earlier socket was still about when it made the present one.
ComesBack ==
    status # "new" /\ "disposed" \notin flags /\ ~crossed =>
        \/ current \in Live \/ (current # NoSocket /\ sock[current] = "probing")
        \/ "retry" \in timers \/ Asleep

\* What the reader is told is so: ready while the analyser is there to be asked,
\* dormant and refused only when the next move will try again; unless an earlier
\* socket was still about when the client made the present one.
StatusIsHonest ==
    "disposed" \notin flags /\ ~crossed =>
        /\ status = "ready" => /\ {"connected", "initialized"} \subseteq flags
                               /\ sock[current] \in {"open", "closing"}
        /\ status = "dormant" => "dormant" \in flags /\ Live = {}
        /\ status = "refused" => "refused" \in flags /\ Live = {}

\* "Every reconnect therefore re-initializes and re-opens the document"
\* (lsp.js:7): once the client is ready and the typing has stopped, the text
\* being analysed is the text in the editor, whatever was typed while the
\* socket was opening, closing or away and whenever the debounce ended; unless
\* the service took longer than the client waits for its answer, in which case
\* the next edit mends it, or an earlier socket was still about.
InSync ==
    status = "ready" /\ "edit" \notin timers /\ sock[current] = "open" /\ ~crossed
        => current \in fresh \cup unheard

\* A page left out of sight gives its session back, and takes no other
\* (lsp.js:33-36 and 154-156), whatever it was waiting for when it was hidden,
\* unless it has put one socket beside another.
HiddenHoldsNothing == <>[]hidden => <>[](crossed \/ Live = {})
=============================================================================
