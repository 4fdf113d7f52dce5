------------------------------ MODULE Session ------------------------------
(***************************************************************************)
(* The life of one account's session: the goroutines that run Connect,     *)
(* Close, connectionLost, SendPing and connection() over the two fields    *)
(* connStatus (under its own lock) and conn (under none), the goroutine    *)
(* that watches the stanzas of each connection, and those that reconnect.  *)
(*                                                                         *)
(* A connection is what policy.Connect returns; module Conn shows that its *)
(* Close ends, so here closing one is a single step that may come late.    *)
(***************************************************************************)
EXTENDS Naturals, FiniteSets

CONSTANTS
    Conns,     \* connections that dialing may establish; each is also the
               \* identity of the watchStanzas goroutine Connect starts for it
    Dialers,   \* goroutines running Connect
    Closers,   \* goroutines running Close at the user's request
    Pingers,   \* goroutines running SendPing ("Check Connection")
    Callers,   \* goroutines that fetch the connection to use it
    Checker,   \* the goroutine running checkReconnect
    NoConn     \* nil

Procs == Conns \cup Dialers \cup Closers \cup Pingers \cup Callers \cup {Checker}

ASSUME SessionAssumption ==
    /\ NoConn \notin Procs
    /\ Dialers \cap (Conns \cup Closers \cup Pingers \cup Callers) = {}
    /\ Closers \cap (Conns \cup Pingers \cup Callers) = {}
    /\ Pingers \cap (Conns \cup Callers) = {} /\ Callers \cap Conns = {}
    /\ Checker \notin Conns \cup Dialers \cup Closers \cup Pingers \cup Callers

VARIABLES
    status,    \* s.connStatus
    conn,      \* s.conn
    want,      \* s.wantToBeOnline
    calm,      \* history: the calls of Connect, Close, SendPing and connection()
               \* have not overlapped so far, and no ping has timed out
    link,      \* each connection: "unused", "open", "lost" by the network, "closed"
    pc,        \* control state of every goroutine
    held,      \* the connection in a goroutine's local variable
    curious,   \* connections whose features are still to be asked for, by a
               \* goroutine that Connect left behind
    shown,     \* the status that the account's menu was last made to fit
    panicked,  \* a nil connection was used
    cleared    \* history: a Close has set s.conn to nil

aside == <<curious, shown, cleared>>
vars == <<status, conn, want, calm, link, pc, held, panicked, aside>>

Disconnected == "DISCONNECTED"
Connecting   == "CONNECTING"
Connected    == "CONNECTED"

DialPC  == {"connect", "setting", "dialing", "failed", "dialed", "assign",
            "online", "resource", "reject", "rejectClose", "rejectHangup"}
ClosePC == {"close", "capture", "offline", "hangup", "clear"}
WatchPC == {"spawned", "watching", "ended", "sleeping", "gone"}

TypeOK ==
    /\ status \in {Disconnected, Connecting, Connected}
    /\ conn \in Conns \cup {NoConn}
    /\ want \in BOOLEAN /\ calm \in BOOLEAN
    /\ panicked \in BOOLEAN /\ cleared \in BOOLEAN
    /\ curious \subseteq Conns \cup {NoConn}
    /\ shown \in {Disconnected, Connecting, Connected}
    /\ link \in [Conns -> {"unused", "open", "lost", "closed"}]
    /\ pc \in [Procs -> {"idle", "asking", "ping", "pinging", "called", "ok", "dead"}
                          \cup DialPC \cup ClosePC \cup WatchPC]
    /\ held \in [Procs -> Conns \cup {NoConn}]

Init ==
    /\ status = Disconnected /\ conn = NoConn
    /\ want = FALSE /\ calm = TRUE /\ panicked = FALSE /\ cleared = FALSE
    /\ curious = {} /\ shown = Disconnected
    /\ link = [k \in Conns |-> "unused"]
    /\ pc = [p \in Procs |-> "idle"]
    /\ held = [p \in Procs |-> NoConn]

\* An unrecovered panic in one goroutine ends the process.
Step(p, from, to) == ~panicked /\ pc[p] = from /\ pc' = [pc EXCEPT ![p] = to]
Hold(p, k) == held' = [held EXCEPT ![p] = k]

\* Connect, Close, SendPing, connection() or the start of a watcher is under
\* way in p.
Busy(p) ==
    \/ pc[p] \in (DialPC \ {"connect"}) \cup (ClosePC \ {"close"})
                    \cup {"spawned", "ping", "pinging", "called", "ok", "dead"}
    \/ p \in Conns /\ pc[p] = "close"

Overlap(p) == \E q \in Procs \ {p} : Busy(q)

\* A call that begins in p, and remembers whether it has the session for itself.
Enter(p, from, to) == Step(p, from, to) /\ calm' = (calm /\ ~Overlap(p))

-----------------------------------------------------------------------------
(* Who asks for a connection: the user, checkReconnect, and the user       *)
(* interface some seconds after it was told of a lost connection.          *)

\* account.Connect: SetWantToBeOnline(true), then a goroutine runs Connect.
Ask(d) ==
    /\ d \in Dialers
    /\ Step(d, "idle", "connect")
    /\ want' = TRUE

UserConnects(d) ==
    /\ Ask(d)
    /\ UNCHANGED <<status, conn, calm, link, held, panicked, aside>>

CheckReconnect ==
    /\ Step(Checker, "idle", "asking")
    /\ status = Disconnected /\ want
    /\ UNCHANGED <<status, conn, want, calm, link, held, panicked, aside>>

\* The connector's Connect, called by checkReconnect or, after its random
\* delay, by connectWithRandomDelay on behalf of the watcher of k.
Reconnect(p, d) ==
    /\ ~panicked /\ d \in Dialers /\ pc[d] = "idle"
    /\ \/ p = Checker /\ pc[p] = "asking"
          /\ pc' = [pc EXCEPT ![p] = "idle", ![d] = "connect"]
       \/ p \in Conns /\ pc[p] = "sleeping"
          /\ pc' = [pc EXCEPT ![p] = "gone", ![d] = "connect"]
    /\ want' = TRUE
    /\ UNCHANGED <<status, conn, calm, link, held, panicked, aside>>

\* account.disconnect: SetWantToBeOnline(false), then a goroutine runs Close.
\* The menu, and the removal of an account, whatever the status is by then.
UserDisconnects(c) ==
    /\ c \in Closers
    /\ Step(c, "idle", "close")
    /\ want' = FALSE
    /\ UNCHANGED <<status, conn, calm, link, held, panicked, aside>>

-----------------------------------------------------------------------------
(* Connect.                                                                *)

ConnectStart(d) ==
    /\ d \in Dialers
    /\ Enter(d, "connect", IF status = Disconnected THEN "setting" ELSE "idle")
    /\ UNCHANGED <<status, conn, want, link, held, panicked, aside>>

Announce == status' = Connecting

SetConnecting(d) ==
    /\ Step(d, "setting", "dialing")
    /\ Announce
    /\ UNCHANGED <<conn, want, calm, link, held, panicked, aside>>

DialSucceeds(d, k) ==
    /\ link[k] = "unused"
    /\ Step(d, "dialing", "dialed")
    /\ link' = [link EXCEPT ![k] = "open"]
    /\ Hold(d, k)
    /\ UNCHANGED <<status, conn, want, calm, panicked, aside>>

DialFails(d) ==
    /\ Step(d, "dialing", "failed")
    /\ UNCHANGED <<status, conn, want, calm, link, held, panicked, aside>>

KeepStatus == UNCHANGED status                 \* mutant: stays CONNECTING
GiveUp == status' = Disconnected

SetFailed(d) ==
    /\ Step(d, "failed", "idle")
    /\ GiveUp
    /\ UNCHANGED <<conn, want, calm, link, held, panicked, aside>>

\* Connect proceeds only if nobody closed the session while it dialed.
CheckConnecting(d) ==
    /\ Step(d, "dialed", IF status = Connecting THEN "assign" ELSE "reject")
    /\ UNCHANGED <<status, conn, want, calm, link, held, panicked, aside>>

NotStored(d) == UNCHANGED conn                 \* mutant: s.conn not assigned
Store(d) == conn' = held[d]

AssignConn(d) ==
    /\ Step(d, "assign", "online")
    /\ Store(d)
    /\ UNCHANGED <<status, want, calm, link, held, panicked, aside>>

SetConnected(d) ==
    /\ Step(d, "online", "resource")
    /\ status' = Connected
    /\ UNCHANGED <<conn, want, calm, link, held, panicked, aside>>

\* s.resource = s.conn.GetJIDResource(), then the goroutines are started: the
\* watcher, one that asks for features, and those that use connection().
StartWatching(d) ==
    /\ ~panicked /\ pc[d] = "resource"
    /\ IF conn = NoConn
       THEN panicked' = TRUE /\ UNCHANGED <<pc, held, curious>>
       ELSE /\ pc' = [pc EXCEPT ![d] = "idle", ![held[d]] = "spawned"]
            /\ Hold(d, NoConn)
            /\ curious' = curious \cup {held[d]}
            /\ UNCHANGED panicked
    /\ UNCHANGED <<status, conn, want, calm, link, shown, cleared>>

\* s.conn.ServerHasFeature: the goroutine finds in s.conn what is there when it
\* runs, and asks the server if it is a connection.
AskFeatures(k) ==
    /\ ~panicked /\ k \in curious
    /\ curious' = curious \ {k}
    /\ panicked' = (conn = NoConn)
    /\ UNCHANGED <<status, conn, want, calm, link, pc, held, shown, cleared>>

\* The else branch: if s.conn != nil { s.conn.Close() }.
RejectCheck(d) ==
    /\ Step(d, "reject", IF conn = NoConn THEN "idle" ELSE "rejectClose")
    /\ Hold(d, NoConn)
    /\ UNCHANGED <<status, conn, want, calm, link, panicked, aside>>

RejectClose(d) ==
    /\ Step(d, "rejectClose", "rejectHangup")
    /\ Hold(d, conn)
    /\ panicked' = (conn = NoConn)
    /\ UNCHANGED <<status, conn, want, calm, link, aside>>

RejectHangup(d) ==
    /\ Step(d, "rejectHangup", "idle")
    /\ link' = [link EXCEPT ![held[d]] = "closed"]
    /\ Hold(d, NoConn)
    /\ UNCHANGED <<status, conn, want, calm, panicked, aside>>

ConnectStep(d) ==
    \/ ConnectStart(d) \/ SetConnecting(d) \/ DialFails(d) \/ SetFailed(d)
    \/ (\E k \in Conns : DialSucceeds(d, k))
    \/ CheckConnecting(d) \/ AssignConn(d) \/ SetConnected(d) \/ StartWatching(d)
    \/ RejectCheck(d) \/ RejectClose(d) \/ RejectHangup(d)

-----------------------------------------------------------------------------
(* Close, by a goroutine of the user's or by a watcher's connectionLost.   *)

\* A watcher that returns from Close publishes ConnectionLost, on which the
\* user interface starts connectWithRandomDelay.
Returned(p) == IF p \in Conns THEN "sleeping" ELSE "idle"

CloseCheck(p) ==
    /\ Enter(p, "close", IF status = Disconnected THEN Returned(p) ELSE "capture")
    /\ UNCHANGED <<status, conn, want, link, held, panicked, aside>>

CloseCapture(p) ==
    /\ Step(p, "capture", "offline")
    /\ Hold(p, conn)
    /\ UNCHANGED <<status, conn, want, calm, link, panicked, aside>>

SetDisconnected(p) ==
    /\ Step(p, "offline", IF held[p] = NoConn THEN Returned(p) ELSE "hangup")
    /\ status' = Disconnected
    /\ UNCHANGED <<conn, want, calm, link, held, panicked, aside>>

LeaveOpen(p) == UNCHANGED link                 \* mutant: conn.Close() missing
CloseLink(p) == link' = [link EXCEPT ![held[p]] = "closed"]

HangUp(p) ==
    /\ Step(p, "hangup", "clear")
    /\ CloseLink(p)
    /\ UNCHANGED <<status, conn, want, calm, held, panicked, aside>>

ClearConn(p) ==
    /\ Step(p, "clear", Returned(p))
    /\ conn' = NoConn /\ Hold(p, NoConn)
    /\ cleared' = TRUE
    /\ UNCHANGED <<status, want, calm, link, panicked, curious, shown>>

CloseStep(p) ==
    CloseCheck(p) \/ CloseCapture(p) \/ SetDisconnected(p) \/ HangUp(p) \/ ClearConn(p)

-----------------------------------------------------------------------------
(* watchStanzas of the connection k.                                       *)

\* The goroutine running ReadStanzas takes the connection from s.conn.
StartReading(k) ==
    /\ Step(k, "spawned", "watching")
    /\ Hold(k, conn)
    /\ panicked' = (conn = NoConn)
    /\ UNCHANGED <<status, conn, want, calm, link, aside>>

\* The stanza channel is closed when the connection ends; a stream error from
\* the server ends the loop while the connection is still open.
StopWatching(k) ==
    /\ Step(k, "watching", "ended")
    /\ UNCHANGED <<status, conn, want, calm, link, held, panicked, aside>>

Forget(k) == Enter(k, "ended", "gone")         \* mutant: no connectionLost
Lost(k) == Enter(k, "ended", IF status = Disconnected THEN "gone" ELSE "close")

ConnectionLost(k) ==
    /\ Lost(k)
    /\ Hold(k, NoConn)
    /\ UNCHANGED <<status, conn, want, link, panicked, aside>>

WatchStep(k) == StartReading(k) \/ StopWatching(k) \/ ConnectionLost(k)

-----------------------------------------------------------------------------
(* SendPing, and every user of connection().                               *)

\* An event of each change of the status makes the menu fit it, in its turn on
\* the interface's thread.
RefreshMenu ==
    /\ ~panicked /\ shown # status
    /\ shown' = status
    /\ UNCHANGED <<status, conn, want, calm, link, pc, held, panicked, curious, cleared>>

\* The menu item is enabled while the menu shows a connected account.
CheckConnection(p) ==
    /\ p \in Pingers /\ shown = Connected
    /\ Enter(p, "idle", "ping")
    /\ UNCHANGED <<status, conn, want, link, held, panicked, aside>>

SendPing(p) ==
    /\ Step(p, "ping", "pinging")
    /\ panicked' = (conn = NoConn)
    /\ UNCHANGED <<status, conn, want, calm, link, held, aside>>

PingEnds(p) ==
    /\ Step(p, "pinging", "idle")
    /\ \/ UNCHANGED <<status, calm>>             \* answered, failed or cancelled
       \/ status' = Disconnected /\ calm' = FALSE           \* timed out
    /\ UNCHANGED <<conn, want, link, held, panicked, aside>>

\* return s.conn, s.getConnStatus() == CONNECTED: Go leaves open whether the
\* field is read before the call or after it.
ReadConnFirst(p) ==
    /\ p \in Callers
    /\ Enter(p, "idle", "called")
    /\ Hold(p, conn)
    /\ UNCHANGED <<status, conn, want, link, panicked, aside>>

ReadStatusFirst(p) ==
    /\ p \in Callers /\ status = Connected
    /\ Enter(p, "idle", "ok")
    /\ UNCHANGED <<status, conn, want, link, held, panicked, aside>>

UseConnection(p) ==
    /\ \/ pc[p] = "called"
          /\ panicked' = (status = Connected /\ held[p] = NoConn)
       \/ pc[p] = "ok"
          /\ panicked' = (conn = NoConn)
    /\ Step(p, pc[p], IF panicked' THEN "dead" ELSE "idle")
    /\ Hold(p, NoConn)
    /\ UNCHANGED <<status, conn, want, calm, link, aside>>

UserStep(p) == CheckConnection(p) \/ SendPing(p) \/ PingEnds(p)
                   \/ ReadConnFirst(p) \/ ReadStatusFirst(p) \/ UseConnection(p)

-----------------------------------------------------------------------------
LoseNetwork(k) ==
    /\ ~panicked /\ link[k] = "open"
    /\ link' = [link EXCEPT ![k] = "lost"]
    /\ UNCHANGED <<status, conn, want, calm, pc, held, panicked, aside>>

Next ==
    \/ \E d \in Dialers : UserConnects(d) \/ ConnectStep(d)
                              \/ \E p \in Conns \cup {Checker} : Reconnect(p, d)
    \/ CheckReconnect
    \/ \E c \in Closers : UserDisconnects(c)
    \/ \E p \in Closers \cup Conns : CloseStep(p)
    \/ \E k \in Conns : WatchStep(k) \/ LoseNetwork(k) \/ AskFeatures(k)
    \/ RefreshMenu
    \/ \E p \in Pingers \cup Callers : UserStep(p)

Spec == Init /\ [][Next]_vars

\* Goroutines that can run do, and closing a connection comes to an end.  A dial
\* need not: the negotiation of a stream waits for the server without a timer.
\* A reader of a live connection need not stop: only a dead one makes it.
DialerRuns(d) == ConnectStep(d) /\ pc[d] # "dialing"
WatcherEnds(k) == StopWatching(k) /\ link[held[k]] \in {"lost", "closed"}

Fairness ==
    /\ \A d \in Dialers : WF_vars(DialerRuns(d))
    /\ \A p \in Closers \cup Conns : WF_vars(CloseStep(p))
    /\ \A k \in Conns : WF_vars(StartReading(k) \/ WatcherEnds(k) \/ ConnectionLost(k))

FairSpec == Spec /\ Fairness

-----------------------------------------------------------------------------
(* What holds of every interleaving.                                       *)

\* The session is CONNECTING only while some Connect is between its two status
\* changes: no interleaving of Connect, Close, connectionLost and SendPing
\* leaves it CONNECTING with nobody to end that.
ConnectingHasDialer ==
    status = Connecting =>
        \E d \in Dialers : pc[d] \in {"dialing", "failed", "dialed", "assign", "online"}

DialPending == \E d \in Dialers : pc[d] = "dialing"

\* Once no dial is pending, setStatus(CONNECTING) is followed by another status
\* or another dial.
ConnectingEnds ==
    (status = Connecting /\ ~DialPending)
        ~> (status # Connecting \/ DialPending \/ panicked)

\* Once every connection ever made is dead the session does not stay CONNECTED,
\* whichever of them s.conn, its watchers and its readers were left with.
DeadIsNoticed ==
    (status = Connected /\ \A k \in Conns : link[k] \in {"lost", "closed"})
        ~> (status # Connected \/ panicked)

\* A nil connection is used only after a Close has set s.conn to nil, except by
\* a user of connection() that read the field before the first connection was
\* stored and the status after it.  As long as the calls have not overlapped,
\* the session is no longer connected by then: it is used by what Connect left
\* behind or by a ping from a menu that has not caught up, and never by Connect,
\* by a watcher that starts or by a user of connection().
NilOnlyAfterClose ==
    panicked => /\ cleared \/ \E p \in Procs : pc[p] = "dead"
                /\ calm => cleared /\ status # Connected

-----------------------------------------------------------------------------
(* What holds as long as the calls have not overlapped; Close while another *)
(* Connect or Close runs breaks each of them.                              *)

\* IsConnected: "returns true if this account is connected": a connected
\* session has a connection.
ConnectedHasConn == calm => (status = Connected => conn # NoConn)

AtRest == \A p \in Procs : pc[p] \in {"idle", "asking", "sleeping", "gone"}

\* Close: "closes the connection to the server".  When the session is
\* disconnected and all is at rest, no connection is left open.
ClosedMeansClosed ==
    calm /\ status = Disconnected /\ AtRest => \A k \in Conns : link[k] # "open"

=============================================================================
