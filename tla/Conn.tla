-------------------------------- MODULE Conn --------------------------------
(***************************************************************************)
(* One XMPP connection of package xmpp: the table of requests in flight,   *)
(* the goroutine that reads stanzas, the goroutine that watches pings, and *)
(* every goroutine that may close the connection while the others use it.  *)
(*                                                                         *)
(* Each action is one critical section (or one channel operation) of the   *)
(* code; what runs between two of them may interleave with every other     *)
(* goroutine.  The server and the network are the environment.             *)
(***************************************************************************)
EXTENDS Naturals, Sequences, FiniteSets

CONSTANTS
    Calls,        \* cookies of the requests other packages make (SendIQ)
    Pings,        \* cookies of the requests watchPings makes
    Closers,      \* goroutines that call Close of their own accord: those of the
                  \* session, and watchKeepAlive once a keepalive fails
    Reader,       \* the goroutine running ReadStanzas
    Pinger,       \* the goroutine running watchPings
    MaxFailures,  \* maxPingFailures
    MaxInbound,   \* bound: stanzas on the wire towards us
    MaxReplies    \* bound: genuine replies the server sends to one request

Cookies == Calls \cup Pings
Threads == Closers \cup {Reader, Pinger}

\* getCookie draws 64 random bits, so cookies never collide.
ASSUME ConnAssumption ==
    /\ Calls \cap Pings = {}
    /\ Reader \notin Closers /\ Pinger \notin Closers /\ Reader # Pinger
    /\ MaxFailures \in Nat \ {0}
    /\ MaxInbound \in Nat
    /\ MaxReplies \in Nat

VARIABLES
    closed,       \* c.closed
    streamClosed, \* TRUE once the channel streamCloseReceived is closed
    out,          \* c.out: the socket, or ioutil.Discard after Close
    tcp,          \* the socket: "up", "lost" (by the network), "closed" (by us)
    inflights,    \* cookies in the table c.inflights
    chan,         \* the reply channel (capacity 1) of each cookie
    req,          \* what the caller of SendIQ is doing
    pc,           \* control state of each goroutine in Threads
    todo,         \* cookies a goroutine in cancelInflights still has to cancel
    rcookie,      \* the cookie of the reply the reader is dispatching
    deferred,     \* the reader is running ReadStanzas' deferred closeImmediately
    stanza,       \* the stanza the reader is handing to the session
    consumer,     \* session.watchStanzas: "receiving", or "gone" after its loop
    failures,     \* failures in watchPings
    panicked,     \* "no", or the runtime panic that ended the process
    inbound,      \* stanzas on the wire towards us
    asked,        \* requests the server received
    replied,      \* genuine replies the server sent, per request
    late          \* history: cookies registered after a snapshot for cancelling

connVars == <<closed, streamClosed, out, tcp>>
reqVars  == <<inflights, chan, req>>
readVars == <<rcookie, deferred, stanza, consumer>>
envVars  == <<inbound, asked, replied>>
vars == <<connVars, reqVars, readVars, envVars, pc, todo, failures, panicked, late>>

Plain == {"message", "streamError", "streamClose", "badId"}
Stanzas == [kind : {"reply"}, cookie : Cookies, from : {"asked", "other"}]
             \cup [kind : Plain]

\* Control states of Close, of the reader and of watchPings.
ClosePC == {"close", "write", "await", "tcp", "snapshot", "cancel", "mark", "hangup"}
ReadPC  == {"reading", "matched", "deleted", "deliver", "ci", "ciClose", "unchan"}
PingPC == {"tick", "select", "streamError"}

TypeOK ==
    /\ closed \in BOOLEAN /\ streamClosed \in BOOLEAN /\ deferred \in BOOLEAN
    /\ out \in {"tcp", "discard"}
    /\ tcp \in {"up", "lost", "closed"}
    /\ inflights \in SUBSET Cookies
    /\ chan \in [Cookies -> {"none", "empty", "full", "closed"}]
    /\ req \in [Cookies -> {"idle", "written", "waiting", "answered",
                            "cancelled", "failed", "abandoned"}]
    /\ pc \in [Threads -> {"idle", "done"} \cup ClosePC \cup ReadPC \cup PingPC]
    /\ todo \in [Threads -> SUBSET Cookies]
    /\ rcookie \in Cookies \cup {"none"}
    /\ stanza \in {"none"} \cup Plain
    /\ consumer \in {"receiving", "gone"}
    /\ failures \in Nat
    /\ panicked \in {"no", "send", "close"}
    /\ inbound \in Seq(Stanzas)
    /\ asked \in SUBSET Cookies
    /\ replied \in [Cookies -> Nat]
    /\ late \in SUBSET Cookies

Init ==
    /\ closed = FALSE /\ streamClosed = FALSE /\ deferred = FALSE
    /\ out = "tcp" /\ tcp = "up"
    /\ inflights = {}
    /\ chan = [c \in Cookies |-> "none"]
    /\ req = [c \in Cookies |-> "idle"]
    /\ pc = [t \in Threads |-> IF t = Reader THEN "reading"
                               ELSE IF t = Pinger THEN "tick" ELSE "idle"]
    /\ todo = [t \in Threads |-> {}]
    /\ rcookie = "none" /\ stanza = "none" /\ consumer = "receiving"
    /\ failures = 0 /\ panicked = "no"
    /\ inbound = <<>> /\ asked = {} /\ late = {}
    /\ replied = [c \in Cookies |-> 0]

Goto(t, label) == pc' = [pc EXCEPT ![t] = label]

-----------------------------------------------------------------------------
(* SendIQ and the caller that waits for the reply.                         *)

\* safeWrite: a live socket takes the bytes to the server; ioutil.Discard
\* always succeeds; a lost socket may buffer the bytes or report an error.
SafeWrite(c) ==
    \/ /\ out = "tcp" /\ tcp = "up"
       /\ asked' = asked \cup {c}
       /\ req' = [req EXCEPT ![c] = "written"]
    \/ /\ ~(out = "tcp" /\ tcp = "up")
       /\ req' = [req EXCEPT ![c] = "written"]
       /\ UNCHANGED asked
    \/ /\ out = "tcp" /\ tcp # "up"
       /\ req' = [req EXCEPT ![c] = "failed"]
       /\ UNCHANGED asked

SendIQ(c) ==
    /\ c \in Calls /\ req[c] = "idle"
    /\ SafeWrite(c)
    /\ UNCHANGED <<connVars, readVars, inflights, chan, inbound, replied,
                   pc, todo, failures, panicked, late>>

KeepInTable(c) == UNCHANGED inflights                     \* mutant: no delete
RemoveInflight(c) == inflights' = inflights \ {c}

SnapshotTaken == closed \/ \E t \in Threads : pc[t] \in {"cancel", "mark"}

MakeChan(c) == chan' = [chan EXCEPT ![c] = "empty"]

CreateInflight(c) ==
    /\ req[c] = "written"
    /\ MakeChan(c)
    /\ inflights' = inflights \cup {c}
    /\ req' = [req EXCEPT ![c] = "waiting"]
    /\ late' = IF SnapshotTaken THEN late \cup {c} ELSE late
    /\ UNCHANGED <<connVars, readVars, envVars, pc, todo, failures, panicked>>

Receive(c) ==
    /\ c \in Calls /\ req[c] = "waiting"
    /\ \/ /\ chan[c] = "full"
          /\ chan' = [chan EXCEPT ![c] = "empty"]
          /\ req' = [req EXCEPT ![c] = "answered"]
       \/ /\ chan[c] = "closed"
          /\ req' = [req EXCEPT ![c] = "cancelled"]
          /\ UNCHANGED chan
    /\ UNCHANGED <<connVars, readVars, envVars, inflights, pc, todo, failures,
                   panicked, late>>

-----------------------------------------------------------------------------
(* Close, run by any goroutine t, and the reader's closeImmediately.       *)

\* Where t continues when its call of Close returns: the reader first leaves
\* Next and then runs its deferred closeImmediately, then close(stanzaChan).
Return(t) ==
    /\ Goto(t, IF t # Reader THEN "done" ELSE IF deferred THEN "unchan" ELSE "ci")
    /\ deferred' = (deferred \/ t = Reader)

StartClose(t) ==
    /\ t \in Closers /\ pc[t] = "idle"
    /\ Goto(t, "close")
    /\ UNCHANGED <<connVars, reqVars, readVars, envVars, todo, failures, panicked, late>>

CloseCheck(t) ==
    /\ pc[t] = "close"
    /\ \/ closed /\ Return(t)
       \/ ~closed /\ Goto(t, "write") /\ UNCHANGED deferred
    /\ UNCHANGED <<connVars, reqVars, rcookie, stanza, consumer, envVars, todo,
                   failures, panicked, late>>

KeepSocket == UNCHANGED out                               \* mutant: output not discarded
DiscardOutput == out' = "discard"

\* The section under closedLock: the closing tag, then c.out = ioutil.Discard.
CloseWrite(t) ==
    /\ pc[t] = "write"
    /\ \/ Goto(t, "await")
       \/ out = "tcp" /\ tcp # "up" /\ Goto(t, "tcp")
    /\ DiscardOutput
    /\ UNCHANGED <<closed, streamClosed, tcp, reqVars, readVars, envVars, todo,
                   failures, panicked, late>>

WaitWithoutTimeout(t) ==                                  \* mutant: no streamClosedTimeout
    /\ pc[t] = "await" /\ streamClosed
    /\ Goto(t, "tcp")
    /\ UNCHANGED <<connVars, reqVars, readVars, envVars, todo, failures, panicked, late>>

\* waitForStreamClosed returns on the closed channel or after 30 seconds.
WaitForStreamClosed(t) ==
    /\ pc[t] = "await"
    /\ Goto(t, "tcp")
    /\ UNCHANGED <<connVars, reqVars, readVars, envVars, todo, failures, panicked, late>>

CloseTCPCheck(t) ==
    /\ pc[t] = "tcp"
    /\ \/ closed /\ Return(t)
       \/ ~closed /\ Goto(t, "snapshot") /\ UNCHANGED deferred
    /\ UNCHANGED <<connVars, reqVars, rcookie, stanza, consumer, envVars, todo,
                   failures, panicked, late>>

CookieSnapshotIsEmpty == {}                                  \* mutant: cancels nothing
CookieSnapshot == inflights

AllInflightCookies(t) ==
    /\ pc[t] = "snapshot"
    /\ todo' = [todo EXCEPT ![t] = CookieSnapshot]
    /\ Goto(t, "cancel")
    /\ UNCHANGED <<connVars, reqVars, readVars, envVars, failures, panicked, late>>

LeaveOpen(c) == UNCHANGED chan                            \* mutant: no close
CloseReplyChan(c) == chan' = [chan EXCEPT ![c] = "closed"]

\* One Cancel of cancelInflights' loop, or its end.
Cancel(t, c) ==
    /\ pc[t] = "cancel" /\ c \in todo[t]
    /\ todo' = [todo EXCEPT ![t] = @ \ {c}]
    /\ IF c \notin inflights
       THEN UNCHANGED <<inflights, chan, panicked>>
       ELSE /\ RemoveInflight(c)
            /\ CloseReplyChan(c)
            /\ panicked' = IF chan[c] = "closed" THEN "close" ELSE panicked
    /\ UNCHANGED <<connVars, req, readVars, envVars, pc, failures, late>>

CancelDone(t) ==
    /\ pc[t] = "cancel" /\ todo[t] = {}
    /\ Goto(t, "mark")
    /\ UNCHANGED <<connVars, reqVars, readVars, envVars, todo, failures, panicked, late>>

SetClosed(t) ==
    /\ pc[t] = "mark"
    /\ closed' = TRUE
    /\ Goto(t, "hangup")
    /\ UNCHANGED <<streamClosed, out, tcp, reqVars, readVars, envVars, todo,
                   failures, panicked, late>>

ForgetRawOut == UNCHANGED tcp                             \* mutant: socket left open
HangUp == tcp' = "closed"

CloseRawOut(t) ==
    /\ pc[t] = "hangup"
    /\ HangUp
    /\ Return(t)
    /\ UNCHANGED <<closed, streamClosed, out, reqVars, rcookie, stanza, consumer,
                   envVars, todo, failures, panicked, late>>

CloseStep(t) ==
    \/ CloseCheck(t) \/ CloseWrite(t) \/ WaitForStreamClosed(t) \/ CloseTCPCheck(t)
    \/ AllInflightCookies(t) \/ (\E c \in Cookies : Cancel(t, c)) \/ CancelDone(t)
    \/ SetClosed(t) \/ CloseRawOut(t)

-----------------------------------------------------------------------------
(* The reader: ReadStanzas, Next and asyncReturnIQResponse.                *)

TakeStanza == pc[Reader] = "reading" /\ inbound # <<>> /\ inbound' = Tail(inbound)

AcceptsAnySender(s) == s.cookie \in inflights             \* mutant: from is not checked
IsReply(s) == s.cookie \in inflights /\ s.from = "asked"

\* A result or error IQ is looked up in the table; it is dropped when its
\* cookie is unknown or when it does not come from where the request went.
ReadReply ==
    /\ TakeStanza
    /\ Head(inbound).kind = "reply"
    /\ IF IsReply(Head(inbound))
       THEN Goto(Reader, "matched") /\ rcookie' = Head(inbound).cookie
       ELSE UNCHANGED <<pc, rcookie>>
    /\ UNCHANGED <<connVars, reqVars, deferred, stanza, consumer, asked, replied,
                   todo, failures, panicked, late>>

ReadPlain ==
    /\ TakeStanza
    /\ Head(inbound).kind \in Plain
    /\ LET kind == Head(inbound).kind IN
       \/ /\ kind \in {"message", "streamError"}
          /\ Goto(Reader, "deliver") /\ stanza' = kind
          /\ UNCHANGED deferred
       \/ /\ kind = "streamClose"             \* receivedStreamClose
          /\ Goto(Reader, "ci")
          /\ UNCHANGED <<stanza, deferred>>
       \/ /\ kind = "badId"                   \* an unparsable id fails Next
          /\ Goto(Reader, "ci") /\ deferred' = TRUE
          /\ UNCHANGED stanza
    /\ UNCHANGED <<connVars, reqVars, rcookie, consumer, asked, replied, todo,
                   failures, panicked, late>>

ReadError ==
    /\ pc[Reader] = "reading" /\ tcp # "up"
    /\ Goto(Reader, "ci") /\ deferred' = TRUE
    /\ UNCHANGED <<connVars, reqVars, rcookie, stanza, consumer, envVars, todo,
                   failures, panicked, late>>

DeleteInflight ==
    /\ pc[Reader] = "matched"
    /\ RemoveInflight(rcookie)
    /\ Goto(Reader, "deleted")
    /\ UNCHANGED <<connVars, chan, req, readVars, envVars, todo, failures, panicked, late>>

\* inflight.replyChan <- stanza: blocks on a full channel, panics on a closed one.
SendReply ==
    /\ pc[Reader] = "deleted" /\ chan[rcookie] # "full"
    /\ IF chan[rcookie] = "closed"
       THEN panicked' = "send" /\ UNCHANGED chan
       ELSE chan' = [chan EXCEPT ![rcookie] = "full"] /\ UNCHANGED panicked
    /\ Goto(Reader, "reading") /\ rcookie' = "none"
    /\ UNCHANGED <<connVars, inflights, req, deferred, stanza, consumer, envVars,
                   todo, failures, late>>

\* stanzaChan is unbuffered.  watchStanzas ends its loop on a stream error.
Deliver ==
    /\ pc[Reader] = "deliver" /\ consumer = "receiving"
    /\ consumer' = IF stanza = "streamError" THEN "gone" ELSE "receiving"
    /\ stanza' = "none"
    /\ Goto(Reader, "reading")
    /\ UNCHANGED <<connVars, reqVars, rcookie, deferred, envVars, todo, failures,
                   panicked, late>>

AlreadyClosed == closed

CloseImmediately ==
    /\ pc[Reader] = "ci"
    /\ \/ AlreadyClosed /\ Return(Reader)
       \/ ~AlreadyClosed /\ Goto(Reader, "ciClose") /\ UNCHANGED deferred
    /\ UNCHANGED <<connVars, reqVars, rcookie, stanza, consumer, envVars, todo,
                   failures, panicked, late>>

SkipClose == Goto(Reader, "unchan")                       \* mutant: c.Close() not called
ThenClose == Goto(Reader, "close")

CloseStreamChannel ==
    /\ pc[Reader] = "ciClose"
    /\ panicked' = IF streamClosed THEN "close" ELSE panicked
    /\ streamClosed' = TRUE
    /\ ThenClose
    /\ UNCHANGED <<closed, out, tcp, reqVars, readVars, envVars, todo, failures, late>>

\* The deferred close(stanzaChan) ends watchStanzas' loop.
CloseStanzaChan ==
    /\ pc[Reader] = "unchan"
    /\ Goto(Reader, "done")
    /\ consumer' = "gone"
    /\ UNCHANGED <<connVars, reqVars, rcookie, deferred, stanza, envVars, todo,
                   failures, panicked, late>>

ReaderStep ==
    \/ ReadReply \/ ReadPlain \/ ReadError \/ DeleteInflight \/ SendReply
    \/ Deliver \/ CloseImmediately \/ CloseStreamChannel \/ CloseStanzaChan

-----------------------------------------------------------------------------
(* watchPings.                                                             *)

LeaveLoop == Goto(Pinger, "done")

PingsEnd ==
    /\ pc[Pinger] = "tick" /\ closed
    /\ LeaveLoop
    /\ UNCHANGED <<connVars, reqVars, readVars, envVars, todo, failures, panicked, late>>

SendPing(c) ==
    /\ pc[Pinger] = "tick" /\ ~closed
    /\ c \in Pings /\ req[c] = "idle"
    /\ SafeWrite(c)
    /\ Goto(Pinger, IF req'[c] = "failed" THEN "done" ELSE "select")
    /\ UNCHANGED <<connVars, readVars, inflights, chan, inbound, replied,
                   todo, failures, panicked, late>>

\* The ping the pinger waits for in its select.
Pinging(c) == pc[Pinger] = "select" /\ c \in Pings /\ req[c] = "waiting"

PingReplied(c) ==
    /\ Pinging(c) /\ chan[c] = "full"
    /\ chan' = [chan EXCEPT ![c] = "empty"]
    /\ req' = [req EXCEPT ![c] = "answered"]
    /\ failures' = 0
    /\ \/ Goto(Pinger, "tick")
       \/ Goto(Pinger, "done")                \* the server answered with an error
    /\ UNCHANGED <<connVars, inflights, readVars, envVars, todo, panicked, late>>

PingCancelled(c) ==
    /\ Pinging(c) /\ chan[c] = "closed"
    /\ req' = [req EXCEPT ![c] = "cancelled"]
    /\ Goto(Pinger, "tick")
    /\ UNCHANGED <<connVars, inflights, chan, readVars, envVars, todo, failures,
                   panicked, late>>

PingTimeout(c) ==
    /\ Pinging(c)
    /\ req' = [req EXCEPT ![c] = "abandoned"]
    /\ failures' = failures + 1
    /\ Goto(Pinger, IF failures' >= MaxFailures THEN "streamError" ELSE "tick")
    /\ UNCHANGED <<connVars, inflights, chan, readVars, envVars, todo, panicked, late>>

OnlySendError == Goto(Pinger, "done")                     \* mutant: no Close
CloseAfterError == Goto(Pinger, "close")

\* sendStreamError ignores the outcome of its write and calls Close.
SendStreamError ==
    /\ pc[Pinger] = "streamError"
    /\ CloseAfterError
    /\ UNCHANGED <<connVars, reqVars, readVars, envVars, todo, failures, panicked, late>>

PingStep ==
    \/ PingsEnd \/ SendStreamError
    \/ \E c \in Pings : SendPing(c) \/ PingReplied(c) \/ PingCancelled(c) \/ PingTimeout(c)

-----------------------------------------------------------------------------
(* The server and the network.                                             *)

Arrive(s) ==
    /\ tcp = "up" /\ Len(inbound) < MaxInbound
    /\ inbound' = Append(inbound, s)

ServerReply(c) ==
    /\ c \in asked /\ replied[c] < MaxReplies
    /\ Arrive([kind |-> "reply", cookie |-> c, from |-> "asked"])
    /\ replied' = [replied EXCEPT ![c] = @ + 1]
    /\ UNCHANGED <<connVars, reqVars, readVars, asked, pc, todo, failures, panicked, late>>

\* Anything else the stream may carry, a stray reply from elsewhere included.
ServerSend ==
    /\ \E s \in [kind : Plain]
                  \cup [kind : {"reply"}, cookie : asked, from : {"other"}] : Arrive(s)
    /\ UNCHANGED <<connVars, reqVars, readVars, asked, replied, pc, todo, failures,
                   panicked, late>>

LoseNetwork ==
    /\ tcp = "up" /\ tcp' = "lost"
    /\ UNCHANGED <<closed, streamClosed, out, reqVars, readVars, envVars, pc, todo,
                   failures, panicked, late>>

-----------------------------------------------------------------------------
CallStep(c) == SendIQ(c) \/ CreateInflight(c) \/ Receive(c)

\* An unrecovered panic in one goroutine ends the process.
Running == panicked = "no"

Next ==
    /\ Running
    /\ \/ \E c \in Cookies : CallStep(c) \/ ServerReply(c)
       \/ \E t \in Threads : StartClose(t) \/ CloseStep(t)
       \/ ReaderStep \/ PingStep
       \/ ServerSend \/ LoseNetwork

Spec == Init /\ [][Next]_vars

\* The scheduler runs every goroutine that can proceed, and timers fire.  A
\* read from a socket whose peer is gone may yet never return.
ReadReturns == pc[Reader] = "reading" /\ inbound = <<>> => tcp = "closed"

Fairness ==
    /\ \A t \in Threads : WF_vars(Running /\ CloseStep(t))
    /\ \A c \in Cookies : WF_vars(Running /\ (CreateInflight(c) \/ Receive(c)))
    /\ WF_vars(Running /\ ReadReturns /\ ReaderStep)
    /\ WF_vars(Running /\ PingStep)

FairSpec == Spec /\ Fairness

-----------------------------------------------------------------------------
(* Safety.                                                                 *)

\* A reply never waits for its caller: asyncReturnIQResponse sends on
\* replyChan outside the lock, relying on "replyChan is buffered with size 1".
\* It holds because a cookie leaves the table before its reply is sent.
ReplySendNeverBlocks == pc[Reader] = "deleted" => chan[rcookie] # "full"

\* No channel is closed twice, however many goroutines run Close, Cancel and
\* closeImmediately at once: neither a reply channel nor streamCloseReceived.
NoDoubleClose == panicked # "close"

\* The reader can only panic on a reply channel closed under its feet by a
\* Close that has already written the closing tag.
PanicOnlyWhileClosing == panicked = "send" => out = "discard"

\* A caller whose channel is silent is still in the table, or in the hands of
\* the reader: no interleaving of Cancel and dispatch forgets it.
NoForgottenCaller ==
    \A c \in Cookies : req[c] = "waiting" /\ chan[c] = "empty" =>
        c \in inflights \/ (pc[Reader] \in {"matched", "deleted"} /\ rcookie = c)

\* closeTCP cancels "all pending requests at this moment, including pending
\* pings" before it marks the connection closed: what is left in the table
\* was registered after a snapshot for cancelling had been taken.
PendingCancelledAtClose == closed => inflights \subseteq late

\* Only a reply sent by the address that was asked ever answers a request.
OnlyGenuineAnswers == \A c \in Cookies : req[c] = "answered" => replied[c] > 0

\* Once the stream's end was signalled on streamCloseReceived, the reader
\* itself is closing the connection or the connection is closed.
StreamEndIsActedOn == streamClosed => closed \/ pc[Reader] \in ClosePC

\* The comment on SendIQ: "returns a channel on which the reply can be read
\* when received".  A genuine reply the reader has consumed is on the channel
\* of the caller who waits for it.
ReplyReachesCaller ==
    \A c \in Cookies :
        /\ req[c] = "waiting" /\ chan[c] = "empty" /\ replied[c] = MaxReplies
        => \/ pc[Reader] \in {"matched", "deleted"} /\ rcookie = c
           \/ \E i \in 1..Len(inbound) :
                  inbound[i].kind = "reply" /\ inbound[i].cookie = c

-----------------------------------------------------------------------------
(* The inductive invariant behind the safety properties: what relates the  *)
(* table, the reply channels and the control state of every goroutine.     *)

Dispatching == pc[Reader] \in {"matched", "deleted"}
Hushed      == {"await", "tcp", "snapshot", "cancel", "mark", "hangup"}

InTableIsEmpty == \A c \in inflights : chan[c] = "empty"

\* Cookies are fresh: a request that left the table never comes back to it.
NoComeback ==
    /\ \A c \in Cookies : req[c] \in {"idle", "written"} => chan[c] = "none"
    /\ pc[Reader] = "deleted" => rcookie \notin inflights

DispatchHasCookie ==
    Dispatching => /\ rcookie \in Cookies
                   /\ chan[rcookie] \in {"empty", "closed"}
                   /\ replied[rcookie] > 0

StreamCloseOnce ==
    /\ pc[Reader] = "ciClose" => ~streamClosed
    /\ \A t \in Threads : pc[t] = "hangup" => closed

DiscardFirst ==
    /\ \A t \in Threads : pc[t] \in Hushed => out = "discard"
    /\ \A c \in Cookies : chan[c] = "closed" => out = "discard"

CancelCoversTable ==
    \A t \in Threads :
        /\ pc[t] = "cancel" => inflights \subseteq late \cup todo[t]
        /\ pc[t] = "mark" => inflights \subseteq late

AnswersAreReplies ==
    /\ \A c \in Cookies : chan[c] = "full" => replied[c] > 0
    /\ \A i \in 1..Len(inbound) :
           inbound[i].kind = "reply" /\ inbound[i].from = "asked"
               => replied[inbound[i].cookie] > 0

\* Together: why closing and dispatching may race at all.  A channel in the
\* table is open and empty, the reader holds at most one that left it, every
\* closer has hushed the connection before it cancels, and its snapshot covers
\* the table but for the requests registered since.
ConnInv ==
    /\ InTableIsEmpty /\ NoComeback /\ DispatchHasCookie
    /\ NoDoubleClose /\ NoForgottenCaller
    /\ StreamCloseOnce /\ StreamEndIsActedOn
    /\ DiscardFirst /\ PanicOnlyWhileClosing
    /\ CancelCoversTable /\ PendingCancelledAtClose
    /\ AnswersAreReplies /\ OnlyGenuineAnswers

-----------------------------------------------------------------------------
(* Progress, under FairSpec.                                               *)

\* Close always ends, with the connection closed: waiting for the peer's
\* closing tag is bounded by streamClosedTimeout.
CloseCompletes == \A t \in Threads : (pc[t] = "write") ~> (closed \/ ~Running)

\* The reader ends after the connection closed, unless it holds a stanza for
\* a session that stopped receiving after a stream error.
ReaderEnds ==
    closed ~> \/ pc[Reader] = "done"
              \/ pc[Reader] = "deliver" /\ consumer = "gone"
              \/ ~Running

\* A connection whose network is gone without a word is closed once a ping goes
\* unanswered MaxFailures times; the run has MaxFailures pings.
DeadPeerIsNoticed ==
    \A c \in Pings :
        (tcp = "lost" /\ Pinging(c) /\ replied[c] = 0 /\ failures = MaxFailures - 1)
            ~> (closed \/ ~Running)

=============================================================================
