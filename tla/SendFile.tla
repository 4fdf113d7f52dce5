------------------------------ MODULE SendFile ------------------------------
(***************************************************************************)
(* Sending a file: session/data/filetransfer.go (FileTransferControl, the  *)
(* lock and the channels between a transfer and the interface) and the     *)
(* sender in session/filetransfer (send.go, ibb_send.go,                   *)
(* bytestreams_send.go), with the goroutines that gui/file_transfer.go     *)
(* starts to listen to it.                                                 *)
(*                                                                         *)
(* The channels are unbuffered: a send happens together with its receive.  *)
(* The control's lock is held across a send and nowhere else, so every     *)
(* other critical section is one step.  Of the channel of progress updates *)
(* only the lock that an update takes is kept.                             *)
(***************************************************************************)
EXTENDS Naturals, FiniteSets

CONSTANT Size     \* pieces of the file

ASSUME SizeAssumption == Size \in Nat \ {0}

\* The goroutines that report: the two onError may start, and the sender
\* itself in onFinish and onDecline
Errors == {"senderError", "readerError"}
Ends == {"finish", "decline"}
Reports == Errors \union Ends
Channels == {"error", "finished", "cancel"}
Listeners == {"error", "finished"}

VARIABLES
    open,        \* the channels of the control that are not nil
    lock,        \* who holds the control's lock across a send
    report,      \* where each report is
    ui,          \* WaitForError and WaitForFinish
    listener,    \* listenForCancellation
    canceller,   \* Cancel, called on the interface's thread
    sender,      \* the goroutines of the transfer, which run one after another
    method,      \* the stream the peer chose
    reader,      \* the goroutine of ibbReadAndWrite
    sent,        \* pieces the peer was sent
    weWantToCancel, theyWantToCancel,
    inflight,    \* the transfer is in inflightSends
    told,        \* what the listeners were told
    state,       \* fileNotification.state: what the user sees
    panicked     \* the program has ended in a nil dereference

control == <<open, lock>>
view == <<told, state>>
flags == <<weWantToCancel, theyWantToCancel, inflight>>
vars == <<control, report, ui, listener, canceller, sender, method, reader,
          sent, flags, view, panicked>>

TypeOK ==
    /\ open \subseteq Channels
    /\ lock \in Reports \union {"free", "canceller"}
    /\ report \in [Reports -> {"none", "begin", "middle", "send", "end"}]
    /\ ui \in [Listeners -> {"start", "waiting", "told", "end", "never"}]
    /\ listener \in {"none", "start", "waiting", "closing", "closed", "end", "never"}
    /\ canceller \in {"none", "clicked", "sending", "end"}
    /\ sender \in {"discover", "ask", "offer", "offered", "start", "send",
                   "writing", "updating", "sealing", "leaving",
                   "closing", "closed", "report", "end"}
    /\ method \in {"none", "ibb", "bytestreams"}
    /\ reader \in {"none", "reading", "failed", "closed"}
    /\ sent \in 0 .. Size
    /\ weWantToCancel \in BOOLEAN
    /\ theyWantToCancel \in BOOLEAN
    /\ inflight \in BOOLEAN
    /\ told \subseteq {"failed", "succeeded", "declined"}
    /\ state \in {"in-progress", "canceled", "failed", "succeeded", "declined"}
    /\ panicked \in BOOLEAN

\* InitSend, and startAllListenersForFile right after it
Init ==
    /\ open = Channels
    /\ lock = "free"
    /\ report = [r \in Reports |-> "none"]
    /\ ui = [l \in Listeners |-> "start"]
    /\ listener = "none"
    /\ canceller = "none"
    /\ sender = "discover"
    /\ method = "none"
    /\ reader = "none"
    /\ sent = 0
    /\ weWantToCancel = FALSE
    /\ theyWantToCancel = FALSE
    /\ inflight = FALSE
    /\ told = {}
    /\ state = "in-progress"
    /\ panicked = FALSE

-----------------------------------------------------------------------------
(* The control *)

\* closeTransferFinished, closeErrorOccurred, closeCancel
Close(channel) ==
    /\ lock = "free"
    /\ open' = open \ {channel}
    /\ UNCHANGED lock

Sends(r) == IF r \in Errors THEN "error" ELSE "finished"
\* mutant: the two channels are confused
ClosesItsOwn(r) == IF r \in Errors THEN "error" ELSE "finished"

Closes(r) == IF r \in Errors THEN "finished" ELSE "error"

Message(r) ==
    CASE r \in Errors -> "failed"
      [] r = "finish" -> "succeeded"
      [] r = "decline" -> "declined"

\* mutant: a report that leaves the other's channel open
ReportAlone(r) ==
    /\ report[r] = "begin"
    /\ report' = [report EXCEPT ![r] = "middle"]
    /\ UNCHANGED <<control, ui, listener, canceller, sender, method, reader, sent, flags, view, panicked>>

\* ReportError, ReportFinished, ReportDeclined: the other channel is closed ...
ReportBegins(r) ==
    /\ report[r] = "begin"
    /\ Close(Closes(r))
    /\ report' = [report EXCEPT ![r] = "middle"]
    /\ UNCHANGED <<ui, listener, canceller, sender, method, reader, sent, flags, view, panicked>>

\* ... then sendAndCloseErrorOccurred or sendAndCloseTransferFinished
ReportSends(r) ==
    /\ report[r] = "middle"
    /\ lock = "free"
    /\ IF Sends(r) \in open
         THEN lock' = r /\ report' = [report EXCEPT ![r] = "send"]
         ELSE UNCHANGED lock /\ report' = [report EXCEPT ![r] = "end"]
    /\ UNCHANGED <<open, ui, listener, canceller, sender, method, reader, sent, flags, view, panicked>>

\* WaitForError, WaitForFinish: the receive reads the field of the control,
\* without the lock; a channel that is nil by then is waited for for ever
Listen(l) ==
    /\ ui[l] = "start"
    /\ ui' = [ui EXCEPT ![l] = IF l \in open THEN "waiting" ELSE "never"]
    /\ UNCHANGED <<control, report, listener, canceller, sender, method, reader,
                   sent, flags, view, panicked>>

\* mutant: the outcome of a cancelled transfer is shown
TellAnyway(r) ==
    /\ report[r] = "send"
    /\ ui[Sends(r)] = "waiting"
    /\ ui' = [ui EXCEPT ![Sends(r)] = "told"]
    /\ told' = told \union {Message(r)}
    /\ state' = Message(r)
    /\ open' = open \ {Sends(r)}
    /\ lock' = "free"
    /\ report' = [report EXCEPT ![r] = "end"]
    /\ UNCHANGED <<listener, canceller, sender, method, reader, sent, flags, panicked>>

\* The send and its receive; the listener's function (succeed, fail, decline)
\* shows the outcome of a transfer that is still in progress
Tell(r) ==
    /\ report[r] = "send"
    /\ ui[Sends(r)] = "waiting"
    /\ ui' = [ui EXCEPT ![Sends(r)] = "told"]
    /\ told' = told \union {Message(r)}
    /\ state' = IF state = "in-progress" THEN Message(r) ELSE state
    /\ open' = open \ {Sends(r)}
    /\ lock' = "free"
    /\ report' = [report EXCEPT ![r] = "end"]
    /\ UNCHANGED <<listener, canceller, sender, method, reader, sent, flags, panicked>>

\* The channel was closed, or the listener ends with closeCancel
StopListening(l) ==
    /\ \/ ui[l] = "waiting" /\ l \notin open /\ UNCHANGED control
       \/ ui[l] = "told" /\ Close("cancel")
    /\ ui' = [ui EXCEPT ![l] = "end"]
    /\ UNCHANGED <<report, listener, canceller, sender, method, reader, sent, flags, view, panicked>>

\* The user cancels, on the interface's thread ...
Click ==
    /\ state = "in-progress"
    /\ state' = "canceled"
    /\ canceller' = "clicked"
    /\ UNCHANGED <<control, report, ui, listener, sender, method, reader, sent, flags, told, panicked>>

\* ... Cancel
Cancel ==
    /\ canceller = "clicked"
    /\ lock = "free"
    /\ IF "cancel" \in open
         THEN lock' = "canceller" /\ canceller' = "sending"
         ELSE UNCHANGED lock /\ canceller' = "end"
    /\ UNCHANGED <<open, report, ui, listener, sender, method, reader, sent, flags, view, panicked>>

\* listenForCancellation, WaitForCancel
ListenForCancel ==
    /\ \/ /\ listener = "start"
          /\ listener' = IF "cancel" \in open THEN "waiting" ELSE "never"
       \/ /\ listener = "waiting"
          /\ "cancel" \notin open
          /\ listener' = "end"
    /\ UNCHANGED <<control, report, ui, canceller, sender, method, reader, sent, flags, view, panicked>>

CancelArrives ==
    /\ canceller = "sending"
    /\ listener = "waiting"
    /\ canceller' = "end"
    /\ lock' = "free"
    /\ listener' = "closing"
    /\ weWantToCancel' = TRUE
    /\ UNCHANGED <<open, report, ui, sender, method, reader, sent, theyWantToCancel,
                   inflight, view, panicked>>

\* CloseAll, by the listener
ListenerCloses ==
    /\ \/ listener = "closing" /\ Close("finished") /\ listener' = "closed"
       \/ listener = "closed" /\ Close("error") /\ listener' = "end"
    /\ UNCHANGED <<report, ui, canceller, sender, method, reader, sent, flags, view, panicked>>

-----------------------------------------------------------------------------
(* The sender *)

\* onError: the report has a goroutine of its own
Failing(r) ==
    /\ report' = [report EXCEPT ![r] = "begin"]
    /\ inflight' = FALSE

SenderFails ==
    /\ Failing("senderError")
    /\ sender' = "end"
    /\ UNCHANGED <<control, ui, listener, canceller, method, reader, sent,
                   weWantToCancel, theyWantToCancel, view, panicked>>

Continue(next) ==
    /\ sender' = next
    /\ UNCHANGED <<control, report, ui, canceller, sent, weWantToCancel,
                   theyWantToCancel, view>>

\* onFinish, onDecline: the sender reports itself
Concluding(r) ==
    /\ report' = [report EXCEPT ![r] = "begin"]
    /\ sender' = "report"
    /\ UNCHANGED <<control, ui, listener, canceller, sent, weWantToCancel,
                   theyWantToCancel, view, panicked>>

\* initSend: the features of the peer
Discover ==
    /\ sender = "discover"
    /\ \/ SenderFails
       \/ /\ \E next \in {"ask", "offer"} : Continue(next)
          /\ UNCHANGED <<listener, method, reader, inflight, panicked>>

\* OnEncryptionNotSupported asks on the interface's thread
Ask ==
    /\ sender = "ask"
    /\ canceller \in {"none", "end"}
    /\ \/ SenderFails
       \/ Continue("offer") /\ UNCHANGED <<listener, method, reader, inflight, panicked>>

\* offerSend: a file that is not there ends it, and initSend drops the error
Offer ==
    /\ sender = "offer"
    /\ \E next \in {"offered", "end"} : Continue(next)
    /\ listener' = "start"
    /\ UNCHANGED <<method, reader, inflight, panicked>>

\* The peer's answer.  Without a stanza (the request could not be sent, or
\* the connection was closed) the error function dereferences nil.
OfferAnswered ==
    /\ sender = "offered"
    /\ \/ /\ Continue("start")
          /\ method' \in {"ibb", "bytestreams"}
          /\ inflight' = TRUE
          /\ UNCHANGED <<listener, reader, panicked>>
       \/ Concluding("decline") /\ UNCHANGED <<method, reader, inflight>>
       \/ SenderFails
       \/ /\ Continue("end")
          /\ panicked' = TRUE
          /\ UNCHANGED <<listener, method, reader, inflight>>

\* ibbSendDo (a peer may ask for smaller blocks first), ibbSendStartTransfer
IbbStart ==
    /\ sender = "start"
    /\ method = "ibb"
    /\ \/ SenderFails
       \/ Continue("send") /\ reader' = "reading" /\ UNCHANGED <<listener, method, inflight, panicked>>

\* bytestreamsSendDo, and bytestreamsSendData up to the open file
BytestreamsStart ==
    /\ sender = "start"
    /\ method = "bytestreams"
    /\ \/ SenderFails
       \/ Continue("send") /\ UNCHANGED <<listener, method, reader, inflight, panicked>>

\* ibbReadAndWrite: the file cannot be read on; the pipe is closed after that
ReaderFails ==
    /\ reader = "reading"
    /\ sent < Size
    /\ reader' = "failed"
    /\ Failing("readerError")
    /\ UNCHANGED <<control, ui, listener, canceller, sender, method, sent,
                   weWantToCancel, theyWantToCancel, view, panicked>>

ReaderEnds ==
    /\ \/ reader = "failed"
       \/ reader = "reading" /\ sent = Size
    /\ reader' = "closed"
    /\ UNCHANGED <<control, report, ui, listener, canceller, sender, method, sent,
                   flags, view, panicked>>

Sending(m) ==
    /\ sender = "send"
    /\ method = m

\* A piece of the file is written to the peer, or to the proxy ...
WritePiece ==
    /\ sent < Size
    /\ Continue("writing")
    /\ UNCHANGED <<listener, method, reader, inflight, panicked>>

\* ... which takes as long as the network takes, or fails
PieceWritten ==
    /\ sender = "writing"
    /\ \/ /\ sent < Size
          /\ sent' = sent + 1
          /\ sender' = "updating"
          /\ UNCHANGED <<control, report, ui, listener, canceller, method, reader,
                         flags, view, panicked>>
       \/ SenderFails

\* onUpdate, which takes the lock.  Only here does a copy over a bytestream see
\* that it was cancelled, and then goes on as after its end.
Update ==
    /\ sender = "updating"
    /\ \/ /\ method = "bytestreams" /\ weWantToCancel
          /\ Continue("sealing")
          /\ inflight' = FALSE
       \/ /\ method = "ibb" \/ ~weWantToCancel
          /\ lock = "free"
          /\ Continue("send")
          /\ UNCHANGED inflight
    /\ UNCHANGED <<listener, method, reader, panicked>>

\* ibbSendChunk: the peer is sent the close ...
IbbCancelled ==
    /\ Sending("ibb")
    /\ weWantToCancel
    /\ Continue("leaving")
    /\ UNCHANGED <<listener, method, reader, inflight, panicked>>

\* mutant: a cancelled transfer is not forgotten
IbbLeftKept ==
    /\ sender = "leaving"
    /\ Continue("end")
    /\ UNCHANGED <<listener, method, reader, inflight, panicked>>

\* ... and the transfer is forgotten
IbbLeft ==
    /\ sender = "leaving"
    /\ Continue("end")
    /\ inflight' = FALSE
    /\ UNCHANGED <<listener, method, reader, panicked>>

IbbRefused ==
    /\ Sending("ibb")
    /\ ~weWantToCancel
    /\ theyWantToCancel
    /\ Continue("closing")
    /\ UNCHANGED <<listener, method, reader, inflight, panicked>>

\* CloseAll and removeInflightSend, by the sender
SenderCloses ==
    /\ \/ sender = "closing" /\ Close("finished") /\ sender' = "closed" /\ UNCHANGED inflight
       \/ sender = "closed" /\ Close("error") /\ sender' = "end" /\ inflight' = FALSE
    /\ UNCHANGED <<report, ui, listener, canceller, method, reader, sent,
                   weWantToCancel, theyWantToCancel, view, panicked>>

IbbChunk ==
    /\ Sending("ibb")
    /\ ~weWantToCancel
    /\ ~theyWantToCancel
    /\ \/ reader = "reading" /\ WritePiece
       \/ /\ reader = "closed"
          /\ Continue("sealing")
          /\ UNCHANGED <<listener, method, reader, inflight, panicked>>

\* bytestreamsSendData: the file may fail to open or to be read
BytestreamsChunk ==
    /\ Sending("bytestreams")
    /\ \/ WritePiece
       \/ sent < Size /\ SenderFails
       \/ /\ sent = Size
          /\ Continue("sealing")
          /\ UNCHANGED <<listener, method, reader, inflight, panicked>>

\* The last thing sent, the close of an in-band stream or the MAC, whose errors
\* are dropped; then onFinish
Seal ==
    /\ sender = "sealing"
    /\ Concluding("finish")
    /\ UNCHANGED <<method, reader, inflight>>

\* onFinish and onDecline after their report
SenderReported ==
    /\ sender = "report"
    /\ \E r \in Ends : report[r] = "end"
    /\ Continue("end")
    /\ inflight' = FALSE
    /\ UNCHANGED <<listener, method, reader, panicked>>

\* trackResultOfSend of an error, or a close from the peer (ibbReceivedClose)
PeerCancels ==
    /\ method = "ibb"
    /\ inflight
    /\ ~theyWantToCancel
    /\ theyWantToCancel' = TRUE
    /\ UNCHANGED <<control, report, ui, listener, canceller, sender, method, reader,
                   sent, weWantToCancel, inflight, view, panicked>>

Sender ==
    \/ Discover
    \/ Ask
    \/ Offer
    \/ OfferAnswered
    \/ IbbStart
    \/ BytestreamsStart
    \/ IbbCancelled
    \/ IbbLeft
    \/ IbbRefused
    \/ IbbChunk
    \/ BytestreamsChunk
    \/ PieceWritten
    \/ Update
    \/ Seal
    \/ SenderCloses
    \/ SenderReported

Next ==
    /\ ~panicked
    /\ \/ \E r \in Reports : ReportBegins(r) \/ ReportSends(r) \/ Tell(r)
       \/ \E l \in Listeners : Listen(l) \/ StopListening(l)
       \/ Click
       \/ Cancel
       \/ ListenForCancel
       \/ CancelArrives
       \/ ListenerCloses
       \/ Sender
       \/ ReaderFails
       \/ ReaderEnds
       \/ PeerCancels

Running(A) == ~panicked /\ A

\* The sender waits for an answer of the peer, of the user, or for the network to
\* take what it writes; none of these waits has a timer.
Waiting == sender \in {"discover", "ask", "offered", "start", "writing", "sealing", "leaving"}

\* Every goroutine runs on, the sender when it waits for nobody.  Nothing makes a
\* peer answer, or the user or the peer cancel.
Fairness ==
    /\ \A r \in Reports :
          WF_vars(Running(ReportBegins(r) \/ ReportSends(r) \/ Tell(r)))
    /\ \A l \in Listeners : WF_vars(Running(Listen(l) \/ StopListening(l)))
    /\ WF_vars(Running(Cancel \/ CancelArrives))
    /\ WF_vars(Running(ListenForCancel \/ ListenerCloses))
    /\ WF_vars(Running(Sender /\ ~Waiting))
    /\ WF_vars(Running(ReaderEnds))

Spec == Init /\ [][Next]_vars /\ Fairness

-----------------------------------------------------------------------------
(* Properties *)

\* Whoever reports, and whoever closes the channels meanwhile, the listeners
\* are told one outcome at most: each report closes the other's channel first.
OneOutcome == Cardinality(told) <= 1

\* A copy that was cancelled ends like one that is complete, and its report
\* races the listener that closes the channels: the user never sees it as a
\* success.  Only a file that could not be read on is shown as sent.
SuccessIsWhole ==
    state = "succeeded" => sent = Size \/ report["readerError"] # "none"

\* A report reaches its listener, unless another report or a side that cancels
\* closed the channel before.
OutcomeIsTold ==
    \A r \in Reports :
       (report[r] = "begin" /\ \A q \in Reports \ {r} : report[q] = "none")
          ~> \/ told # {}
             \/ \E q \in Reports \ {r} : report[q] # "none"
             \/ canceller # "none"
             \/ theyWantToCancel

\* Once the sender has learnt that the user cancelled, the transfer ends and is
\* forgotten, unless the sender waits for ever: for an answer (nonblockIQ has no
\* timer) or for the network to take what it writes.
CancelledEnds == []<>~Waiting => (weWantToCancel ~> (sender = "end" /\ ~inflight))

\* The user can cancel: the interface's thread comes back from Cancel.  Not so of
\* this code before listenForCancellation has been started, or when it never is.
CancelReturns == (canceller = "clicked") ~> (canceller = "end" \/ panicked)

=============================================================================
