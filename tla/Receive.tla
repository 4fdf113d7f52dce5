------------------------------ MODULE Receive -------------------------------
(***************************************************************************)
(* Receiving a file: session/filetransfer (recv.go, receiver.go,           *)
(* ibb_recv.go, bytestreams_recv.go and the receiving half of              *)
(* encryption.go).  Four goroutines share a receiver: the feeder (the      *)
(* handler of the session's stanzas for in-band streams, a goroutine of    *)
(* its own for bytestreams), processReceive, readAndRun, and the one that  *)
(* waits for the user to cancel.                                           *)
(*                                                                         *)
(* The stream is counted in units: the file has Size; an encrypted stream  *)
(* has one unit of IV before it and two of MAC after it.  A peer opens the *)
(* stream after the offer was accepted.  What the user is told is one      *)
(* variable here; how a report reaches the interface is module SendFile.   *)
(***************************************************************************)
EXTENDS Naturals, Sequences

CONSTANTS
    Size,        \* units of the file
    Capacity,    \* of writeChannel
    MaxChunk     \* units that arrive together

ASSUME ReceiveAssumption ==
    /\ Size \in Nat \ {0}
    /\ Capacity \in Nat \ {0}
    /\ MaxChunk \in Nat \ {0}

VARIABLES
    method,       \* how the file comes
    scheme,       \* whether it is encrypted
    kind,         \* a file, or a directory in a zip file
    stream,       \* the parts of the stream that arrive damaged
    arrived,      \* units the feeder took from the stream
    feeder,       \* the goroutine that feeds the receiver
    chunk,        \* what it is writing
    writeChannel,
    buffer,       \* units in receiver.buffer
    fields,       \* of the receiver: hadError, err, done
    reader,       \* readAndRun
    written,      \* units in the temporary file
    temp,         \* the temporary file
    known,        \* the context: in inflightRecvs, opaque, and its receiver
    canceller,    \* the goroutine of WaitForCancel
    destination,
    outcome       \* what the user is told

offer == <<method, scheme, kind, stream>>
receiver == <<writeChannel, buffer, fields>>
file == <<written, temp>>
result == <<destination, outcome>>
vars == <<offer, arrived, feeder, chunk, receiver, reader, file, known, canceller, result>>

IV == IF scheme = "encrypted" THEN 1 ELSE 0
MAC == IF scheme = "encrypted" THEN 2 ELSE 0
Total == IV + Size + MAC

\* The file, as it was encrypted if it was, and what comes before and after it.
Parts == {"iv", "text", "mac"}

TypeOK ==
    /\ method \in {"ibb", "bytestreams"}
    /\ scheme \in {"plain", "encrypted"}
    /\ kind \in {"file", "directory"}
    /\ stream \subseteq Parts
    /\ arrived \in 0 .. Total
    /\ feeder \in {"idle", "opening", "receiving", "writing", "waiting", "placing",
                   "finishing", "failing", "ended", "panicked"}
    /\ chunk \in 0 .. MaxChunk
    /\ writeChannel \in Seq(0 .. MaxChunk) /\ Len(writeChannel) <= Capacity
    /\ buffer \in Nat
    /\ fields \subseteq {"hadError", "err", "done"}
    /\ reader \in {"none", "iv", "data", "mac", "finish", "failing", "cleaning", "saving", "ended"}
    /\ written \in 0 .. Size
    /\ temp \in {"none", "open", "closed", "removed", "moved"}
    /\ known \subseteq {"inflight", "opaque", "recv"}
    /\ canceller \in {"waiting", "cancelling", "cleaning", "closing", "ended"}
    /\ destination \in {"absent", "partial", "whole"}
    /\ outcome \in {"pending", "finished", "failed", "canceled"}

\* registerNewFileTransfer, and the user accepted
Init ==
    /\ method \in {"ibb", "bytestreams"}
    /\ scheme \in {"plain", "encrypted"}
    /\ kind \in {"file", "directory"}
    /\ stream \in SUBSET Parts
    /\ arrived = 0
    /\ feeder = "idle"
    /\ chunk = 0
    /\ writeChannel = <<>>
    /\ buffer = 0
    /\ fields = {}
    /\ reader = "none"
    /\ written = 0
    /\ temp = "none"
    /\ known = {"inflight"}
    /\ canceller = "waiting"
    /\ destination = "absent"
    /\ outcome = "pending"

-----------------------------------------------------------------------------
(* The control and the receiver's own operations *)

\* ReportError, ReportFinished, CloseAll: the first one closes the others' way
Report(o) == outcome' = IF outcome = "pending" THEN o ELSE outcome

\* saveError
SaveError == fields' = fields \union {"hadError", "err"}

\* openTemporaryFile, which forgets the transfer when it fails
TemporaryFileFails ==
    /\ known' = known \ {"inflight", "opaque"}
    /\ SaveError
    /\ Report("failed")

TemporaryFileOpens ==
    /\ temp' = "open"
    /\ reader' = IF scheme = "encrypted" THEN "iv" ELSE "data"
    /\ known' = known \union {"recv"}

-----------------------------------------------------------------------------
(* The feeder *)

Feeder(from, to) ==
    /\ feeder = from
    /\ feeder' = to

\* IbbOpen, bytestreamInitialSetup: a transfer the user cancelled is refused
Open ==
    /\ feeder = "idle"
    /\ IF "inflight" \in known
         THEN feeder' = "opening" /\ known' = known \union {"opaque"}
         ELSE feeder' = "ended" /\ UNCHANGED known
    /\ UNCHANGED <<offer, arrived, chunk, receiver, reader, file, canceller, result>>

\* BytestreamQuery: none of the stream hosts can be reached
NoStreamhost ==
    /\ method = "bytestreams"
    /\ Feeder("opening", "ended")
    /\ UNCHANGED <<offer, arrived, chunk, receiver, reader, file, known, canceller, result>>

CreateReceiver ==
    /\ Feeder("opening", "receiving")
    /\ TemporaryFileOpens
    /\ UNCHANGED <<offer, arrived, chunk, receiver, written, canceller, result>>

\* bytestreamDoReceive takes the channel out of opaque, which is nil by then
CreateReceiverFails ==
    /\ Feeder("opening", IF method = "ibb" THEN "ended" ELSE "panicked")
    /\ TemporaryFileFails
    /\ UNCHANGED <<offer, arrived, chunk, writeChannel, buffer, reader, file, canceller, destination>>

\* The stream brings a chunk.  An in-band stream has the boundaries of the
\* sender's writes, and it writes the MAC in one.
Arrives(k) ==
    /\ arrived + k <= Total
    /\ method = "ibb" /\ scheme = "encrypted" => arrived + k # Total - 1
    /\ arrived' = arrived + k

\* ibbOnData, bytestreamDoReceive; the beginning of Write
Data(k) ==
    /\ feeder = "receiving"
    /\ method = "ibb" => "inflight" \in known
    /\ "err" \notin fields
    /\ Arrives(k)
    /\ feeder' = "writing"
    /\ chunk' = k
    /\ UNCHANGED <<offer, receiver, reader, file, known, canceller, result>>

\* The stanza is refused: the transfer is not in flight any more
DataRefused ==
    /\ method = "ibb"
    /\ "inflight" \notin known
    /\ Feeder("receiving", "ended")
    /\ UNCHANGED <<offer, arrived, chunk, receiver, reader, file, known, canceller, result>>

\* Write returns the error that was saved, and forgets it
DataError ==
    /\ feeder = "receiving"
    /\ method = "ibb" => "inflight" \in known
    /\ "err" \in fields
    /\ fields' = fields \ {"err"}
    /\ IF method = "ibb"
         THEN Report("failed") /\ known' = known \ {"inflight"} /\ UNCHANGED feeder
         ELSE feeder' = "ended" /\ UNCHANGED <<outcome, known>>
    /\ UNCHANGED <<offer, arrived, chunk, writeChannel, buffer, reader, file, canceller, destination>>

\* mutant: the transfer stays in flight
BadDataKept ==
    /\ method = "ibb"
    /\ feeder = "receiving"
    /\ "inflight" \in known
    /\ Report("failed")
    /\ UNCHANGED <<offer, arrived, feeder, chunk, receiver, reader, file, known, canceller, destination>>

\* ibbOnData: another sequence number than the next, or bytes that cannot be
\* decoded.  The receiver is not told.
BadData ==
    /\ method = "ibb"
    /\ feeder = "receiving"
    /\ "inflight" \in known
    /\ Report("failed")
    /\ known' = known \ {"inflight"}
    /\ UNCHANGED <<offer, arrived, feeder, chunk, receiver, reader, file, canceller, destination>>

\* The send in Write
Write ==
    /\ Feeder("writing", "receiving")
    /\ Len(writeChannel) < Capacity
    /\ writeChannel' = Append(writeChannel, chunk)
    /\ chunk' = 0
    /\ UNCHANGED <<offer, arrived, buffer, fields, reader, file, known, canceller, result>>

\* IbbClose, or the end of the bytestream
StreamEnds ==
    /\ method = "ibb" => "inflight" \in known
    /\ Feeder("receiving", "waiting")
    /\ UNCHANGED <<offer, arrived, chunk, receiver, reader, file, known, canceller, result>>

\* The bytestream breaks: nobody is told
StreamBreaks ==
    /\ method = "bytestreams"
    /\ Feeder("receiving", "ended")
    /\ UNCHANGED <<offer, arrived, chunk, receiver, reader, file, known, canceller, result>>

\* wait
WaitFails ==
    /\ "hadError" \in fields
    /\ Feeder("waiting", "ended")
    /\ IF method = "ibb"
         THEN Report("failed") /\ known' = known \ {"inflight"}
         ELSE UNCHANGED <<outcome, known>>
    /\ UNCHANGED <<offer, arrived, chunk, receiver, reader, file, canceller, destination>>

WaitSucceeds ==
    /\ "hadError" \notin fields
    /\ "done" \in fields
    /\ Feeder("waiting", "placing")
    /\ UNCHANGED <<offer, arrived, chunk, receiver, reader, file, known, canceller, result>>

\* finalizeFileTransfer: os.Rename, or unpack and the removal of the archive
Place ==
    /\ Feeder("placing", "finishing")
    /\ destination' = "whole"
    /\ temp' = IF kind = "file" THEN "moved" ELSE "removed"
    /\ UNCHANGED <<offer, arrived, chunk, receiver, reader, written, known, canceller, outcome>>

PlaceFails ==
    /\ Feeder("placing", "failing")
    /\ destination' \in IF kind = "file" THEN {"absent"} ELSE {"absent", "partial"}
    /\ UNCHANGED <<offer, arrived, chunk, receiver, reader, file, known, canceller, outcome>>

FinishFails ==
    /\ Feeder("failing", "ended")
    /\ temp' = "removed"
    /\ Report("failed")
    /\ known' = IF method = "ibb" THEN known \ {"inflight"} ELSE known
    /\ UNCHANGED <<offer, arrived, chunk, receiver, reader, written, canceller, destination>>

Finish ==
    /\ Feeder("finishing", "ended")
    /\ Report("finished")
    /\ known' = known \ {"inflight"}
    /\ UNCHANGED <<offer, arrived, chunk, receiver, reader, file, canceller, destination>>

-----------------------------------------------------------------------------
(* processReceive and readAndRun *)

ProcessReceive ==
    /\ writeChannel # <<>>
    /\ buffer' = buffer + Head(writeChannel)
    /\ writeChannel' = Tail(writeChannel)
    /\ UNCHANGED <<offer, arrived, feeder, chunk, fields, reader, file, known, canceller, result>>

\* Read takes what there is, up to what is asked for
Take(k) ==
    /\ "hadError" \notin fields
    /\ k <= buffer
    /\ buffer' = buffer - k

ReadIV ==
    /\ reader = "iv"
    /\ Take(IV)
    /\ reader' = "data"
    /\ UNCHANGED <<offer, arrived, feeder, chunk, writeChannel, fields, file, known, canceller, result>>

\* io.CopyN into the temporary file
CopyData(k) ==
    /\ reader = "data"
    /\ written + k <= Size
    /\ Take(k)
    /\ written' = written + k
    /\ reader' = IF written' < Size THEN "data" ELSE IF scheme = "encrypted" THEN "mac" ELSE "finish"
    /\ UNCHANGED <<offer, arrived, feeder, chunk, writeChannel, fields, temp, known, canceller, result>>

\* mutant: the length alone is checked
AnyMAC(k) == k = MAC

\* macVerifier: all of the MAC, and the one of the text.  createEncryptedReader
\* feeds it with what comes after the IV, so the IV is not looked at.
Verified(k) == k = MAC /\ stream \subseteq {"iv"}

\* One Read, which must bring all of the MAC
ReadMAC ==
    /\ reader = "mac"
    /\ buffer > 0
    /\ \E k \in 1 .. MAC :
          /\ Take(k)
          /\ k < MAC => k = buffer
          /\ reader' = IF Verified(k) THEN "finish" ELSE "failing"
    /\ UNCHANGED <<offer, arrived, feeder, chunk, writeChannel, fields, file, known, canceller, result>>

\* Read returns the error of another goroutine
ReaderFails ==
    /\ reader \in {"iv", "data", "mac"}
    /\ "hadError" \in fields
    /\ reader' = "failing"
    /\ UNCHANGED <<offer, arrived, feeder, chunk, receiver, file, known, canceller, result>>

\* The temporary file cannot be written
FileBreaks ==
    /\ reader = "data"
    /\ buffer > 0
    /\ reader' = "failing"
    /\ UNCHANGED <<offer, arrived, feeder, chunk, receiver, file, known, canceller, result>>

\* The error is reported, the rest is cleaned up (cleanupAfterRun), and then
\* the error is saved for wait
ReaderReports ==
    /\ reader = "failing"
    /\ reader' = "cleaning"
    /\ Report("failed")
    /\ UNCHANGED <<offer, arrived, feeder, chunk, receiver, file, known, canceller, destination>>

ReaderCleans ==
    /\ reader = "cleaning"
    /\ reader' = "saving"
    /\ temp' = "removed"
    /\ known' = known \ {"inflight"}
    /\ UNCHANGED <<offer, arrived, feeder, chunk, receiver, written, canceller, result>>

\* mutant: nobody learns of the error
ReaderKeepsQuiet ==
    /\ reader = "saving"
    /\ reader' = "ended"
    /\ UNCHANGED <<offer, arrived, feeder, chunk, receiver, file, known, canceller, result>>

ReaderSaves ==
    /\ reader = "saving"
    /\ reader' = "ended"
    /\ SaveError
    /\ UNCHANGED <<offer, arrived, feeder, chunk, writeChannel, buffer, file, known, canceller, result>>

ReaderFinishes ==
    /\ reader = "finish"
    /\ reader' = "ended"
    /\ temp' = "closed"
    /\ fields' = fields \union {"done"}
    /\ UNCHANGED <<offer, arrived, feeder, chunk, writeChannel, buffer, written, known, canceller, result>>

-----------------------------------------------------------------------------
(* Cancelling: WaitForCancel with ibbWaitForCancel or bytestreamWaitForCancel *)

Canceller(from, to) ==
    /\ canceller = from
    /\ canceller' = to

\* The channel is there as long as the user was told nothing
UserCancels ==
    /\ outcome = "pending"
    /\ Canceller("waiting", "cancelling")
    /\ UNCHANGED <<offer, arrived, feeder, chunk, receiver, reader, file, known, result>>

\* The receiver is cancelled when there is one; with bytestreams opaque is a
\* channel whose reader comes with the receiver
CancelReceiver ==
    /\ Canceller("cancelling", "cleaning")
    /\ method = "bytestreams" /\ "opaque" \in known => "recv" \in known
    /\ IF {"opaque", "recv"} \subseteq known THEN SaveError ELSE UNCHANGED fields
    /\ UNCHANGED <<offer, arrived, feeder, chunk, writeChannel, buffer, reader, file, known, result>>

CancelForgets ==
    /\ Canceller("cleaning", "closing")
    /\ known' = known \ {"inflight"}
    /\ UNCHANGED <<offer, arrived, feeder, chunk, receiver, reader, file, result>>

CancelCloses ==
    /\ Canceller("closing", "ended")
    /\ Report("canceled")
    /\ UNCHANGED <<offer, arrived, feeder, chunk, receiver, reader, file, known, destination>>

-----------------------------------------------------------------------------

Feeding ==
    \/ NoStreamhost
    \/ CreateReceiver
    \/ CreateReceiverFails
    \/ DataRefused
    \/ DataError
    \/ Write
    \/ WaitFails
    \/ WaitSucceeds
    \/ Place
    \/ PlaceFails
    \/ FinishFails
    \/ Finish

Reading ==
    \/ ReadIV
    \/ \E k \in 1 .. Size : CopyData(k)
    \/ ReadMAC
    \/ ReaderFails
    \/ ReaderReports
    \/ ReaderCleans
    \/ ReaderSaves
    \/ ReaderFinishes

Cancelling ==
    \/ CancelReceiver
    \/ CancelForgets
    \/ CancelCloses

\* What the peer and the network do
Peer ==
    \/ Open
    \/ \E k \in 1 .. MaxChunk : Data(k)
    \/ BadData
    \/ StreamEnds
    \/ StreamBreaks

Next ==
    /\ feeder # "panicked"
    /\ \/ Peer
       \/ Feeding
       \/ ProcessReceive
       \/ Reading
       \/ FileBreaks
       \/ UserCancels
       \/ Cancelling

\* Goroutines run on; nothing makes the peer send or the user cancel
Fairness ==
    /\ WF_vars(Feeding)
    /\ WF_vars(ProcessReceive)
    /\ WF_vars(Reading)
    /\ WF_vars(Cancelling)

Spec == Init /\ [][Next]_vars /\ Fairness

-----------------------------------------------------------------------------
(* Properties *)

\* What is at the destination has the length of the file, and in an encrypted
\* stream its text and its MAC arrived as they were sent, whatever arrives in which
\* chunks and whoever cancels.  That is not to say that it is the file: the MAC
\* leaves the IV out, and a damaged one garbles the beginning unnoticed.
DestinationIsWhole ==
    destination = "whole" => /\ written = Size
                             /\ scheme = "encrypted" => stream \subseteq {"iv"}

Promise == INSTANCE Delivery
\* Receiving keeps the promise of module Delivery.
KeepsPromise == Promise!Spec

\* Once everything has arrived the handler of the stream's end comes back: the
\* session's stanzas are not held up by it.
HandlerReturns == (feeder = "waiting" /\ arrived = Total) ~> (feeder = "ended")

\* The user is told how it went.  Not so of this code: StreamBreaks tells nobody,
\* and a stream that is closed early leaves its handler waiting.
TransferConcludes == (feeder \in {"waiting", "ended"}) ~> (outcome # "pending")

=============================================================================
