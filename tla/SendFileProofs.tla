--------------------------- MODULE SendFileProofs ---------------------------
(* Proofs about SendFile, for files of any size. *)
EXTENDS SendFile, FiniteSetTheorems, TLAPS

\* A report that sends holds the lock and its channel is still there; the
\* other channel is closed before the report sends; once a listener was told,
\* both channels are closed; and Cancel keeps the lock while it sends.
ReportInv ==
    /\ \A r \in Reports : report[r] = "send" => lock = r /\ Sends(r) \in open
    /\ \A r \in Reports : report[r] \in {"middle", "send"} => Closes(r) \notin open
    /\ told # {} => \A c \in Listeners : c \notin open
    /\ canceller = "sending" => lock = "canceller"

\* The Boolean variables
FlagsOK ==
    /\ weWantToCancel \in BOOLEAN
    /\ theyWantToCancel \in BOOLEAN
    /\ inflight \in BOOLEAN
    /\ panicked \in BOOLEAN

\* ... and the others
RestOK ==
    /\ open \subseteq Channels
    /\ lock \in Reports \union {"free", "canceller"}
    /\ report \in [Reports -> {"none", "begin", "middle", "send", "end"}]
    /\ ui \in [Listeners -> {"start", "waiting", "told", "end", "never"}]
    /\ listener \in {"none", "start", "waiting", "closing", "closed", "end", "never"}
    /\ canceller \in {"none", "clicked", "sending", "end"}
    /\ sender \in {"discover", "ask", "offer", "offered", "start", "send",
                   "writing", "updating", "sealing", "leaving",
                   "closing", "closed", "report", "end"}
    /\ method \in {"none", "ibb", "bytestreams"}
    /\ reader \in {"none", "reading", "failed", "closed"}
    /\ sent \in 0 .. Size
    /\ told \subseteq {"failed", "succeeded", "declined"}
    /\ state \in {"in-progress", "canceled", "failed", "succeeded", "declined"}

\* A step keeps the Boolean variables Boolean.
LEMMA FlagsStep ==
  ASSUME FlagsOK, [Next]_vars
  PROVE  FlagsOK'
<1> USE DEF FlagsOK, flags, control, view
<1> SUFFICES FlagsOK'
  OBVIOUS
<1>1. ASSUME NEW r \in Reports, ReportBegins(r) PROVE FlagsOK'
  BY <1>1, Zenon DEF ReportBegins, Close
<1>2. ASSUME NEW r \in Reports, ReportSends(r) PROVE FlagsOK'
  BY <1>2, Zenon DEF ReportSends
<1>3. ASSUME NEW r \in Reports, Tell(r) PROVE FlagsOK'
  BY <1>3, Zenon DEF Tell, Message, Sends, Reports, Errors, Ends, Listeners
<1>4. ASSUME NEW l \in Listeners, Listen(l) PROVE FlagsOK'
  BY <1>4, Zenon DEF Listen
<1>5. ASSUME NEW l \in Listeners, StopListening(l) PROVE FlagsOK'
  BY <1>5, Zenon DEF StopListening, Close
<1>6. ASSUME Click PROVE FlagsOK'
  BY <1>6, Zenon DEF Click
<1>7. ASSUME Cancel PROVE FlagsOK'
  BY <1>7, Zenon DEF Cancel
<1>8. ASSUME ListenForCancel PROVE FlagsOK'
  BY <1>8, Zenon DEF ListenForCancel
<1>9. ASSUME CancelArrives PROVE FlagsOK'
  BY <1>9, Zenon DEF CancelArrives
<1>10. ASSUME ListenerCloses PROVE FlagsOK'
  BY <1>10, Zenon DEF ListenerCloses, Close
<1>11. ASSUME SenderFails PROVE FlagsOK'
  BY <1>11, Zenon DEF SenderFails, Failing, Reports, Errors, Ends
<1>12. ASSUME WritePiece PROVE FlagsOK'
  BY <1>12, Zenon DEF WritePiece, Continue
<1>13. ASSUME Discover PROVE FlagsOK'
  BY <1>13, <1>11, Zenon DEF Discover, Continue
<1>14. ASSUME Ask PROVE FlagsOK'
  BY <1>14, <1>11, Zenon DEF Ask, Continue
<1>15. ASSUME Offer PROVE FlagsOK'
  BY <1>15, Zenon DEF Offer, Continue
<1>16. ASSUME OfferAnswered PROVE FlagsOK'
  BY <1>16, <1>11, Zenon DEF OfferAnswered, Continue, Concluding, Reports, Errors, Ends
<1>17. ASSUME IbbStart \/ BytestreamsStart PROVE FlagsOK'
  BY <1>17, <1>11, Zenon DEF IbbStart, BytestreamsStart, Continue
<1>18. ASSUME IbbCancelled PROVE FlagsOK'
  BY <1>18, Zenon DEF IbbCancelled, Continue
<1>28. ASSUME IbbLeft \/ Update PROVE FlagsOK'
  BY <1>28, Zenon DEF IbbLeft, Update, Continue
<1>29. ASSUME PieceWritten PROVE FlagsOK'
  BY <1>29, <1>11, Zenon DEF PieceWritten
<1>30. ASSUME Seal PROVE FlagsOK'
  BY <1>30, Zenon DEF Seal, Concluding, Reports, Errors, Ends
<1>19. ASSUME IbbRefused PROVE FlagsOK'
  BY <1>19, Zenon DEF IbbRefused, Continue
<1>20. ASSUME IbbChunk PROVE FlagsOK'
  BY <1>20, <1>12, Zenon DEF IbbChunk, Continue
<1>21. ASSUME BytestreamsChunk PROVE FlagsOK'
  BY <1>21, <1>11, <1>12, Zenon DEF BytestreamsChunk, Continue
<1>22. ASSUME SenderCloses PROVE FlagsOK'
  BY <1>22, Zenon DEF SenderCloses, Close
<1>23. ASSUME SenderReported PROVE FlagsOK'
  BY <1>23, Zenon DEF SenderReported, Continue
<1>24. ASSUME ReaderFails PROVE FlagsOK'
  BY <1>24, Zenon DEF ReaderFails, Failing, Reports, Errors, Ends
<1>25. ASSUME ReaderEnds PROVE FlagsOK'
  BY <1>25, Zenon DEF ReaderEnds
<1>26. ASSUME PeerCancels PROVE FlagsOK'
  BY <1>26, Zenon DEF PeerCancels
<1>27. ASSUME UNCHANGED vars PROVE FlagsOK'
  BY <1>27, Zenon DEF vars
<1> QED
  BY <1>1, <1>2, <1>3, <1>4, <1>5, <1>6, <1>7, <1>8, <1>9, <1>10, <1>13, <1>14, <1>15, <1>16,
     <1>17, <1>18, <1>19, <1>20, <1>21, <1>22, <1>23, <1>24, <1>25, <1>26, <1>27, <1>28, <1>29,
     <1>30
  DEF Next, Sender

\* A step keeps the types of the others.
LEMMA RestStep ==
  ASSUME RestOK, [Next]_vars
  PROVE  RestOK'
<1> USE DEF RestOK, flags, control, view
<1> SUFFICES RestOK'
  OBVIOUS
<1>1. ASSUME NEW r \in Reports, ReportBegins(r) PROVE RestOK'
  BY <1>1 DEF ReportBegins, Close
<1>2. ASSUME NEW r \in Reports, ReportSends(r) PROVE RestOK'
  BY <1>2 DEF ReportSends
<1>3. ASSUME NEW r \in Reports, Tell(r) PROVE RestOK'
  BY <1>3 DEF Tell, Message, Sends, Reports, Errors, Ends, Listeners
<1>4. ASSUME NEW l \in Listeners, Listen(l) PROVE RestOK'
  BY <1>4 DEF Listen
<1>5. ASSUME NEW l \in Listeners, StopListening(l) PROVE RestOK'
  BY <1>5 DEF StopListening, Close
<1>6. ASSUME Click PROVE RestOK'
  BY <1>6 DEF Click
<1>7. ASSUME Cancel PROVE RestOK'
  BY <1>7 DEF Cancel
<1>8. ASSUME ListenForCancel PROVE RestOK'
  BY <1>8 DEF ListenForCancel
<1>9. ASSUME CancelArrives PROVE RestOK'
  BY <1>9 DEF CancelArrives
<1>10. ASSUME ListenerCloses PROVE RestOK'
  BY <1>10 DEF ListenerCloses, Close
<1>11. ASSUME SenderFails PROVE RestOK'
  BY <1>11 DEF SenderFails, Failing, Reports, Errors, Ends
<1>12. ASSUME WritePiece PROVE RestOK'
  BY <1>12 DEF WritePiece, Continue
<1>13. ASSUME Discover PROVE RestOK'
  <2>1. ASSUME NEW next \in {"ask", "offer"}, Continue(next),
               UNCHANGED <<listener, method, reader, inflight, panicked>>
        PROVE  RestOK'
    BY <2>1 DEF Continue
  <2> QED
    BY <1>13, <1>11, <2>1 DEF Discover
<1>14. ASSUME Ask PROVE RestOK'
  BY <1>14, <1>11 DEF Ask, Continue
<1>15. ASSUME Offer PROVE RestOK'
  BY <1>15 DEF Offer, Continue
<1>16. ASSUME OfferAnswered PROVE RestOK'
  <2>1. CASE Continue("start") /\ method' \in {"ibb", "bytestreams"}
             /\ UNCHANGED <<listener, reader, panicked>>
    BY <2>1 DEF Continue
  <2>2. CASE Concluding("decline") /\ UNCHANGED <<method, reader, inflight>>
    BY <2>2 DEF Concluding, Reports, Ends
  <2>3. CASE Continue("end") /\ UNCHANGED <<listener, method, reader, inflight>>
    BY <2>3 DEF Continue
  <2> QED
    BY <1>16, <1>11, <2>1, <2>2, <2>3, Zenon DEF OfferAnswered
<1>17. ASSUME IbbStart \/ BytestreamsStart PROVE RestOK'
  <2>1. SenderFails \/ (Continue("send") /\ method' = method /\ listener' = listener
                        /\ (reader' = "reading" \/ reader' = reader))
    BY <1>17, Zenon DEF IbbStart, BytestreamsStart
  <2>2. CASE Continue("send") /\ method' = method /\ listener' = listener
             /\ (reader' = "reading" \/ reader' = reader)
    BY <2>2 DEF Continue
  <2> QED
    BY <2>1, <2>2, <1>11
<1>18. ASSUME IbbCancelled PROVE RestOK'
  BY <1>18 DEF IbbCancelled, Continue
<1>28. ASSUME IbbLeft \/ Update PROVE RestOK'
  <2>1. ASSUME NEW next \in {"end", "sealing", "send"}, Continue(next),
               UNCHANGED <<listener, method, reader, panicked>>
        PROVE  RestOK'
    BY <2>1 DEF Continue
  <2> QED
    BY <1>28, <2>1, Zenon DEF IbbLeft, Update
<1>29. ASSUME PieceWritten PROVE RestOK'
  <2>1. ASSUME sent < Size, sent' = sent + 1, sender' = "updating",
               UNCHANGED <<control, report, ui, listener, canceller, method, reader,
                           flags, view, panicked>>
        PROVE  RestOK'
    BY <2>1, SizeAssumption
  <2> QED
    BY <1>29, <1>11, <2>1, Zenon DEF PieceWritten
<1>30. ASSUME Seal PROVE RestOK'
  BY <1>30 DEF Seal, Concluding, Reports, Ends
<1>19. ASSUME IbbRefused PROVE RestOK'
  BY <1>19 DEF IbbRefused, Continue
<1>31. ASSUME Continue("sealing"), UNCHANGED <<listener, method, reader, inflight, panicked>>
       PROVE  RestOK'
  BY <1>31 DEF Continue
<1>20. ASSUME IbbChunk PROVE RestOK'
  BY <1>20, <1>12, <1>31, Zenon DEF IbbChunk
<1>21. ASSUME BytestreamsChunk PROVE RestOK'
  BY <1>21, <1>11, <1>12, <1>31, Zenon DEF BytestreamsChunk
<1>22. ASSUME SenderCloses PROVE RestOK'
  BY <1>22 DEF SenderCloses, Close
<1>23. ASSUME SenderReported PROVE RestOK'
  BY <1>23 DEF SenderReported, Continue
<1>24. ASSUME ReaderFails PROVE RestOK'
  BY <1>24 DEF ReaderFails, Failing, Reports, Errors, Ends
<1>25. ASSUME ReaderEnds PROVE RestOK'
  BY <1>25 DEF ReaderEnds
<1>26. ASSUME PeerCancels PROVE RestOK'
  BY <1>26 DEF PeerCancels
<1>27. ASSUME UNCHANGED vars PROVE RestOK'
  BY <1>27 DEF vars
<1> QED
  BY <1>1, <1>2, <1>3, <1>4, <1>5, <1>6, <1>7, <1>8, <1>9, <1>10, <1>13, <1>14, <1>15, <1>16,
     <1>17, <1>18, <1>19, <1>20, <1>21, <1>22, <1>23, <1>24, <1>25, <1>26, <1>27, <1>28, <1>29,
     <1>30
  DEF Next, Sender

\* Every variable keeps its type.
THEOREM SendTypeCorrect == Spec => []TypeOK
<1>1. Init => RestOK
  BY SizeAssumption DEF Init, RestOK, Reports, Errors, Ends, Channels, Listeners
<1>2. Init => FlagsOK
  BY Zenon DEF Init, FlagsOK
<1>3. RestOK /\ [Next]_vars => RestOK'
  BY RestStep
<1>4. FlagsOK /\ [Next]_vars => FlagsOK'
  BY FlagsStep
<1>5. RestOK /\ FlagsOK <=> TypeOK
  BY Zenon DEF RestOK, FlagsOK, TypeOK
<1> QED
  BY <1>1, <1>2, <1>3, <1>4, <1>5, PTL DEF Spec

-----------------------------------------------------------------------------

\* A step keeps ReportInv: a channel never opens again, and while a report
\* sends nobody else has the lock.
LEMMA ReportStep ==
  ASSUME RestOK, ReportInv, [Next]_vars
  PROVE  ReportInv'
<1> USE DEF RestOK, ReportInv, flags, control, view
<1>0. \A r \in Reports : Sends(r) \in Listeners /\ Closes(r) \in Listeners /\ Sends(r) # Closes(r)
  BY DEF Sends, Closes, Listeners
<1>1. ASSUME NEW r \in Reports, ReportBegins(r) PROVE ReportInv'
  <2>1. /\ lock = "free"
        /\ lock' = lock
        /\ open' = open \ {Closes(r)}
        /\ report' = [report EXCEPT ![r] = "middle"]
        /\ UNCHANGED <<told, canceller>>
    BY <1>1, Zenon DEF ReportBegins, Close
  <2>2. \A q \in Reports : report[q] # "send"
    BY <2>1 DEF Reports, Errors, Ends
  <2> QED
    BY <2>1, <2>2
<1>2. ASSUME NEW r \in Reports, ReportSends(r) PROVE ReportInv'
  <2>1. /\ lock = "free"
        /\ report[r] = "middle"
        /\ open' = open
        /\ UNCHANGED <<told, canceller>>
        /\ \/ /\ Sends(r) \in open
              /\ lock' = r
              /\ report' = [report EXCEPT ![r] = "send"]
           \/ report' = [report EXCEPT ![r] = "end"] /\ lock' = lock
    BY <1>2, Zenon DEF ReportSends
  <2>2. \A q \in Reports : report[q] # "send"
    BY <2>1 DEF Reports, Errors, Ends
  <2> QED
    BY <2>1, <2>2
<1>3. ASSUME NEW r \in Reports, Tell(r) PROVE ReportInv'
  <2>1. /\ report[r] = "send"
        /\ open' = open \ {Sends(r)}
        /\ report' = [report EXCEPT ![r] = "end"]
        /\ canceller' = canceller
    BY <1>3, Zenon DEF Tell
  <2>2. \A q \in Reports : report'[q] = "send" => q # r /\ report[q] = "send"
    BY <2>1
  <2>3. \A q \in Reports : report'[q] # "send"
    BY <2>1, <2>2
  <2>4. Listeners = {Sends(r), Closes(r)}
    BY DEF Sends, Closes, Listeners
  <2>5. \A c \in Listeners : c \notin open'
    BY <2>1, <2>4
  <2>6. canceller # "sending"
    BY <2>1 DEF Reports, Errors, Ends
  <2> QED
    BY <2>1, <2>3, <2>5, <2>6
<1>4. ASSUME UNCHANGED <<control, report, told>>,
             canceller' = canceller \/ canceller' = "clicked"
      PROVE  ReportInv'
  BY <1>4
<1>5. ASSUME NEW c \in Channels, Close(c), UNCHANGED <<report, told, canceller>> PROVE ReportInv'
  <2>1. \A q \in Reports : report[q] # "send"
    BY <1>5 DEF Close, Reports, Errors, Ends
  <2> QED
    BY <1>5, <2>1 DEF Close
<1>6. ASSUME Cancel PROVE ReportInv'
  <2>1. /\ lock = "free"
        /\ UNCHANGED <<open, report, told>>
        /\ \/ lock' = "canceller"
           \/ canceller' = "end" /\ lock' = lock
    BY <1>6, Zenon DEF Cancel
  <2>2. \A q \in Reports : report[q] # "send"
    BY <2>1 DEF Reports, Errors, Ends
  <2> QED
    BY <2>1, <2>2
<1>7. ASSUME CancelArrives PROVE ReportInv'
  <2>1. /\ canceller = "sending"
        /\ canceller' = "end"
        /\ lock' = "free"
        /\ UNCHANGED <<open, report, told>>
    BY <1>7, Zenon DEF CancelArrives
  <2>2. \A q \in Reports : report[q] # "send"
    BY <2>1 DEF Reports, Errors, Ends
  <2> QED
    BY <2>1, <2>2
<1>8. ASSUME NEW r \in Reports, report' = [report EXCEPT ![r] = "begin"], UNCHANGED <<control, told, canceller>>
      PROVE  ReportInv'
  BY <1>8
<1>9. ASSUME SenderFails PROVE ReportInv'
  <2>1. report' = [report EXCEPT !["senderError"] = "begin"] /\ UNCHANGED <<control, told, canceller>>
    BY <1>9, Zenon DEF SenderFails, Failing
  <2> QED
    BY <2>1, <1>8 DEF Reports, Errors
<1>10. ASSUME ReaderFails PROVE ReportInv'
  <2>1. report' = [report EXCEPT !["readerError"] = "begin"] /\ UNCHANGED <<control, told, canceller>>
    BY <1>10, Zenon DEF ReaderFails, Failing
  <2> QED
    BY <2>1, <1>8 DEF Reports, Errors
<1>11. ASSUME NEW r \in Ends, Concluding(r) PROVE ReportInv'
  <2>1. report' = [report EXCEPT ![r] = "begin"] /\ UNCHANGED <<control, told, canceller>>
    BY <1>11, Zenon DEF Concluding
  <2> QED
    BY <2>1, <1>8 DEF Reports
<1>12. ASSUME NEW next, Continue(next) PROVE UNCHANGED <<control, report, told, canceller>>
  BY <1>12, Zenon DEF Continue
<1>13. ASSUME NEW next, Continue(next) PROVE ReportInv'
  BY <1>13, <1>12, <1>4
<1>14. ASSUME PieceWritten PROVE ReportInv'
  <2>1. SenderFails \/ UNCHANGED <<control, report, told, canceller>>
    BY <1>14, Zenon DEF PieceWritten
  <2> QED
    BY <2>1, <1>4, <1>9
<1>15. ASSUME NEW l \in Listeners, StopListening(l) PROVE ReportInv'
  <2>1. /\ UNCHANGED <<report, told, canceller>>
        /\ Close("cancel") \/ UNCHANGED control
    BY <1>15, Zenon DEF StopListening
  <2> QED
    BY <2>1, <1>4, <1>5 DEF Channels
<1>16. ASSUME ListenerCloses PROVE ReportInv'
  <2>1. /\ UNCHANGED <<report, told, canceller>>
        /\ Close("finished") \/ Close("error")
    BY <1>16, Zenon DEF ListenerCloses
  <2> QED
    BY <2>1, <1>5 DEF Channels
<1>17. ASSUME SenderCloses PROVE ReportInv'
  <2>1. /\ UNCHANGED <<report, told, canceller>>
        /\ Close("finished") \/ Close("error")
    BY <1>17, Zenon DEF SenderCloses
  <2> QED
    BY <2>1, <1>5 DEF Channels
<1>18. ASSUME Sender PROVE ReportInv'
  BY <1>18, <1>9, <1>11, <1>13, <1>14, <1>17, Zenon
  DEF Sender, Discover, Ask, Offer, OfferAnswered, IbbStart, BytestreamsStart, IbbCancelled,
      IbbLeft, IbbRefused, IbbChunk, WritePiece, Update, Seal,
      BytestreamsChunk, SenderReported, Ends
<1>19. ASSUME \/ \E l \in Listeners : Listen(l)
              \/ Click
              \/ ListenForCancel
              \/ ReaderEnds
              \/ PeerCancels
              \/ UNCHANGED vars
       PROVE  ReportInv'
  <2>1. /\ UNCHANGED <<control, report, told>>
        /\ canceller' = canceller \/ canceller' = "clicked"
    BY <1>19, Zenon DEF Listen, Click, ListenForCancel, ReaderEnds, PeerCancels, vars
  <2> QED
    BY <2>1, <1>4
<1> QED
  BY <1>1, <1>2, <1>3, <1>6, <1>7, <1>10, <1>15, <1>16, <1>18, <1>19, Zenon DEF Next

\* However reports, listeners and cancelling interleave, the listeners are told
\* one outcome at most (ReportError, ReportFinished and ReportDeclined).
THEOREM OneOutcomeAlways == Spec => []OneOutcome
<1> DEFINE AtMostOne == \A m, n \in told : m = n
<1>1. Init => RestOK
  BY SizeAssumption DEF Init, RestOK, Reports, Errors, Ends, Channels, Listeners
<1>2. Init => ReportInv
  BY DEF Init, ReportInv, Reports, Errors, Ends
<1>3. Init => AtMostOne
  BY DEF Init
<1>4. RestOK /\ [Next]_vars => RestOK'
  BY RestStep
<1>5. RestOK /\ ReportInv /\ [Next]_vars => ReportInv'
  BY ReportStep
<1>6. RestOK /\ ReportInv /\ AtMostOne /\ [Next]_vars => AtMostOne'
  <2> SUFFICES ASSUME RestOK, ReportInv, AtMostOne, [Next]_vars PROVE AtMostOne'
    OBVIOUS
  <2>1. CASE told' = told
    BY <2>1
  <2>2. ASSUME NEW r \in Reports, Tell(r) PROVE AtMostOne'
    <3>1. report[r] = "send" /\ told' = told \union {Message(r)}
      BY <2>2, Zenon DEF Tell
    <3>2. Sends(r) \in open /\ Sends(r) \in Listeners
      BY <3>1 DEF ReportInv, Sends, Listeners
    <3>3. told = {}
      BY <3>2 DEF ReportInv
    <3> QED
      BY <3>1, <3>3
  <2>3. told' = told \/ \E r \in Reports : Tell(r)
    BY Zenon DEF Next, vars, view, ReportBegins, ReportSends, Listen, StopListening, Click, Cancel,
       ListenForCancel, CancelArrives, ListenerCloses, Sender, Discover, Ask, Offer, OfferAnswered,
       IbbStart, BytestreamsStart, IbbCancelled, IbbLeft, IbbRefused, IbbChunk, BytestreamsChunk,
       SenderCloses, SenderReported, Update, Seal, PieceWritten,
       SenderFails, WritePiece, Concluding, Continue, ReaderFails, ReaderEnds, PeerCancels
  <2> QED
    BY <2>1, <2>2, <2>3
<1>7. RestOK /\ AtMostOne => OneOutcome
  <2> SUFFICES ASSUME RestOK, AtMostOne PROVE OneOutcome
    OBVIOUS
  <2>1. CASE told = {}
    BY <2>1, FS_EmptySet DEF OneOutcome
  <2>2. ASSUME NEW m \in told PROVE OneOutcome
    <3>1. told = {m}
      BY <2>2
    <3> QED
      BY <3>1, FS_Singleton DEF OneOutcome
  <2> QED
    BY <2>1, <2>2
<1> QED
  BY <1>1, <1>2, <1>3, <1>4, <1>5, <1>6, <1>7, PTL DEF Spec

-----------------------------------------------------------------------------

\* What a report of success stands on: the user cancelled, the file could not
\* be read on, or all of it was sent.
ReaderBroke == report["readerError"] # "none"

SuccessInv ==
    /\ canceller # "none" => state = "canceled"
    /\ weWantToCancel => canceller # "none"
    /\ reader = "failed" => ReaderBroke
    /\ reader = "closed" => sent = Size \/ ReaderBroke
    /\ sender = "sealing" => sent = Size \/ ReaderBroke \/ weWantToCancel
    /\ report["finish"] # "none" => sent = Size \/ ReaderBroke \/ weWantToCancel
    /\ SuccessIsWhole

\* A report only moves on: one that began never looks as if it had not, and
\* only onFinish begins one of success.
LEMMA ReportsStay ==
  ASSUME RestOK, [Next]_vars
  PROVE  /\ ReaderBroke => ReaderBroke'
         /\ \/ report'["finish"] = report["finish"]
            \/ report["finish"] # "none" /\ report'["finish"] # "none"
            \/ Seal
<1> DEFINE P == /\ ReaderBroke => ReaderBroke'
                /\ \/ report'["finish"] = report["finish"]
                   \/ report["finish"] # "none" /\ report'["finish"] # "none"
                   \/ Seal
<1> SUFFICES P
  OBVIOUS
<1> USE DEF RestOK, ReaderBroke, Reports, Errors, Ends
<1>1. CASE report' = report
  BY <1>1
<1>2. ASSUME NEW r \in Reports, report[r] # "none", NEW at \in {"middle", "send", "end"},
             report' = [report EXCEPT ![r] = at]
      PROVE  P
  BY <1>2
<1>3. ASSUME NEW r \in Errors \union {"decline"}, report' = [report EXCEPT ![r] = "begin"] PROVE P
  BY <1>3
<1>4. ASSUME Seal PROVE P
  <2>1. report' = [report EXCEPT !["finish"] = "begin"]
    BY <1>4, Zenon DEF Seal, Concluding
  <2> QED
    BY <1>4, <2>1
<1>5. ASSUME NEW r \in Reports, ReportBegins(r) PROVE P
  BY <1>5, <1>2 DEF ReportBegins
<1>6. ASSUME NEW r \in Reports, ReportSends(r) PROVE P
  BY <1>6, <1>2 DEF ReportSends
<1>7. ASSUME NEW r \in Reports, Tell(r) PROVE P
  BY <1>7, <1>2 DEF Tell
<1>8. ASSUME SenderFails PROVE P
  BY <1>8, <1>3, Zenon DEF SenderFails, Failing
<1>9. ASSUME ReaderFails PROVE P
  BY <1>9, <1>3, Zenon DEF ReaderFails, Failing
<1>10. ASSUME OfferAnswered PROVE P
  BY <1>10, <1>1, <1>3, <1>8, Zenon DEF OfferAnswered, Concluding, Continue
<1>11. ASSUME BytestreamsChunk \/ PieceWritten PROVE P
  BY <1>11, <1>1, <1>8, Zenon DEF BytestreamsChunk, PieceWritten, WritePiece, Continue
<1>12. ASSUME Sender PROVE P
  BY <1>12, <1>1, <1>4, <1>8, <1>10, <1>11, Zenon
  DEF Sender, Discover, Ask, Offer, IbbStart, BytestreamsStart, IbbCancelled, IbbLeft, IbbRefused,
      IbbChunk, WritePiece, Update, SenderCloses, SenderReported, Continue
<1>13. ASSUME \/ \E l \in Listeners : Listen(l) \/ StopListening(l)
              \/ Click \/ Cancel \/ ListenForCancel \/ CancelArrives \/ ListenerCloses
              \/ ReaderEnds \/ PeerCancels
              \/ UNCHANGED vars
       PROVE  P
  BY <1>13, <1>1, Zenon DEF Listen, StopListening, Click, Cancel, ListenForCancel, CancelArrives,
     ListenerCloses, ReaderEnds, PeerCancels, vars
<1> QED
  BY <1>5, <1>6, <1>7, <1>9, <1>12, <1>13, Zenon DEF Next

\* The reader of the file ends after a failure or with all of it sent; what
\* was sent stays sent.
LEMMA ReaderStep ==
  ASSUME RestOK, SuccessInv, [Next]_vars
  PROVE  /\ reader' = "failed" => ReaderBroke'
         /\ reader' = "closed" => sent' = Size \/ ReaderBroke'
         /\ sent = Size => sent' = Size
<1> DEFINE P == /\ reader' = "failed" => ReaderBroke'
                /\ reader' = "closed" => sent' = Size \/ ReaderBroke'
                /\ sent = Size => sent' = Size
<1> SUFFICES P
  OBVIOUS
<1>1. ReaderBroke => ReaderBroke'
  BY ReportsStay
<1>2. CASE UNCHANGED <<reader, sent>>
  BY <1>1, <1>2 DEF SuccessInv
<1>3. ASSUME ReaderFails PROVE P
  <2>1. reader' = "failed" /\ sent' = sent /\ report' = [report EXCEPT !["readerError"] = "begin"]
    BY <1>3, Zenon DEF ReaderFails, Failing
  <2> QED
    BY <2>1 DEF ReaderBroke, RestOK, Reports, Errors
<1>4. ASSUME ReaderEnds PROVE P
  <2>1. reader' = "closed" /\ sent' = sent /\ (reader = "failed" \/ sent = Size)
    BY <1>4, Zenon DEF ReaderEnds
  <2> QED
    BY <2>1, <1>1 DEF SuccessInv
<1>5. ASSUME IbbStart \/ BytestreamsStart PROVE P
  <2>1. CASE SenderFails
    BY <2>1, <1>2, Zenon DEF SenderFails
  <2>2. CASE sent' = sent /\ reader' = "reading"
    BY <2>2
  <2>3. CASE UNCHANGED <<sent, reader>>
    BY <2>3, <1>2
  <2>4. SenderFails \/ (sent' = sent /\ (reader' = "reading" \/ reader' = reader))
    BY <1>5, Zenon DEF IbbStart, BytestreamsStart, Continue
  <2> QED
    BY <2>1, <2>2, <2>3, <2>4
<1>6. ASSUME PieceWritten PROVE P
  <2>1. CASE SenderFails
    BY <2>1, <1>2, Zenon DEF SenderFails
  <2>2. CASE sent < Size /\ reader' = reader
    <3>1. sent # Size
      BY <2>2, SizeAssumption DEF RestOK
    <3> QED
      BY <2>2, <3>1, <1>1 DEF SuccessInv
  <2> QED
    BY <1>6, <2>1, <2>2, Zenon DEF PieceWritten
<1>7. ASSUME Sender PROVE P
  BY <1>7, <1>2, <1>5, <1>6, Zenon
  DEF Sender, Discover, Ask, Offer, OfferAnswered, IbbCancelled, IbbLeft, IbbRefused, IbbChunk,
      BytestreamsChunk, WritePiece, Update, Seal,
      SenderCloses, SenderReported, SenderFails, Concluding, Continue
<1>8. ASSUME \/ \E r \in Reports : ReportBegins(r) \/ ReportSends(r) \/ Tell(r)
             \/ \E l \in Listeners : Listen(l) \/ StopListening(l)
             \/ Click \/ Cancel \/ ListenForCancel \/ CancelArrives \/ ListenerCloses
             \/ PeerCancels
             \/ UNCHANGED vars
      PROVE  P
  BY <1>8, <1>2, Zenon DEF ReportBegins, ReportSends, Tell, Listen, StopListening, Click, Cancel,
     ListenForCancel, CancelArrives, ListenerCloses, PeerCancels, vars
<1> QED
  BY <1>3, <1>4, <1>7, <1>8, Zenon DEF Next

\* Who cancelled sees a cancelled transfer, from then on.
LEMMA CancelStep ==
  ASSUME RestOK, SuccessInv, [Next]_vars
  PROVE  /\ canceller' # "none" => state' = "canceled"
         /\ weWantToCancel' => canceller' # "none"
         /\ weWantToCancel => weWantToCancel'
<1> DEFINE P == /\ canceller' # "none" => state' = "canceled"
                /\ weWantToCancel' => canceller' # "none"
                /\ weWantToCancel => weWantToCancel'
<1> SUFFICES P
  OBVIOUS
<1>1. CASE UNCHANGED <<canceller, state, weWantToCancel>>
  BY <1>1, Zenon DEF SuccessInv
<1>2. ASSUME NEW r \in Reports, Tell(r) PROVE P
  <2>1. UNCHANGED <<canceller, weWantToCancel>> /\ (state # "in-progress" => state' = state)
    BY <1>2, Zenon DEF Tell, flags
  <2>2. canceller' # "none" => state' = "canceled"
    BY <2>1 DEF SuccessInv
  <2> QED
    BY <2>1, <2>2, Zenon DEF SuccessInv
<1>3. ASSUME Click PROVE P
  <2>1. canceller' = "clicked" /\ state' = "canceled" /\ weWantToCancel' = weWantToCancel
    BY <1>3, Zenon DEF Click, flags
  <2>2. "clicked" # "none"
    OBVIOUS
  <2> QED
    BY <2>1, <2>2, Zenon
<1>4. ASSUME Cancel PROVE P
  <2>1. /\ canceller = "clicked"
        /\ canceller' \in {"sending", "end"}
        /\ state' = state
    BY <1>4, Zenon DEF Cancel, view
  <2>2. canceller' # "none" /\ canceller # "none"
    BY <2>1
  <2>3. weWantToCancel' = weWantToCancel
    BY <1>4, Zenon DEF Cancel, flags
  <2> QED
    BY <2>1, <2>2, <2>3, Zenon DEF SuccessInv
<1>5. ASSUME CancelArrives PROVE P
  <2>1. /\ canceller = "sending"
        /\ canceller' = "end"
        /\ state' = state
    BY <1>5, Zenon DEF CancelArrives, view
  <2>2. canceller' # "none" /\ canceller # "none"
    BY <2>1
  <2>3. weWantToCancel' = TRUE
    BY <1>5, Zenon DEF CancelArrives
  <2> QED
    BY <2>1, <2>2, <2>3, Zenon DEF SuccessInv
<1>6. ASSUME Sender PROVE UNCHANGED <<canceller, state, weWantToCancel>>
  BY <1>6, Zenon
  DEF Sender, Discover, Ask, Offer, OfferAnswered, IbbStart, BytestreamsStart, IbbCancelled,
      IbbLeft, IbbRefused, IbbChunk, BytestreamsChunk, PieceWritten, Update, Seal,
      SenderCloses, SenderReported, SenderFails, WritePiece, Concluding, Continue, view, flags
<1>7. ASSUME \/ \E r \in Reports : ReportBegins(r) \/ ReportSends(r)
             \/ \E l \in Listeners : Listen(l) \/ StopListening(l)
             \/ ListenForCancel \/ ListenerCloses \/ ReaderFails \/ ReaderEnds
             \/ PeerCancels
             \/ UNCHANGED vars
      PROVE  UNCHANGED <<canceller, state, weWantToCancel>>
  BY <1>7, Zenon DEF ReportBegins, ReportSends, Listen, StopListening,
     ListenForCancel, ListenerCloses, ReaderFails, ReaderEnds, PeerCancels, vars, view, flags
<1> QED
  BY <1>1, <1>2, <1>3, <1>4, <1>5, <1>6, <1>7, Zenon DEF Next

\* A success is reported, and shown, only on the grounds of SuccessInv.
LEMMA SuccessStep ==
  ASSUME RestOK, SuccessInv, [Next]_vars
  PROVE  SuccessInv'
<1> DEFINE Grounds == sent = Size \/ ReaderBroke \/ weWantToCancel
<1>1. /\ sent = Size => sent' = Size
      /\ weWantToCancel => weWantToCancel'
      /\ ReaderBroke => ReaderBroke'
  BY ReaderStep, CancelStep, ReportsStay, Zenon
<1>2. Grounds => Grounds'
  BY <1>1, Zenon
<1>3. sender' = "sealing" => Grounds'
  <2>1. \/ sender' = sender
        \/ reader = "closed" \/ weWantToCancel \/ sent = Size
        \/ sender' \in {"end", "ask", "offer", "offered", "start", "send", "writing", "updating",
                        "leaving", "closing", "closed", "report"}
    <3>1. ASSUME Sender PROVE \/ sender' = sender
                                \/ reader = "closed" \/ weWantToCancel \/ sent = Size
                                \/ sender' \in {"end", "ask", "offer", "offered", "start", "send",
                                       "writing", "updating", "leaving", "closing", "closed", "report"}
      BY <3>1, Zenon DEF Sender, Discover, Ask, Offer, OfferAnswered, IbbStart, BytestreamsStart,
         IbbCancelled, IbbLeft, IbbRefused, IbbChunk, BytestreamsChunk, PieceWritten, Update, Seal,
         SenderCloses, SenderReported, SenderFails, WritePiece, Concluding, Continue
    <3>2. ASSUME ~Sender PROVE sender' = sender
      BY <3>2, Zenon DEF Next, vars, ReportBegins, ReportSends, Tell, Listen, StopListening, Click,
         Cancel, ListenForCancel, CancelArrives, ListenerCloses, ReaderFails, ReaderEnds, PeerCancels
    <3> QED
      BY <3>1, <3>2, Zenon
  <2>2. sender' = "sealing" => sender' = sender \/ reader = "closed" \/ weWantToCancel \/ sent = Size
    BY <2>1
  <2> QED
    BY <2>2, <1>2, Zenon DEF SuccessInv
<1>4. report'["finish"] # "none" => Grounds'
  BY <1>2, ReportsStay, Zenon DEF SuccessInv, Seal
<1>5. state' = "succeeded" => sent' = Size \/ ReaderBroke'
  <2> SUFFICES ASSUME state' = "succeeded" PROVE sent' = Size \/ ReaderBroke'
    OBVIOUS
  <2>1. CASE state' = state
    BY <2>1, <1>1, Zenon DEF SuccessInv, SuccessIsWhole, ReaderBroke
  <2>2. CASE Click
    <3>1. state' = "canceled"
      BY <2>2, Zenon DEF Click
    <3> QED
      BY <3>1
  <2>3. ASSUME NEW r \in Reports, Tell(r), state' # state PROVE sent' = Size \/ ReaderBroke'
    <3>1. state = "in-progress" /\ state' = Message(r) /\ report[r] = "send"
      BY <2>3, Zenon DEF Tell
    <3>2. r = "finish"
      BY <3>1 DEF Message, Reports, Errors, Ends
    <3>3. report["finish"] # "none"
      BY <3>1, <3>2
    <3>4. state # "canceled"
      BY <3>1
    <3> QED
      BY <3>3, <3>4, <1>1, Zenon DEF SuccessInv
  <2>4. state' = state \/ Click \/ \E r \in Reports : Tell(r)
    BY Zenon
    DEF Next, vars, view, ReportBegins, ReportSends, Listen, StopListening, Cancel, ListenForCancel,
        CancelArrives, ListenerCloses, ReaderFails, ReaderEnds, PeerCancels,
        Sender, Discover, Ask, Offer, OfferAnswered, IbbStart, BytestreamsStart,
        IbbCancelled, IbbLeft, IbbRefused, IbbChunk, PieceWritten, Update, Seal,
        BytestreamsChunk, SenderCloses, SenderReported, SenderFails, WritePiece, Concluding, Continue
  <2> QED
    BY <2>1, <2>2, <2>3, <2>4, Zenon
<1> QED
  BY <1>3, <1>4, <1>5, ReaderStep, CancelStep, Zenon DEF SuccessInv, SuccessIsWhole, ReaderBroke

\* A transfer shown as a success was sent whole, unless the file could not be
\* read on (succeed, called by WaitForFinish): a copy cut short by the user
\* ends like a complete one but is never shown as one.
THEOREM SuccessIsWholeAlways == Spec => []SuccessIsWhole
<1>1. Init => RestOK
  BY SizeAssumption DEF Init, RestOK, Reports, Errors, Ends, Channels, Listeners
<1>2. Init => SuccessInv
  <2> SUFFICES ASSUME Init PROVE SuccessInv
    OBVIOUS
  <2>1. ~weWantToCancel
    BY Zenon DEF Init
  <2>2. /\ canceller = "none" /\ state = "in-progress" /\ reader = "none"
        /\ report = [r \in Reports |-> "none"]
    BY Zenon DEF Init
  <2>3. /\ report["finish"] = "none" /\ state # "succeeded" /\ reader # "failed" /\ reader # "closed"
        /\ sender # "sealing"
    BY <2>2 DEF Init, Reports, Ends
  <2> QED
    BY <2>1, <2>2, <2>3, Zenon DEF SuccessInv, SuccessIsWhole
<1>3. RestOK /\ [Next]_vars => RestOK'
  BY RestStep
<1>4. RestOK /\ SuccessInv /\ [Next]_vars => SuccessInv'
  BY SuccessStep
<1>5. SuccessInv => SuccessIsWhole
  BY DEF SuccessInv
<1> QED
  BY <1>1, <1>2, <1>3, <1>4, <1>5, PTL DEF Spec

=============================================================================
