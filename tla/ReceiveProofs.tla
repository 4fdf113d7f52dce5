---------------------------- MODULE ReceiveProofs ----------------------------
(* Proofs about Receive, for files, chunks and channels of any size. *)
EXTENDS Receive, SequenceTheorems, TLAPS

\* The amounts a stream is made of
LEMMA Amounts ==
  /\ IV \in Nat
  /\ MAC \in Nat
  /\ Total \in Nat
  BY ReceiveAssumption DEF IV, MAC, Total

\* A step keeps every type.
LEMMA TypeStep ==
  ASSUME TypeOK, [Next]_vars
  PROVE  TypeOK'
<1> USE ReceiveAssumption, Amounts DEF TypeOK, Parts, offer, receiver, file, result
<1>0. UNCHANGED offer => Total' = Total
  BY DEF Total, IV, MAC
<1>1. ASSUME Open PROVE TypeOK'
  <2>1. /\ feeder' \in {"opening", "ended"}
        /\ known' = known \union {"opaque"} \/ known' = known
        /\ UNCHANGED <<offer, arrived, chunk, receiver, reader, file, canceller, result>>
    BY <1>1, Zenon DEF Open
  <2>2. known' \subseteq {"inflight", "opaque", "recv"}
    BY <2>1
  <2> QED
    BY <1>0, <2>1, <2>2
<1>2. ASSUME NoStreamhost PROVE TypeOK'
  BY <1>0, <1>2 DEF NoStreamhost, Feeder
<1>3. ASSUME CreateReceiver PROVE TypeOK'
  BY <1>0, <1>3 DEF CreateReceiver, Feeder, TemporaryFileOpens
<1>4. ASSUME CreateReceiverFails PROVE TypeOK'
  BY <1>0, <1>4 DEF CreateReceiverFails, Feeder, TemporaryFileFails, SaveError, Report
<1>5. ASSUME NEW k \in 1 .. MaxChunk, Data(k) PROVE TypeOK'
  BY <1>0, <1>5 DEF Data, Arrives
<1>6. ASSUME DataRefused PROVE TypeOK'
  BY <1>0, <1>6 DEF DataRefused, Feeder
<1>7. ASSUME DataError PROVE TypeOK'
  <2>1. /\ feeder' = feeder \/ feeder' = "ended"
        /\ known' = known \ {"inflight"} \/ known' = known
        /\ outcome' = outcome \/ outcome' = "failed"
        /\ fields' = fields \ {"err"}
        /\ UNCHANGED <<offer, arrived, chunk, writeChannel, buffer, reader, file, canceller, destination>>
    BY <1>7, Zenon DEF DataError, Report
  <2>2. known' \subseteq {"inflight", "opaque", "recv"}
    BY <2>1
  <2> QED
    BY <1>0, <2>1, <2>2
<1>8. ASSUME BadData PROVE TypeOK'
  BY <1>0, <1>8 DEF BadData, Report
<1>9. ASSUME Write PROVE TypeOK'
  BY <1>0, <1>9 DEF Write, Feeder
<1>10. ASSUME StreamEnds PROVE TypeOK'
  BY <1>0, <1>10 DEF StreamEnds, Feeder
<1>11. ASSUME StreamBreaks PROVE TypeOK'
  BY <1>0, <1>11 DEF StreamBreaks, Feeder
<1>12. ASSUME WaitFails PROVE TypeOK'
  <2>1. /\ feeder' = "ended"
        /\ known' = known \ {"inflight"} \/ known' = known
        /\ outcome' = outcome \/ outcome' = "failed"
        /\ UNCHANGED <<offer, arrived, chunk, receiver, reader, file, canceller, destination>>
    BY <1>12, Zenon DEF WaitFails, Report, Feeder
  <2>2. known' \subseteq {"inflight", "opaque", "recv"}
    BY <2>1
  <2> QED
    BY <1>0, <2>1, <2>2
<1>13. ASSUME WaitSucceeds PROVE TypeOK'
  BY <1>0, <1>13 DEF WaitSucceeds, Feeder
<1>14. ASSUME Place PROVE TypeOK'
  BY <1>0, <1>14 DEF Place, Feeder
<1>15. ASSUME PlaceFails PROVE TypeOK'
  BY <1>0, <1>15 DEF PlaceFails, Feeder
<1>16. ASSUME FinishFails PROVE TypeOK'
  BY <1>0, <1>16 DEF FinishFails, Feeder, Report
<1>17. ASSUME Finish PROVE TypeOK'
  BY <1>0, <1>17 DEF Finish, Feeder, Report
<1>18. ASSUME ProcessReceive PROVE TypeOK'
  BY <1>0, <1>18 DEF ProcessReceive
<1>19. ASSUME ReadIV PROVE TypeOK'
  BY <1>0, <1>19 DEF ReadIV, Take
<1>20. ASSUME NEW k \in 1 .. Size, CopyData(k) PROVE TypeOK'
  BY <1>0, <1>20 DEF CopyData, Take
<1>21. ASSUME ReadMAC PROVE TypeOK'
  BY <1>0, <1>21 DEF ReadMAC, Take
<1>22. ASSUME ReaderFails PROVE TypeOK'
  BY <1>0, <1>22 DEF ReaderFails
<1>23. ASSUME FileBreaks PROVE TypeOK'
  BY <1>0, <1>23 DEF FileBreaks
<1>24. ASSUME ReaderReports PROVE TypeOK'
  BY <1>0, <1>24 DEF ReaderReports, Report
<1>25. ASSUME ReaderCleans PROVE TypeOK'
  BY <1>0, <1>25 DEF ReaderCleans
<1>26. ASSUME ReaderSaves PROVE TypeOK'
  BY <1>0, <1>26 DEF ReaderSaves, SaveError
<1>27. ASSUME ReaderFinishes PROVE TypeOK'
  BY <1>0, <1>27 DEF ReaderFinishes
<1>28. ASSUME UserCancels PROVE TypeOK'
  BY <1>0, <1>28 DEF UserCancels, Canceller
<1>29. ASSUME CancelReceiver PROVE TypeOK'
  <2>1. /\ canceller' = "cleaning"
        /\ fields' = fields \union {"hadError", "err"} \/ fields' = fields
        /\ UNCHANGED <<offer, arrived, feeder, chunk, writeChannel, buffer, reader, file, known, result>>
    BY <1>29, Zenon DEF CancelReceiver, Canceller, SaveError
  <2>2. fields' \subseteq {"hadError", "err", "done"}
    BY <2>1
  <2> QED
    BY <1>0, <2>1, <2>2
<1>30. ASSUME CancelForgets PROVE TypeOK'
  BY <1>0, <1>30 DEF CancelForgets, Canceller
<1>31. ASSUME CancelCloses PROVE TypeOK'
  BY <1>0, <1>31 DEF CancelCloses, Canceller, Report
<1>32. ASSUME UNCHANGED vars PROVE TypeOK'
  BY <1>0, <1>32 DEF vars
<1> QED
  BY <1>1, <1>2, <1>3, <1>4, <1>5, <1>6, <1>7, <1>8, <1>9, <1>10, <1>11, <1>12, <1>13, <1>14,
     <1>15, <1>16, <1>17, <1>18, <1>19, <1>20, <1>21, <1>22, <1>23, <1>24, <1>25, <1>26, <1>27,
     <1>28, <1>29, <1>30, <1>31, <1>32, Zenon
  DEF Next, Peer, Feeding, Reading, Cancelling

\* Every variable keeps its type; writeChannel holds no more than it can.
THEOREM ReceiveTypeCorrect == Spec => []TypeOK
<1>1. Init => TypeOK
  BY ReceiveAssumption, Amounts DEF Init, TypeOK, Parts
<1>2. TypeOK /\ [Next]_vars => TypeOK'
  BY TypeStep
<1> QED
  BY <1>1, <1>2, PTL DEF Spec

-----------------------------------------------------------------------------

\* Where the file is at each point of the feeder; that a reader which failed
\* never finishes; and what is left to happen once the user was told of a
\* failure.
DeliveryInv ==
    /\ "done" \in fields => /\ reader = "ended"
                            /\ written = Size
                            /\ scheme = "encrypted" => stream \subseteq {"iv"}
    /\ reader = "finish" => /\ written = Size
                            /\ scheme = "encrypted" => stream \subseteq {"iv"}
    /\ reader = "mac" => written = Size /\ scheme = "encrypted"
    /\ feeder \in {"idle", "opening"} => reader = "none" /\ outcome # "failed"
    /\ feeder \in {"placing", "finishing", "failing"} => "done" \in fields
    /\ feeder \in {"placing", "finishing"} => outcome # "failed"
    /\ feeder \in {"idle", "opening", "receiving", "writing", "waiting", "placing"} =>
          destination = "absent"
    /\ feeder = "finishing" => destination = "whole"
    /\ feeder = "failing" => destination # "whole"
    /\ destination = "whole" => "done" \in fields
    /\ outcome = "failed" =>
          \/ feeder \in {"failing", "ended", "panicked"}
          \/ method = "ibb" /\ "inflight" \notin known /\ feeder = "receiving"
          \/ "done" \notin fields /\ reader \in {"cleaning", "saving", "ended"}

\* A step keeps DeliveryInv.
LEMMA DeliveryStep ==
  ASSUME TypeOK, DeliveryInv, [Next]_vars
  PROVE  DeliveryInv'
<1> USE DEF TypeOK, DeliveryInv, offer, receiver, file, result
<1>1. ASSUME Open PROVE DeliveryInv'
  BY <1>1 DEF Open
<1>2. ASSUME NoStreamhost PROVE DeliveryInv'
  BY <1>2 DEF NoStreamhost, Feeder
<1>3. ASSUME CreateReceiver PROVE DeliveryInv'
  BY <1>3 DEF CreateReceiver, Feeder, TemporaryFileOpens
<1>4. ASSUME CreateReceiverFails PROVE DeliveryInv'
  BY <1>4 DEF CreateReceiverFails, Feeder, TemporaryFileFails, SaveError, Report
<1>5. ASSUME NEW k \in 1 .. MaxChunk, Data(k) PROVE DeliveryInv'
  BY <1>5 DEF Data, Arrives
<1>6. ASSUME DataRefused PROVE DeliveryInv'
  BY <1>6 DEF DataRefused, Feeder
<1>7. ASSUME DataError PROVE DeliveryInv'
  BY <1>7 DEF DataError, Report
<1>8. ASSUME BadData PROVE DeliveryInv'
  BY <1>8 DEF BadData, Report
<1>9. ASSUME Write PROVE DeliveryInv'
  BY <1>9 DEF Write, Feeder
<1>10. ASSUME StreamEnds PROVE DeliveryInv'
  BY <1>10 DEF StreamEnds, Feeder
<1>11. ASSUME StreamBreaks PROVE DeliveryInv'
  BY <1>11 DEF StreamBreaks, Feeder
<1>12. ASSUME WaitFails PROVE DeliveryInv'
  BY <1>12 DEF WaitFails, Feeder, Report
<1>13. ASSUME WaitSucceeds PROVE DeliveryInv'
  BY <1>13 DEF WaitSucceeds, Feeder
<1>14. ASSUME Place PROVE DeliveryInv'
  BY <1>14 DEF Place, Feeder
<1>15. ASSUME PlaceFails PROVE DeliveryInv'
  BY <1>15 DEF PlaceFails, Feeder
<1>16. ASSUME FinishFails PROVE DeliveryInv'
  BY <1>16 DEF FinishFails, Feeder, Report
<1>17. ASSUME Finish PROVE DeliveryInv'
  BY <1>17 DEF Finish, Feeder, Report
<1>18. ASSUME ProcessReceive PROVE DeliveryInv'
  BY <1>18 DEF ProcessReceive
<1>19. ASSUME ReadIV PROVE DeliveryInv'
  BY <1>19 DEF ReadIV, Take
<1>20. ASSUME NEW k \in 1 .. Size, CopyData(k) PROVE DeliveryInv'
  BY <1>20, ReceiveAssumption DEF CopyData, Take
<1>21. ASSUME ReadMAC PROVE DeliveryInv'
  BY <1>21 DEF ReadMAC, Take, Verified
<1>22. ASSUME ReaderFails PROVE DeliveryInv'
  BY <1>22 DEF ReaderFails
<1>23. ASSUME FileBreaks PROVE DeliveryInv'
  BY <1>23 DEF FileBreaks
<1>24. ASSUME ReaderReports PROVE DeliveryInv'
  BY <1>24 DEF ReaderReports, Report
<1>25. ASSUME ReaderCleans PROVE DeliveryInv'
  BY <1>25 DEF ReaderCleans
<1>26. ASSUME ReaderSaves PROVE DeliveryInv'
  BY <1>26 DEF ReaderSaves, SaveError
<1>27. ASSUME ReaderFinishes PROVE DeliveryInv'
  BY <1>27 DEF ReaderFinishes
<1>28. ASSUME UserCancels PROVE DeliveryInv'
  BY <1>28 DEF UserCancels, Canceller
<1>29. ASSUME CancelReceiver PROVE DeliveryInv'
  BY <1>29 DEF CancelReceiver, Canceller, SaveError
<1>30. ASSUME CancelForgets PROVE DeliveryInv'
  BY <1>30 DEF CancelForgets, Canceller
<1>31. ASSUME CancelCloses PROVE DeliveryInv'
  BY <1>31 DEF CancelCloses, Canceller, Report
<1>32. ASSUME UNCHANGED vars PROVE DeliveryInv'
  BY <1>32 DEF vars
<1> QED
  BY <1>1, <1>2, <1>3, <1>4, <1>5, <1>6, <1>7, <1>8, <1>9, <1>10, <1>11, <1>12, <1>13, <1>14, <1>15, <1>16, <1>17, <1>18, <1>19, <1>20, <1>21, <1>22, <1>23, <1>24, <1>25, <1>26, <1>27, <1>28, <1>29, <1>30, <1>31, <1>32, Zenon
  DEF Next, Peer, Feeding, Reading, Cancelling

LEMMA DeliveryStart == Init => DeliveryInv
  BY DEF Init, DeliveryInv

\* What finalizeFileTransfer puts at the destination has the length of the file,
\* for any size of files, chunks and channel, and in an encrypted stream the text
\* and the MAC that were sent: readAndRun is done only after it wrote all of it and
\* verified what the MAC covers.  Nothing is said of the IV.
THEOREM DestinationIsWholeAlways == Spec => []DestinationIsWhole
<1>1. Init => TypeOK /\ DeliveryInv
  BY DeliveryStart, ReceiveAssumption, Amounts DEF Init, TypeOK
<1>2. TypeOK /\ DeliveryInv /\ [Next]_vars => TypeOK' /\ DeliveryInv'
  BY TypeStep, DeliveryStep
<1>3. DeliveryInv => DestinationIsWhole
  BY DEF DeliveryInv, DestinationIsWhole
<1> QED
  BY <1>1, <1>2, <1>3, PTL DEF Spec

\* A step of receiving is a step of the promise, or changes nothing of it.
LEMMA PromiseStep ==
  ASSUME TypeOK, DeliveryInv, [Next]_vars
  PROVE  [Promise!Next]_<<destination, outcome>>
<1> USE DEF result, Promise!Next
<1>1. ASSUME Report("failed"), destination' = destination, outcome # "pending" \/ destination # "whole"
      PROVE  [Promise!Next]_<<destination, outcome>>
  BY <1>1 DEF Report, Promise!Fail
<1>2. ASSUME CreateReceiverFails PROVE [Promise!Next]_<<destination, outcome>>
  <2>1. destination # "whole"
    BY <1>2 DEF CreateReceiverFails, Feeder, DeliveryInv
  <2> QED
    BY <2>1, <1>1, <1>2, Zenon DEF CreateReceiverFails, TemporaryFileFails
<1>3. ASSUME DataError PROVE [Promise!Next]_<<destination, outcome>>
  <2>1. destination # "whole"
    BY <1>3 DEF DataError, DeliveryInv
  <2> QED
    BY <2>1, <1>1, <1>3, Zenon DEF DataError
<1>4. ASSUME BadData PROVE [Promise!Next]_<<destination, outcome>>
  <2>1. destination # "whole"
    BY <1>4 DEF BadData, DeliveryInv
  <2> QED
    BY <2>1, <1>1, <1>4, Zenon DEF BadData
<1>5. ASSUME WaitFails PROVE [Promise!Next]_<<destination, outcome>>
  <2>1. destination # "whole"
    BY <1>5 DEF WaitFails, Feeder, DeliveryInv
  <2> QED
    BY <2>1, <1>1, <1>5, Zenon DEF WaitFails
<1>6. ASSUME FinishFails PROVE [Promise!Next]_<<destination, outcome>>
  <2>1. destination # "whole"
    BY <1>6 DEF FinishFails, Feeder, DeliveryInv
  <2> QED
    BY <2>1, <1>1, <1>6, Zenon DEF FinishFails
<1>7. ASSUME ReaderReports PROVE [Promise!Next]_<<destination, outcome>>
  <2>1. destination # "whole"
    BY <1>7 DEF ReaderReports, DeliveryInv
  <2> QED
    BY <2>1, <1>1, <1>7, Zenon DEF ReaderReports
<1>8. ASSUME Place \/ PlaceFails PROVE [Promise!Next]_<<destination, outcome>>
  BY <1>8 DEF Place, PlaceFails, Feeder, DeliveryInv, Promise!Place
<1>9. ASSUME Finish PROVE [Promise!Next]_<<destination, outcome>>
  BY <1>9 DEF Finish, Feeder, Report, DeliveryInv, Promise!Finish
<1>10. ASSUME CancelCloses PROVE [Promise!Next]_<<destination, outcome>>
  BY <1>10 DEF CancelCloses, Report, Promise!Cancel
<1>11. ASSUME UNCHANGED result PROVE [Promise!Next]_<<destination, outcome>>
  BY <1>11
<1> QED
  BY <1>2, <1>3, <1>4, <1>5, <1>6, <1>7, <1>8, <1>9, <1>10, <1>11, Zenon
  DEF Next, Peer, Feeding, Reading, Cancelling, vars, Open, NoStreamhost, CreateReceiver, Data,
      DataRefused, Write, StreamEnds, StreamBreaks, WaitSucceeds, ProcessReceive, ReadIV, CopyData,
      ReadMAC, ReaderFails, FileBreaks, ReaderCleans, ReaderSaves, ReaderFinishes, UserCancels,
      CancelReceiver, CancelForgets

\* Receiving implements the promise of Delivery: the destination is written
\* once at most, one outcome is told, success only when all of it is there, and
\* nothing appears after a failure was told.
THEOREM PromiseKept == Spec => KeepsPromise
<1>1. Init => TypeOK /\ DeliveryInv
  BY DeliveryStart, ReceiveAssumption, Amounts DEF Init, TypeOK
<1>2. TypeOK /\ DeliveryInv /\ [Next]_vars => TypeOK' /\ DeliveryInv'
  BY TypeStep, DeliveryStep
<1>3. Init => Promise!Init
  BY DEF Init, Promise!Init
<1>4. TypeOK /\ DeliveryInv /\ [Next]_vars => [Promise!Next]_<<destination, outcome>>
  BY PromiseStep
<1> QED
  BY <1>1, <1>2, <1>3, <1>4, PTL DEF Spec, KeepsPromise, Promise!Spec

=============================================================================
