----------------------------- MODULE ConnProofs -----------------------------
(***************************************************************************)
(* Proofs about package xmpp: Conn, for any number of requests, pings and  *)
(* goroutines that close the connection, and Dial, which makes the         *)
(* connection, for any records the domain may publish.                     *)
(***************************************************************************)
EXTENDS Conn, Dial, SequenceTheorems, FiniteSetTheorems, TLAPS

\* What safeWrite may do to the server and to the caller.
LEMMA SafeWriteType ==
    ASSUME TypeOK, NEW c \in Cookies, SafeWrite(c)
    PROVE  asked' \in SUBSET Cookies /\ req' \in [Cookies -> {"idle", "written",
               "waiting", "answered", "cancelled", "failed", "abandoned"}]
BY DEF SafeWrite, TypeOK

\* Every step keeps the types.
LEMMA TypeStep == TypeOK /\ [Next]_vars => TypeOK'
<1> SUFFICES ASSUME TypeOK, [Next]_vars PROVE TypeOK'
  OBVIOUS
<1> USE DEF TypeOK, connVars, reqVars, readVars, envVars, Goto, Return, ClosePC, ReadPC, PingPC, Threads
<1>1. ASSUME NEW c \in Cookies, SendIQ(c) PROVE TypeOK'
  BY <1>1, SafeWriteType DEF SendIQ
<1>2. ASSUME NEW c \in Cookies, CreateInflight(c) PROVE TypeOK'
  BY <1>2 DEF CreateInflight, MakeChan
<1>3. ASSUME NEW c \in Cookies, Receive(c) PROVE TypeOK'
  <2>1. CASE chan[c] = "full" /\ chan' = [chan EXCEPT ![c] = "empty"]
                /\ req' = [req EXCEPT ![c] = "answered"]
    BY <1>3, <2>1 DEF Receive
  <2>2. CASE req' = [req EXCEPT ![c] = "cancelled"] /\ UNCHANGED chan
    BY <1>3, <2>2 DEF Receive
  <2>3. QED
    BY <1>3, <2>1, <2>2 DEF Receive
<1>4. ASSUME NEW c \in Cookies, ServerReply(c) PROVE TypeOK'
  BY <1>4 DEF ServerReply, Arrive, Stanzas
<1>5. ASSUME NEW t \in Threads, StartClose(t) PROVE TypeOK'
  BY <1>5 DEF StartClose
<1>6. ASSUME NEW t \in Threads, CloseCheck(t) PROVE TypeOK'
  BY <1>6 DEF CloseCheck
<1>7. ASSUME NEW t \in Threads, CloseWrite(t) PROVE TypeOK'
  BY <1>7 DEF CloseWrite, DiscardOutput
<1>8. ASSUME NEW t \in Threads, WaitForStreamClosed(t) PROVE TypeOK'
  BY <1>8 DEF WaitForStreamClosed
<1>9. ASSUME NEW t \in Threads, CloseTCPCheck(t) PROVE TypeOK'
  BY <1>9 DEF CloseTCPCheck
<1>10. ASSUME NEW t \in Threads, AllInflightCookies(t) PROVE TypeOK'
  BY <1>10 DEF AllInflightCookies, CookieSnapshot
<1>11. ASSUME NEW t \in Threads, CancelDone(t) PROVE TypeOK'
  BY <1>11 DEF CancelDone
<1>12. ASSUME NEW t \in Threads, SetClosed(t) PROVE TypeOK'
  BY <1>12 DEF SetClosed
<1>13. ASSUME NEW t \in Threads, CloseRawOut(t) PROVE TypeOK'
  BY <1>13 DEF CloseRawOut, HangUp
<1>14. ASSUME NEW t \in Threads, NEW c \in Cookies, Cancel(t, c) PROVE TypeOK'
  BY <1>14 DEF Cancel, RemoveInflight, CloseReplyChan
<1>15. ASSUME ReadReply PROVE TypeOK'
  BY <1>15 DEF ReadReply, IsReply, TakeStanza, Stanzas, Plain
<1>16. ASSUME ReadPlain PROVE TypeOK'
  <2>1. inbound' \in Seq(Stanzas)
    BY <1>16 DEF ReadPlain, TakeStanza
  <2>2. Head(inbound).kind \in Plain
    BY <1>16 DEF ReadPlain
  <2>3. pc' \in [Threads -> {"idle", "done"} \cup ClosePC \cup ReadPC \cup PingPC]
    BY <1>16 DEF ReadPlain
  <2>4. stanza' \in {"none"} \cup Plain /\ deferred' \in BOOLEAN
    BY <1>16, <2>2 DEF ReadPlain
  <2>5. UNCHANGED <<connVars, reqVars, rcookie, consumer, asked, replied, todo,
                    failures, panicked, late>>
    BY <1>16 DEF ReadPlain
  <2>6. QED
    BY <2>1, <2>3, <2>4, <2>5
<1>17. ASSUME ReadError PROVE TypeOK'
  BY <1>17 DEF ReadError
<1>18. ASSUME DeleteInflight PROVE TypeOK'
  BY <1>18 DEF DeleteInflight, RemoveInflight
<1>19. ASSUME SendReply PROVE TypeOK'
  BY <1>19 DEF SendReply
<1>20. ASSUME Deliver PROVE TypeOK'
  BY <1>20 DEF Deliver
<1>21. ASSUME CloseImmediately PROVE TypeOK'
  BY <1>21 DEF CloseImmediately, AlreadyClosed
<1>22. ASSUME CloseStreamChannel PROVE TypeOK'
  BY <1>22 DEF CloseStreamChannel, ThenClose
<1>23. ASSUME CloseStanzaChan PROVE TypeOK'
  BY <1>23 DEF CloseStanzaChan
<1>24. ASSUME PingsEnd PROVE TypeOK'
  BY <1>24 DEF PingsEnd, LeaveLoop
<1>25. ASSUME SendStreamError PROVE TypeOK'
  BY <1>25 DEF SendStreamError, CloseAfterError
<1>26. ASSUME NEW c \in Cookies, SendPing(c) PROVE TypeOK'
  BY <1>26, SafeWriteType DEF SendPing
<1>27. ASSUME NEW c \in Cookies, PingReplied(c) PROVE TypeOK'
  BY <1>27 DEF PingReplied
<1>28. ASSUME NEW c \in Cookies, PingCancelled(c) PROVE TypeOK'
  BY <1>28 DEF PingCancelled
<1>29. ASSUME NEW c \in Cookies, PingTimeout(c) PROVE TypeOK'
  BY <1>29 DEF PingTimeout
<1>30. ASSUME ServerSend PROVE TypeOK'
  BY <1>30 DEF ServerSend, Arrive, Stanzas
<1>31. ASSUME LoseNetwork PROVE TypeOK'
  BY <1>31 DEF LoseNetwork
<1>32. CASE UNCHANGED vars
  BY <1>32 DEF vars
<1>33. QED
  BY <1>1, <1>2, <1>3, <1>4, <1>5, <1>6, <1>7, <1>8, <1>9, <1>10, <1>11, <1>12, <1>13,
     <1>14, <1>15, <1>16, <1>17, <1>18, <1>19, <1>20, <1>21, <1>22, <1>23, <1>24, <1>25,
     <1>26, <1>27, <1>28, <1>29, <1>30, <1>31, <1>32
     DEF Next, CallStep, CloseStep, ReaderStep, PingStep, Cookies

\* Every variable of a connection keeps its type.
THEOREM TypeCorrect == Spec => []TypeOK
<1>1. Init => TypeOK
  <2>1. ASSUME Init
        PROVE  pc \in [Threads -> {"idle", "done"} \cup ClosePC \cup ReadPC \cup PingPC]
    BY <2>1 DEF Init, ReadPC, PingPC
  <2>2. ASSUME Init PROVE inbound \in Seq(Stanzas)
    BY <2>2 DEF Init
  <2>3. ASSUME Init
        PROVE  /\ chan \in [Cookies -> {"none", "empty", "full", "closed"}]
               /\ req \in [Cookies -> {"idle", "written", "waiting", "answered",
                                       "cancelled", "failed", "abandoned"}]
               /\ todo \in [Threads -> SUBSET Cookies]
               /\ replied \in [Cookies -> Nat]
    BY <2>3 DEF Init
  <2>4. ASSUME Init
        PROVE  /\ closed \in BOOLEAN /\ streamClosed \in BOOLEAN /\ deferred \in BOOLEAN
               /\ out \in {"tcp", "discard"} /\ tcp \in {"up", "lost", "closed"}
               /\ inflights \in SUBSET Cookies /\ asked \in SUBSET Cookies
               /\ late \in SUBSET Cookies
               /\ rcookie \in Cookies \cup {"none"} /\ stanza \in {"none"} \cup Plain
               /\ consumer \in {"receiving", "gone"} /\ failures \in Nat
               /\ panicked \in {"no", "send", "close"}
    BY <2>4 DEF Init
  <2>5. QED
    BY <2>1, <2>2, <2>3, <2>4 DEF TypeOK
<1>2. QED
  BY <1>1, TypeStep, PTL DEF Spec

-----------------------------------------------------------------------------
\* No step of any goroutine, of the server or of the network breaks ConnInv.
LEMMA ConnInvStep == TypeOK /\ ConnInv /\ [Next]_vars => ConnInv'
<1> SUFFICES ASSUME TypeOK, ConnInv, [Next]_vars PROVE ConnInv'
  OBVIOUS
<1> USE ConnAssumption DEF TypeOK, ConnInv, connVars, reqVars, readVars, envVars, Goto, Return, ClosePC,
        Hushed, Dispatching, Threads, InTableIsEmpty, NoComeback, DispatchHasCookie, NoDoubleClose,
        NoForgottenCaller, StreamCloseOnce, StreamEndIsActedOn, DiscardFirst, PanicOnlyWhileClosing,
        CancelCoversTable, PendingCancelledAtClose, AnswersAreReplies, OnlyGenuineAnswers
<1>1. ASSUME NEW c \in Cookies, SendIQ(c) PROVE ConnInv'
  BY <1>1 DEF SendIQ, SafeWrite
<1>2. ASSUME NEW c \in Cookies, CreateInflight(c) PROVE ConnInv'
  BY <1>2 DEF CreateInflight, MakeChan, SnapshotTaken
<1>3. ASSUME NEW c \in Cookies, Receive(c) PROVE ConnInv'
  <2>1. CASE chan[c] = "full" /\ chan' = [chan EXCEPT ![c] = "empty"]
                /\ req' = [req EXCEPT ![c] = "answered"]
    <3>1. c \notin inflights /\ replied[c] > 0 /\ (Dispatching => rcookie # c)
      BY <2>1
    <3>2. InTableIsEmpty' /\ NoComeback' /\ DispatchHasCookie' /\ NoForgottenCaller'
      BY <1>3, <2>1, <3>1 DEF Receive
    <3>3. AnswersAreReplies' /\ OnlyGenuineAnswers' /\ DiscardFirst'
      BY <1>3, <2>1, <3>1 DEF Receive
    <3>4. QED
      BY <1>3, <3>2, <3>3 DEF Receive
  <2>2. CASE chan[c] = "closed" /\ req' = [req EXCEPT ![c] = "cancelled"] /\ UNCHANGED chan
    BY <1>3, <2>2 DEF Receive
  <2>3. QED
    BY <1>3, <2>1, <2>2 DEF Receive
<1>4. ASSUME NEW c \in Cookies, ServerReply(c) PROVE ConnInv'
  BY <1>4 DEF ServerReply, Arrive, Stanzas
<1>5. ASSUME NEW t \in Threads, StartClose(t) PROVE ConnInv'
  BY <1>5 DEF StartClose
<1>6. ASSUME NEW t \in Threads, CloseCheck(t) PROVE ConnInv'
  BY <1>6 DEF CloseCheck
<1>7. ASSUME NEW t \in Threads, CloseWrite(t) PROVE ConnInv'
  BY <1>7 DEF CloseWrite, DiscardOutput
<1>8. ASSUME NEW t \in Threads, WaitForStreamClosed(t) PROVE ConnInv'
  BY <1>8 DEF WaitForStreamClosed
<1>9. ASSUME NEW t \in Threads, CloseTCPCheck(t) PROVE ConnInv'
  <2>1. CASE closed /\ Return(t)
    BY <1>9, <2>1 DEF CloseTCPCheck
  <2>2. CASE ~closed /\ Goto(t, "snapshot") /\ UNCHANGED deferred
    BY <1>9, <2>2 DEF CloseTCPCheck
  <2>3. QED
    BY <1>9, <2>1, <2>2 DEF CloseTCPCheck
<1>10. ASSUME NEW t \in Threads, AllInflightCookies(t) PROVE ConnInv'
  BY <1>10 DEF AllInflightCookies, CookieSnapshot
<1>11. ASSUME NEW t \in Threads, CancelDone(t) PROVE ConnInv'
  BY <1>11 DEF CancelDone
<1>12. ASSUME NEW t \in Threads, SetClosed(t) PROVE ConnInv'
  BY <1>12 DEF SetClosed
<1>13. ASSUME NEW t \in Threads, CloseRawOut(t) PROVE ConnInv'
  BY <1>13 DEF CloseRawOut, HangUp
<1>14. ASSUME NEW t \in Threads, NEW c \in Cookies, Cancel(t, c) PROVE ConnInv'
  <2>1. CASE c \notin inflights
    BY <1>14, <2>1 DEF Cancel, RemoveInflight, CloseReplyChan
  <2>2. CASE c \in inflights
    <3>1. chan[c] = "empty" /\ panicked' = panicked /\ out = "discard"
      BY <1>14, <2>2 DEF Cancel, RemoveInflight, CloseReplyChan
    <3>2. /\ inflights' = inflights \ {c} /\ chan' = [chan EXCEPT ![c] = "closed"]
          /\ todo' = [todo EXCEPT ![t] = @ \ {c}]
          /\ UNCHANGED <<connVars, req, readVars, envVars, pc, failures, late>>
      BY <1>14, <2>2 DEF Cancel, RemoveInflight, CloseReplyChan
    <3>3. InTableIsEmpty' /\ NoComeback' /\ DispatchHasCookie' /\ NoDoubleClose' /\ NoForgottenCaller'
      BY <3>1, <3>2
    <3>4. DiscardFirst' /\ PanicOnlyWhileClosing' /\ StreamCloseOnce' /\ StreamEndIsActedOn'
      BY <3>1, <3>2
    <3>5. CancelCoversTable' /\ PendingCancelledAtClose'
      BY <3>2
    <3>6. AnswersAreReplies' /\ OnlyGenuineAnswers'
      BY <3>2
    <3>7. QED
      BY <3>3, <3>4, <3>5, <3>6
  <2>3. QED
    BY <2>1, <2>2
<1>15. ASSUME ReadReply PROVE ConnInv'
  BY <1>15 DEF ReadReply, IsReply, TakeStanza, Stanzas, Plain
<1>16. ASSUME ReadPlain PROVE ConnInv'
  BY <1>16 DEF ReadPlain, TakeStanza, Stanzas, Plain
<1>17. ASSUME ReadError PROVE ConnInv'
  BY <1>17 DEF ReadError
<1>18. ASSUME DeleteInflight PROVE ConnInv'
  BY <1>18 DEF DeleteInflight, RemoveInflight
<1>19. ASSUME SendReply PROVE ConnInv'
  <2>1. /\ pc[Reader] = "deleted" /\ rcookie \in Cookies /\ rcookie \notin inflights
        /\ pc' = [pc EXCEPT ![Reader] = "reading"]
        /\ UNCHANGED <<connVars, inflights, req, todo, late, envVars>>
    <3>1. pc[Reader] = "deleted"
      BY <1>19 DEF SendReply
    <3>2. rcookie \notin inflights
      BY <1>19 DEF SendReply
    <3>3. QED
      BY <1>19, <3>1, <3>2 DEF SendReply
  <2>2. CASE chan[rcookie] = "closed" /\ panicked' = "send" /\ UNCHANGED chan
    BY <2>1, <2>2
  <2>3. CASE chan[rcookie] = "empty" /\ UNCHANGED panicked
             /\ chan' = [chan EXCEPT ![rcookie] = "full"]
    BY <2>1, <2>3
  <2>4. QED
    BY <1>19, <2>1, <2>2, <2>3 DEF SendReply
<1>20. ASSUME Deliver PROVE ConnInv'
  BY <1>20 DEF Deliver
<1>21. ASSUME CloseImmediately PROVE ConnInv'
  BY <1>21 DEF CloseImmediately, AlreadyClosed
<1>22. ASSUME CloseStreamChannel PROVE ConnInv'
  BY <1>22 DEF CloseStreamChannel, ThenClose
<1>23. ASSUME CloseStanzaChan PROVE ConnInv'
  BY <1>23 DEF CloseStanzaChan
<1>24. ASSUME PingsEnd PROVE ConnInv'
  BY <1>24 DEF PingsEnd, LeaveLoop
<1>25. ASSUME SendStreamError PROVE ConnInv'
  BY <1>25 DEF SendStreamError, CloseAfterError
<1>26. ASSUME NEW c \in Cookies, SendPing(c) PROVE ConnInv'
  BY <1>26 DEF SendPing, SafeWrite
<1>27. ASSUME NEW c \in Cookies, PingReplied(c) PROVE ConnInv'
  BY <1>27 DEF PingReplied, Pinging
<1>28. ASSUME NEW c \in Cookies, PingCancelled(c) PROVE ConnInv'
  BY <1>28 DEF PingCancelled, Pinging
<1>29. ASSUME NEW c \in Cookies, PingTimeout(c) PROVE ConnInv'
  BY <1>29 DEF PingTimeout, Pinging
<1>30. ASSUME ServerSend PROVE ConnInv'
  BY <1>30 DEF ServerSend, Arrive, Stanzas, Plain
<1>31. ASSUME LoseNetwork PROVE ConnInv'
  BY <1>31 DEF LoseNetwork
<1>32. CASE UNCHANGED vars
  BY <1>32 DEF vars
<1>33. QED
  BY <1>1, <1>2, <1>3, <1>4, <1>5, <1>6, <1>7, <1>8, <1>9, <1>10, <1>11, <1>12, <1>13,
     <1>14, <1>15, <1>16, <1>17, <1>18, <1>19, <1>20, <1>21, <1>22, <1>23, <1>24, <1>25,
     <1>26, <1>27, <1>28, <1>29, <1>30, <1>31, <1>32
     DEF Next, CallStep, CloseStep, ReaderStep, PingStep, Cookies

\* The races of Close, Cancel, dispatch and the callers keep the table, the
\* reply channels and the goroutines consistent with one another.
THEOREM ConnSafe == Spec => []ConnInv
<1>1. Init => ConnInv
  BY ConnAssumption DEF Init, ConnInv, InTableIsEmpty, NoComeback, DispatchHasCookie, Dispatching,
     NoDoubleClose, NoForgottenCaller, StreamCloseOnce, StreamEndIsActedOn, DiscardFirst, Hushed,
     PanicOnlyWhileClosing, CancelCoversTable, PendingCancelledAtClose, AnswersAreReplies,
     OnlyGenuineAnswers, Threads
<1>2. QED
  BY <1>1, TypeCorrect, ConnInvStep, PTL DEF Spec

\* asyncReturnIQResponse never blocks the reader on a reply channel.
THEOREM ReplySendsNeverBlock == Spec => []ReplySendNeverBlocks
<1>1. ConnInv => ReplySendNeverBlocks
  BY DEF ConnInv, DispatchHasCookie, Dispatching, ReplySendNeverBlocks
<1>2. QED
  BY <1>1, ConnSafe, PTL

\* Cancel and dispatch together never forget a caller whose channel is silent.
THEOREM CallersAreNotForgotten == Spec => []NoForgottenCaller
<1>1. ConnInv => NoForgottenCaller
  BY DEF ConnInv
<1>2. QED
  BY <1>1, ConnSafe, PTL

\* However many goroutines close the connection, no channel is closed twice.
THEOREM NoChannelIsClosedTwice == Spec => []NoDoubleClose
<1>1. ConnInv => NoDoubleClose
  BY DEF ConnInv
<1>2. QED
  BY <1>1, ConnSafe, PTL

\* closeTCP leaves in the table only what was registered after a snapshot.
THEOREM CloseCancelsPending == Spec => []PendingCancelledAtClose
<1>1. ConnInv => PendingCancelledAtClose
  BY DEF ConnInv
<1>2. QED
  BY <1>1, ConnSafe, PTL

\* A caller is only ever given a reply to its own request, from the address it asked.
THEOREM AnswersAreGenuine == Spec => []OnlyGenuineAnswers
<1>1. ConnInv => OnlyGenuineAnswers
  BY DEF ConnInv
<1>2. QED
  BY <1>1, ConnSafe, PTL

\* Dispatch and Cancel race for a reply channel, and panic, only while the
\* connection is closing.
THEOREM PanicsOnlyWhileClosing == Spec => []PanicOnlyWhileClosing
<1>1. ConnInv => PanicOnlyWhileClosing
  BY DEF ConnInv
<1>2. QED
  BY <1>1, ConnSafe, PTL

\* When the end of the stream was signalled, the reader is closing the connection
\* or it is closed.
THEOREM StreamEndsAreActedOn == Spec => []StreamEndIsActedOn
<1>1. ConnInv => StreamEndIsActedOn
  BY DEF ConnInv
<1>2. QED
  BY <1>1, ConnSafe, PTL

-----------------------------------------------------------------------------
(* Dial.                                                                   *)

\* The records of the two answers, in the order of one of the sorted sequences.
LEMMA SortedFacts ==
    ASSUME Answered \subseteq Records, NEW s \in Sorted
    PROVE  /\ s \in Seq(Answered)
           /\ \A a \in Answered : \E i \in 1 .. Len(s) : s[i] = a
           /\ \A i, j \in 1 .. Len(s) : Better(s[i], s[j]) => i < j
<1> DEFINE n == Cardinality(Answered)
<1>1. IsFiniteSet(Answered) /\ n \in Nat
  BY DialAssumption, FS_Subset, FS_CardinalityType
<1>2. s \in [1 .. n -> Answered] /\ \A i, j \in 1 .. n : i # j => s[i] # s[j]
  BY DEF Sorted, SetToSeqs
<1>3. s \in Injection(1 .. n, Answered)
  BY <1>2 DEF Injection, IsInjective
<1>4. IsFiniteSet(1 .. n) /\ Cardinality(1 .. n) = n
  BY <1>1, FS_Interval
<1>5. s \in Surjection(1 .. n, Answered)
  BY <1>1, <1>3, <1>4, FS_Injection
<1>6. s \in Seq(Answered) /\ Len(s) = n /\ DOMAIN s = 1 .. n
  BY <1>1, <1>2
<1>7. \A a \in Answered : \E i \in 1 .. n : s[i] = a
  BY <1>5 DEF Surjection
<1>8. InOrder(s)
  BY DEF Sorted
<1> QED
  BY <1>6, <1>7, <1>8 DEF InOrder

\* Every step of Dial keeps the types.
LEMMA DialTypeStep ==
    ASSUME DialTypeOK, LookupsFirst, [DialNext]_dialVars
    PROVE  DialTypeOK'
<1> USE DEF DialTypeOK, StepTo, Finish, negotiation, where, addresses, attempt, stream
<1>1. CASE TorIsNotRunning \/ \E overTor \in BOOLEAN : BuildDialer(overTor)
  BY <1>1 DEF TorIsNotRunning, BuildDialer, AddressPCs
<1>2. ASSUME NEW s \in Services, NEW hosts \in SUBSET RecordsOf(s),
             NEW err \in {"none", "notAvailable", "lookupFailed"}, Answer(s, hosts, err)
      PROVE  DialTypeOK'
  <2>1. hosts \subseteq Records
    BY DEF RecordsOf
  <2>2. step' \in AddressPCs
    BY <1>2 DEF Answer, AfterLookup, AddressPCs, Services
  <2> QED
    BY <1>2, <2>1, <2>2 DEF Answer
<1>3. CASE SkipLookup \/ StartLookup
  <2>1. (config.connectTLS /\ ~config.register) \in BOOLEAN
    BY Zenon
  <2>2. Configured(config.connectTLS /\ ~config.register) \in Addresses
    BY <2>1, Zenon DEF Addresses
  <2> QED
    BY <1>3, <2>2 DEF SkipLookup, StartLookup, AddressPCs, Services
<1>4. CASE \E s \in Services : LookupTimesOut(s) \/ LookupAnswered(s)
  <2>1. PICK s \in Services : \E hosts \in SUBSET RecordsOf(s) :
            \E err \in {"none", "notAvailable", "lookupFailed"} : Answer(s, hosts, err)
    BY <1>4, Zenon DEF LookupTimesOut, TimesOut, LookupAnswered
  <2> QED
    BY <1>2, <2>1
<1>5. CASE ServiceNotAvailable
  BY <1>5 DEF ServiceNotAvailable
<1>6. CASE Resolve
  <2>1. untried' \in Seq(Addresses)
    <3>1. Answered \subseteq Records
      BY DEF Answered, LookupsFirst
    <3>2. CASE Answered = {}
      <4>1. untried' = <<Fallback>>
        BY <1>6, <3>2 DEF Resolve, Candidates
      <4>2. Fallback \in Addresses
        BY Zenon DEF Addresses
      <4> QED
        BY <4>1, <4>2
    <3>3. CASE Answered # {}
      <4>1. untried' \in Sorted
        BY <1>6, <3>3 DEF Resolve, Candidates
      <4>2. untried' \in Seq(Answered)
        BY <3>1, <4>1, SortedFacts
      <4>3. Answered \subseteq Addresses
        BY <3>1 DEF Addresses
      <4> QED
        BY <4>2, <4>3
    <3> QED
      BY <3>2, <3>3
  <2> QED
    BY <1>6, <2>1 DEF Resolve, AddressPCs
<1>7. CASE TryNext
  <2>1. Head(untried) \in Addresses /\ Tail(untried) \in Seq(Addresses)
    BY <1>7, HeadTailProperties DEF TryNext
  <2> QED
    BY <1>7, <2>1 DEF TryNext, AddressPCs
<1>8. CASE NoneAvailable
  BY <1>8 DEF NoneAvailable
<1>9. CASE DialSucceeds \/ DialFails \/ DialTimesOut \/ DialRaces
  BY <1>9 DEF DialSucceeds, DialFails, DialTimesOut, DialRaces, TryAnother,
     AddressPCs, StreamPCs
<1>10. CASE StreamBreaks \/ SetupStream \/ Handshake \/ Verify \/ StartTLS
            \/ Authenticate
  BY <1>10 DEF StreamBreaks, SetupStream, Handshake, Verify, Accept, StartTLS,
     Authenticate, StreamPCs
<1>11. ASSUME NEW offer \in SUBSET Features, SendInitialStreamHeader(offer) PROVE DialTypeOK'
  BY <1>11 DEF SendInitialStreamHeader, Accumulate, FirstStep, StreamPCs
<1>12. CASE NoMechanism \/ AuthenticationSucceeds \/ AuthenticationFails \/ BindResource
            \/ EstablishSession \/ NegotiateInBandRegistration \/ CreateAccount
  BY <1>12 DEF NoMechanism, AuthenticationSucceeds, AuthenticationFails, BindResource,
               EstablishSession, NegotiateInBandRegistration, CreateAccount, StreamPCs
<1>13. CASE UNCHANGED dialVars
  BY <1>13 DEF dialVars
<1> QED
  BY <1>1, <1>3, <1>4, <1>5, <1>6, <1>7, <1>8, <1>9, <1>10, <1>11, <1>12, <1>13
     DEF DialNext, AddressStep, AddressAnswer, StreamStep

\* The made-up addresses are no records.
LEMMA NoRecords ==
    /\ Fallback \notin Records /\ NoAddress \notin Records
    /\ \A tls : Configured(tls) \notin Records
    /\ NoAddress # Fallback
    /\ \A tls : Configured(tls) # Fallback
BY DialAssumption DEF Fallback, NoAddress, Configured

\* A step after the lookups that leaves the addresses alone.
LEMMA AddressesStay ==
    ASSUME LookupsFirst, NoneForgotten, BestAddressFirst, FallbackUnlessRefused,
           UNCHANGED <<where, addresses, attempt>>,
           step \notin BeforeAddresses, step' \notin BeforeAddresses, step # "next", step' # "next"
    PROVE  /\ LookupsFirst' /\ NoneForgotten'
           /\ BestAddressFirst' /\ FallbackUnlessRefused'
<1> USE DEF where, addresses, attempt
<1>1. Answered' = Answered /\ FallbackIsOpen' = FallbackIsOpen
  BY DEF Answered, FallbackIsOpen, Refused
<1>2. LookupsFirst'
  BY <1>1 DEF LookupsFirst, BeforeAddresses
<1>3. NoneForgotten'
  BY <1>1 DEF NoneForgotten
<1> QED
  BY <1>1, <1>2, <1>3 DEF BestAddressFirst, FallbackUnlessRefused

\* Lookups, dials and the negotiation forget no record and keep the order.
LEMMA AddressStepKeeps ==
    ASSUME DialTypeOK, LookupsFirst, NoneForgotten, BestAddressFirst,
           FallbackUnlessRefused, [DialNext]_dialVars
    PROVE  /\ LookupsFirst' /\ NoneForgotten'
           /\ BestAddressFirst' /\ FallbackUnlessRefused'
<1> DEFINE Goal == LookupsFirst' /\ NoneForgotten' /\ BestAddressFirst'
                   /\ FallbackUnlessRefused'
<1>1. CASE StreamStep
  <2>1. UNCHANGED <<where, addresses, attempt>>
    BY <1>1 DEF StreamStep, negotiation, StreamBreaks, SetupStream, Handshake,
       Verify,
         SendInitialStreamHeader, StartTLS, Authenticate, NoMechanism,
         AuthenticationSucceeds, AuthenticationFails, BindResource, EstablishSession,
         NegotiateInBandRegistration, CreateAccount
  <2>2. step \in StreamPCs /\ step' \in StreamPCs \cup {"done"}
    BY <1>1 DEF StreamStep, StreamBreaks, SetupStream, Handshake, Verify, FirstStep,
         SendInitialStreamHeader, StartTLS, Authenticate, NoMechanism,
         AuthenticationSucceeds, AuthenticationFails, BindResource, EstablishSession,
         NegotiateInBandRegistration, CreateAccount, StepTo, Finish, StreamPCs
  <2>3. /\ step \notin BeforeAddresses /\ step' \notin BeforeAddresses
        /\ step # "next" /\ step' # "next"
    BY <2>2 DEF StreamPCs, BeforeAddresses, Services
  <2> QED
    BY <2>1, <2>3, AddressesStay
<1>2. CASE DialSucceeds \/ DialRaces
  <2>1. /\ UNCHANGED <<where, addresses, attempt>>
        /\ step \notin BeforeAddresses /\ step' \notin BeforeAddresses
        /\ step # "next" /\ step' # "next"
    BY <1>2 DEF DialSucceeds, DialRaces, StepTo, Finish, BeforeAddresses, Services
  <2> QED
    BY <2>1, AddressesStay
<1>3. CASE NoneAvailable \/ ServiceNotAvailable
  <2>1. /\ UNCHANGED <<where, addresses, attempt>> /\ Answered' = Answered
        /\ FallbackIsOpen' = FallbackIsOpen
    BY <1>3 DEF NoneAvailable, ServiceNotAvailable, where, addresses, attempt,
       Answered, FallbackIsOpen, Refused
  <2>2. BestAddressFirst' /\ FallbackUnlessRefused'
    BY <2>1 DEF BestAddressFirst, FallbackUnlessRefused, where, addresses, attempt
  <2>3. step' = "done" /\ step' \notin BeforeAddresses /\ step' # "next"
    BY <1>3 DEF NoneAvailable, ServiceNotAvailable, StepTo, Finish, BeforeAddresses,
       Services
  <2>4. LookupsFirst'
    BY <2>1, <2>3 DEF LookupsFirst, where, addresses, attempt, Services
  <2>5. step \notin BeforeAddresses \/ Answered = {}
    <3>1. CASE NoneAvailable
      BY <3>1 DEF NoneAvailable, StepTo, Finish, BeforeAddresses, Services
    <3>2. CASE ServiceNotAvailable
      BY <3>2 DEF ServiceNotAvailable, LookupError
    <3> QED
      BY <1>3, <3>1, <3>2
  <2>6. NoneForgotten'
    BY <2>1, <2>3, <2>5 DEF NoneForgotten, where, addresses, attempt
  <2> QED
    BY <2>2, <2>4, <2>6
<1>4. CASE TorIsNotRunning \/ \E overTor \in BOOLEAN : BuildDialer(overTor)
  <2>1. /\ step = "tor" /\ step' \in {"done", "start"} /\ UNCHANGED <<addresses, attempt>>
    BY <1>4 DEF TorIsNotRunning, BuildDialer, StepTo, Finish
  <2>2. Answered' = Answered /\ Answered = {} /\ untried = <<>> /\ addr = NoAddress
    BY <2>1 DEF Answered, addresses, LookupsFirst, BeforeAddresses
  <2>3. LookupsFirst'
    BY <2>1, <2>2 DEF LookupsFirst, Services, addresses, attempt
  <2>4. NoneForgotten'
    BY <2>1, <2>2 DEF NoneForgotten, addresses, attempt
  <2> QED
    BY <2>1, <2>2, <2>3, <2>4, NoRecords DEF BestAddressFirst, FallbackUnlessRefused,
       addresses, attempt
<1>5. CASE SkipLookup
  <2>1. /\ step = "start" /\ step' = "dialing" /\ server # "none"
        /\ UNCHANGED <<where, addresses>>
        /\ \E tls : addr' = Configured(tls)
    BY <1>5 DEF SkipLookup, StepTo
  <2>2. Answered' = Answered /\ Answered = {} /\ untried = <<>> /\ addr' # Fallback
    BY <2>1, NoRecords DEF Answered, addresses, LookupsFirst, BeforeAddresses
  <2>3. LookupsFirst'
    BY <2>1, <2>2 DEF LookupsFirst, Services, BeforeAddresses, addresses, where
  <2>4. NoneForgotten'
    BY <2>1, <2>2 DEF NoneForgotten, addresses, where
  <2> QED
    BY <2>2, <2>3, <2>4 DEF BestAddressFirst, FallbackUnlessRefused
<1>6. CASE StartLookup
  <2>1. /\ step = "start" /\ step' = "xmpps-client" /\ server = "none"
        /\ UNCHANGED <<where, addresses, attempt>>
    BY <1>6 DEF StartLookup, StepTo
  <2>2. Answered' = Answered /\ untried = <<>> /\ addr = NoAddress
    BY <2>1 DEF Answered, addresses, LookupsFirst, BeforeAddresses
  <2>3. LookupsFirst'
    BY <2>1, <2>2 DEF LookupsFirst, Services, BeforeAddresses, addresses, attempt,
       where
  <2>4. NoneForgotten'
    BY <2>1, <2>2 DEF NoneForgotten, BeforeAddresses, Services, addresses, attempt,
       where
  <2> QED
    BY <2>1, <2>2, <2>3, <2>4, NoRecords DEF BestAddressFirst, FallbackUnlessRefused,
       addresses, attempt, where
<1>7. ASSUME NEW s \in Services, NEW hosts \in SUBSET RecordsOf(s),
             NEW err \in {"none", "notAvailable", "lookupFailed"}, Answer(s, hosts, err)
      PROVE  Goal
  <2>1. /\ step = s /\ step' \in Services \cup {"resolve"} /\ UNCHANGED <<where, untried, attempt>>
        /\ answer' = [answer EXCEPT ![s] = [hosts |-> hosts, err |-> err]]
    BY <1>7 DEF Answer, StepTo, AfterLookup, Services
  <2>2. untried = <<>> /\ addr = NoAddress /\ server = "none" /\ step' \in BeforeAddresses
    BY <2>1 DEF LookupsFirst, BeforeAddresses
  <2>3. \A x \in Services : answer'[x].hosts \subseteq Records
    BY <2>1 DEF DialTypeOK, LookupsFirst, RecordsOf
  <2>4. LookupsFirst'
    BY <2>1, <2>2, <2>3 DEF LookupsFirst, Services, where, attempt
  <2>5. NoneForgotten'
    BY <2>1, <2>2 DEF NoneForgotten, where, attempt
  <2>6. Answered' \subseteq Records
    BY <2>3 DEF Answered
  <2> QED
    BY <2>1, <2>2, <2>4, <2>5, <2>6, NoRecords DEF BestAddressFirst,
       FallbackUnlessRefused, attempt
<1>8. CASE \E s \in Services : LookupTimesOut(s) \/ LookupAnswered(s)
  <2>1. PICK s \in Services : \E hosts \in SUBSET RecordsOf(s) :
            \E err \in {"none", "notAvailable", "lookupFailed"} : Answer(s, hosts, err)
    BY <1>8, Zenon DEF LookupTimesOut, TimesOut, LookupAnswered
  <2> QED
    BY <1>7, <2>1
<1>9. CASE Resolve
  <2>1. /\ step = "resolve" /\ step' = "next" /\ LookupError # "notAvailable"
        /\ untried' \in Candidates /\ UNCHANGED <<where, answer, attempt>>
    BY <1>9 DEF Resolve, StepTo
  <2>2. Answered' = Answered /\ Answered \subseteq Records
    BY <2>1 DEF Answered, LookupsFirst
  <2>3. addr = NoAddress /\ server = "none"
    BY <2>1 DEF LookupsFirst, BeforeAddresses
  <2>4. LookupsFirst'
    BY <2>1, <2>2, <2>3 DEF LookupsFirst, BeforeAddresses, Services, where, attempt
  <2>5. NoneForgotten'
    <3>1. CASE Answered = {}
      <4>1. untried' = <<Fallback>>
        BY <2>1, <3>1 DEF Candidates
      <4>2. FallbackIsOpen'
        <5>1. FallbackIsOpen
          BY <2>1, <3>1 DEF LookupError, DialTypeOK, Services, FallbackIsOpen, Refused
        <5> QED
          BY <2>1, <2>2, <5>1 DEF FallbackIsOpen, Refused
      <4>3. Len(untried') = 1 /\ untried'[1] = Fallback
        BY <4>1
      <4>4. ~Better(Fallback, Fallback)
        BY DEF Better, Fallback
      <4> QED
        BY <2>1, <2>2, <2>3, <3>1, <4>2, <4>3, <4>4 DEF NoneForgotten, where
    <3>2. CASE Answered # {}
      <4>1. untried' \in Sorted
        BY <2>1, <3>2 DEF Candidates
      <4>2. /\ untried' \in Seq(Answered)
            /\ \A a \in Answered : \E i \in 1 .. Len(untried') : untried'[i] = a
            /\ \A i, j \in 1 .. Len(untried') : Better(untried'[i], untried'[j]) => i < j
        BY <2>2, <4>1, SortedFacts
      <4>3. \A i \in 1 .. Len(untried') : untried'[i] # Fallback
        BY <2>2, <4>2, NoRecords, ElementOfSeq
      <4> QED
        BY <2>1, <2>2, <2>3, <4>2, <4>3 DEF NoneForgotten, where
    <3> QED
      BY <3>1, <3>2
  <2> QED
    BY <2>1, <2>2, <2>3, <2>4, <2>5, NoRecords DEF BestAddressFirst,
       FallbackUnlessRefused, attempt
<1>10. CASE TryNext
  <2>1. /\ step = "next" /\ step' = "dialing" /\ untried # <<>> /\ addr' = Head(untried)
        /\ untried' = Tail(untried) /\ UNCHANGED <<where, answer, tried>>
    BY <1>10 DEF TryNext, StepTo
  <2>2. untried \in Seq(Addresses)
    BY DEF DialTypeOK
  <2>3. /\ Len(untried) \in Nat /\ Len(untried) > 0 /\ addr' = untried[1]
        /\ Len(untried') = Len(untried) - 1
        /\ \A i \in 1 .. Len(untried') : untried'[i] = untried[i + 1]
    BY <2>1, <2>2
  <2>4. Answered' = Answered /\ server = "none" /\ FallbackIsOpen' = FallbackIsOpen
    BY <2>1 DEF Answered, NoneForgotten, FallbackIsOpen, Refused
  <2>5. \A a \in Answered : a \in tried \/ \E i \in 1 .. Len(untried) : untried[i] = a
    BY <2>1 DEF NoneForgotten, BeforeAddresses, Services
  <2>6. LookupsFirst'
    BY <2>1, <2>4 DEF LookupsFirst, BeforeAddresses, Services, where
  <2>7. NoneForgotten'
    <3>1. \A a \in Answered : a \in tried \/ a = addr'
              \/ \E i \in 1 .. Len(untried') : untried'[i] = a
      <4> SUFFICES ASSUME NEW a \in Answered, a \notin tried, a # addr'
                   PROVE  \E i \in 1 .. Len(untried') : untried'[i] = a
        OBVIOUS
      <4>1. PICK k \in 1 .. Len(untried) : untried[k] = a
        BY <2>5
      <4>2. k - 1 \in 1 .. Len(untried') /\ untried'[k - 1] = a
        BY <2>3, <4>1
      <4> QED
        BY <4>2
    <3>2. \A i, j \in 1 .. Len(untried') : Better(untried'[i], untried'[j]) => i < j
      BY <2>3 DEF NoneForgotten
    <3>3. \A i \in 1 .. Len(untried') : untried'[i] = Fallback => FallbackIsOpen
      BY <2>3 DEF NoneForgotten
    <3> QED
      BY <2>1, <2>4, <3>1, <3>2, <3>3 DEF NoneForgotten, where
  <2>8. BestAddressFirst'
    <3> SUFFICES ASSUME NEW a \in Answered, Better(a, addr') PROVE a \in tried
      BY <2>1, <2>4 DEF BestAddressFirst
    <3>1. ASSUME NEW i \in 1 .. Len(untried), untried[i] = a PROVE FALSE
      <4>1. 1 \in 1 .. Len(untried) /\ Better(untried[i], untried[1])
        BY <2>3, <3>1
      <4>2. i < 1
        BY <4>1 DEF NoneForgotten
      <4> QED
        BY <4>2
    <3> QED
      BY <2>5, <3>1
  <2>9. FallbackUnlessRefused'
    BY <2>1, <2>3, <2>4 DEF NoneForgotten, FallbackUnlessRefused, where
  <2> QED
    BY <2>6, <2>7, <2>8, <2>9
<1>11. CASE DialFails \/ DialTimesOut
  <2>1. /\ tried' = tried \cup {addr} /\ UNCHANGED <<where, addresses, addr>>
        /\ step = "dialing" /\ step' \in {"next", "done"}
    BY <1>11 DEF DialFails, DialTimesOut, TryAnother, StepTo, Finish
  <2>2. Answered' = Answered /\ FallbackIsOpen' = FallbackIsOpen
    BY <2>1 DEF Answered, addresses, FallbackIsOpen, Refused
  <2>3. LookupsFirst'
    BY <2>1, <2>2 DEF LookupsFirst, BeforeAddresses, Services, where, addresses
  <2>4. NoneForgotten'
    BY <2>1, <2>2 DEF NoneForgotten, BeforeAddresses, Services, where, addresses
  <2> QED
    BY <2>1, <2>2, <2>3, <2>4 DEF BestAddressFirst, FallbackUnlessRefused, where,
       addresses
<1>12. CASE UNCHANGED dialVars
  <2>1. Answered' = Answered /\ FallbackIsOpen' = FallbackIsOpen
    BY <1>12 DEF Answered, dialVars, addresses, FallbackIsOpen, Refused
  <2> QED
    BY <1>12, <2>1 DEF dialVars, where, addresses, attempt, LookupsFirst, NoneForgotten,
       BestAddressFirst, FallbackUnlessRefused
<1> QED
  BY <1>1, <1>2, <1>3, <1>4, <1>5, <1>6, <1>8, <1>9, <1>10, <1>11, <1>12
     DEF DialNext, AddressStep, AddressAnswer

\* The password follows the certificate.
LEMMA SecuredStep ==
    ASSUME Secured, PasswordOnlyToVerified, LookupsFirst, [DialNext]_dialVars
    PROVE  Secured' /\ PasswordOnlyToVerified'
<1>1. ASSUME UNCHANGED stream, step' \notin {"secured", "features", "opening"}
      PROVE  Secured' /\ PasswordOnlyToVerified'
  BY <1>1 DEF Secured, PasswordOnlyToVerified, stream
<1>2. CASE TorIsNotRunning \/ (\E overTor \in BOOLEAN : BuildDialer(overTor))
           \/ AddressStep \/ AddressAnswer
  <2>1. CASE \E s \in Services : LookupTimesOut(s) \/ LookupAnswered(s)
    BY <1>1, <2>1 DEF LookupTimesOut, TimesOut, LookupAnswered, Answer, StepTo,
       AfterLookup
  <2>2. CASE TorIsNotRunning \/ (\E overTor \in BOOLEAN : BuildDialer(overTor))
             \/ SkipLookup \/ StartLookup \/ ServiceNotAvailable \/ Resolve
    BY <1>1, <2>2 DEF TorIsNotRunning, BuildDialer, SkipLookup, StartLookup,
       ServiceNotAvailable, Resolve, StepTo, Finish
  <2>3. CASE TryNext \/ NoneAvailable \/ DialSucceeds \/ DialFails
             \/ DialTimesOut \/ DialRaces
    BY <1>1, <2>3 DEF TryNext, NoneAvailable, DialSucceeds, DialFails, DialTimesOut,
       DialRaces, TryAnother, StepTo, Finish
  <2> QED
    BY <1>2, <2>1, <2>2, <2>3 DEF AddressStep, AddressAnswer
<1>3. CASE SetupStream
  BY <1>3 DEF SetupStream, StepTo, Secured, PasswordOnlyToVerified, negotiation,
     attempt, stream
<1>4. CASE Verify
  BY <1>4 DEF Verify, Accept, StepTo, Secured, PasswordOnlyToVerified, negotiation,
     attempt
<1>5. ASSUME NEW offer \in SUBSET Features, SendInitialStreamHeader(offer)
      PROVE  Secured' /\ PasswordOnlyToVerified'
  BY <1>5 DEF SendInitialStreamHeader, FirstStep, StepTo, Secured,
     PasswordOnlyToVerified,
     negotiation, attempt
<1>6. CASE Authenticate \/ NegotiateInBandRegistration
  BY <1>6 DEF Authenticate, NegotiateInBandRegistration, StepTo, Secured,
     PasswordOnlyToVerified, negotiation, attempt
<1>7. CASE StreamBreaks \/ Handshake \/ StartTLS \/ NoMechanism
           \/ AuthenticationSucceeds
           \/ AuthenticationFails \/ BindResource \/ EstablishSession \/ CreateAccount
  BY <1>1, <1>7 DEF StreamBreaks, Handshake, StartTLS, NoMechanism,
     AuthenticationSucceeds,
     AuthenticationFails, BindResource, EstablishSession, CreateAccount, StepTo, Finish
<1>8. CASE UNCHANGED dialVars
  BY <1>8 DEF dialVars, attempt, stream, Secured, PasswordOnlyToVerified
<1> QED
  BY <1>2, <1>3, <1>4, <1>5, <1>6, <1>7, <1>8 DEF DialNext, StreamStep

\* The initial states, with nothing looked up yet.
LEMMA DialInitial == ASSUME DialInit PROVE DialTypeOK /\ DialInv
<1>1. Answered = {}
  BY DEF DialInit, Answered
<1>2. NoAddress \in Addresses
  BY Zenon DEF Addresses
<1>3. DialTypeOK
  BY <1>2 DEF DialInit, DialTypeOK
<1>4. LookupsFirst
  BY <1>1 DEF DialInit, LookupsFirst, Services
<1>5. NoneForgotten
  BY <1>1 DEF DialInit, NoneForgotten, BeforeAddresses
<1> QED
  BY <1>1, <1>3, <1>4, <1>5, NoRecords DEF DialInv, DialInit, Secured, BestAddressFirst,
     FallbackUnlessRefused, PasswordOnlyToVerified

\* Every variable of Dial keeps its type, no record is forgotten, and TLS is
\* verified once it is up, for any finite set of records.
THEOREM DialAlways == DialSpec => [](DialTypeOK /\ DialInv)
<1>1. DialInit => DialTypeOK /\ DialInv
  BY DialInitial
<1>2. DialTypeOK /\ DialInv /\ [DialNext]_dialVars => DialTypeOK' /\ DialInv'
  <2> SUFFICES ASSUME DialTypeOK, DialInv, [DialNext]_dialVars PROVE DialTypeOK' /\ DialInv'
    OBVIOUS
  <2>1. DialTypeOK'
    BY DialTypeStep DEF DialInv
  <2>2. /\ LookupsFirst' /\ NoneForgotten'
        /\ BestAddressFirst' /\ FallbackUnlessRefused'
    BY AddressStepKeeps DEF DialInv
  <2>3. Secured' /\ PasswordOnlyToVerified'
    BY SecuredStep DEF DialInv
  <2> QED
    BY <2>1, <2>2, <2>3 DEF DialInv
<1> QED
  BY <1>1, <1>2, PTL DEF DialSpec

\* Every variable of Dial keeps its type, for any finite set of records.
THEOREM DialTypeCorrect == DialSpec => []DialTypeOK
<1> QED
  BY DialAlways, PTL

\* Whichever of the two services a record comes from, every better one was tried
\* before it in vain.
THEOREM BestAddressIsFirst ==
    DialSpec => []BestAddressFirst
<1>1. DialTypeOK /\ DialInv => BestAddressFirst
  BY DEF DialInv
<1> QED
  BY <1>1, DialAlways, PTL

\* The domain's own port is dialed only if no lookup found a record and none was
\* told that its service is not offered, or only the second one behind a first one
\* that failed.
THEOREM FallbackUnlessRefusedAlways ==
    DialSpec => []FallbackUnlessRefused
<1>1. DialTypeOK /\ DialInv => FallbackUnlessRefused
  BY DEF DialInv
<1> QED
  BY <1>1, DialAlways, PTL

\* The password and a registration go only to a server whose certificate was
\* verified, by whichever way TLS began and whatever the server offers.
THEOREM PasswordNeedsCertificate ==
    DialSpec => []PasswordOnlyToVerified
<1>1. DialTypeOK /\ DialInv => PasswordOnlyToVerified
  BY DEF DialInv
<1> QED
  BY <1>1, DialAlways, PTL

=============================================================================
