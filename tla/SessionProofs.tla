--------------------------- MODULE SessionProofs ---------------------------
(* Type correctness of Session; that no interleaving of its goroutines     *)
(* leaves a session CONNECTING with nobody to end that; and, as long as    *)
(* its calls have not overlapped, what its two fields and its connections  *)
(* have to do with one another.                                            *)
EXTENDS Session, TLAPS

\* Every field and every goroutine of the session keeps its type, for any
\* sets of connections and of goroutines calling Connect, Close, SendPing and
\* connection().
THEOREM TypeCorrect == Spec => []TypeOK
<1> USE SessionAssumption DEF TypeOK, Procs, Disconnected, Connecting, Connected,
        DialPC, ClosePC, WatchPC, Step, Enter, Hold, Returned, aside
<1>1. Init => TypeOK
    BY DEF Init
<1>2. TypeOK /\ [Next]_vars => TypeOK'
    <2> SUFFICES ASSUME TypeOK, [Next]_vars PROVE TypeOK'
        OBVIOUS
    <2>1. ASSUME NEW d \in Dialers, UserConnects(d) PROVE TypeOK'
        BY <2>1 DEF UserConnects, Ask
    <2>2. ASSUME NEW d \in Dialers, ConnectStep(d) PROVE TypeOK'
        <3>1. CASE ConnectStart(d) \/ SetConnecting(d) \/ DialFails(d)
            BY <3>1 DEF ConnectStart, SetConnecting, Announce, DialFails
        <3>2. CASE SetFailed(d) \/ CheckConnecting(d) \/ SetConnected(d)
            BY <3>2 DEF SetFailed, GiveUp, CheckConnecting, SetConnected
        <3>3. ASSUME NEW k \in Conns, DialSucceeds(d, k) PROVE TypeOK'
            BY <3>3 DEF DialSucceeds
        <3>4. CASE AssignConn(d)
            BY <3>4 DEF AssignConn, Store
        <3>5. CASE StartWatching(d)
            <4>1. CASE conn = NoConn
                BY <3>5, <4>1 DEF StartWatching
            <4>2. CASE conn # NoConn
                BY <3>5, <4>2 DEF StartWatching
            <4> QED BY <4>1, <4>2
        <3>6. CASE RejectCheck(d)
            BY <3>6 DEF RejectCheck
        <3>8. CASE RejectClose(d)
            <4>1. panicked' \in BOOLEAN
                BY <3>8, Zenon DEF RejectClose
            <4> QED BY <3>8, <4>1 DEF RejectClose
        <3>7. CASE RejectHangup(d)
            BY <3>7 DEF RejectHangup
        <3> QED BY <2>2, <3>1, <3>2, <3>3, <3>4, <3>5, <3>6, <3>7, <3>8
                DEF ConnectStep
    <2>3. ASSUME NEW d \in Dialers, NEW p \in Conns \cup {Checker}, Reconnect(p, d)
          PROVE  TypeOK'
        BY <2>3 DEF Reconnect
    <2>4. CASE CheckReconnect
        BY <2>4 DEF CheckReconnect
    <2>5. ASSUME NEW c \in Closers, UserDisconnects(c) PROVE TypeOK'
        BY <2>5 DEF UserDisconnects
    <2>6. ASSUME NEW p \in Closers \cup Conns, CloseStep(p) PROVE TypeOK'
        <3>1. CASE CloseCheck(p)
            BY <3>1 DEF CloseCheck
        <3>2. CASE CloseCapture(p) \/ SetDisconnected(p)
            BY <3>2 DEF CloseCapture, SetDisconnected
        <3>3. CASE HangUp(p) \/ ClearConn(p)
            BY <3>3 DEF HangUp, CloseLink, ClearConn
        <3> QED BY <2>6, <3>1, <3>2, <3>3 DEF CloseStep
    <2>10. ASSUME NEW k \in Conns, AskFeatures(k) PROVE TypeOK'
        <3>1. panicked' \in BOOLEAN
            BY <2>10, Zenon DEF AskFeatures
        <3> QED BY <2>10, <3>1 DEF AskFeatures
    <2>11. CASE RefreshMenu
        BY <2>11 DEF RefreshMenu
    <2>7. ASSUME NEW k \in Conns, WatchStep(k) \/ LoseNetwork(k) PROVE TypeOK'
        <3>1. CASE StartReading(k)
            <4>1. panicked' \in BOOLEAN
                BY <3>1, Zenon DEF StartReading
            <4> QED BY <3>1, <4>1 DEF StartReading
        <3>2. CASE StopWatching(k) \/ ConnectionLost(k) \/ LoseNetwork(k)
            BY <3>2 DEF StopWatching, ConnectionLost, Lost, LoseNetwork
        <3> QED BY <2>7, <3>1, <3>2 DEF WatchStep
    <2>8. ASSUME NEW p \in Pingers \cup Callers, UserStep(p) PROVE TypeOK'
        <3>1. CASE SendPing(p)
            <4>1. panicked' \in BOOLEAN
                BY <3>1, Zenon DEF SendPing
            <4> QED BY <3>1, <4>1 DEF SendPing
        <3>2. CASE UseConnection(p)
            <4>1. panicked' \in BOOLEAN
                BY <3>2, Zenon DEF UseConnection
            <4>2. PICK to \in {"dead", "idle"} : pc' = [pc EXCEPT ![p] = to]
                BY <3>2, Zenon DEF UseConnection
            <4> QED BY <3>2, <4>1, <4>2 DEF UseConnection
        <3>3. CASE CheckConnection(p) \/ PingEnds(p)
            BY <3>3 DEF CheckConnection, PingEnds
        <3>4. CASE ReadConnFirst(p) \/ ReadStatusFirst(p)
            BY <3>4 DEF ReadConnFirst, ReadStatusFirst
        <3> QED BY <2>8, <3>1, <3>2, <3>3, <3>4 DEF UserStep
    <2>9. CASE UNCHANGED vars
        BY <2>9 DEF vars
    <2> QED BY <2>1, <2>2, <2>3, <2>4, <2>5, <2>6, <2>7, <2>8, <2>9, <2>10, <2>11 DEF Next
<1> QED BY <1>1, <1>2, PTL DEF Spec

-----------------------------------------------------------------------------
(* The goroutines between setStatus(CONNECTING) and the next status.       *)

InCharge == {"dialing", "failed", "dialed", "assign", "online"}

\* Whoever keeps the status and every goroutine in charge keeps the invariant.
LEMMA KeepsCharge ==
    ASSUME ConnectingHasDialer,
           status' = Connecting => status = Connecting,
           \A d \in Dialers : pc[d] \in InCharge => pc'[d] \in InCharge
    PROVE  ConnectingHasDialer'
BY DEF ConnectingHasDialer, InCharge

\* The session is CONNECTING only while a Connect that set it so is still to
\* set another status: whatever Close, connectionLost, SendPing, reconnects and
\* other Connects do in between.
THEOREM ConnectingIsTransient == Spec => []ConnectingHasDialer
<1> USE SessionAssumption DEF Disconnected, Connecting, Connected, Step, Enter, Hold
<1>1. Init => ConnectingHasDialer
    BY DEF Init, ConnectingHasDialer
<1>2. TypeOK /\ ConnectingHasDialer /\ [Next]_vars => ConnectingHasDialer'
    <2> SUFFICES ASSUME TypeOK, ConnectingHasDialer, [Next]_vars
                 PROVE  ConnectingHasDialer'
        OBVIOUS
    <2>0. pc = [p \in Procs |-> pc[p]]
        BY DEF TypeOK
    <2> USE <2>0 DEF Procs
    <2>1. ASSUME NEW d \in Dialers, UserConnects(d) PROVE ConnectingHasDialer'
        BY <2>1, KeepsCharge DEF UserConnects, Ask, InCharge
    <2>2. ASSUME NEW d \in Dialers, ConnectStep(d) PROVE ConnectingHasDialer'
        <3>1. CASE ConnectStart(d)
            BY <3>1, KeepsCharge DEF ConnectStart, InCharge
        <3>2. CASE SetConnecting(d)
            BY <3>2 DEF SetConnecting, ConnectingHasDialer
        <3>3. CASE DialFails(d)
            BY <3>3, KeepsCharge DEF DialFails, InCharge
        <3>4. CASE SetFailed(d)
            BY <3>4 DEF SetFailed, GiveUp, ConnectingHasDialer
        <3>5. ASSUME NEW k \in Conns, DialSucceeds(d, k) PROVE ConnectingHasDialer'
            BY <3>5, KeepsCharge DEF DialSucceeds, InCharge
        <3>6. CASE CheckConnecting(d)
            <4>1. CASE status = Connecting
                BY <3>6, <4>1, KeepsCharge DEF CheckConnecting, InCharge
            <4>2. CASE status # Connecting
                BY <3>6, <4>2 DEF CheckConnecting, ConnectingHasDialer
            <4> QED BY <4>1, <4>2
        <3>7. CASE AssignConn(d)
            BY <3>7, KeepsCharge DEF AssignConn, InCharge
        <3>8. CASE SetConnected(d)
            BY <3>8 DEF SetConnected, ConnectingHasDialer
        <3>9. CASE StartWatching(d)
            <4>1. \A e \in Dialers : pc[e] \in InCharge => pc'[e] \in InCharge
                <5>1. CASE conn = NoConn
                    BY <3>9, <5>1 DEF StartWatching
                <5>2. CASE conn # NoConn
                    <6>1. pc[d] = "resource"
                          /\ pc' = [pc EXCEPT ![d] = "idle", ![held[d]] = "spawned"]
                        BY <3>9, <5>2 DEF StartWatching
                    <6>2. held[d] \notin Dialers
                        BY DEF TypeOK
                    <6>3. \A e \in Dialers \ {d} : pc'[e] = pc[e]
                        BY <6>1, <6>2
                    <6>4. pc[d] \notin InCharge
                        BY <6>1 DEF InCharge
                    <6> QED BY <6>3, <6>4
                <5> QED BY <5>1, <5>2
            <4> QED BY <3>9, <4>1, KeepsCharge DEF StartWatching
        <3>10. CASE RejectCheck(d) \/ RejectClose(d) \/ RejectHangup(d)
            <4>1. UNCHANGED status
                BY <3>10 DEF RejectCheck, RejectClose, RejectHangup
            <4>2. pc[d] \notin InCharge
                BY <3>10 DEF RejectCheck, RejectClose, RejectHangup, InCharge
            <4>3. \A e \in Dialers \ {d} : pc'[e] = pc[e]
                BY <3>10 DEF RejectCheck, RejectClose, RejectHangup
            <4> QED BY <4>1, <4>2, <4>3, KeepsCharge
        <3> QED BY <2>2, <3>1, <3>2, <3>3, <3>4, <3>5, <3>6, <3>7, <3>8, <3>9, <3>10
                DEF ConnectStep
    <2>3. ASSUME NEW d \in Dialers, NEW p \in Conns \cup {Checker}, Reconnect(p, d)
          PROVE  ConnectingHasDialer'
        <3>1. \A e \in Dialers : pc[e] \in InCharge => pc'[e] \in InCharge
            BY <2>3 DEF Reconnect, InCharge
        <3> QED BY <2>3, <3>1, KeepsCharge DEF Reconnect
    <2>4. CASE CheckReconnect
        BY <2>4, KeepsCharge DEF CheckReconnect, InCharge
    <2>5. ASSUME NEW c \in Closers, UserDisconnects(c) PROVE ConnectingHasDialer'
        BY <2>5, KeepsCharge DEF UserDisconnects, InCharge
    <2>6. ASSUME NEW p \in Closers \cup Conns, CloseStep(p)
          PROVE  ConnectingHasDialer'
        <3>1. \A e \in Dialers : pc'[e] = pc[e]
            BY <2>6 DEF CloseStep, CloseCheck, CloseCapture, SetDisconnected, HangUp,
                        ClearConn
        <3>2. status' = Connecting => status = Connecting
            BY <2>6 DEF CloseStep, CloseCheck, CloseCapture, SetDisconnected, HangUp,
                        ClearConn
        <3> QED BY <3>1, <3>2, KeepsCharge
    <2>7. ASSUME NEW k \in Conns, WatchStep(k) \/ LoseNetwork(k)
          PROVE  ConnectingHasDialer'
        <3>1. \A e \in Dialers : pc'[e] = pc[e]
            BY <2>7 DEF WatchStep, StartReading, StopWatching, ConnectionLost, Lost,
                        LoseNetwork
        <3>2. UNCHANGED status
            BY <2>7 DEF WatchStep, StartReading, StopWatching, ConnectionLost,
                        LoseNetwork
        <3> QED BY <3>1, <3>2, KeepsCharge
    <2>10. ASSUME NEW k \in Conns, AskFeatures(k) PROVE ConnectingHasDialer'
        BY <2>10, KeepsCharge DEF AskFeatures
    <2>11. CASE RefreshMenu
        BY <2>11, KeepsCharge DEF RefreshMenu
    <2>8. ASSUME NEW p \in Pingers \cup Callers, UserStep(p)
          PROVE  ConnectingHasDialer'
        <3>1. \A e \in Dialers : pc'[e] = pc[e]
            BY <2>8 DEF UserStep, CheckConnection, SendPing, PingEnds, ReadConnFirst,
                        ReadStatusFirst, UseConnection
        <3>2. status' = Connecting => status = Connecting
            BY <2>8 DEF UserStep, CheckConnection, SendPing, PingEnds, ReadConnFirst,
                        ReadStatusFirst, UseConnection
        <3> QED BY <3>1, <3>2, KeepsCharge
    <2>9. CASE UNCHANGED vars
        BY <2>9, KeepsCharge DEF vars
    <2> QED BY <2>1, <2>2, <2>3, <2>4, <2>5, <2>6, <2>7, <2>8, <2>9, <2>10, <2>11 DEF Next
<1> QED BY <1>1, <1>2, TypeCorrect, PTL DEF Spec

-----------------------------------------------------------------------------
(* What a call that has the session for itself knows of the two fields.    *)

Sound(p) ==
    /\ pc[p] \in {"dialing", "failed", "dialed", "assign"} => status = Connecting
    /\ pc[p] \in {"dialed", "assign", "online", "resource"} => held[p] \in Conns
    /\ pc[p] \in {"online", "resource", "spawned", "ok"} => conn # NoConn
    /\ pc[p] \notin {"reject", "rejectClose", "rejectHangup", "dead"}
    /\ pc[p] \in {"hangup", "clear"} => status = Disconnected
    /\ pc[p] = "called" => held[p] = conn

Coherent == status = Connected => conn # NoConn
OneAtATime == \A p, q \in Procs : Busy(p) /\ Busy(q) => p = q

Offline == panicked => status # Connected

CalmInv == calm => Offline /\ Coherent /\ OneAtATime /\ \A p \in Procs : Sound(p)

\* A step of a call that is alone.
LEMMA AloneKeepsCalm ==
    ASSUME TypeOK, NEW p \in Procs,
           \A q \in Procs \ {p} : ~Busy(q) /\ pc'[q] = pc[q],
           Sound(p)', Offline', Coherent'
    PROVE  CalmInv'
<1>1. \A q \in Procs \ {p} : ~Busy(q)'
    BY Zenon DEF Busy
<1>2. \A q \in Procs \ {p} : Sound(q)'
    BY <1>1 DEF Busy, Sound, DialPC, ClosePC
<1>3. OneAtATime'
    BY <1>1, Zenon DEF OneAtATime
<1> QED BY <1>2, <1>3, Zenon DEF CalmInv

\* A step outside of all calls.
LEMMA QuietKeepsCalm ==
    ASSUME CalmInv, calm' => calm, UNCHANGED <<status, conn, panicked>>,
           \A q \in Procs : Busy(q)' => pc'[q] = pc[q] /\ held'[q] = held[q]
    PROVE  CalmInv'
<1> SUFFICES ASSUME calm' PROVE CalmInv'
    BY Zenon DEF CalmInv
<1>1. Offline' /\ Coherent'
    BY DEF CalmInv, Coherent, Offline
<1>2. OneAtATime'
    BY Zenon DEF CalmInv, OneAtATime, Busy
<1>3. ASSUME NEW q \in Procs PROVE Sound(q)'
    BY DEF CalmInv, Busy, Sound, DialPC, ClosePC
<1> QED BY <1>1, <1>2, <1>3, Zenon DEF CalmInv

\* The one step of p changes pc of p alone.
LEMMA BusyStepKeepsCalm ==
    ASSUME TypeOK, CalmInv, NEW p \in Procs, NEW from, NEW to, Step(p, from, to), Busy(p),
           calm' => calm,
           calm => Sound(p)' /\ Offline' /\ Coherent'
    PROVE  CalmInv'
<1> SUFFICES ASSUME calm' PROVE CalmInv'
    BY Zenon DEF CalmInv
<1>1. \A q \in Procs \ {p} : ~Busy(q)
    BY Zenon DEF CalmInv, OneAtATime
<1>2. \A q \in Procs \ {p} : pc'[q] = pc[q]
    BY DEF Step, TypeOK
<1> QED BY <1>1, <1>2, AloneKeepsCalm

\* A call that begins alone.
LEMMA EnterKeepsCalm ==
    ASSUME TypeOK, CalmInv, NEW p \in Procs, NEW from, NEW to, Enter(p, from, to),
           calm => Sound(p)' /\ Offline' /\ Coherent'
    PROVE  CalmInv'
<1> SUFFICES ASSUME calm' PROVE CalmInv'
    BY Zenon DEF CalmInv
<1>1. \A q \in Procs \ {p} : ~Busy(q)
    BY Zenon DEF Enter, Overlap
<1>2. \A q \in Procs \ {p} : pc'[q] = pc[q]
    BY DEF Enter, Step, TypeOK
<1>3. calm
    BY Zenon DEF Enter
<1> QED BY <1>1, <1>2, <1>3, AloneKeepsCalm

LEMMA ConnectKeepsCalm ==
    ASSUME TypeOK, CalmInv, NEW d \in Dialers, ConnectStep(d)
    PROVE  CalmInv'
<1> USE SessionAssumption DEF Disconnected, Connecting, Connected
<1>0. d \in Procs
    BY DEF Procs
<1>1. CASE ConnectStart(d)
    <2>1. Enter(d, "connect", IF status = Disconnected THEN "setting" ELSE "idle")
        BY <1>1, Zenon DEF ConnectStart
    <2>2. calm => Sound(d)' /\ Offline' /\ Coherent'
        BY <1>0, <1>1 DEF ConnectStart, Enter, Step, TypeOK, CalmInv, Sound, Coherent, Offline
    <2> QED BY <1>0, <2>1, <2>2, EnterKeepsCalm
<1>2. CASE SetConnecting(d)
    <2>1. Step(d, "setting", "dialing") /\ Busy(d) /\ calm' = calm
        BY <1>2 DEF SetConnecting, Step, Busy, DialPC
    <2>2. calm => Sound(d)' /\ Offline' /\ Coherent'
        BY <1>0, <1>2 DEF SetConnecting, Announce, Step, TypeOK, CalmInv, Sound, Coherent, Offline
    <2> QED BY <1>0, <2>1, <2>2, BusyStepKeepsCalm
<1>3. ASSUME NEW k \in Conns, DialSucceeds(d, k) PROVE CalmInv'
    <2>1. Step(d, "dialing", "dialed") /\ Busy(d) /\ calm' = calm
        BY <1>3 DEF DialSucceeds, Step, Busy, DialPC
    <2>2. calm => Sound(d)' /\ Offline' /\ Coherent'
        BY <1>0, <1>3 DEF DialSucceeds, Step, Hold, TypeOK, CalmInv, Sound, Coherent, Offline
    <2> QED BY <1>0, <2>1, <2>2, BusyStepKeepsCalm
<1>4. CASE DialFails(d)
    <2>1. Step(d, "dialing", "failed") /\ Busy(d) /\ calm' = calm
        BY <1>4 DEF DialFails, Step, Busy, DialPC
    <2>2. calm => Sound(d)' /\ Offline' /\ Coherent'
        BY <1>0, <1>4 DEF DialFails, Step, TypeOK, CalmInv, Sound, Coherent, Offline
    <2> QED BY <1>0, <2>1, <2>2, BusyStepKeepsCalm
<1>5. CASE SetFailed(d)
    <2>1. Step(d, "failed", "idle") /\ Busy(d) /\ calm' = calm
        BY <1>5 DEF SetFailed, Step, Busy, DialPC
    <2>2. calm => Sound(d)' /\ Offline' /\ Coherent'
        BY <1>0, <1>5 DEF SetFailed, GiveUp, Step, TypeOK, CalmInv, Sound, Coherent, Offline
    <2> QED BY <1>0, <2>1, <2>2, BusyStepKeepsCalm
<1>6. CASE CheckConnecting(d)
    <2>1. /\ Step(d, "dialed", IF status = Connecting THEN "assign" ELSE "reject")
          /\ Busy(d) /\ calm' = calm
        BY <1>6 DEF CheckConnecting, Step, Busy, DialPC
    <2>2. calm => Sound(d)' /\ Offline' /\ Coherent'
        BY <1>0, <1>6 DEF CheckConnecting, Step, TypeOK, CalmInv, Sound, Coherent, Offline
    <2> QED BY <1>0, <2>1, <2>2, BusyStepKeepsCalm
<1>7. CASE AssignConn(d)
    <2>1. Step(d, "assign", "online") /\ Busy(d) /\ calm' = calm
        BY <1>7 DEF AssignConn, Step, Busy, DialPC
    <2>2. calm => Sound(d)' /\ Offline' /\ Coherent'
        BY <1>0, <1>7 DEF AssignConn, Store, Step, TypeOK, CalmInv, Sound, Coherent, Offline, Procs
    <2> QED BY <1>0, <2>1, <2>2, BusyStepKeepsCalm
<1>8. CASE SetConnected(d)
    <2>1. Step(d, "online", "resource") /\ Busy(d) /\ calm' = calm
        BY <1>8 DEF SetConnected, Step, Busy, DialPC
    <2>2. calm => Sound(d)' /\ Offline' /\ Coherent'
        <3>1. calm => Sound(d)'
            BY <1>0, <1>8 DEF SetConnected, Step, TypeOK, CalmInv, Sound
        <3>2. calm => Offline' /\ Coherent'
            BY <1>0, <1>8 DEF SetConnected, Step, TypeOK, CalmInv, Sound, Coherent, Offline
        <3> QED BY <3>1, <3>2
    <2> QED BY <1>0, <2>1, <2>2, BusyStepKeepsCalm
<1>9. CASE StartWatching(d)
    <2> SUFFICES ASSUME calm PROVE CalmInv'
        BY <1>9, Zenon DEF StartWatching, CalmInv
    <2>1. Sound(d) /\ Coherent /\ pc[d] = "resource"
        BY <1>0, <1>9, Zenon DEF CalmInv, StartWatching
    <2>2. conn # NoConn /\ held[d] \in Conns
        BY <2>1 DEF Sound
    <2> PICK k \in Conns : k = held[d]
        BY <2>2
    <2>3. /\ pc' = [pc EXCEPT ![d] = "idle", ![k] = "spawned"]
          /\ UNCHANGED <<status, conn, panicked>>
        BY <1>9, <2>2 DEF StartWatching
    <2>4. \A q \in Procs \ {d} : ~Busy(q)
        BY <1>0, <2>1, Zenon DEF CalmInv, OneAtATime, Busy, DialPC
    <2>5. /\ k \in Procs /\ d # k
          /\ pc'[d] = "idle" /\ pc'[k] = "spawned"
          /\ \A q \in Procs \ {d, k} : pc'[q] = pc[q]
        BY <1>0, <2>3 DEF TypeOK, Procs
    <2>6. \A q \in Procs \ {k} : ~Busy(q)'
        BY <2>4, <2>5 DEF Busy, DialPC, ClosePC
    <2>7. \A q \in Procs \ {k} : Sound(q)'
        BY <2>6 DEF Busy, Sound, DialPC, ClosePC
    <2>8. Sound(k)'
        BY <2>2, <2>3, <2>5 DEF Sound
    <2>9. OneAtATime'
        BY <2>6, Zenon DEF OneAtATime
    <2>10. Offline' /\ Coherent'
        BY <2>1, <2>3 DEF CalmInv, Coherent, Offline
    <2> QED BY <2>7, <2>8, <2>9, <2>10, Zenon DEF CalmInv
<1>10. CASE RejectCheck(d) \/ RejectClose(d) \/ RejectHangup(d)
    <2>1. pc[d] \in {"reject", "rejectClose", "rejectHangup"} /\ calm' = calm
        BY <1>10 DEF RejectCheck, RejectClose, RejectHangup, Step
    <2> QED BY <1>0, <2>1 DEF CalmInv, Sound
<1> QED BY <1>1, <1>2, <1>3, <1>4, <1>5, <1>6, <1>7, <1>8, <1>9, <1>10
       DEF ConnectStep

LEMMA CloseKeepsCalm ==
    ASSUME TypeOK, CalmInv, NEW p \in Closers \cup Conns, CloseStep(p)
    PROVE  CalmInv'
<1> USE SessionAssumption DEF Disconnected, Connecting, Connected, Returned
<1>0. p \in Procs
    BY DEF Procs
<1>1. CASE CloseCheck(p)
    <2>1. Enter(p, "close", IF status = Disconnected THEN Returned(p) ELSE "capture")
        BY <1>1, Zenon DEF CloseCheck
    <2>2. calm => Sound(p)' /\ Offline' /\ Coherent'
        BY <1>0, <1>1 DEF CloseCheck, Enter, Step, TypeOK, CalmInv, Sound, Coherent, Offline
    <2> QED BY <1>0, <2>1, <2>2, EnterKeepsCalm
<1>2. CASE CloseCapture(p)
    <2>1. Step(p, "capture", "offline") /\ Busy(p) /\ calm' = calm
        BY <1>2 DEF CloseCapture, Step, Busy, ClosePC
    <2>2. calm => Sound(p)' /\ Offline' /\ Coherent'
        BY <1>0, <1>2 DEF CloseCapture, Step, TypeOK, CalmInv, Sound, Coherent, Offline
    <2> QED BY <1>0, <2>1, <2>2, BusyStepKeepsCalm
<1>3. CASE SetDisconnected(p)
    <2>1. /\ Step(p, "offline", IF held[p] = NoConn THEN Returned(p) ELSE "hangup")
          /\ Busy(p) /\ calm' = calm
        BY <1>3 DEF SetDisconnected, Step, Busy, ClosePC
    <2>2. calm => Sound(p)' /\ Offline' /\ Coherent'
        BY <1>0, <1>3 DEF SetDisconnected, Step, TypeOK, CalmInv, Sound, Coherent, Offline
    <2> QED BY <1>0, <2>1, <2>2, BusyStepKeepsCalm
<1>4. CASE HangUp(p)
    <2>1. Step(p, "hangup", "clear") /\ Busy(p) /\ calm' = calm
        BY <1>4 DEF HangUp, Step, Busy, ClosePC
    <2>2. calm => Sound(p)' /\ Offline' /\ Coherent'
        BY <1>0, <1>4 DEF HangUp, Step, TypeOK, CalmInv, Sound, Coherent, Offline
    <2> QED BY <1>0, <2>1, <2>2, BusyStepKeepsCalm
<1>5. CASE ClearConn(p)
    <2>1. Step(p, "clear", Returned(p)) /\ Busy(p) /\ calm' = calm
        BY <1>5 DEF ClearConn, Step, Busy, ClosePC
    <2>2. calm => Sound(p)' /\ Offline' /\ Coherent'
        BY <1>0, <1>5 DEF ClearConn, Step, TypeOK, CalmInv, Sound, Coherent, Offline
    <2> QED BY <1>0, <2>1, <2>2, BusyStepKeepsCalm
<1> QED BY <1>1, <1>2, <1>3, <1>4, <1>5 DEF CloseStep

LEMMA WatchKeepsCalm ==
    ASSUME TypeOK, CalmInv, NEW k \in Conns, WatchStep(k) \/ LoseNetwork(k)
    PROVE  CalmInv'
<1> USE SessionAssumption DEF Disconnected, Connecting, Connected
<1>0. k \in Procs
    BY DEF Procs
<1>1. CASE StartReading(k)
    <2>1. Step(k, "spawned", "watching") /\ Busy(k) /\ calm' = calm
        BY <1>1 DEF StartReading, Step, Busy
    <2>2. calm => conn # NoConn
        BY <1>0, <1>1 DEF StartReading, Step, CalmInv, Sound
    <2>3. calm => Offline'
        BY <1>1, <2>2, Zenon DEF StartReading, Offline
    <2>4. calm => Sound(k)' /\ Coherent'
        BY <1>0, <1>1 DEF StartReading, Step, TypeOK, CalmInv, Sound, Coherent, Offline
    <2> QED BY <1>0, <2>1, <2>3, <2>4, BusyStepKeepsCalm
<1>2. CASE StopWatching(k)
    <2>1. \A q \in Procs : Busy(q)' => pc'[q] = pc[q] /\ held'[q] = held[q]
        BY <1>0, <1>2 DEF StopWatching, Step, TypeOK, Busy, DialPC, ClosePC
    <2> QED BY <1>2, <2>1, QuietKeepsCalm DEF StopWatching
<1>3. CASE ConnectionLost(k)
    <2>1. Enter(k, "ended", IF status = Disconnected THEN "gone" ELSE "close")
        BY <1>3, Zenon DEF ConnectionLost, Lost
    <2>2. calm => Sound(k)' /\ Offline' /\ Coherent'
        BY <1>0, <1>3 DEF ConnectionLost, Lost, Enter, Step, TypeOK, CalmInv, Sound, Coherent, Offline
    <2> QED BY <1>0, <2>1, <2>2, EnterKeepsCalm
<1>4. CASE LoseNetwork(k)
    BY <1>4, QuietKeepsCalm DEF LoseNetwork
<1> QED BY <1>1, <1>2, <1>3, <1>4 DEF WatchStep

LEMMA UserKeepsCalm ==
    ASSUME TypeOK, CalmInv, NEW p \in Pingers \cup Callers, UserStep(p)
    PROVE  CalmInv'
<1> USE SessionAssumption DEF Disconnected, Connecting, Connected
<1>0. p \in Procs
    BY DEF Procs
<1>1. CASE CheckConnection(p)
    <2>1. Enter(p, "idle", "ping")
        BY <1>1, Zenon DEF CheckConnection
    <2>2. calm => Sound(p)' /\ Offline' /\ Coherent'
        BY <1>0, <1>1 DEF CheckConnection, Enter, Step, TypeOK, CalmInv, Sound, Coherent, Offline
    <2> QED BY <1>0, <2>1, <2>2, EnterKeepsCalm
<1>2. CASE SendPing(p)
    <2>1. Step(p, "ping", "pinging") /\ Busy(p) /\ calm' = calm
        BY <1>2 DEF SendPing, Step, Busy
    <2>2. calm => (conn = NoConn => status # Connected)
        BY Zenon DEF CalmInv, Coherent
    <2>3. calm => Offline'
        BY <1>2, <2>2, Zenon DEF SendPing, Offline
    <2>4. calm => Sound(p)' /\ Coherent'
        BY <1>0, <1>2 DEF SendPing, Step, TypeOK, CalmInv, Sound, Coherent, Offline
    <2> QED BY <1>0, <2>1, <2>3, <2>4, BusyStepKeepsCalm
<1>3. CASE PingEnds(p)
    <2>1. CASE calm'
        <3>1. Step(p, "pinging", "idle") /\ Busy(p) /\ UNCHANGED <<status, calm>>
            BY <1>3, <2>1 DEF PingEnds, Step, Busy
        <3>2. calm => Sound(p)' /\ Offline' /\ Coherent'
            BY <1>0, <1>3, <3>1 DEF PingEnds, Step, TypeOK, CalmInv, Sound, Coherent, Offline
        <3> QED BY <1>0, <3>1, <3>2, BusyStepKeepsCalm
    <2>2. CASE ~calm'
        BY <2>2, Zenon DEF CalmInv
    <2> QED BY <2>1, <2>2
<1>4. CASE ReadConnFirst(p)
    <2>1. Enter(p, "idle", "called")
        BY <1>4, Zenon DEF ReadConnFirst
    <2>2. calm => Sound(p)' /\ Offline' /\ Coherent'
        BY <1>0, <1>4 DEF ReadConnFirst, Hold, Enter, Step, TypeOK, CalmInv, Sound, Coherent, Offline
    <2> QED BY <1>0, <2>1, <2>2, EnterKeepsCalm
<1>5. CASE ReadStatusFirst(p)
    <2>1. Enter(p, "idle", "ok")
        BY <1>5, Zenon DEF ReadStatusFirst
    <2>2. calm => Sound(p)' /\ Offline' /\ Coherent'
        BY <1>0, <1>5 DEF ReadStatusFirst, Enter, Step, TypeOK, CalmInv, Sound, Coherent, Offline
    <2> QED BY <1>0, <2>1, <2>2, EnterKeepsCalm
<1>6. CASE UseConnection(p)
    <2>1. \/ pc[p] = "called" /\ panicked' = (status = Connected /\ held[p] = NoConn)
          \/ pc[p] = "ok" /\ panicked' = (conn = NoConn)
        BY <1>6, Zenon DEF UseConnection
    <2>2. Busy(p) /\ calm' = calm /\ UNCHANGED <<status, conn>>
        BY <1>6, <2>1 DEF UseConnection, Busy
    <2>3. calm => Sound(p) /\ Coherent
        BY <1>0, Zenon DEF CalmInv
    <2>4. calm => (panicked' = FALSE)
        <3>1. CASE pc[p] = "called" /\ panicked' = (status = Connected /\ held[p] = NoConn)
            <4>1. calm => (status = Connected => held[p] # NoConn)
                BY <2>3, <3>1, Zenon DEF Sound, Coherent
            <4> QED BY <3>1, <4>1, Zenon
        <3>2. CASE pc[p] = "ok" /\ panicked' = (conn = NoConn)
            <4>1. calm => conn # NoConn
                BY <2>3, <3>2 DEF Sound
            <4> QED BY <3>2, <4>1, Zenon
        <3> QED BY <2>1, <3>1, <3>2
    <2>5. PICK to : Step(p, pc[p], to) /\ (panicked' = FALSE => to = "idle")
        BY <1>6, Zenon DEF UseConnection
    <2>6. calm => Sound(p)' /\ Coherent'
        <3>1. calm => pc'[p] = "idle"
            BY <1>0, <2>4, <2>5 DEF Step, TypeOK
        <3> QED BY <2>2, <2>3, <3>1 DEF Sound, Coherent
    <2>7. calm => Offline'
        BY <2>4, Zenon DEF Offline
    <2> QED BY <1>0, <2>2, <2>5, <2>6, <2>7, BusyStepKeepsCalm
<1> QED BY <1>1, <1>2, <1>3, <1>4, <1>5, <1>6 DEF UserStep

\* As long as the calls have not overlapped, status and connection agree, one
\* call is under way at most, and each finds what it needs.
THEOREM CalmIsCoherent == Spec => []CalmInv
<1>1. Init => CalmInv
    BY DEF Init, CalmInv, Coherent, OneAtATime, Sound, Busy, DialPC, ClosePC,
           Disconnected, Connecting, Connected, Offline
<1>2. TypeOK /\ CalmInv /\ [Next]_vars => CalmInv'
    <2> SUFFICES ASSUME TypeOK, CalmInv, [Next]_vars PROVE CalmInv'
        OBVIOUS
    <2>1. ASSUME NEW d \in Dialers, UserConnects(d) PROVE CalmInv'
        <3>1. \A q \in Procs : Busy(q)' => pc'[q] = pc[q] /\ held'[q] = held[q]
            BY <2>1, SessionAssumption DEF UserConnects, Ask, Step, TypeOK, Busy, DialPC, ClosePC
        <3> QED BY <2>1, <3>1, QuietKeepsCalm DEF UserConnects
    <2>2. ASSUME NEW d \in Dialers, ConnectStep(d) PROVE CalmInv'
        BY <2>2, ConnectKeepsCalm
    <2>3. ASSUME NEW d \in Dialers, NEW p \in Conns \cup {Checker}, Reconnect(p, d)
          PROVE  CalmInv'
        <3>1. \A q \in Procs : Busy(q)' => pc'[q] = pc[q] /\ held'[q] = held[q]
            BY <2>3, SessionAssumption DEF Reconnect, TypeOK, Procs, Busy, DialPC, ClosePC
        <3> QED BY <2>3, <3>1, QuietKeepsCalm DEF Reconnect
    <2>4. CASE CheckReconnect
        <3>1. \A q \in Procs : Busy(q)' => pc'[q] = pc[q] /\ held'[q] = held[q]
            BY <2>4 DEF CheckReconnect, Step, TypeOK, Busy, DialPC, ClosePC
        <3> QED BY <2>4, <3>1, QuietKeepsCalm DEF CheckReconnect
    <2>5. ASSUME NEW c \in Closers, UserDisconnects(c) PROVE CalmInv'
        <3>1. \A q \in Procs : Busy(q)' => pc'[q] = pc[q] /\ held'[q] = held[q]
            BY <2>5, SessionAssumption DEF UserDisconnects, Step, TypeOK, Busy, DialPC, ClosePC
        <3> QED BY <2>5, <3>1, QuietKeepsCalm DEF UserDisconnects
    <2>6. ASSUME NEW p \in Closers \cup Conns, CloseStep(p) PROVE CalmInv'
        BY <2>6, CloseKeepsCalm
    <2>7. ASSUME NEW k \in Conns, WatchStep(k) \/ LoseNetwork(k) PROVE CalmInv'
        BY <2>7, WatchKeepsCalm
    <2>10. ASSUME NEW k \in Conns, AskFeatures(k) PROVE CalmInv'
        <3>1. calm => (conn = NoConn => status # Connected)
            BY Zenon DEF CalmInv, Coherent
        <3>2. calm' => Offline'
            BY <2>10, <3>1, Zenon DEF AskFeatures, Offline
        <3>3. UNCHANGED <<status, conn, calm, pc, held>>
            BY <2>10, Zenon DEF AskFeatures
        <3>4. calm' => Coherent' /\ OneAtATime' /\ \A q \in Procs : Sound(q)'
            BY <3>3 DEF CalmInv, Coherent, OneAtATime, Busy, Sound
        <3> QED BY <3>2, <3>4, Zenon DEF CalmInv
    <2>11. CASE RefreshMenu
        BY <2>11, QuietKeepsCalm DEF RefreshMenu
    <2>8. ASSUME NEW p \in Pingers \cup Callers, UserStep(p) PROVE CalmInv'
        BY <2>8, UserKeepsCalm
    <2>9. CASE UNCHANGED vars
        BY <2>9, QuietKeepsCalm DEF vars
    <2> QED BY <2>1, <2>2, <2>3, <2>4, <2>5, <2>6, <2>7, <2>8, <2>9, <2>10, <2>11 DEF Next
<1> QED BY <1>1, <1>2, TypeCorrect, PTL DEF Spec

\* A session whose calls have not overlapped has a connection whenever it says
\* that it is connected.
THEOREM ConnectedHasConnAlways == Spec => []ConnectedHasConn
<1>1. CalmInv => ConnectedHasConn
    BY Zenon DEF CalmInv, Coherent, ConnectedHasConn
<1> QED BY <1>1, CalmIsCoherent, PTL

\* A field that was never cleared is nil only before the first connection is
\* stored, and then nobody has been shown a connected session.
Stored ==
    \/ cleared
    \/ conn # NoConn
    \/ /\ status # Connected /\ shown # Connected /\ curious = {}
       /\ \A p \in Procs :
             pc[p] \notin {"online", "resource", "spawned", "ping", "ok", "rejectClose"}

Carried == \A p \in Procs : pc[p] \in {"dialed", "assign", "online", "resource"}
                               => held[p] \in Conns

Blamed == panicked => cleared \/ \E p \in Procs : pc[p] = "dead"

NilInv == Stored /\ Carried /\ Blamed

\* A step that leaves the fields alone and takes nobody to where a connection
\* is used.
LEMMA QuietKeepsNil ==
    ASSUME NilInv, ~panicked, UNCHANGED <<conn, cleared, panicked>>,
           status' = Connected => status = Connected,
           shown' = Connected => shown = Connected \/ status = Connected,
           curious' \subseteq curious,
           \A q \in Procs :
              /\ pc'[q] \in {"online", "resource", "spawned", "ping", "ok", "rejectClose",
                             "dialed", "assign"} => pc'[q] = pc[q]
              /\ held'[q] = held[q] \/ pc'[q] \notin {"dialed", "assign", "online", "resource"}
    PROVE  NilInv'
<1>1. Stored'
    BY DEF NilInv, Stored
<1>2. Carried'
    BY DEF NilInv, Carried
<1> QED BY <1>1, <1>2, Zenon DEF NilInv, Blamed

LEMMA ConnectKeepsNil ==
    ASSUME TypeOK, NilInv, NEW d \in Dialers, ConnectStep(d)
    PROVE  NilInv'
<1> USE SessionAssumption DEF Disconnected, Connecting, Connected, aside
<1>0. d \in Procs
    BY DEF Procs
<1>1. CASE ConnectStart(d) \/ SetConnecting(d) \/ DialFails(d) \/ SetFailed(d)
    <2>1. /\ ~panicked /\ UNCHANGED <<conn, held, panicked, aside>>
          /\ status' = Connected => status = Connected
        BY <1>1 DEF ConnectStart, Enter, SetConnecting, Announce, DialFails, SetFailed, GiveUp, Step
    <2>2. \E to \in {"setting", "idle", "dialing", "failed"} : pc' = [pc EXCEPT ![d] = to]
        BY <1>1 DEF ConnectStart, Enter, SetConnecting, DialFails, SetFailed, Step
    <2> QED BY <2>1, <2>2, <1>0, QuietKeepsNil DEF TypeOK
<1>2. ASSUME NEW k \in Conns, DialSucceeds(d, k) PROVE NilInv'
    <2>1. /\ ~panicked /\ UNCHANGED <<status, conn, panicked, aside>>
          /\ pc' = [pc EXCEPT ![d] = "dialed"] /\ held' = [held EXCEPT ![d] = k]
        BY <1>2 DEF DialSucceeds, Step, Hold
    <2>2. Stored'
        BY <1>0, <2>1 DEF NilInv, Stored, TypeOK
    <2>3. Carried'
        BY <1>0, <2>1 DEF NilInv, Carried, TypeOK
    <2> QED BY <2>1, <2>2, <2>3, Zenon DEF NilInv, Blamed
<1>3. CASE CheckConnecting(d)
    <2>1. /\ ~panicked /\ UNCHANGED <<status, conn, held, panicked, aside>>
          /\ pc[d] = "dialed"
          /\ \E to \in {"assign", "reject"} : pc' = [pc EXCEPT ![d] = to]
        BY <1>3 DEF CheckConnecting, Step
    <2>2. Stored'
        BY <1>0, <2>1 DEF NilInv, Stored, TypeOK
    <2>3. Carried'
        BY <1>0, <2>1 DEF NilInv, Carried, TypeOK
    <2> QED BY <2>1, <2>2, <2>3, Zenon DEF NilInv, Blamed
<1>4. CASE AssignConn(d)
    <2>1. /\ ~panicked /\ UNCHANGED <<status, held, panicked, aside>>
          /\ pc[d] = "assign" /\ pc' = [pc EXCEPT ![d] = "online"] /\ conn' = held[d]
        BY <1>4 DEF AssignConn, Store, Step
    <2>2. conn' # NoConn
        BY <1>0, <2>1 DEF NilInv, Carried, Procs
    <2>3. Carried'
        BY <1>0, <2>1 DEF NilInv, Carried, TypeOK
    <2> QED BY <2>1, <2>2, <2>3, Zenon DEF NilInv, Stored, Blamed
<1>5. CASE SetConnected(d)
    <2>1. /\ ~panicked /\ UNCHANGED <<conn, held, panicked, aside>>
          /\ pc[d] = "online" /\ pc' = [pc EXCEPT ![d] = "resource"]
        BY <1>5 DEF SetConnected, Step
    <2>2. Stored'
        BY <1>0, <2>1 DEF NilInv, Stored
    <2>3. Carried'
        BY <1>0, <2>1 DEF NilInv, Carried, TypeOK
    <2> QED BY <2>1, <2>2, <2>3, Zenon DEF NilInv, Blamed
<1>6. CASE StartWatching(d)
    <2>0. pc[d] = "resource" /\ ~panicked /\ UNCHANGED <<conn, cleared>>
        BY <1>6 DEF StartWatching
    <2>1. cleared \/ conn # NoConn
        BY <1>0, <2>0 DEF NilInv, Stored
    <2>2. panicked' => conn = NoConn
        BY <1>6 DEF StartWatching
    <2>3. Carried'
        BY <1>0, <1>6 DEF StartWatching, Hold, NilInv, Carried, TypeOK
    <2> QED BY <2>0, <2>1, <2>2, <2>3, Zenon DEF NilInv, Stored, Blamed
<1>7. CASE RejectCheck(d)
    <2>1. /\ ~panicked /\ UNCHANGED <<status, conn, panicked, aside>>
          /\ held' = [held EXCEPT ![d] = NoConn]
          /\ pc' = [pc EXCEPT ![d] = IF conn = NoConn THEN "idle" ELSE "rejectClose"]
        BY <1>7 DEF RejectCheck, Step, Hold
    <2>2. Stored'
        BY <1>0, <2>1 DEF NilInv, Stored, TypeOK
    <2>3. Carried'
        BY <1>0, <2>1 DEF NilInv, Carried, TypeOK
    <2> QED BY <2>1, <2>2, <2>3, Zenon DEF NilInv, Blamed
<1>8. CASE RejectClose(d)
    <2>0. pc[d] = "rejectClose" /\ ~panicked /\ UNCHANGED <<conn, cleared>>
        BY <1>8 DEF RejectClose, Step
    <2>1. cleared \/ conn # NoConn
        BY <1>0, <2>0 DEF NilInv, Stored
    <2>2. panicked' => conn = NoConn
        BY <1>8, Zenon DEF RejectClose
    <2>3. Carried'
        BY <1>0, <1>8 DEF RejectClose, Step, Hold, NilInv, Carried, TypeOK
    <2> QED BY <2>0, <2>1, <2>2, <2>3, Zenon DEF NilInv, Stored, Blamed
<1>9. CASE RejectHangup(d)
    <2>1. /\ ~panicked /\ UNCHANGED <<status, conn, panicked, aside>>
          /\ pc' = [pc EXCEPT ![d] = "idle"] /\ held' = [held EXCEPT ![d] = NoConn]
        BY <1>9 DEF RejectHangup, Step, Hold
    <2> QED BY <1>0, <2>1, QuietKeepsNil DEF TypeOK
<1> QED BY <1>1, <1>2, <1>3, <1>4, <1>5, <1>6, <1>7, <1>8, <1>9 DEF ConnectStep

LEMMA CloseKeepsNil ==
    ASSUME TypeOK, NilInv, NEW p \in Closers \cup Conns, CloseStep(p)
    PROVE  NilInv'
<1> USE SessionAssumption DEF Disconnected, Connecting, Connected, aside
<1>0. p \in Procs
    BY DEF Procs
<1>1. CASE CloseCheck(p) \/ CloseCapture(p) \/ SetDisconnected(p) \/ HangUp(p)
    <2>1. /\ ~panicked /\ UNCHANGED <<conn, panicked, aside>>
          /\ status' = Connected => status = Connected
        BY <1>1 DEF CloseCheck, Enter, CloseCapture, SetDisconnected, HangUp, Step
    <2>2. \E to \in {"sleeping", "idle", "capture", "offline", "hangup", "clear"} :
             pc' = [pc EXCEPT ![p] = to]
        BY <1>1 DEF CloseCheck, Enter, CloseCapture, SetDisconnected, HangUp, Step, Returned
    <2>3. \A q \in Procs \ {p} : held'[q] = held[q]
        BY <1>1 DEF CloseCheck, CloseCapture, SetDisconnected, HangUp, Hold, TypeOK
    <2> QED BY <2>1, <2>2, <2>3, <1>0, QuietKeepsNil DEF TypeOK
<1>2. CASE ClearConn(p)
    <2>1. /\ cleared' /\ pc' = [pc EXCEPT ![p] = Returned(p)]
          /\ held' = [held EXCEPT ![p] = NoConn]
        BY <1>2 DEF ClearConn, Step, Hold
    <2>2. Returned(p) \in {"sleeping", "idle"}
        BY Zenon DEF Returned
    <2>3. Carried'
        BY <1>0, <2>1, <2>2 DEF NilInv, Carried, TypeOK
    <2> QED BY <2>1, <2>3, Zenon DEF NilInv, Stored, Blamed
<1> QED BY <1>1, <1>2 DEF CloseStep

LEMMA OthersKeepNil ==
    ASSUME TypeOK, NilInv,
           \/ \E k \in Conns : WatchStep(k) \/ LoseNetwork(k) \/ AskFeatures(k)
           \/ RefreshMenu
           \/ \E p \in Pingers \cup Callers : UserStep(p)
    PROVE  NilInv'
<1> USE SessionAssumption DEF Disconnected, Connecting, Connected, aside
<1>1. ASSUME NEW k \in Conns, StartReading(k) PROVE NilInv'
    <2>0. k \in Procs /\ pc[k] = "spawned" /\ ~panicked /\ UNCHANGED <<conn, cleared>>
        BY <1>1 DEF StartReading, Step, Procs
    <2>1. cleared \/ conn # NoConn
        BY <2>0 DEF NilInv, Stored
    <2>2. panicked' => conn = NoConn
        BY <1>1, Zenon DEF StartReading
    <2>3. Carried'
        BY <1>1, <2>0 DEF StartReading, Step, Hold, NilInv, Carried, TypeOK
    <2> QED BY <2>0, <2>1, <2>2, <2>3, Zenon DEF NilInv, Stored, Blamed
<1>2. ASSUME NEW k \in Conns, StopWatching(k) \/ ConnectionLost(k) \/ LoseNetwork(k)
      PROVE  NilInv'
    <2>0. k \in Procs
        BY DEF Procs
    <2>1. ~panicked /\ UNCHANGED <<status, conn, panicked, aside>>
        BY <1>2 DEF StopWatching, ConnectionLost, Lost, Enter, LoseNetwork, Step
    <2>2. CASE LoseNetwork(k)
        BY <2>1, <2>2, QuietKeepsNil DEF LoseNetwork
    <2>3. CASE StopWatching(k)
        BY <2>0, <2>1, <2>3, QuietKeepsNil DEF StopWatching, Step, TypeOK
    <2>4. CASE ConnectionLost(k)
        <3>1. \E to \in {"gone", "close"} : pc' = [pc EXCEPT ![k] = to]
            BY <2>4 DEF ConnectionLost, Lost, Enter, Step
        <3>2. held' = [held EXCEPT ![k] = NoConn]
            BY <2>4 DEF ConnectionLost, Hold
        <3> QED BY <2>0, <2>1, <3>1, <3>2, QuietKeepsNil DEF TypeOK
    <2> QED BY <1>2, <2>2, <2>3, <2>4
<1>3. ASSUME NEW k \in Conns, AskFeatures(k) PROVE NilInv'
    <2>0. /\ k \in curious /\ ~panicked /\ curious' \subseteq curious
          /\ UNCHANGED <<status, conn, pc, held, shown, cleared>>
        BY <1>3 DEF AskFeatures
    <2>1. cleared \/ conn # NoConn
        BY <2>0 DEF NilInv, Stored
    <2>2. panicked' => conn = NoConn
        BY <1>3, Zenon DEF AskFeatures
    <2>3. Carried'
        BY <2>0 DEF NilInv, Carried
    <2> QED BY <2>0, <2>1, <2>2, <2>3, Zenon DEF NilInv, Stored, Blamed
<1>4. CASE RefreshMenu
    BY <1>4, QuietKeepsNil DEF RefreshMenu
<1>5. ASSUME NEW p \in Pingers \cup Callers, UserStep(p) PROVE NilInv'
    <2>0. p \in Procs
        BY DEF Procs
    <2>1. CASE CheckConnection(p) \/ ReadStatusFirst(p)
        <3>1. /\ ~panicked /\ UNCHANGED <<status, conn, held, panicked, aside>>
              /\ shown = Connected \/ status = Connected
              /\ \E to \in {"ping", "ok"} : pc' = [pc EXCEPT ![p] = to]
            BY <2>1 DEF CheckConnection, ReadStatusFirst, Enter, Step
        <3>2. Stored'
            BY <3>1 DEF NilInv, Stored
        <3>3. Carried'
            BY <2>0, <3>1 DEF NilInv, Carried, TypeOK
        <3> QED BY <3>1, <3>2, <3>3, Zenon DEF NilInv, Blamed
    <2>2. CASE SendPing(p)
        <3>0. pc[p] = "ping" /\ ~panicked /\ UNCHANGED <<conn, cleared, held>>
            BY <2>2 DEF SendPing, Step
        <3>1. cleared \/ conn # NoConn
            BY <2>0, <3>0 DEF NilInv, Stored
        <3>2. panicked' => conn = NoConn
            BY <2>2, Zenon DEF SendPing
        <3>3. Carried'
            BY <2>0, <2>2 DEF SendPing, Step, NilInv, Carried, TypeOK
        <3> QED BY <3>0, <3>1, <3>2, <3>3, Zenon DEF NilInv, Stored, Blamed
    <2>3. CASE PingEnds(p) \/ ReadConnFirst(p)
        <3>1. /\ ~panicked /\ UNCHANGED <<conn, panicked, aside>>
              /\ status' = Connected => status = Connected
              /\ \E to \in {"idle", "called"} : pc' = [pc EXCEPT ![p] = to]
              /\ held' = held \/ held' = [held EXCEPT ![p] = conn]
            BY <2>3 DEF PingEnds, ReadConnFirst, Enter, Step, Hold
        <3> QED BY <2>0, <3>1, QuietKeepsNil DEF TypeOK
    <2>4. CASE UseConnection(p)
        <3>1. /\ ~panicked /\ UNCHANGED <<status, conn, aside>>
              /\ pc[p] \in {"called", "ok"}
              /\ held' = [held EXCEPT ![p] = NoConn]
            BY <2>4, Zenon DEF UseConnection, Step, Hold
        <3>2. \/ panicked' /\ pc' = [pc EXCEPT ![p] = "dead"]
              \/ ~panicked' /\ pc' = [pc EXCEPT ![p] = "idle"]
            BY <2>4, Zenon DEF UseConnection, Step
        <3>3. Stored'
            BY <2>0, <3>1, <3>2 DEF NilInv, Stored, TypeOK
        <3>4. Carried'
            BY <2>0, <3>1, <3>2 DEF NilInv, Carried, TypeOK
        <3>6. panicked' => pc'[p] = "dead"
            BY <2>0, <3>2 DEF TypeOK
        <3> QED BY <2>0, <3>3, <3>4, <3>6, Zenon DEF NilInv, Blamed
    <2> QED BY <1>5, <2>1, <2>2, <2>3, <2>4 DEF UserStep
<1> QED BY <1>1, <1>2, <1>3, <1>4, <1>5 DEF WatchStep

LEMMA NilInvHolds == Spec => []NilInv
<1> USE SessionAssumption DEF Disconnected, Connecting, Connected
<1>1. Init => NilInv
    BY DEF Init, NilInv, Stored, Carried, Blamed
<1>2. TypeOK /\ NilInv /\ [Next]_vars => NilInv'
    <2> SUFFICES ASSUME TypeOK, NilInv, [Next]_vars PROVE NilInv'
        OBVIOUS
    <2>1. ASSUME NEW d \in Dialers, UserConnects(d) PROVE NilInv'
        <3>1. /\ ~panicked /\ pc' = [pc EXCEPT ![d] = "connect"]
              /\ UNCHANGED <<status, conn, held, panicked, aside>>
            BY <2>1 DEF UserConnects, Ask, Step
        <3> QED BY <3>1, QuietKeepsNil DEF TypeOK, aside
    <2>2. ASSUME NEW d \in Dialers, ConnectStep(d) PROVE NilInv'
        BY <2>2, ConnectKeepsNil
    <2>3. ASSUME NEW d \in Dialers, NEW p \in Conns \cup {Checker}, Reconnect(p, d)
          PROVE  NilInv'
        <3>1. /\ ~panicked /\ UNCHANGED <<status, conn, held, panicked, aside>>
              /\ \E to \in {"idle", "gone"} : pc' = [pc EXCEPT ![p] = to, ![d] = "connect"]
            BY <2>3 DEF Reconnect
        <3> QED BY <3>1, QuietKeepsNil DEF TypeOK, aside
    <2>4. CASE CheckReconnect
        <3>1. /\ ~panicked /\ pc' = [pc EXCEPT ![Checker] = "asking"]
              /\ UNCHANGED <<status, conn, held, panicked, aside>>
            BY <2>4 DEF CheckReconnect, Step
        <3> QED BY <3>1, QuietKeepsNil DEF TypeOK, aside
    <2>5. ASSUME NEW c \in Closers, UserDisconnects(c) PROVE NilInv'
        <3>1. /\ ~panicked /\ pc' = [pc EXCEPT ![c] = "close"]
              /\ UNCHANGED <<status, conn, held, panicked, aside>>
            BY <2>5 DEF UserDisconnects, Step
        <3> QED BY <3>1, QuietKeepsNil DEF TypeOK, aside
    <2>6. ASSUME NEW p \in Closers \cup Conns, CloseStep(p) PROVE NilInv'
        BY <2>6, CloseKeepsNil
    <2>7. ASSUME NEW k \in Conns, WatchStep(k) \/ LoseNetwork(k) \/ AskFeatures(k)
          PROVE  NilInv'
        BY <2>7, OthersKeepNil
    <2>8. ASSUME RefreshMenu \/ \E p \in Pingers \cup Callers : UserStep(p)
          PROVE  NilInv'
        BY <2>8, OthersKeepNil
    <2>9. CASE UNCHANGED vars
        BY <2>9 DEF vars, aside, NilInv, Stored, Carried, Blamed
    <2> QED BY <2>1, <2>2, <2>3, <2>4, <2>5, <2>6, <2>7, <2>8, <2>9 DEF Next
<1> QED BY <1>1, <1>2, TypeCorrect, PTL DEF Spec

\* In every interleaving a nil connection is used only after a Close has cleared
\* the field or by a user of connection() that read it before there was one; and
\* as long as the calls have not overlapped only after a Close, and only while
\* the session is not connected: what AskFeatures, and SendPing from a menu that
\* has not caught up, do.
THEOREM NilOnlyAfterCloseAlways == Spec => []NilOnlyAfterClose
<1>1. CalmInv /\ NilInv => NilOnlyAfterClose
    BY DEF CalmInv, Offline, Sound, NilInv, Blamed, NilOnlyAfterClose
<1> QED BY <1>1, CalmIsCoherent, NilInvHolds, PTL

-----------------------------------------------------------------------------
(* Which connections may be open, and what Close leaves behind.            *)

Tidy(p) ==
    /\ pc[p] \in {"setting", "dialing", "failed", "dialed", "assign"} => conn = NoConn
    /\ pc[p] \in {"offline", "hangup"} => held[p] = conn
    /\ pc[p] = "clear" => \A k \in Conns : k = conn => link[k] = "closed"

Left ==
    status = Disconnected /\ (\A p \in Procs : pc[p] \notin {"hangup", "clear"})
        => conn = NoConn

Known ==
    \A k \in Conns : link[k] = "open" =>
        k = conn \/ \E d \in Dialers : pc[d] \in {"dialed", "assign"} /\ held[d] = k

RestInv == calm => Left /\ Known /\ \A p \in Procs : Tidy(p)

\* A step of a call that is alone.
LEMMA AloneKeepsRest ==
    ASSUME TypeOK, NEW p \in Procs,
           \A q \in Procs \ {p} : ~Busy(q) /\ pc'[q] = pc[q],
           Tidy(p)' /\ Left' /\ Known'
    PROVE  RestInv'
<1>1. \A q \in Procs \ {p} : ~Busy(q)'
    BY Zenon DEF Busy
<1>2. \A q \in Procs \ {p} : Tidy(q)'
    BY <1>1 DEF Busy, Tidy, DialPC, ClosePC
<1> QED BY <1>2, Zenon DEF RestInv

LEMMA BusyStepKeepsRest ==
    ASSUME TypeOK, CalmInv, NEW p \in Procs, NEW from, NEW to, Step(p, from, to), Busy(p),
           calm' => calm,
           calm /\ (\A q \in Procs \ {p} : ~Busy(q) /\ pc'[q] = pc[q])
               => Tidy(p)' /\ Left' /\ Known'
    PROVE  RestInv'
<1> SUFFICES ASSUME calm' PROVE RestInv'
    BY Zenon DEF RestInv
<1>1. \A q \in Procs \ {p} : ~Busy(q)
    BY Zenon DEF CalmInv, OneAtATime
<1>2. \A q \in Procs \ {p} : pc'[q] = pc[q]
    BY DEF Step, TypeOK
<1> QED BY <1>1, <1>2, AloneKeepsRest

\* A call that begins alone.
LEMMA EnterKeepsRest ==
    ASSUME TypeOK, NEW p \in Procs, NEW from, NEW to, Enter(p, from, to),
           calm /\ (\A q \in Procs \ {p} : ~Busy(q) /\ pc'[q] = pc[q])
               => Tidy(p)' /\ Left' /\ Known'
    PROVE  RestInv'
<1> SUFFICES ASSUME calm' PROVE RestInv'
    BY Zenon DEF RestInv
<1>1. \A q \in Procs \ {p} : ~Busy(q)
    BY Zenon DEF Enter, Overlap
<1>2. \A q \in Procs \ {p} : pc'[q] = pc[q]
    BY DEF Enter, Step, TypeOK
<1>3. calm
    BY Zenon DEF Enter
<1> QED BY <1>1, <1>2, <1>3, AloneKeepsRest

\* A step outside of all calls.
LEMMA QuietKeepsRest ==
    ASSUME RestInv, calm' => calm, UNCHANGED <<status, conn, link>>,
           \A q \in Procs : Busy(q) \/ Busy(q)' => pc'[q] = pc[q] /\ held'[q] = held[q]
    PROVE  RestInv'
<1> SUFFICES ASSUME calm' PROVE RestInv'
    BY Zenon DEF RestInv
<1>1. Left'
    BY DEF RestInv, Left, Busy, ClosePC
<1>2. Known'
    BY DEF RestInv, Known, Busy, DialPC, Procs
<1>3. ASSUME NEW q \in Procs PROVE Tidy(q)'
    BY DEF RestInv, Busy, Tidy, DialPC, ClosePC
<1> QED BY <1>1, <1>2, <1>3, Zenon DEF RestInv

LEMMA ConnectKeepsRest ==
    ASSUME TypeOK, CalmInv, RestInv, NEW d \in Dialers, ConnectStep(d)
    PROVE  RestInv'
<1> USE SessionAssumption DEF Disconnected, Connecting, Connected
<1>0. d \in Procs
    BY DEF Procs
<1>1. CASE ConnectStart(d)
    <2>1. Enter(d, "connect", IF status = Disconnected THEN "setting" ELSE "idle")
        BY <1>1, Zenon DEF ConnectStart
    <2>2. ASSUME calm, \A q \in Procs \ {d} : ~Busy(q) /\ pc'[q] = pc[q]
          PROVE  Tidy(d)' /\ Left' /\ Known'
        <3>0. Sound(d) /\ Tidy(d) /\ Left /\ Known
            BY <1>0, <2>2, Zenon DEF CalmInv, RestInv
        <3>1. Tidy(d)'
            BY <1>0, <1>1, <2>2, <3>0 DEF ConnectStart, Enter, Hold, Step, TypeOK, Tidy, Sound, Left, Busy, ClosePC
        <3>2. Left'
            BY <1>0, <1>1, <2>2, <3>0 DEF ConnectStart, Enter, Hold, Step, TypeOK, Tidy, Sound, Left, Busy, ClosePC
        <3>3. Known'
            BY <1>0, <1>1, <2>2, <3>0 DEF ConnectStart, Enter, Hold, Step, TypeOK, Tidy, Sound, Known, Busy, DialPC, Procs
        <3> QED BY <3>1, <3>2, <3>3
    <2> QED BY <1>0, <2>1, <2>2, EnterKeepsRest
<1>2. CASE SetConnecting(d)
    <2>1. /\ Step(d, "setting", "dialing")
          /\ Busy(d) /\ calm' = calm
        BY <1>2 DEF SetConnecting, Step, Busy, DialPC, ClosePC
    <2>2. ASSUME calm, \A q \in Procs \ {d} : ~Busy(q) /\ pc'[q] = pc[q]
          PROVE  Tidy(d)' /\ Left' /\ Known'
        <3>0. Sound(d) /\ Tidy(d) /\ Left /\ Known
            BY <1>0, <2>2, Zenon DEF CalmInv, RestInv
        <3>1. Tidy(d)'
            BY <1>0, <1>2, <2>2, <3>0 DEF SetConnecting, Announce, Hold, Step, TypeOK, Tidy, Sound, Left, Busy, ClosePC
        <3>2. Left'
            BY <1>0, <1>2, <2>2, <3>0 DEF SetConnecting, Announce, Hold, Step, TypeOK, Tidy, Sound, Left, Busy, ClosePC
        <3>3. Known'
            BY <1>0, <1>2, <2>2, <3>0 DEF SetConnecting, Announce, Hold, Step, TypeOK, Tidy, Sound, Known, Busy, DialPC, Procs
        <3> QED BY <3>1, <3>2, <3>3
    <2> QED BY <1>0, <2>1, <2>2, BusyStepKeepsRest
<1>3. CASE DialFails(d)
    <2>1. /\ Step(d, "dialing", "failed")
          /\ Busy(d) /\ calm' = calm
        BY <1>3 DEF DialFails, Step, Busy, DialPC, ClosePC
    <2>2. ASSUME calm, \A q \in Procs \ {d} : ~Busy(q) /\ pc'[q] = pc[q]
          PROVE  Tidy(d)' /\ Left' /\ Known'
        <3>0. Sound(d) /\ Tidy(d) /\ Left /\ Known
            BY <1>0, <2>2, Zenon DEF CalmInv, RestInv
        <3>1. Tidy(d)'
            BY <1>0, <1>3, <2>2, <3>0 DEF DialFails, Hold, Step, TypeOK, Tidy, Sound, Left, Busy, ClosePC
        <3>2. Left'
            BY <1>0, <1>3, <2>2, <3>0 DEF DialFails, Hold, Step, TypeOK, Tidy, Sound, Left, Busy, ClosePC
        <3>3. Known'
            BY <1>0, <1>3, <2>2, <3>0 DEF DialFails, Hold, Step, TypeOK, Tidy, Sound, Known, Busy, DialPC, Procs
        <3> QED BY <3>1, <3>2, <3>3
    <2> QED BY <1>0, <2>1, <2>2, BusyStepKeepsRest
<1>4. CASE SetFailed(d)
    <2>1. /\ Step(d, "failed", "idle")
          /\ Busy(d) /\ calm' = calm
        BY <1>4 DEF SetFailed, Step, Busy, DialPC, ClosePC
    <2>2. ASSUME calm, \A q \in Procs \ {d} : ~Busy(q) /\ pc'[q] = pc[q]
          PROVE  Tidy(d)' /\ Left' /\ Known'
        <3>0. Sound(d) /\ Tidy(d) /\ Left /\ Known
            BY <1>0, <2>2, Zenon DEF CalmInv, RestInv
        <3>1. Tidy(d)'
            BY <1>0, <1>4, <2>2, <3>0 DEF SetFailed, GiveUp, Hold, Step, TypeOK, Tidy, Sound, Left, Busy, ClosePC
        <3>2. Left'
            BY <1>0, <1>4, <2>2, <3>0 DEF SetFailed, GiveUp, Hold, Step, TypeOK, Tidy, Sound, Left, Busy, ClosePC
        <3>3. Known'
            BY <1>0, <1>4, <2>2, <3>0 DEF SetFailed, GiveUp, Hold, Step, TypeOK, Tidy, Sound, Known, Busy, DialPC, Procs
        <3> QED BY <3>1, <3>2, <3>3
    <2> QED BY <1>0, <2>1, <2>2, BusyStepKeepsRest
<1>5. CASE CheckConnecting(d)
    <2>1. /\ Step(d, "dialed", IF status = Connecting THEN "assign" ELSE "reject")
          /\ Busy(d) /\ calm' = calm
        BY <1>5 DEF CheckConnecting, Step, Busy, DialPC, ClosePC
    <2>2. ASSUME calm, \A q \in Procs \ {d} : ~Busy(q) /\ pc'[q] = pc[q]
          PROVE  Tidy(d)' /\ Left' /\ Known'
        <3>0. Sound(d) /\ Tidy(d) /\ Left /\ Known
            BY <1>0, <2>2, Zenon DEF CalmInv, RestInv
        <3>1. Tidy(d)'
            BY <1>0, <1>5, <2>2, <3>0 DEF CheckConnecting, Hold, Step, TypeOK, Tidy, Sound, Left, Busy, ClosePC
        <3>2. Left'
            BY <1>0, <1>5, <2>2, <3>0 DEF CheckConnecting, Hold, Step, TypeOK, Tidy, Sound, Left, Busy, ClosePC
        <3>3. Known'
            BY <1>0, <1>5, <2>2, <3>0 DEF CheckConnecting, Hold, Step, TypeOK, Tidy, Sound, Known, Busy, DialPC, Procs
        <3> QED BY <3>1, <3>2, <3>3
    <2> QED BY <1>0, <2>1, <2>2, BusyStepKeepsRest
<1>6. CASE AssignConn(d)
    <2>1. /\ Step(d, "assign", "online")
          /\ Busy(d) /\ calm' = calm
        BY <1>6 DEF AssignConn, Step, Busy, DialPC, ClosePC
    <2>2. ASSUME calm, \A q \in Procs \ {d} : ~Busy(q) /\ pc'[q] = pc[q]
          PROVE  Tidy(d)' /\ Left' /\ Known'
        <3>0. Sound(d) /\ Tidy(d) /\ Left /\ Known
            BY <1>0, <2>2, Zenon DEF CalmInv, RestInv
        <3>1. Tidy(d)'
            BY <1>0, <1>6, <2>2, <3>0 DEF AssignConn, Store, Hold, Step, TypeOK, Tidy, Sound, Left, Busy, ClosePC
        <3>2. Left'
            BY <1>0, <1>6, <2>2, <3>0 DEF AssignConn, Store, Hold, Step, TypeOK, Tidy, Sound, Left, Busy, ClosePC
        <3>3. Known'
            BY <1>0, <1>6, <2>2, <3>0 DEF AssignConn, Store, Hold, Step, TypeOK, Tidy, Sound, Known, Busy, DialPC, Procs
        <3> QED BY <3>1, <3>2, <3>3
    <2> QED BY <1>0, <2>1, <2>2, BusyStepKeepsRest
<1>7. CASE SetConnected(d)
    <2>1. /\ Step(d, "online", "resource")
          /\ Busy(d) /\ calm' = calm
        BY <1>7 DEF SetConnected, Step, Busy, DialPC, ClosePC
    <2>2. ASSUME calm, \A q \in Procs \ {d} : ~Busy(q) /\ pc'[q] = pc[q]
          PROVE  Tidy(d)' /\ Left' /\ Known'
        <3>0. Sound(d) /\ Tidy(d) /\ Left /\ Known
            BY <1>0, <2>2, Zenon DEF CalmInv, RestInv
        <3>1. Tidy(d)'
            BY <1>0, <1>7, <2>2, <3>0 DEF SetConnected, Hold, Step, TypeOK, Tidy, Sound, Left, Busy, ClosePC
        <3>2. Left'
            BY <1>0, <1>7, <2>2, <3>0 DEF SetConnected, Hold, Step, TypeOK, Tidy, Sound, Left, Busy, ClosePC
        <3>3. Known'
            BY <1>0, <1>7, <2>2, <3>0 DEF SetConnected, Hold, Step, TypeOK, Tidy, Sound, Known, Busy, DialPC, Procs
        <3> QED BY <3>1, <3>2, <3>3
    <2> QED BY <1>0, <2>1, <2>2, BusyStepKeepsRest
<1>8. ASSUME NEW k \in Conns, DialSucceeds(d, k) PROVE RestInv'
    <2>1. Step(d, "dialing", "dialed") /\ Busy(d) /\ calm' = calm
        BY <1>8 DEF DialSucceeds, Step, Busy, DialPC
    <2>2. ASSUME calm, \A q \in Procs \ {d} : ~Busy(q) /\ pc'[q] = pc[q]
          PROVE  Tidy(d)' /\ Left' /\ Known'
        <3>0. Sound(d) /\ Tidy(d) /\ Left /\ Known
            BY <1>0, <2>2, Zenon DEF CalmInv, RestInv
        <3>1. pc'[d] = "dialed" /\ held'[d] = k /\ UNCHANGED <<status, conn>>
            BY <1>0, <1>8 DEF DialSucceeds, Step, Hold, TypeOK
        <3>2. Tidy(d)' /\ Left'
            BY <1>8, <2>2, <3>0, <3>1 DEF DialSucceeds, Step, Tidy, Sound, Left
        <3>3. ASSUME NEW j \in Conns, link'[j] = "open", j # conn PROVE j = k
            BY <1>8, <2>2, <3>0, <3>3 DEF DialSucceeds, Step, TypeOK, Known, Busy, DialPC, Procs
        <3>4. Known'
            BY <3>1, <3>3 DEF Known
        <3> QED BY <3>2, <3>4
    <2> QED BY <1>0, <2>1, <2>2, BusyStepKeepsRest
<1>9. CASE StartWatching(d)
    <2> SUFFICES ASSUME calm' PROVE RestInv'
        BY Zenon DEF RestInv
    <2>0. calm /\ Sound(d) /\ Left /\ Known /\ pc[d] = "resource"
        BY <1>0, <1>9, Zenon DEF CalmInv, RestInv, StartWatching
    <2>1. conn # NoConn /\ held[d] \in Conns
        BY <2>0 DEF Sound
    <2> PICK k \in Conns : k = held[d]
        BY <2>1
    <2>2. /\ pc' = [pc EXCEPT ![d] = "idle", ![k] = "spawned"]
          /\ UNCHANGED <<status, conn, link>>
        BY <1>9, <2>1 DEF StartWatching
    <2>3. \A q \in Procs \ {d} : ~Busy(q)
        BY <1>0, <2>0, Zenon DEF CalmInv, OneAtATime, Busy, DialPC
    <2>4. /\ d # k /\ k \in Procs /\ pc'[d] = "idle" /\ pc'[k] = "spawned"
          /\ \A q \in Procs \ {d, k} : pc'[q] = pc[q]
        BY <1>0, <2>2 DEF TypeOK, Procs
    <2>5. \A q \in Procs : Tidy(q)'
        BY <2>3, <2>4 DEF Busy, Tidy, DialPC, ClosePC
    <2>6. Left'
        BY <1>0, <2>0, <2>2, <2>3, <2>4 DEF Left, Busy, ClosePC
    <2>7. Known'
        BY <1>0, <2>0, <2>2, <2>3 DEF Known, Busy, DialPC, Procs
    <2> QED BY <2>5, <2>6, <2>7, Zenon DEF RestInv
<1>10. CASE RejectCheck(d) \/ RejectClose(d) \/ RejectHangup(d)
    <2>1. pc[d] \in {"reject", "rejectClose", "rejectHangup"} /\ calm' = calm
        BY <1>10 DEF RejectCheck, RejectClose, RejectHangup, Step
    <2> QED BY <1>0, <2>1 DEF CalmInv, RestInv, Sound
<1> QED BY <1>1, <1>2, <1>3, <1>4, <1>5, <1>6, <1>7, <1>8, <1>9, <1>10
       DEF ConnectStep

LEMMA CloseKeepsRest ==
    ASSUME TypeOK, CalmInv, RestInv, NEW p \in Closers \cup Conns, CloseStep(p)
    PROVE  RestInv'
<1> USE SessionAssumption DEF Disconnected, Connecting, Connected, Returned
<1>0. p \in Procs
    BY DEF Procs
<1>1. CASE CloseCheck(p)
    <2>1. Enter(p, "close", IF status = Disconnected THEN Returned(p) ELSE "capture")
        BY <1>1, Zenon DEF CloseCheck
    <2>2. ASSUME calm, \A q \in Procs \ {p} : ~Busy(q) /\ pc'[q] = pc[q]
          PROVE  Tidy(p)' /\ Left' /\ Known'
        <3>0. Sound(p) /\ Tidy(p) /\ Left /\ Known
            BY <1>0, <2>2, Zenon DEF CalmInv, RestInv
        <3>1. Tidy(p)'
            BY <1>0, <1>1, <2>2, <3>0 DEF CloseCheck, Enter, Hold, Step, TypeOK, Tidy, Sound, Left, Busy, ClosePC
        <3>2. Left'
            BY <1>0, <1>1, <2>2, <3>0 DEF CloseCheck, Enter, Hold, Step, TypeOK, Tidy, Sound, Left, Busy, ClosePC
        <3>3. Known'
            BY <1>0, <1>1, <2>2, <3>0 DEF CloseCheck, Enter, Hold, Step, TypeOK, Tidy, Sound, Known, Busy, DialPC, Procs
        <3> QED BY <3>1, <3>2, <3>3
    <2> QED BY <1>0, <2>1, <2>2, EnterKeepsRest
<1>2. CASE CloseCapture(p)
    <2>1. /\ Step(p, "capture", "offline")
          /\ Busy(p) /\ calm' = calm
        BY <1>2 DEF CloseCapture, Step, Busy, DialPC, ClosePC
    <2>2. ASSUME calm, \A q \in Procs \ {p} : ~Busy(q) /\ pc'[q] = pc[q]
          PROVE  Tidy(p)' /\ Left' /\ Known'
        <3>0. Sound(p) /\ Tidy(p) /\ Left /\ Known
            BY <1>0, <2>2, Zenon DEF CalmInv, RestInv
        <3>1. Tidy(p)'
            BY <1>0, <1>2, <2>2, <3>0 DEF CloseCapture, Hold, Step, TypeOK, Tidy, Sound, Left, Busy, ClosePC
        <3>2. Left'
            BY <1>0, <1>2, <2>2, <3>0 DEF CloseCapture, Hold, Step, TypeOK, Tidy, Sound, Left, Busy, ClosePC
        <3>3. Known'
            BY <1>0, <1>2, <2>2, <3>0 DEF CloseCapture, Hold, Step, TypeOK, Tidy, Sound, Known, Busy, DialPC, Procs
        <3> QED BY <3>1, <3>2, <3>3
    <2> QED BY <1>0, <2>1, <2>2, BusyStepKeepsRest
<1>3. CASE SetDisconnected(p)
    <2>1. /\ Step(p, "offline", IF held[p] = NoConn THEN Returned(p) ELSE "hangup")
          /\ Busy(p) /\ calm' = calm
        BY <1>3 DEF SetDisconnected, Step, Busy, DialPC, ClosePC
    <2>2. ASSUME calm, \A q \in Procs \ {p} : ~Busy(q) /\ pc'[q] = pc[q]
          PROVE  Tidy(p)' /\ Left' /\ Known'
        <3>0. Sound(p) /\ Tidy(p) /\ Left /\ Known
            BY <1>0, <2>2, Zenon DEF CalmInv, RestInv
        <3>1. Tidy(p)'
            BY <1>0, <1>3, <2>2, <3>0 DEF SetDisconnected, Hold, Step, TypeOK, Tidy, Sound, Left, Busy, ClosePC
        <3>2. Left'
            BY <1>0, <1>3, <2>2, <3>0 DEF SetDisconnected, Hold, Step, TypeOK, Tidy, Sound, Left, Busy, ClosePC
        <3>3. Known'
            BY <1>0, <1>3, <2>2, <3>0 DEF SetDisconnected, Hold, Step, TypeOK, Tidy, Sound, Known, Busy, DialPC, Procs
        <3> QED BY <3>1, <3>2, <3>3
    <2> QED BY <1>0, <2>1, <2>2, BusyStepKeepsRest
<1>4. CASE HangUp(p)
    <2>1. /\ Step(p, "hangup", "clear")
          /\ Busy(p) /\ calm' = calm
        BY <1>4 DEF HangUp, Step, Busy, DialPC, ClosePC
    <2>2. ASSUME calm, \A q \in Procs \ {p} : ~Busy(q) /\ pc'[q] = pc[q]
          PROVE  Tidy(p)' /\ Left' /\ Known'
        <3>0. Sound(p) /\ Tidy(p) /\ Left /\ Known
            BY <1>0, <2>2, Zenon DEF CalmInv, RestInv
        <3>1. Tidy(p)'
            BY <1>0, <1>4, <2>2, <3>0 DEF HangUp, CloseLink, Hold, Step, TypeOK, Tidy, Sound, Left, Busy, ClosePC
        <3>2. Left'
            BY <1>0, <1>4, <2>2, <3>0 DEF HangUp, CloseLink, Hold, Step, TypeOK, Tidy, Sound, Left, Busy, ClosePC
        <3>3. Known'
            BY <1>0, <1>4, <2>2, <3>0 DEF HangUp, CloseLink, Hold, Step, TypeOK, Tidy, Sound, Known, Busy, DialPC, Procs
        <3> QED BY <3>1, <3>2, <3>3
    <2> QED BY <1>0, <2>1, <2>2, BusyStepKeepsRest
<1>5. CASE ClearConn(p)
    <2>1. /\ Step(p, "clear", Returned(p))
          /\ Busy(p) /\ calm' = calm
        BY <1>5 DEF ClearConn, Step, Busy, DialPC, ClosePC
    <2>2. ASSUME calm, \A q \in Procs \ {p} : ~Busy(q) /\ pc'[q] = pc[q]
          PROVE  Tidy(p)' /\ Left' /\ Known'
        <3>0. Sound(p) /\ Tidy(p) /\ Left /\ Known
            BY <1>0, <2>2, Zenon DEF CalmInv, RestInv
        <3>1. Tidy(p)'
            BY <1>0, <1>5, <2>2, <3>0 DEF ClearConn, Hold, Step, TypeOK, Tidy, Sound, Left, Busy, ClosePC
        <3>2. Left'
            BY <1>0, <1>5, <2>2, <3>0 DEF ClearConn, Hold, Step, TypeOK, Tidy, Sound, Left, Busy, ClosePC
        <3>3. Known'
            BY <1>0, <1>5, <2>2, <3>0 DEF ClearConn, Hold, Step, TypeOK, Tidy, Sound, Known, Busy, DialPC, Procs
        <3> QED BY <3>1, <3>2, <3>3
    <2> QED BY <1>0, <2>1, <2>2, BusyStepKeepsRest
<1> QED BY <1>1, <1>2, <1>3, <1>4, <1>5 DEF CloseStep

LEMMA WatchKeepsRest ==
    ASSUME TypeOK, CalmInv, RestInv, NEW k \in Conns, WatchStep(k) \/ LoseNetwork(k)
    PROVE  RestInv'
<1> USE SessionAssumption DEF Disconnected, Connecting, Connected
<1>0. k \in Procs
    BY DEF Procs
<1>1. CASE StartReading(k)
    <2>1. /\ Step(k, "spawned", "watching")
          /\ Busy(k) /\ calm' = calm
        BY <1>1 DEF StartReading, Step, Busy, DialPC, ClosePC
    <2>2. ASSUME calm, \A q \in Procs \ {k} : ~Busy(q) /\ pc'[q] = pc[q]
          PROVE  Tidy(k)' /\ Left' /\ Known'
        <3>0. Sound(k) /\ Tidy(k) /\ Left /\ Known
            BY <1>0, <2>2, Zenon DEF CalmInv, RestInv
        <3>1. Tidy(k)'
            BY <1>0, <1>1, <2>2, <3>0 DEF StartReading, Hold, Step, TypeOK, Tidy, Sound, Left, Busy, ClosePC
        <3>2. Left'
            BY <1>0, <1>1, <2>2, <3>0 DEF StartReading, Hold, Step, TypeOK, Tidy, Sound, Left, Busy, ClosePC
        <3>3. Known'
            BY <1>0, <1>1, <2>2, <3>0 DEF StartReading, Hold, Step, TypeOK, Tidy, Sound, Known, Busy, DialPC, Procs
        <3> QED BY <3>1, <3>2, <3>3
    <2> QED BY <1>0, <2>1, <2>2, BusyStepKeepsRest
<1>2. CASE StopWatching(k)
    <2>1. \A q \in Procs : Busy(q) \/ Busy(q)' => pc'[q] = pc[q] /\ held'[q] = held[q]
        BY <1>0, <1>2 DEF StopWatching, Step, TypeOK, Busy, DialPC, ClosePC
    <2> QED BY <1>2, <2>1, QuietKeepsRest DEF StopWatching
<1>3. CASE ConnectionLost(k)
    <2>1. Enter(k, "ended", IF status = Disconnected THEN "gone" ELSE "close")
        BY <1>3, Zenon DEF ConnectionLost, Lost
    <2>2. ASSUME calm, \A q \in Procs \ {k} : ~Busy(q) /\ pc'[q] = pc[q]
          PROVE  Tidy(k)' /\ Left' /\ Known'
        <3>0. Sound(k) /\ Tidy(k) /\ Left /\ Known
            BY <1>0, <2>2, Zenon DEF CalmInv, RestInv
        <3>1. Tidy(k)'
            BY <1>0, <1>3, <2>2, <3>0 DEF ConnectionLost, Lost, Enter, Hold, Step, TypeOK, Tidy, Sound, Left, Busy, ClosePC
        <3>2. Left'
            BY <1>0, <1>3, <2>2, <3>0 DEF ConnectionLost, Lost, Enter, Hold, Step, TypeOK, Tidy, Sound, Left, Busy, ClosePC
        <3>3. Known'
            BY <1>0, <1>3, <2>2, <3>0 DEF ConnectionLost, Lost, Enter, Hold, Step, TypeOK, Tidy, Sound, Known, Busy, DialPC, Procs
        <3> QED BY <3>1, <3>2, <3>3
    <2> QED BY <1>0, <2>1, <2>2, EnterKeepsRest
<1>4. CASE LoseNetwork(k)
    <2>1. UNCHANGED <<status, conn, calm, pc, held>>
        BY <1>4 DEF LoseNetwork
    <2>2. \A j \in Conns : (link'[j] = "open" => link[j] = "open")
                               /\ (link[j] = "closed" => link'[j] = "closed")
        BY <1>4 DEF LoseNetwork, TypeOK
    <2>3. Left => Left'
        BY <2>1 DEF Left
    <2>4. Known => Known'
        BY <2>1, <2>2 DEF Known
    <2>5. \A q \in Procs : Tidy(q) => Tidy(q)'
        BY <2>1, <2>2 DEF Tidy
    <2> QED BY <2>1, <2>3, <2>4, <2>5, Zenon DEF RestInv
<1> QED BY <1>1, <1>2, <1>3, <1>4 DEF WatchStep

LEMMA UserKeepsRest ==
    ASSUME TypeOK, CalmInv, RestInv, NEW p \in Pingers \cup Callers, UserStep(p)
    PROVE  RestInv'
<1> USE SessionAssumption DEF Disconnected, Connecting, Connected
<1> SUFFICES ASSUME calm' PROVE RestInv'
    BY Zenon DEF RestInv
<1> DEFINE Resting == {"idle", "ping", "pinging", "called", "ok", "dead"}
<1>0. p \in Procs /\ p \notin Dialers
    BY DEF Procs
<1>a. ASSUME NEW from \in Resting, NEW to \in Resting, Step(p, from, to),
             calm, UNCHANGED <<status, conn, link>>,
             held' = held \/ \E k \in Conns \cup {NoConn} : Hold(p, k)
      PROVE  RestInv'
    <2>1. /\ pc[p] \in Resting /\ pc'[p] \in Resting
          /\ \A q \in Procs \ {p} : pc'[q] = pc[q]
        BY <1>0, <1>a DEF Step, TypeOK
    <2>2. \A q \in Procs \ {p} : held'[q] = held[q]
        BY <1>0, <1>a DEF Hold, TypeOK
    <2>3. Left'
        BY <1>0, <1>a, <2>1, <2>2 DEF RestInv, Left
    <2>4. Known'
        BY <1>0, <1>a, <2>1, <2>2 DEF RestInv, Known, Procs
    <2>5. \A q \in Procs : Tidy(q)'
        BY <1>0, <1>a, <2>1, <2>2 DEF RestInv, Tidy
    <2> QED BY <2>3, <2>4, <2>5, Zenon DEF RestInv
<1>1. CASE CheckConnection(p)
    <2>1. Step(p, "idle", "ping") /\ calm
        BY <1>1, Zenon DEF CheckConnection, Enter
    <2>2. UNCHANGED <<status, conn, link, held>>
        BY <1>1, Zenon DEF CheckConnection
    <2> QED BY <2>1, <2>2, <1>a
<1>2. CASE SendPing(p)
    <2>1. Step(p, "ping", "pinging") /\ calm /\ UNCHANGED <<status, conn, link, held>>
        BY <1>2 DEF SendPing
    <2> QED BY <2>1, <1>a
<1>3. CASE PingEnds(p)
    <2>1. Step(p, "pinging", "idle") /\ calm /\ UNCHANGED <<status, conn, link, held>>
        BY <1>3 DEF PingEnds
    <2> QED BY <2>1, <1>a
<1>4. CASE ReadConnFirst(p)
    <2>1. Step(p, "idle", "called") /\ calm
        BY <1>4, Zenon DEF ReadConnFirst, Enter
    <2>2. UNCHANGED <<status, conn, link>> /\ Hold(p, conn)
        BY <1>4 DEF ReadConnFirst
    <2>3. conn \in Conns \cup {NoConn}
        BY DEF TypeOK
    <2> QED BY <2>1, <2>2, <2>3, <1>a
<1>5. CASE ReadStatusFirst(p)
    <2>1. Step(p, "idle", "ok") /\ calm
        BY <1>5, Zenon DEF ReadStatusFirst, Enter
    <2>2. UNCHANGED <<status, conn, link, held>>
        BY <1>5, Zenon DEF ReadStatusFirst
    <2> QED BY <2>1, <2>2, <1>a
<1>6. CASE UseConnection(p)
    <2>1. Hold(p, NoConn) /\ calm /\ UNCHANGED <<status, conn, link>>
        BY <1>6 DEF UseConnection
    <2>2. /\ pc[p] \in {"called", "ok"}
          /\ Step(p, pc[p], "dead") \/ Step(p, pc[p], "idle")
        BY <1>6, Zenon DEF UseConnection
    <2> PICK to \in {"dead", "idle"} : Step(p, pc[p], to)
        BY <2>2
    <2> QED BY <2>1, <2>2, <1>a
<1> QED BY <1>1, <1>2, <1>3, <1>4, <1>5, <1>6 DEF UserStep

\* As long as the calls have not overlapped, the open connections are s.conn
\* and the one a Connect has just been given, and only a Close that is not done
\* leaves a disconnected session with a connection.
THEOREM CalmIsTidy == Spec => []RestInv
<1>1. Init => RestInv
    BY DEF Init, RestInv, Left, Known, Tidy, Disconnected
<1>2. TypeOK /\ CalmInv /\ RestInv /\ [Next]_vars => RestInv'
    <2> SUFFICES ASSUME TypeOK, CalmInv, RestInv, [Next]_vars PROVE RestInv'
        OBVIOUS
    <2>1. ASSUME NEW d \in Dialers, UserConnects(d) PROVE RestInv'
        <3>1. \A q \in Procs : Busy(q) \/ Busy(q)' => pc'[q] = pc[q] /\ held'[q] = held[q]
            BY <2>1, SessionAssumption DEF UserConnects, Ask, Step, TypeOK, Busy, DialPC, ClosePC
        <3> QED BY <2>1, <3>1, QuietKeepsRest DEF UserConnects
    <2>2. ASSUME NEW d \in Dialers, ConnectStep(d) PROVE RestInv'
        BY <2>2, ConnectKeepsRest
    <2>3. ASSUME NEW d \in Dialers, NEW p \in Conns \cup {Checker}, Reconnect(p, d)
          PROVE  RestInv'
        <3>1. \A q \in Procs : Busy(q) \/ Busy(q)' => pc'[q] = pc[q] /\ held'[q] = held[q]
            BY <2>3, SessionAssumption DEF Reconnect, TypeOK, Procs, Busy, DialPC, ClosePC
        <3> QED BY <2>3, <3>1, QuietKeepsRest DEF Reconnect
    <2>4. CASE CheckReconnect
        <3>1. \A q \in Procs : Busy(q) \/ Busy(q)' => pc'[q] = pc[q] /\ held'[q] = held[q]
            BY <2>4, SessionAssumption DEF CheckReconnect, Step, TypeOK, Busy, DialPC, ClosePC
        <3> QED BY <2>4, <3>1, QuietKeepsRest DEF CheckReconnect
    <2>5. ASSUME NEW c \in Closers, UserDisconnects(c) PROVE RestInv'
        <3>1. \A q \in Procs : Busy(q) \/ Busy(q)' => pc'[q] = pc[q] /\ held'[q] = held[q]
            BY <2>5, SessionAssumption DEF UserDisconnects, Step, TypeOK, Busy, DialPC, ClosePC
        <3> QED BY <2>5, <3>1, QuietKeepsRest DEF UserDisconnects
    <2>6. ASSUME NEW p \in Closers \cup Conns, CloseStep(p) PROVE RestInv'
        BY <2>6, CloseKeepsRest
    <2>7. ASSUME NEW k \in Conns, WatchStep(k) \/ LoseNetwork(k) PROVE RestInv'
        BY <2>7, WatchKeepsRest
    <2>10. ASSUME NEW k \in Conns, AskFeatures(k) PROVE RestInv'
        BY <2>10, QuietKeepsRest DEF AskFeatures
    <2>11. CASE RefreshMenu
        BY <2>11, QuietKeepsRest DEF RefreshMenu
    <2>8. ASSUME NEW p \in Pingers \cup Callers, UserStep(p) PROVE RestInv'
        BY <2>8, UserKeepsRest
    <2>9. CASE UNCHANGED vars
        BY <2>9, QuietKeepsRest DEF vars
    <2> QED BY <2>1, <2>2, <2>3, <2>4, <2>5, <2>6, <2>7, <2>8, <2>9, <2>10, <2>11 DEF Next
<1> QED BY <1>1, <1>2, TypeCorrect, CalmIsCoherent, PTL DEF Spec

\* When a session whose calls have not overlapped is disconnected and every
\* goroutine is at rest, Close has left no connection open.
THEOREM ClosedMeansClosedAlways == Spec => []ClosedMeansClosed
<1>1. RestInv => ClosedMeansClosed
    <2> SUFFICES ASSUME RestInv, calm, status = Disconnected, AtRest,
                        NEW k \in Conns, link[k] = "open"
                 PROVE  FALSE
        BY Zenon DEF ClosedMeansClosed
    <2>1. conn = NoConn
        BY DEF RestInv, Left, AtRest
    <2>2. k # NoConn
        BY SessionAssumption DEF Procs
    <2> QED BY <2>1, <2>2 DEF RestInv, Known, AtRest, Procs
<1> QED BY <1>1, CalmIsTidy, PTL
=============================================================================
