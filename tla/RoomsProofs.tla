---------------------------- MODULE RoomsProofs ----------------------------
(* Proofs about Rooms, for any occupants, ranks, rooms, visits and bounds. *)
EXTENDS Rooms, SequenceTheorems, TLAPS

\* The rooms that are in use are rooms.
LEMMA RoomsInUse ==
  ASSUME TypeOK
  PROVE  /\ manager # NoRoom => manager \in Rooms
         /\ handler # "idle" => found \in Rooms
  BY RoomsAssumption DEF TypeOK, Rooms, NoRoom

\* What the server sends is a presence, and fits.
LEMMA SendType ==
  ASSUME TypeOK, NEW w \in Departures \union {"here", "ignored"}, NEW n \in Nicks,
         NEW k \in Ranks \union {"none"}, Send(w, n, k)
  PROVE  wire' \in Seq(Presence) /\ Len(wire') <= MaxWire
<1>1. [what |-> w, nick |-> n, rank |-> k, visit |-> stay] \in Presence
  BY DEF TypeOK, Presence
<1>2. wire \in Seq(Presence) /\ Len(wire) <= MaxWire /\ MaxWire \in Nat
  BY RoomsAssumption DEF TypeOK
<1> DEFINE p == [what |-> w, nick |-> n, rank |-> k, visit |-> stay]
<1>3. wire' = wire \/ (Len(wire) < MaxWire /\ wire' = Append(wire, p))
  BY Zenon DEF Send
<1> HIDE DEF p
<1>4. p \in Presence
  BY <1>1 DEF p
<1> QED
  BY <1>2, <1>3, <1>4

\* Changing one nickname of one roster keeps the rosters' type.
LEMMA RosterType ==
  ASSUME TypeOK, NEW r \in Rooms, NEW n \in Nicks, NEW k \in Ranks \union {"absent", "none"}
  PROVE  [roster EXCEPT ![r][n] = k] \in [Rooms -> [Nicks -> Ranks \union {"absent", "none"}]]
  BY DEF TypeOK

\* The presence that is handled is one.
LEMMA PresenceType ==
  ASSUME TypeOK
  PROVE  presence.nick \in Nicks /\ presence.rank \in Ranks \union {"none"}
  BY DEF TypeOK, Presence

\* Updating or removing an occupant keeps the types of the room.
LEMMA UpdateType ==
  ASSUME TypeOK, NEW r \in Rooms, UpdateOrAddOccupant(r)
  PROVE  /\ roster' \in [Rooms -> [Nicks -> Ranks \union {"absent", "none"}]]
         /\ selfOccupant' \in [Rooms -> Ranks \union {"unset", "none"}]
         /\ mixed' \subseteq Rooms
<1>1. roster' = [roster EXCEPT ![r][presence.nick] = presence.rank]
  BY Zenon DEF UpdateOrAddOccupant
<1>2. roster' \in [Rooms -> [Nicks -> Ranks \union {"absent", "none"}]]
  BY <1>1, RosterType, PresenceType
<1> QED
  BY <1>2, PresenceType DEF UpdateOrAddOccupant, MixedBy, TypeOK

\* Removing an occupant keeps the types of the room.
LEMMA RemoveType ==
  ASSUME TypeOK, NEW r \in Rooms, RemoveOccupant(r)
  PROVE  /\ roster' \in [Rooms -> [Nicks -> Ranks \union {"absent", "none"}]]
         /\ selfOccupant' \in [Rooms -> Ranks \union {"unset", "none"}]
         /\ listed' \subseteq Rooms
         /\ mixed' \subseteq Rooms
<1>1. roster' = [roster EXCEPT ![r][presence.nick] = "absent"]
  BY Zenon DEF RemoveOccupant
<1>2. roster' \in [Rooms -> [Nicks -> Ranks \union {"absent", "none"}]]
  BY <1>1, RosterType, PresenceType
<1> QED
  BY <1>2, PresenceType DEF RemoveOccupant, MixedBy, TypeOK

\* A step keeps every type.
LEMMA TypeStep ==
  ASSUME TypeOK, [Next]_vars
  PROVE  TypeOK'
<1> USE RoomsAssumption
    DEF TypeOK, room, interface, handling, network, server, history
<1>1. ASSUME NEW o \in Openers, LookUp(o) PROVE TypeOK'
  BY <1>1 DEF LookUp, JoinRoomWithData
<1>2. ASSUME NEW o \in Openers, NewRoom(o) PROVE TypeOK'
  BY <1>2 DEF NewRoom, AddRoom, JoinRoomWithData, Rooms, NoRoom
<1>3. ASSUME CloseView PROVE TypeOK'
  BY <1>3 DEF CloseView, NoRoom
<1>4. ASSUME JoinRoom PROVE TypeOK'
  BY <1>4 DEF JoinRoom, Request, Visits
<1>5. ASSUME LeaveRoom PROVE TypeOK'
  BY <1>5 DEF LeaveRoom, Request
<1>6. ASSUME LeaveDone PROVE TypeOK'
  BY <1>6 DEF LeaveDone, NoRoom
<1>7. ASSUME DestroyRoom PROVE TypeOK'
  BY <1>7 DEF DestroyRoom, Request
<1>8. ASSUME DestroyDone PROVE TypeOK'
  BY <1>8 DEF DestroyDone, NoRoom
<1>9. ASSUME HandlePresence PROVE TypeOK'
  <2>1. /\ presence' \in Presence
        /\ wire' \in Seq(Presence)
        /\ Len(wire') <= MaxWire
    BY <1>9 DEF HandlePresence
  <2> QED
    BY <1>9, <2>1 DEF HandlePresence, Knows
<1>10. ASSUME HandleOccupantUpdate PROVE TypeOK'
  <2>1. UpdateOrAddOccupant(found) /\ found \in Rooms
    BY <1>10, RoomsInUse DEF HandleOccupantUpdate
  <2> QED
    BY <1>10, <2>1, UpdateType DEF HandleOccupantUpdate
<1>11. ASSUME SelfOccupantUpdate PROVE TypeOK'
  <2>1. CASE manager = NoRoom
    BY <1>11, <2>1 DEF SelfOccupantUpdate
  <2>2. CASE manager # NoRoom
    <3>1. UpdateOrAddOccupant(manager) /\ manager \in Rooms
      BY <1>11, <2>2, RoomsInUse DEF SelfOccupantUpdate
    <3> QED
      BY <1>11, <3>1, UpdateType DEF SelfOccupantUpdate
  <2> QED
    BY <2>1, <2>2
<1>12. ASSUME AddSelfOccupant PROVE TypeOK'
  <2>1. found \in Rooms /\ (manager # NoRoom => manager \in Rooms) /\ Me \in Nicks
    BY <1>12, RoomsInUse DEF AddSelfOccupant, Nicks
  <2>2. selfOccupant' \in [Rooms -> Ranks \union {"unset", "none"}] /\ listed' \subseteq Rooms
    <3>1. roster[found][Me] \in Ranks \union {"absent", "none"}
      BY <2>1
    <3>2. \/ selfOccupant' = [selfOccupant EXCEPT ![found] = "unset"] /\ listed' = listed \ {found}
          \/ /\ roster[found][Me] # "absent"
             /\ selfOccupant' = [selfOccupant EXCEPT ![found] = roster[found][Me]]
             /\ listed' = listed \union {found}
      BY <1>12, Zenon DEF AddSelfOccupant
    <3>3. listed' \subseteq Rooms
      BY <2>1, <3>2
    <3> QED
      BY <2>1, <3>1, <3>2, <3>3
  <2>3. joined' \in [Rooms -> 0 .. 2]
    <3>1. \/ joined' = joined
          \/ manager # NoRoom /\ joined[manager] < 2 /\ joined' = [joined EXCEPT ![manager] = @ + 1]
      BY <1>12, Zenon DEF AddSelfOccupant
    <3> QED
      BY <2>1, <3>1
  <2>4. mixed' \subseteq Rooms
    <3>1. \A r \in {found, manager} \ {NoRoom} : r \in Rooms
      BY <2>1
    <3>2. mixed' = mixed \union {r \in {found, manager} \ {NoRoom} : presence.visit <= since[r]}
      BY <1>12, Zenon DEF AddSelfOccupant
    <3> QED
      BY <3>1, <3>2
  <2> QED
    BY <1>12, <2>2, <2>3, <2>4 DEF AddSelfOccupant
<1>13. ASSUME HandleOccupantLeft PROVE TypeOK'
  <2>1. RemoveOccupant(found) /\ found \in Rooms
    BY <1>13, RoomsInUse DEF HandleOccupantLeft
  <2> QED
    BY <1>13, <2>1, RemoveType DEF HandleOccupantLeft, NoRoom
<1>14. ASSUME HandleOccupantKick PROVE TypeOK'
  <2>1. RemoveOccupant(found) /\ found \in Rooms
    BY <1>14, RoomsInUse DEF HandleOccupantKick
  <2> QED
    BY <1>14, <2>1, RemoveType DEF HandleOccupantKick, NoRoom
<1>15. ASSUME HandleOccupantRemoved PROVE TypeOK'
  <2>1. RemoveOccupant(found) /\ found \in Rooms
    BY <1>15, RoomsInUse DEF HandleOccupantRemoved
  <2> QED
    BY <1>15, <2>1, RemoveType DEF HandleOccupantRemoved, NoRoom
<1>16. ASSUME Disconnected PROVE TypeOK'
  <2>1. \A r \in Rooms : [roster[r] EXCEPT ![Me] = "none"] \in [Nicks -> Ranks \union {"absent", "none"}]
    OBVIOUS
  <2>2. roster' \in [Rooms -> [Nicks -> Ranks \union {"absent", "none"}]]
    BY <1>16, <2>1 DEF Disconnected
  <2>3. selfOccupant' \in [Rooms -> Ranks \union {"unset", "none"}]
    BY <1>16 DEF Disconnected
  <2> QED
    BY <1>16, <2>2, <2>3 DEF Disconnected
<1>17. ASSUME Connected PROVE TypeOK'
  BY <1>17 DEF Connected
<1>18. ASSUME ServerJoin PROVE TypeOK'
  <2>1. requests # <<>>
    BY <1>18 DEF ServerJoin, Has
  <2> DEFINE Kind == [what : {"join", "leave", "destroy"}, visit : Visits]
  <2>2. Head(requests).visit \in Visits /\ Len(Tail(requests)) <= MaxRequests
    <3>1. requests \in Seq(Kind)
      BY Zenon
    <3>2. Head(requests) \in Kind /\ Tail(requests) \in Seq(Kind) /\ Len(Tail(requests)) = Len(requests) - 1
      BY <2>1, <3>1, HeadTailProperties, Zenon
    <3> QED
      BY <3>1, <3>2, LenProperties
  <2>3. stay' \in Visits /\ due' \subseteq Nicks /\ requests' = Tail(requests)
    BY <1>18, <2>2 DEF ServerJoin, Nicks
  <2> QED
    BY <1>18, <2>1, <2>2, <2>3 DEF ServerJoin
<1>19. ASSUME NEW n \in Nicks, ServerLists(n) PROVE TypeOK'
  <2>1. CASE inside = "absent"
    BY <1>19, <2>1 DEF ServerLists, Send
  <2>2. CASE inside # "absent" /\ n = Me
    BY <1>19, <2>2, SendType DEF ServerLists, Nicks
  <2>3. CASE inside # "absent" /\ n # Me
    BY <1>19, <2>3, SendType DEF ServerLists, Nicks
  <2> QED
    BY <2>1, <2>2, <2>3
<1>20. ASSUME ServerLeave PROVE TypeOK'
  <2>1. wire' \in Seq(Presence) /\ Len(wire') <= MaxWire
    BY <1>20, SendType DEF ServerLeave, Nicks
  <2> QED
    BY <1>20, <2>1 DEF ServerLeave, Has
<1>21. ASSUME ServerDestroy PROVE TypeOK'
  <2>1. wire' \in Seq(Presence) /\ Len(wire') <= MaxWire
    BY <1>21, SendType DEF ServerDestroy, Nicks
  <2> QED
    BY <1>21, <2>1 DEF ServerDestroy, Has
<1>22. ASSUME NEW n \in Others, NEW k \in Ranks, OtherIsHere(n, k) PROVE TypeOK'
  <2>1. wire' \in Seq(Presence) /\ Len(wire') <= MaxWire
    BY <1>22, SendType DEF OtherIsHere, Nicks
  <2> QED
    BY <1>22, <2>1 DEF OtherIsHere
<1>23. ASSUME NEW n \in Others, NEW w \in Departures, OtherGoes(n, w) PROVE TypeOK'
  <2>1. wire' \in Seq(Presence) /\ Len(wire') <= MaxWire
    BY <1>23, SendType DEF OtherGoes, Nicks
  <2> QED
    BY <1>23, <2>1 DEF OtherGoes
<1>24. ASSUME NEW n \in Others, OtherRenames(n) PROVE TypeOK'
  <2>1. wire' \in Seq(Presence) /\ Len(wire') <= MaxWire
    BY <1>24, SendType DEF OtherRenames, Nicks
  <2> QED
    BY <1>24, <2>1 DEF OtherRenames
<1>25. ASSUME NEW k \in Ranks, OwnRank(k) PROVE TypeOK'
  <2>1. wire' \in Seq(Presence) /\ Len(wire') <= MaxWire
    BY <1>25, SendType DEF OwnRank, Nicks
  <2> QED
    BY <1>25, <2>1 DEF OwnRank
<1>26. ASSUME NEW w \in (Departures \ {"left"}) \union {"ignored"}, OwnRemoval(w) PROVE TypeOK'
  <2>1. wire' \in Seq(Presence) /\ Len(wire') <= MaxWire
    BY <1>26, SendType DEF OwnRemoval, Nicks
  <2> QED
    BY <1>26, <2>1 DEF OwnRemoval
<1>27. ASSUME UNCHANGED vars PROVE TypeOK'
  BY <1>27 DEF vars
<1> QED
  BY <1>1, <1>2, <1>3, <1>4, <1>5, <1>6, <1>7, <1>8, <1>9, <1>10, <1>11, <1>12, <1>13,
     <1>14, <1>15, <1>16, <1>17, <1>18, <1>19, <1>20, <1>21, <1>22, <1>23, <1>24, <1>25,
     <1>26, <1>27, Zenon
     DEF Next, User, Opens, Handler, Server, Join, Rejoin

\* The initial state has the types.
LEMMA TypeInit == Init => TypeOK
  BY RoomsAssumption DEF Init, TypeOK, NoRoom, Visits, Nicks, Presence

\* Every variable keeps its type: see Rooms!TypeOK.
THEOREM RoomsTypeCorrect == Spec => []TypeOK
<1>1. TypeOK /\ [Next]_vars => TypeOK'
  BY TypeStep, Zenon
<1> QED
  BY TypeInit, <1>1, PTL DEF Spec

(***************************************************************************)
(* Why the handler never drops a room the user is in.  Visits only grow:   *)
(* what is asked is later than the stay, what the server sent is not.  And *)
(* a removal of the user that is under way is about a visit that is over.  *)
(***************************************************************************)
Over(p) ==
    /\ p.visit <= stay
    /\ p.nick = Me /\ p.what \in Departures => inside = "absent" \/ stay # p.visit

VisitsInv ==
    /\ stay <= visit
    /\ \A i \in 1 .. Len(requests) :
           requests[i].visit <= visit /\ (requests[i].what = "join" => stay < requests[i].visit)
    /\ \A i, j \in 1 .. Len(requests) :
           i < j /\ requests[i].what = "join" /\ requests[j].what = "join"
               => requests[i].visit < requests[j].visit

RemovalInv ==
    /\ VisitsInv
    /\ \A i \in 1 .. Len(wire) : Over(wire[i])
    /\ Over(presence)

\* The queue of requests without its first one.
LEMMA ServedRequest ==
  ASSUME TypeOK, VisitsInv, requests # <<>>, requests' = Tail(requests), visit' = visit,
         stay' = stay \/ (Head(requests).what = "join" /\ stay' = Head(requests).visit)
  PROVE  VisitsInv' /\ stay <= stay'
<1> DEFINE Kind == [what : {"join", "leave", "destroy"}, visit : Visits]
<1>1. requests \in Seq(Kind)
  BY Zenon DEF TypeOK
<1>2. Len(requests) \in Nat \ {0} /\ Len(requests') = Len(requests) - 1
  BY <1>1, HeadTailProperties
<1>3. Head(requests) = requests[1]
  BY <1>1, HeadTailProperties
<1>4. \A i \in 1 .. Len(requests') : i + 1 \in 1 .. Len(requests) /\ requests'[i] = requests[i + 1]
  BY <1>1, <1>2
<1>5. \A i \in 1 .. Len(requests) : requests[i].visit \in Nat
  <2>1. \A k \in Kind : k.visit \in Nat
    BY RoomsAssumption DEF Visits
  <2> HIDE DEF Kind
  <2>2. \A i \in 1 .. Len(requests) : requests[i] \in Kind
    BY <1>1, ElementOfSeq, Zenon
  <2> QED
    BY <2>1, <2>2
<1>6. stay \in Nat /\ stay' \in Nat /\ visit \in Nat
  BY <1>2, <1>3, <1>5, RoomsAssumption DEF TypeOK, Visits
<1>7. stay <= stay' /\ stay' <= visit
  BY <1>2, <1>3, <1>5, <1>6 DEF VisitsInv
<1>8. ASSUME NEW i \in 1 .. Len(requests') 
      PROVE  requests'[i].visit <= visit /\ (requests'[i].what = "join" => stay' < requests'[i].visit)
  <2>1. i + 1 \in 1 .. Len(requests) /\ requests'[i] = requests[i + 1] /\ 1 < i + 1 /\ 1 \in 1 .. Len(requests)
    BY <1>2, <1>4
  <2>2. requests[i + 1].visit <= visit /\ (requests[i + 1].what = "join" => stay < requests[i + 1].visit)
    BY <2>1 DEF VisitsInv
  <2>3. requests[1].what = "join" /\ requests[i + 1].what = "join" => requests[1].visit < requests[i + 1].visit
    BY <2>1 DEF VisitsInv
  <2> QED
    BY <1>3, <2>1, <2>2, <2>3
<1>9. ASSUME NEW i \in 1 .. Len(requests'), NEW j \in 1 .. Len(requests'), i < j,
             requests'[i].what = "join", requests'[j].what = "join"
      PROVE  requests'[i].visit < requests'[j].visit
  <2>1. i + 1 \in 1 .. Len(requests) /\ j + 1 \in 1 .. Len(requests) /\ i + 1 < j + 1
    BY <1>4, <1>9
  <2> QED
    BY <1>4, <1>9, <2>1 DEF VisitsInv
<1> QED
  BY <1>7, <1>8, <1>9, Zenon DEF VisitsInv

\* The queue of requests with another one behind it.
LEMMA NewRequest ==
  ASSUME TypeOK, VisitsInv, NEW w \in {"join", "leave", "destroy"}, Request(w, visit'), stay' = stay,
         visit' \in Visits, visit <= visit', w = "join" => visit < visit'
  PROVE  VisitsInv'
<1> DEFINE Kind == [what : {"join", "leave", "destroy"}, visit : Visits]
<1> DEFINE q == [what |-> w, visit |-> visit']
<1>1. requests \in Seq(Kind) /\ requests' = Append(requests, q)
  BY Zenon DEF TypeOK, Request
<1>2. Len(requests) \in Nat /\ Len(requests') = Len(requests) + 1
  BY <1>1
<1>3. \A i \in 1 .. Len(requests) : requests'[i] = requests[i] /\ requests[i].visit \in Nat
  <2>1. \A k \in Kind : k.visit \in Nat
    BY RoomsAssumption DEF Visits
  <2> HIDE DEF Kind
  <2>2. \A i \in 1 .. Len(requests) : requests[i] \in Kind
    BY <1>1, ElementOfSeq, Zenon
  <2>3. q \in Kind
    BY DEF Kind
  <2> HIDE DEF q
  <2>4. \A i \in 1 .. Len(requests) : requests'[i] = requests[i]
    BY <1>1, <2>3
  <2> QED
    BY <2>1, <2>2, <2>4
<1>4. requests'[Len(requests')] = q /\ q.visit = visit' /\ q.what = w
  BY <1>1, <1>2
<1>5. stay \in Nat /\ visit \in Nat /\ visit' \in Nat
  BY RoomsAssumption DEF TypeOK, Visits
<1> HIDE DEF q
<1>6. ASSUME NEW i \in 1 .. Len(requests')
      PROVE  requests'[i].visit <= visit' /\ (requests'[i].what = "join" => stay' < requests'[i].visit)
  <2>1. CASE i \in 1 .. Len(requests)
    BY <1>3, <1>5, <2>1 DEF VisitsInv
  <2>2. CASE i = Len(requests')
    BY <1>4, <1>5, <2>2 DEF VisitsInv
  <2> QED
    BY <1>2, <2>1, <2>2
<1>7. ASSUME NEW i \in 1 .. Len(requests'), NEW j \in 1 .. Len(requests'), i < j,
             requests'[i].what = "join", requests'[j].what = "join"
      PROVE  requests'[i].visit < requests'[j].visit
  <2>1. i \in 1 .. Len(requests)
    BY <1>2, <1>7
  <2>2. CASE j \in 1 .. Len(requests)
    BY <1>3, <1>7, <2>1, <2>2 DEF VisitsInv
  <2>3. CASE j = Len(requests')
    BY <1>3, <1>4, <1>5, <1>7, <2>1, <2>3 DEF VisitsInv
  <2> QED
    BY <1>2, <2>2, <2>3
<1> QED
  BY <1>5, <1>6, <1>7 DEF VisitsInv

\* A removal stays over when the stay only grows and the user comes back by a later one.
LEMMA StaysOver ==
  ASSUME NEW p, p.visit \in Nat, stay \in Nat, stay' \in Nat, Over(p),
         \/ stay < stay'
         \/ stay' = stay /\ (inside = "absent" => inside' = "absent")
  PROVE  Over(p)'
  BY DEF Over

\* What is on the wire stays over, and what is sent now is over.
LEMMA SendOver ==
  ASSUME TypeOK, \A i \in 1 .. Len(wire) : Over(wire[i]),
         \A p \in Presence : Over(p) => Over(p)',
         NEW w \in Departures \union {"here", "ignored"}, NEW n \in Nicks,
         NEW k \in Ranks \union {"none"}, Send(w, n, k), stay' = stay,
         n = Me /\ w \in Departures => inside' = "absent"
  PROVE  (\A i \in 1 .. Len(wire) : Over(wire[i]))'
<1> DEFINE q == [what |-> w, nick |-> n, rank |-> k, visit |-> stay]
<1>1. wire \in Seq(Presence)
  BY Zenon DEF TypeOK
<1>2. \A i \in 1 .. Len(wire) : wire[i] \in Presence
  BY <1>1
<1>3. stay \in Nat
  BY RoomsAssumption DEF TypeOK, Visits
<1>4. CASE wire' = wire
  BY <1>2, <1>4 DEF Over
<1>5. CASE wire' = Append(wire, q)
  <2>1. q.visit = stay /\ q.nick = n /\ q.what = w
    OBVIOUS
  <2> HIDE DEF q
  <2>2. /\ Len(wire') = Len(wire) + 1
        /\ Len(wire) \in Nat
        /\ wire'[Len(wire')] = q
        /\ \A i \in 1 .. Len(wire) : wire'[i] = wire[i]
    BY <1>1, <1>5
  <2>3. /\ q.visit <= stay'
        /\ q.nick = Me /\ q.what \in Departures => inside' = "absent" \/ stay' # q.visit
    BY <1>3, <2>1
  <2>4. ASSUME NEW i \in 1 .. Len(wire') PROVE Over(wire[i])'
    <3>1. CASE i \in 1 .. Len(wire)
      BY <1>2, <2>2, <3>1 DEF Over
    <3>2. CASE i = Len(wire')
      BY <2>2, <2>3, <3>2 DEF Over
    <3> QED
      BY <2>2, <3>1, <3>2
  <2> QED
    BY <2>4
<1> QED
  BY <1>4, <1>5 DEF Send

\* What is over stays over.
LEMMA AllStayOver ==
  ASSUME TypeOK, stay' \in Nat,
         \/ stay < stay'
         \/ stay' = stay /\ (inside = "absent" => inside' = "absent")
  PROVE  \A p \in Presence : Over(p) => Over(p)'
<1>1. stay \in Nat /\ \A p \in Presence : p.visit \in Nat
  BY RoomsAssumption DEF TypeOK, Visits, Presence
<1>2. ASSUME NEW p \in Presence, Over(p) PROVE Over(p)'
  BY <1>1, <1>2, StaysOver
<1> QED
  BY <1>2

\* A step that sends nothing and handles no new presence.
LEMMA QuietStep ==
  ASSUME TypeOK, RemovalInv, wire' = wire, presence' = presence, VisitsInv', stay' \in Nat,
         \/ stay < stay'
         \/ stay' = stay /\ (inside = "absent" => inside' = "absent")
  PROVE  RemovalInv'
<1>1. \A p \in Presence : Over(p) => Over(p)'
  BY AllStayOver
<1>2. presence \in Presence /\ \A i \in 1 .. Len(wire) : wire[i] \in Presence
  BY DEF TypeOK
<1>3. Over(presence) /\ \A i \in 1 .. Len(wire) : Over(wire[i])
  BY Zenon DEF RemovalInv
<1>4. Over(presence)'
  BY <1>1, <1>2, <1>3 DEF Over
<1>5. (\A i \in 1 .. Len(wire) : Over(wire[i]))'
  BY <1>1, <1>2, <1>3 DEF Over
<1> QED
  BY <1>4, <1>5 DEF RemovalInv

\* A step of the server that sends a presence.
LEMMA SendStep ==
  ASSUME TypeOK, RemovalInv, presence' = presence, VisitsInv', stay' = stay,
         NEW w \in Departures \union {"here", "ignored"}, NEW n \in Nicks,
         NEW k \in Ranks \union {"none"}, Send(w, n, k),
         inside = "absent" => inside' = "absent",
         n = Me /\ w \in Departures => inside' = "absent"
  PROVE  RemovalInv'
<1>1. \A p \in Presence : Over(p) => Over(p)'
  <2>1. stay \in Nat
    BY RoomsAssumption DEF TypeOK, Visits
  <2> QED
    BY <2>1, AllStayOver
<1>2. presence \in Presence
  BY DEF TypeOK
<1>3. Over(presence) /\ \A i \in 1 .. Len(wire) : Over(wire[i])
  BY Zenon DEF RemovalInv
<1>4. Over(presence)'
  BY <1>1, <1>2, <1>3 DEF Over
<1>5. (\A i \in 1 .. Len(wire) : Over(wire[i]))'
  BY <1>1, <1>3, SendOver
<1> QED
  BY <1>4, <1>5 DEF RemovalInv

\* A step keeps the invariant.
LEMMA RemovalStep ==
  ASSUME TypeOK, TypeOK', RemovalInv, [Next]_vars
  PROVE  RemovalInv'
<1>1. /\ VisitsInv
      /\ stay \in Nat /\ stay' \in Nat
      /\ visit \in Visits /\ visit \in Nat
      /\ Me \in Nicks /\ Me \notin Others /\ Others \subseteq Nicks
  BY RoomsAssumption DEF RemovalInv, TypeOK, Visits, Nicks
<1>2. ASSUME UNCHANGED <<wire, presence, stay, inside, requests, visit>> PROVE RemovalInv'
  <2>1. VisitsInv'
    BY <1>1, <1>2 DEF VisitsInv
  <2> QED
    BY <1>1, <1>2, <2>1, QuietStep
<1>3. ASSUME Opens \/ CloseView \/ LeaveDone \/ DestroyDone PROVE RemovalInv'
  BY <1>2, <1>3 DEF Opens, LookUp, NewRoom, CloseView, LeaveDone, DestroyDone,
     room, interface, handling, network, server, history
<1>4. ASSUME JoinRoom PROVE RemovalInv'
  <2>1. /\ visit' \in Visits /\ visit <= visit' /\ visit < visit'
        /\ Request("join", visit') /\ UNCHANGED <<wire, presence, stay, inside>>
    BY <1>1, <1>4, RoomsAssumption DEF JoinRoom, Visits, handling, server
  <2>2. VisitsInv'
    BY <1>1, <2>1, NewRequest
  <2> QED
    BY <1>1, <2>1, <2>2, QuietStep
<1>5. ASSUME LeaveRoom \/ DestroyRoom PROVE RemovalInv'
  <2>1. visit' = visit /\ UNCHANGED <<wire, presence, stay, inside>>
    BY <1>5 DEF LeaveRoom, DestroyRoom, handling, server
  <2>2. CASE Request("leave", visit')
    BY <1>1, <2>1, <2>2, NewRequest, QuietStep
  <2>3. CASE Request("destroy", visit')
    BY <1>1, <2>1, <2>3, NewRequest, QuietStep
  <2> QED
    BY <1>5, <2>1, <2>2, <2>3 DEF LeaveRoom, DestroyRoom
<1>6. ASSUME HandlePresence PROVE RemovalInv'
  <2>1. /\ wire # <<>> /\ presence' = Head(wire) /\ wire' = Tail(wire)
        /\ UNCHANGED <<stay, inside, requests, visit>>
    BY <1>6 DEF HandlePresence, server
  <2>2. wire \in Seq(Presence)
    BY Zenon DEF TypeOK
  <2>3. /\ Len(wire) \in Nat \ {0} /\ Len(wire') = Len(wire) - 1 /\ presence' = wire[1]
        /\ \A i \in 1 .. Len(wire') : i + 1 \in 1 .. Len(wire) /\ wire'[i] = wire[i + 1]
    BY <2>1, <2>2, HeadTailProperties
  <2>4. \A i \in 1 .. Len(wire) : Over(wire[i])
    BY Zenon DEF RemovalInv
  <2>5. Over(presence)' /\ (\A i \in 1 .. Len(wire) : Over(wire[i]))'
    BY <2>1, <2>3, <2>4 DEF Over
  <2>6. VisitsInv'
    BY <1>1, <2>1 DEF VisitsInv
  <2> QED
    BY <2>5, <2>6 DEF RemovalInv
<1>7. ASSUME \/ HandleOccupantUpdate \/ SelfOccupantUpdate \/ AddSelfOccupant
             \/ HandleOccupantLeft \/ HandleOccupantKick \/ HandleOccupantRemoved
      PROVE  RemovalInv'
  BY <1>2, <1>7 DEF HandleOccupantUpdate, SelfOccupantUpdate, AddSelfOccupant,
     HandleOccupantLeft, HandleOccupantKick, HandleOccupantRemoved, network, server
<1>8. ASSUME Disconnected PROVE RemovalInv'
  <2>1. /\ wire' = <<>> /\ requests' = <<>> /\ inside' = "absent"
        /\ UNCHANGED <<presence, stay, visit>>
    BY <1>8 DEF Disconnected, handling
  <2>2. VisitsInv'
    BY <1>1, <2>1 DEF VisitsInv
  <2>3. Over(presence)'
    BY <2>1 DEF RemovalInv, Over
  <2> QED
    BY <2>1, <2>2, <2>3 DEF RemovalInv
<1>9. ASSUME Connected PROVE RemovalInv'
  BY <1>2, <1>9 DEF Connected, handling, server
<1>10. ASSUME ServerJoin PROVE RemovalInv'
  <2>1. /\ requests # <<>> /\ requests' = Tail(requests) /\ visit' = visit
        /\ Head(requests).what = "join" /\ stay' = Head(requests).visit
        /\ UNCHANGED <<wire, presence>>
    BY <1>10 DEF ServerJoin, Has, handling
  <2>2. VisitsInv'
    BY <1>1, <2>1, ServedRequest
  <2>3. stay < stay'
    <3> DEFINE Kind == [what : {"join", "leave", "destroy"}, visit : Visits]
    <3>1. requests \in Seq(Kind)
      BY Zenon DEF TypeOK
    <3>2. 1 \in 1 .. Len(requests) /\ Head(requests) = requests[1]
      BY <2>1, <3>1, HeadTailProperties
    <3> QED
      BY <1>1, <2>1, <3>2 DEF VisitsInv
  <2> QED
    BY <1>1, <2>1, <2>2, <2>3, QuietStep
<1>11. ASSUME NEW n \in Nicks, ServerLists(n) PROVE RemovalInv'
  <2>1. UNCHANGED <<presence, stay, inside, requests, visit>>
    BY <1>11 DEF ServerLists, handling
  <2>2. VisitsInv'
    BY <1>1, <2>1 DEF VisitsInv
  <2> DEFINE k == IF n = Me THEN inside ELSE occupants[n]
  <2>3. Send("here", n, k)
    BY <1>11 DEF ServerLists
  <2>4. CASE inside = "absent"
    BY <1>1, <2>1, <2>2, <2>3, <2>4, QuietStep DEF Send
  <2>5. CASE inside # "absent"
    <3>1. k \in Ranks \union {"none"} /\ "here" \notin Departures
      BY <1>11, <2>5 DEF ServerLists, TypeOK, Nicks, Departures
    <3> HIDE DEF k
    <3> QED
      BY <2>1, <2>2, <2>3, <3>1, SendStep
  <2> QED
    BY <2>4, <2>5
<1>12. ASSUME ServerLeave PROVE RemovalInv'
  <2>1. /\ requests # <<>> /\ requests' = Tail(requests) /\ inside' = "absent"
        /\ Send("ignored", Me, "none") /\ UNCHANGED <<presence, stay, visit>>
    BY <1>12 DEF ServerLeave, Has, handling
  <2>2. VisitsInv'
    BY <1>1, <2>1, ServedRequest
  <2> QED
    BY <1>1, <2>1, <2>2, SendStep
<1>13. ASSUME ServerDestroy PROVE RemovalInv'
  <2>1. requests # <<>> /\ requests' = Tail(requests) /\ UNCHANGED <<presence, stay, visit>>
    BY <1>13 DEF ServerDestroy, Has, handling
  <2>2. VisitsInv'
    BY <1>1, <2>1, ServedRequest
  <2>3. CASE UNCHANGED <<wire, inside, occupants>>
    BY <1>1, <2>1, <2>2, <2>3, QuietStep
  <2>4. CASE Send("ignored", Me, "none") /\ inside' = "absent"
    BY <1>1, <2>1, <2>2, <2>4, SendStep
  <2> QED
    BY <1>13, <2>3, <2>4 DEF ServerDestroy
<1>14. ASSUME UNCHANGED <<presence, stay, visit, requests>> PROVE VisitsInv'
  BY <1>1, <1>14 DEF VisitsInv
<1>15. ASSUME NEW n \in Others, NEW k \in Ranks, OtherIsHere(n, k) PROVE RemovalInv'
  <2>1. Send("here", n, k) /\ UNCHANGED <<presence, stay, inside, visit, requests>>
    BY <1>15 DEF OtherIsHere, handling
  <2> QED
    BY <1>1, <1>14, <2>1, SendStep
<1>16. ASSUME NEW n \in Others, NEW w \in Departures, OtherGoes(n, w) PROVE RemovalInv'
  <2>1. Send(w, n, "none") /\ UNCHANGED <<presence, stay, inside, visit, requests>>
    BY <1>16 DEF OtherGoes, handling
  <2> QED
    BY <1>1, <1>14, <2>1, SendStep
<1>17. ASSUME NEW n \in Others, OtherRenames(n) PROVE RemovalInv'
  <2>1. Send("ignored", n, "none") /\ UNCHANGED <<presence, stay, inside, visit, requests>>
    BY <1>17 DEF OtherRenames, handling
  <2> QED
    BY <1>1, <1>14, <2>1, SendStep
<1>18. ASSUME NEW k \in Ranks, OwnRank(k) PROVE RemovalInv'
  <2>1. Send("here", Me, k) /\ inside # "absent" /\ UNCHANGED <<presence, stay, visit, requests>>
    BY <1>18 DEF OwnRank, handling
  <2>2. "here" \notin Departures
    BY DEF Departures
  <2> QED
    BY <1>1, <1>14, <2>1, <2>2, SendStep
<1>19. ASSUME NEW w \in (Departures \ {"left"}) \union {"ignored"}, OwnRemoval(w) PROVE RemovalInv'
  <2>1. Send(w, Me, "none") /\ inside' = "absent" /\ UNCHANGED <<presence, stay, visit, requests>>
    BY <1>19 DEF OwnRemoval, handling
  <2> QED
    BY <1>1, <1>14, <2>1, SendStep
<1>20. ASSUME UNCHANGED vars PROVE RemovalInv'
  BY <1>2, <1>20 DEF vars, handling, network, server
<1> QED
  BY <1>3, <1>4, <1>5, <1>6, <1>7, <1>8, <1>9, <1>10, <1>11, <1>12, <1>13, <1>15, <1>16,
     <1>17, <1>18, <1>19, <1>20, Zenon
     DEF Next, User, Handler, Server, Join, Rejoin

\* At first nothing is asked and nothing is on the wire.
LEMMA RemovalInit == Init => RemovalInv
  BY DEF Init, RemovalInv, VisitsInv, Over

(***************************************************************************)
(* The handler drops the room only when the user is out of the visit that  *)
(* the presence is about: see Rooms!DroppedOnlyWhenOut.                    *)
(***************************************************************************)
THEOREM DroppedOnlyWhenOutAlways == Spec => DroppedOnlyWhenOut
<1>1. RemovalInv /\ TypeOK /\ [Next]_vars
        => [(handler = "act" /\ manager # NoRoom /\ manager' = NoRoom /\ handler' # "act")
              => inside = "absent" \/ stay # presence.visit]_vars
  <2> SUFFICES ASSUME RemovalInv, Next, handler = "act", manager # NoRoom,
                      manager' = NoRoom, handler' # "act"
               PROVE  inside = "absent" \/ stay # presence.visit
    BY DEF vars, room, handling
  <2>1. ASSUME IsOwnPresence(found), presence.what \in Departures
        PROVE  inside = "absent" \/ stay # presence.visit
    BY <2>1 DEF RemovalInv, Over, IsOwnPresence
  <2>2. ASSUME HandleOccupantLeft \/ HandleOccupantKick \/ HandleOccupantRemoved
        PROVE  inside = "absent" \/ stay # presence.visit
    BY <2>1, <2>2 DEF HandleOccupantLeft, HandleOccupantKick, HandleOccupantRemoved, Departures
  <2>3. ASSUME User \/ Server \/ Disconnected \/ Connected PROVE FALSE
    BY <2>3 DEF User, Opens, LookUp, NewRoom, CloseView, Join, Rejoin, JoinRoom, LeaveRoom,
       LeaveDone, DestroyRoom, DestroyDone, Server, ServerJoin, ServerLists, ServerLeave,
       ServerDestroy, OtherIsHere, OtherGoes, OtherRenames, OwnRank, OwnRemoval,
       Disconnected, Connected, handling
  <2>4. ASSUME HandlePresence \/ HandleOccupantUpdate \/ SelfOccupantUpdate \/ AddSelfOccupant
        PROVE  FALSE
    BY <2>4 DEF HandlePresence, HandleOccupantUpdate, SelfOccupantUpdate, AddSelfOccupant, room
  <2> QED
    BY <2>2, <2>3, <2>4, Zenon DEF Next, Handler
<1>2. TypeOK /\ RemovalInv /\ [Next]_vars => TypeOK' /\ RemovalInv'
  BY TypeStep, RemovalStep, Zenon
<1> QED
  BY TypeInit, RemovalInit, <1>1, <1>2, PTL DEF Spec, DroppedOnlyWhenOut

(***************************************************************************)
(* Why the roster agrees with the server.  Of the presences under way only *)
(* those count that are about a visit begun since the manager's room was   *)
(* made or reset: any other one, when it is handled, makes the room a      *)
(* mixed one, of which nothing is claimed.                                 *)
(***************************************************************************)
Counts(p) == p.what # "ignored" /\ p.visit > since[manager]

Coming(n) == {i \in 1 .. Len(wire) : wire[i].nick = n /\ Counts(wire[i])}

IsHere(i) == wire[i].what = "here"

RankIn(p) == IF p.what = "here" THEN p.rank ELSE "absent"

\* The rank of a nickname once the presence in hand is handled.
InHand ==
    handler \in {"act", "refresh", "add"} /\ found = manager /\ presence.visit > since[manager]

Now(n) == IF InHand /\ presence.nick = n THEN RankIn(presence) ELSE roster[manager][n]

\* What the server has told of a nickname, or is about to tell.
Target(n) == IF n \in due THEN "absent" ELSE IF n = Me THEN inside ELSE occupants[n]

Fits(n, rank) == rank = Target(n) \/ (Target(n) = "absent" /\ n \in renamed)

\* A departure is of somebody who is there by then.
Sound(n) ==
    /\ \A i \in Coming(n) :
           IsHere(i) \/ Now(n) # "absent" \/ \E k \in Coming(n) : k < i /\ IsHere(k)
    /\ \A i, j \in Coming(n) :
           i < j => IsHere(i) \/ IsHere(j) \/ \E k \in Coming(n) : i < k /\ k < j /\ IsHere(k)

\* Whoever the server has in the room is there when all is handled ...
Present(n) ==
    Target(n) # "absent" =>
        /\ Now(n) # "absent" \/ \E k \in Coming(n) : IsHere(k)
        /\ \A i \in Coming(n) : IsHere(i) \/ \E k \in Coming(n) : i < k /\ IsHere(k)

\* ... with its rank.
Agrees(n) ==
    /\ Coming(n) = {} => Fits(n, Now(n))
    /\ \A i \in Coming(n) : (\A j \in Coming(n) : j <= i) => Fits(n, RankIn(wire[i]))

\* The user's own occupant is set or being set, or will be before presence i.
OwnIsSet ==
    \/ selfOccupant[manager] # "unset"
    \/ /\ handler \in {"refresh", "add", "adopt"}
       /\ found = manager
       /\ presence.visit > since[manager]

OwnComing(i) == \E k \in Coming(Me) : k < i /\ IsHere(k)

NeedsOwn == {"demoted", "membersonly"}

FreshRoom ==
    stay <= since[manager] =>
        /\ roster[manager] = [n \in Nicks |-> "absent"]
        /\ manager \notin listed
        /\ joined[manager] = 0

OwnListed ==
    roster[manager][Me] # "absent" <=>
        manager \in listed \/ (handler = "adopt" /\ found = manager)

OwnFirst ==
    \A i \in 1 .. Len(wire) :
        Counts(wire[i]) /\ wire[i].what \in NeedsOwn => OwnIsSet \/ OwnComing(i)

AllPresent ==
    inside # "absent" /\ since[manager] < stay =>
        /\ \A n \in Nicks : Present(n)
        /\ due = {} => OwnIsSet \/ OwnComing(Len(wire) + 1)

JoinedOnce == joined[manager] = IF manager \in listed THEN 1 ELSE 0

AllAgree ==
    inside # "absent" /\ stay = since[manager] + 1 => JoinedOnce /\ \A n \in Nicks : Agrees(n)

ManagerInv ==
    FreshRoom /\ OwnListed /\ (\A n \in Nicks : Sound(n)) /\ OwnFirst /\ AllPresent /\ AllAgree

\* The presence in hand, and the rooms whose own occupant is set.
HandInv ==
    /\ due = {} \/ Me \in due
    /\ \A r \in listed : roster[r][Me] # "absent" /\ selfOccupant[r] = roster[r][Me]
    /\ \A r \in Rooms : r > made =>
           roster[r] = [n \in Nicks |-> "absent"] /\ r \notin listed /\ joined[r] = 0
    /\ handler # "idle" /\ manager \notin {NoRoom, found} => presence.visit <= since[manager]
    /\ handler = "act" /\ presence.what = "here" => presence.nick # Me
    /\ handler \in {"refresh", "add", "adopt"} => presence.nick = Me /\ presence.what = "here"
    /\ handler \in {"add", "adopt"} => found \notin listed
    /\ handler = "refresh" /\ found \notin mixed => found \in listed
    /\ handler = "act" /\ found \notin mixed /\ presence.visit > since[found] =>
           /\ presence.what = "kicked" => Known(found)
           /\ presence.what \in NeedsOwn => selfOccupant[found] # "unset"

RosterInv ==
    /\ HandInv
    /\ CrashNeedsMixedRoom
    /\ manager # NoRoom /\ manager \notin mixed => ManagerInv

\* What the numbers and ranks of the presences under way are.
LEMMA WireFacts ==
  ASSUME TypeOK
  PROVE  /\ wire \in Seq(Presence) /\ Len(wire) \in Nat
         /\ \A i \in 1 .. Len(wire) : wire[i] \in Presence
         /\ presence \in Presence
         /\ \A p \in Presence : /\ p.visit \in Nat /\ p.nick \in Nicks
                                /\ p.rank # "absent" /\ p.rank # "unset"
         /\ stay \in Nat /\ visit \in Nat
         /\ \A r \in Rooms : since[r] \in Nat
<1>1. wire \in Seq(Presence) /\ presence \in Presence
  BY Zenon DEF TypeOK
<1>2. \A i \in 1 .. Len(wire) : wire[i] \in Presence
  BY <1>1, ElementOfSeq
<1>3. \A p \in Presence : /\ p.visit \in Nat /\ p.nick \in Nicks
                        /\ p.rank # "absent" /\ p.rank # "unset"
  BY RoomsAssumption DEF Presence, Visits
<1>4. stay \in Nat /\ visit \in Nat /\ \A r \in Rooms : since[r] \in Nat
  BY RoomsAssumption DEF TypeOK, Visits
<1> QED
  BY <1>1, <1>2, <1>3, <1>4, LenProperties

\* A step that changes nothing the invariant speaks of.
LEMMA RosterUntouched ==
  ASSUME RosterInv, UNCHANGED <<room, handling, wire, server, history>>
  PROVE  RosterInv'
<1>1. HandInv' /\ CrashNeedsMixedRoom'
  BY DEF RosterInv, HandInv, CrashNeedsMixedRoom, Known, Knows, room, handling, server, history
<1>2. ManagerInv => ManagerInv'
  BY DEF ManagerInv, FreshRoom, OwnListed, Sound, OwnFirst, AllPresent, AllAgree, JoinedOnce,
     Present, Agrees, Fits, Target, OwnIsSet, OwnComing, Coming, Counts, IsHere, RankIn, Now,
     InHand, room, handling, server, history
<1> QED
  BY <1>1, <1>2 DEF RosterInv, room, history

\* A step of the server leaves the presence in hand and the rooms alone.
LEMMA HandUntouched ==
  ASSUME RosterInv, UNCHANGED <<room, handling, since, mixed>>, due' = {} \/ Me \in due'
  PROVE  HandInv' /\ CrashNeedsMixedRoom'
  BY DEF RosterInv, HandInv, CrashNeedsMixedRoom, Known, Knows, room, handling

\* The server does something that it tells nobody in a room the user is not in.
LEMMA ServerSilent ==
  ASSUME ManagerInv, UNCHANGED <<room, handling, since, mixed, wire, stay>>, inside' = "absent"
  PROVE  ManagerInv'
<1>1. FreshRoom' /\ OwnListed'
  BY DEF ManagerInv, FreshRoom, OwnListed, room, handling
<1>2. \A n \in Nicks : Coming(n)' = Coming(n) /\ Now(n)' = Now(n)
  BY DEF Coming, Counts, Now, InHand, RankIn, room, handling
<1>3. \A n \in Nicks : Sound(n)'
  BY <1>2 DEF ManagerInv, Sound, IsHere
<1>4. OwnFirst'
  BY DEF ManagerInv, OwnFirst, OwnIsSet, OwnComing, Coming, Counts, IsHere, room, handling
<1>5. AllPresent' /\ AllAgree'
  BY DEF AllPresent, AllAgree
<1> QED
  BY <1>1, <1>3, <1>4, <1>5 DEF ManagerInv

\* A presence is sent behind the ones on the wire.
LEMMA SendAppends ==
  ASSUME TypeOK, NEW w \in Departures \union {"here", "ignored"}, NEW n \in Nicks,
         NEW k \in Ranks \union {"none"}, Send(w, n, k), inside # "absent"
  PROVE  /\ Len(wire') = Len(wire) + 1
         /\ \A i \in 1 .. Len(wire) : wire'[i] = wire[i]
         /\ wire'[Len(wire) + 1].what = w /\ wire'[Len(wire) + 1].nick = n
         /\ wire'[Len(wire) + 1].rank = k /\ wire'[Len(wire) + 1].visit = stay
<1> DEFINE q == [what |-> w, nick |-> n, rank |-> k, visit |-> stay]
<1>1. wire \in Seq(Presence) /\ q \in Presence
  BY WireFacts DEF TypeOK, Presence
<1>2. wire' = Append(wire, q)
  BY Zenon DEF Send
<1>3. q.what = w /\ q.nick = n /\ q.rank = k /\ q.visit = stay
  OBVIOUS
<1> HIDE DEF q
<1>4. /\ Len(wire') = Len(wire) + 1
      /\ \A i \in 1 .. Len(wire) : wire'[i] = wire[i]
      /\ wire'[Len(wire) + 1] = q
  BY <1>1, <1>2
<1> QED
  BY <1>3, <1>4

\* It is one more to come for its nickname, if it counts.
LEMMA SendComes ==
  ASSUME TypeOK, NEW w \in Departures \union {"here", "ignored"}, NEW n \in Nicks,
         NEW k \in Ranks \union {"none"}, Send(w, n, k), inside # "absent",
         UNCHANGED <<manager, since>>, NEW m \in Nicks
  PROVE  /\ Coming(m) \subseteq 1 .. Len(wire)
         /\ Coming(m)' = IF m = n /\ w # "ignored" /\ stay > since[manager]
                         THEN Coming(m) \union {Len(wire) + 1} ELSE Coming(m)
         /\ \A i \in Coming(m) : IsHere(i)' <=> IsHere(i)
<1>1. /\ Len(wire') = Len(wire) + 1 /\ Len(wire) \in Nat
      /\ \A i \in 1 .. Len(wire) : wire'[i] = wire[i]
      /\ wire'[Len(wire) + 1].what = w /\ wire'[Len(wire) + 1].nick = n
      /\ wire'[Len(wire) + 1].visit = stay
  BY SendAppends, WireFacts
<1>2. 1 .. Len(wire') = 1 .. Len(wire) \union {Len(wire) + 1}
  BY <1>1
<1>3. Coming(m) \subseteq 1 .. Len(wire)
  BY DEF Coming
<1>4. ASSUME NEW i \in 1 .. Len(wire)
      PROVE  i \in Coming(m)' <=> i \in Coming(m)
  BY <1>1, <1>2, <1>4 DEF Coming, Counts
<1>5. Len(wire) + 1 \in Coming(m)' <=> m = n /\ w # "ignored" /\ stay > since[manager]
  BY <1>1, <1>2 DEF Coming, Counts
<1>6. Coming(m)' \subseteq 1 .. Len(wire')
  BY DEF Coming
<1>7. Len(wire) + 1 \notin Coming(m)
  BY <1>1, <1>3
<1>8. Coming(m)' = IF m = n /\ w # "ignored" /\ stay > since[manager]
                   THEN Coming(m) \union {Len(wire) + 1} ELSE Coming(m)
  BY <1>2, <1>3, <1>4, <1>5, <1>6, <1>7
<1>9. \A i \in Coming(m) : IsHere(i)' <=> IsHere(i)
  BY <1>1, <1>3 DEF IsHere
<1> QED
  BY <1>3, <1>8, <1>9

\* The server tells a user in the room what has changed: nobody departs who was
\* not told of, and what is told is how it is now.
LEMMA ServerSends ==
  ASSUME TypeOK, ManagerInv, manager \in Rooms, UNCHANGED <<room, handling, since, mixed, stay>>,
         inside # "absent", NEW w \in Departures \union {"here", "ignored"}, NEW n \in Nicks,
         NEW k \in Ranks \union {"none"}, Send(w, n, k),
         w \in Departures => due = {} /\ Target(n) # "absent",
         due' = {} => due = {} \/ (n = Me /\ w = "here"),
         inside' # "absent" =>
            /\ \A m \in Nicks \ {n} : Target(m)' = Target(m) /\ (m \in renamed' <=> m \in renamed)
            /\ w = "here" => Target(n)' = k
            /\ w \in Departures => Target(n)' = "absent"
            /\ w = "ignored" => Target(n)' = "absent" /\ n \in renamed'
  PROVE  ManagerInv'
<1>0. PICK L \in Nat : L = Len(wire)
  BY WireFacts
<1>1. /\ Len(wire') = L + 1 /\ L \in Nat
      /\ \A i \in 1 .. L : wire'[i] = wire[i]
      /\ wire'[L + 1].what = w /\ wire'[L + 1].nick = n
      /\ wire'[L + 1].rank = k /\ wire'[L + 1].visit = stay
  BY <1>0, SendAppends
<1>2. UNCHANGED <<manager, since, stay, roster, selfOccupant, listed, joined, handler, presence, found>>
  BY DEF room, handling
<1>3. ASSUME NEW m \in Nicks
      PROVE  /\ Coming(m) \subseteq 1 .. L
             /\ Coming(m)' = IF m = n /\ w # "ignored" /\ stay > since[manager]
                             THEN Coming(m) \union {L + 1} ELSE Coming(m)
             /\ \A i \in Coming(m) : IsHere(i)' <=> IsHere(i)
  BY <1>0, <1>2, SendComes
<1>4. stay \in Nat /\ since[manager] \in Nat /\ Me \in Nicks
  BY WireFacts DEF Nicks
<1>5. \A m \in Nicks : Now(m)' = Now(m)
  BY <1>2 DEF Now, InHand, RankIn
<1>6. OwnIsSet' <=> OwnIsSet
  BY <1>2 DEF OwnIsSet
<1>7. IsHere(L + 1)' <=> w = "here"
  BY <1>1 DEF IsHere
<1>8. w = "here" \/ w = "ignored" \/ w \in Departures
  OBVIOUS
<1>9. inside # "absent" /\ since[manager] < stay =>
        (\A m \in Nicks : Present(m)) /\ (due = {} => OwnIsSet \/ OwnComing(L + 1))
  BY <1>0 DEF ManagerInv, AllPresent
<1>10. FreshRoom' /\ OwnListed'
  BY <1>2 DEF ManagerInv, FreshRoom, OwnListed
<1>11. ASSUME NEW m \in Nicks PROVE Sound(m)'
  <2>1. Sound(m)
    BY DEF ManagerInv
  <2>2. CASE Coming(m)' = Coming(m)
    BY <1>3, <1>5, <2>1, <2>2 DEF Sound
  <2>3. CASE m = n /\ w # "ignored" /\ stay > since[manager]
    <3>1. Coming(m)' = Coming(m) \union {L + 1} /\ Coming(m) \subseteq 1 .. L
      BY <1>3, <2>3
    <3>2. \A i \in Coming(m) : i < L + 1
      BY <1>1, <3>1
    <3>3. w = "here" \/ (w \in Departures /\ Present(m) /\ Target(m) # "absent")
      BY <1>4, <1>8, <1>9, <2>3
    <3>4. ASSUME NEW i \in Coming(m)'
          PROVE  IsHere(i)' \/ Now(m)' # "absent" \/ \E j \in Coming(m)' : j < i /\ IsHere(j)'
      <4>1. CASE i \in Coming(m)
        BY <1>3, <1>5, <2>1, <3>1, <4>1 DEF Sound
      <4>2. CASE i = L + 1
        BY <1>3, <1>5, <1>7, <3>1, <3>2, <3>3, <4>2 DEF Present
      <4> QED
        BY <3>1, <4>1, <4>2
    <3>5. ASSUME NEW i \in Coming(m)', NEW j \in Coming(m)', i < j
          PROVE  IsHere(i)' \/ IsHere(j)' \/ \E l \in Coming(m)' : i < l /\ l < j /\ IsHere(l)'
      <4>1. CASE i \in Coming(m) /\ j \in Coming(m)
        BY <1>3, <2>1, <3>1, <3>5, <4>1 DEF Sound
      <4>2. CASE i \in Coming(m) /\ j = L + 1
        BY <1>3, <1>7, <3>1, <3>2, <3>3, <4>2 DEF Present
      <4>3. i # L + 1
        BY <1>1, <3>1, <3>2, <3>5
      <4> QED
        BY <3>1, <4>1, <4>2, <4>3
    <3> QED
      BY <3>4, <3>5 DEF Sound
  <2> QED
    BY <1>3, <2>2, <2>3
<1>12. \A i \in 1 .. (L + 1) : OwnComing(i) => OwnComing(i)'
  <2>1. \A l \in Coming(Me) : l \in Coming(Me)' /\ (IsHere(l)' <=> IsHere(l))
    BY <1>3, <1>4
  <2> QED
    BY <2>1 DEF OwnComing
<1>13. OwnFirst'
  <2>1. ASSUME NEW i \in 1 .. (L + 1), Counts(wire[i])', wire'[i].what \in NeedsOwn
        PROVE  OwnIsSet' \/ OwnComing(i)'
    <3>1. CASE i \in 1 .. L
      <4>1. Counts(wire[i]) /\ wire[i].what \in NeedsOwn
        BY <1>1, <1>2, <2>1, <3>1 DEF Counts
      <4> QED
        BY <1>0, <1>6, <1>12, <3>1, <4>1 DEF ManagerInv, OwnFirst
    <3>2. CASE i = L + 1
      <4>1. w \in Departures /\ stay > since[manager]
        BY <1>1, <1>2, <2>1, <3>2 DEF Counts, NeedsOwn, Departures
      <4>2. OwnIsSet \/ OwnComing(L + 1)
        BY <1>4, <1>9, <4>1
      <4> QED
        BY <1>6, <1>12, <3>2, <4>2
    <3> QED
      BY <1>1, <3>1, <3>2
  <2> QED
    BY <1>1, <2>1 DEF OwnFirst
<1>14. ASSUME inside' # "absent", since[manager] < stay PROVE AllPresent'
  <2>1. ASSUME NEW m \in Nicks PROVE Present(m)'
    <3>1. Present(m)
      BY <1>9, <1>14
    <3>2. CASE m # n
      <4>1. Target(m)' = Target(m) /\ Coming(m)' = Coming(m) /\ Now(m)' = Now(m)
        BY <1>3, <1>5, <1>14, <3>2
      <4> QED
        BY <1>3, <3>1, <4>1 DEF Present
    <3>3. CASE m = n /\ w = "here"
      <4>1. Coming(m)' = Coming(m) \union {L + 1} /\ IsHere(L + 1)'
        BY <1>3, <1>4, <1>7, <1>14, <3>3
      <4>2. \A i \in Coming(m) : i < L + 1
        BY <1>1, <1>3
      <4> QED
        BY <4>1, <4>2 DEF Present
    <3>4. CASE m = n /\ w # "here"
      <4>1. Target(m)' = "absent"
        BY <1>8, <1>14, <3>4
      <4> QED
        BY <4>1 DEF Present
    <3> QED
      BY <3>2, <3>3, <3>4
  <2>2. ASSUME due' = {} PROVE OwnIsSet' \/ OwnComing(L + 2)'
    <3>1. CASE due = {}
      <4>1. OwnIsSet \/ OwnComing(L + 1)
        BY <1>9, <1>14, <3>1
      <4>2. OwnComing(L + 1) => OwnComing(L + 1)'
        BY <1>1, <1>12
      <4>3. OwnComing(L + 1)' => OwnComing(L + 2)'
        <5>1. Coming(Me)' \subseteq 1 .. (L + 1)
          BY <1>1 DEF Coming
        <5> QED
          BY <1>1, <5>1 DEF OwnComing
      <4> QED
        BY <1>6, <4>1, <4>2, <4>3
    <3>2. CASE n = Me /\ w = "here"
      <4>1. L + 1 \in Coming(Me)' /\ IsHere(L + 1)' /\ L + 1 < L + 2
        BY <1>1, <1>3, <1>4, <1>7, <1>14, <3>2
      <4> QED
        BY <4>1 DEF OwnComing
    <3> QED
      BY <2>2, <3>1, <3>2
  <2>3. Len(wire') + 1 = L + 2
    BY <1>1
  <2> QED
    BY <2>1, <2>2, <2>3 DEF AllPresent
<1>15. ASSUME inside' # "absent", stay = since[manager] + 1 PROVE JoinedOnce' /\ \A m \in Nicks : Agrees(m)'
  <2>1. JoinedOnce /\ \A m \in Nicks : Agrees(m)
    BY <1>15 DEF ManagerInv, AllAgree
  <2>2. JoinedOnce'
    BY <1>2, <2>1 DEF JoinedOnce
  <2>3. ASSUME NEW m \in Nicks PROVE Agrees(m)'
    <3>1. CASE m # n
      <4>1. Target(m)' = Target(m) /\ Coming(m)' = Coming(m) /\ (m \in renamed' <=> m \in renamed)
        BY <1>3, <1>15, <3>1
      <4>2. \A i \in Coming(m) : wire'[i] = wire[i]
        BY <1>1, <1>3
      <4>3. \A r : Fits(m, r)' <=> Fits(m, r)
        BY <4>1 DEF Fits
      <4>4. Agrees(m) /\ Now(m)' = Now(m)
        BY <1>5, <2>1
      <4>5. Coming(m)' = {} => Fits(m, Now(m))'
        BY <4>1, <4>3, <4>4 DEF Agrees, Fits
      <4>6. ASSUME NEW i \in Coming(m)', \A j \in Coming(m)' : j <= i
            PROVE  Fits(m, RankIn(wire[i]))'
        <5>1. Fits(m, RankIn(wire[i])) /\ RankIn(wire'[i]) = RankIn(wire[i])
          BY <4>1, <4>2, <4>4, <4>6 DEF Agrees
        <5> QED
          BY <4>1, <5>1 DEF Fits, RankIn
      <4> QED
        BY <4>5, <4>6 DEF Agrees
    <3>2. CASE m = n /\ w # "ignored"
      <4>1. Coming(m)' = Coming(m) \union {L + 1} /\ Coming(m) \subseteq 1 .. L
        BY <1>3, <1>4, <1>15, <3>2
      <4>2. \A i \in Coming(m) : ~(L + 1 <= i)
        BY <1>1, <4>1
      <4>3. Fits(m, RankIn(wire[L + 1]))'
        <5>1. RankIn(wire[L + 1])' = IF w = "here" THEN k ELSE "absent"
          BY <1>1 DEF RankIn
        <5>2. RankIn(wire[L + 1])' = Target(m)'
          BY <1>8, <1>15, <3>2, <5>1
        <5> QED
          BY <5>2 DEF Fits
      <4> QED
        BY <4>1, <4>2, <4>3 DEF Agrees
    <3>3. CASE m = n /\ w = "ignored"
      <4>1. \A r : Fits(m, r)'
        BY <1>15, <3>3 DEF Fits
      <4> QED
        BY <4>1 DEF Agrees, Fits
    <3> QED
      BY <3>1, <3>2, <3>3
  <2> QED
    BY <2>2, <2>3
<1>16. AllPresent' /\ AllAgree'
  BY <1>2, <1>14, <1>15 DEF AllPresent, AllAgree
<1> QED
  BY <1>10, <1>11, <1>13, <1>16 DEF ManagerInv

\* The handler takes the first presence from the wire, and looks the room up.
LEMMA HandleShifts ==
  ASSUME TypeOK, HandlePresence, manager # NoRoom, NEW m \in Nicks
  PROVE  /\ Coming(m)' = {i \in 1 .. (Len(wire) - 1) : i + 1 \in Coming(m)}
         /\ \A i \in 1 .. (Len(wire) - 1) : wire'[i] = wire[i + 1]
         /\ Len(wire) \in Nat \ {0} /\ Len(wire') = Len(wire) - 1 /\ presence' = wire[1]
         /\ Now(m) = roster[manager][m]
         /\ Now(m)' = IF 1 \in Coming(m) THEN RankIn(wire[1]) ELSE Now(m)
<1>1. /\ wire # <<>> /\ presence' = Head(wire) /\ wire' = Tail(wire) /\ found' = manager
      /\ handler = "idle" /\ UNCHANGED <<manager, since, roster>>
      /\ handler' = IF presence'.what = "ignored" THEN "idle"
                    ELSE IF presence'.what # "here" \/ presence'.nick # Me THEN "act"
                    ELSE IF Knows(manager, Me) THEN "refresh" ELSE "add"
  BY Zenon DEF HandlePresence, room, history
<1>2. wire \in Seq(Presence)
  BY WireFacts
<1>3. /\ Len(wire) \in Nat \ {0} /\ Len(wire') = Len(wire) - 1 /\ presence' = wire[1]
      /\ \A i \in 1 .. (Len(wire) - 1) : wire'[i] = wire[i + 1]
  BY <1>1, <1>2, HeadTailProperties
<1>4. \A i \in 1 .. (Len(wire) - 1) : i + 1 \in 1 .. Len(wire)
  BY <1>3
<1>5. \A i \in 1 .. (Len(wire) - 1) : i \in Coming(m)' <=> i + 1 \in Coming(m)
  BY <1>1, <1>3, <1>4 DEF Coming, Counts
<1>6. Coming(m)' \subseteq 1 .. (Len(wire) - 1)
  BY <1>3 DEF Coming
<1>7. Now(m) = roster[manager][m]
  BY <1>1 DEF Now, InHand
<1>8. handler' \in {"act", "refresh", "add"} <=> wire[1].what # "ignored"
  BY <1>1, <1>3
<1>9. InHand' /\ presence'.nick = m <=> 1 \in Coming(m)
  <2>1. 1 \in 1 .. Len(wire)
    BY <1>3
  <2>2. InHand' <=> wire[1].what # "ignored" /\ wire[1].visit > since[manager]
    BY <1>1, <1>3, <1>8 DEF InHand
  <2> QED
    BY <1>3, <2>1, <2>2 DEF Coming, Counts
<1>10. Now(m)' = IF 1 \in Coming(m) THEN RankIn(wire[1]) ELSE roster[manager][m]
  <2>1. RankIn(presence)' = RankIn(wire[1])
    BY <1>3 DEF RankIn
  <2> QED
    BY <1>1, <1>9, <2>1 DEF Now
<1> QED
  BY <1>3, <1>5, <1>6, <1>7, <1>10

\* What the presences say stays true when the first one is in hand.
LEMMA HandleManager ==
  ASSUME TypeOK, ManagerInv, manager \in Rooms, manager # NoRoom, HandlePresence
  PROVE  ManagerInv'
<1>0. PICK L \in Nat : L = Len(wire)
  BY WireFacts
<1>1. /\ UNCHANGED <<manager, since, stay, roster, selfOccupant, listed, joined,
                     occupants, inside, due, renamed>>
      /\ handler = "idle" /\ found' = manager
      /\ handler' = IF presence'.what = "ignored" THEN "idle"
                    ELSE IF presence'.what # "here" \/ presence'.nick # Me THEN "act"
                    ELSE IF Knows(manager, Me) THEN "refresh" ELSE "add"
  BY Zenon DEF HandlePresence, room, server, history
<1>2. ASSUME NEW m \in Nicks
      PROVE  /\ Coming(m)' = {i \in 1 .. (L - 1) : i + 1 \in Coming(m)}
             /\ Now(m)' = IF 1 \in Coming(m) THEN RankIn(wire[1]) ELSE Now(m)
  BY <1>0, HandleShifts
<1>3. /\ L > 0 /\ Len(wire') = L - 1 /\ presence' = wire[1]
      /\ \A i \in 1 .. (L - 1) : wire'[i] = wire[i + 1]
      /\ Me \in Nicks
  BY <1>0, HandleShifts DEF Nicks
<1>4. ASSUME NEW m \in Nicks
      PROVE  /\ Coming(m) \subseteq 1 .. L
             /\ \A i \in Coming(m) : i = 1 \/ (i - 1 \in Coming(m)' /\ (IsHere(i - 1)' <=> IsHere(i)))
             /\ \A i \in Coming(m)' : i \in 1 .. (L - 1) /\ i + 1 \in Coming(m) /\ (IsHere(i)' <=> IsHere(i + 1))
  <2>1. Coming(m) \subseteq 1 .. L
    BY <1>0 DEF Coming
  <2>2. \A i \in 1 .. (L - 1) : IsHere(i)' <=> IsHere(i + 1)
    BY <1>3 DEF IsHere
  <2>3. ASSUME NEW i \in Coming(m), i # 1
        PROVE  i - 1 \in Coming(m)' /\ (IsHere(i - 1)' <=> IsHere(i))
    <3>1. i - 1 \in 1 .. (L - 1) /\ (i - 1) + 1 = i
      BY <2>1, <2>3
    <3> QED
      BY <1>2, <2>2, <3>1
  <2>4. \A i \in Coming(m)' : i \in 1 .. (L - 1) /\ i + 1 \in Coming(m)
    BY <1>2
  <2> QED
    BY <2>1, <2>2, <2>3, <2>4
<1>5. IsHere(1) /\ 1 \in Coming(Me) => OwnIsSet'
  BY <1>1, <1>3 DEF IsHere, Coming, Counts, OwnIsSet
<1>6. OwnIsSet => OwnIsSet'
  BY <1>1 DEF OwnIsSet
<1>7. ASSUME NEW i \in Nat, OwnIsSet \/ OwnComing(i + 1) PROVE OwnIsSet' \/ OwnComing(i)'
  <2>1. CASE OwnIsSet
    BY <1>6, <2>1
  <2>2. ASSUME NEW l \in Coming(Me), l < i + 1, IsHere(l) PROVE OwnIsSet' \/ OwnComing(i)'
    <3>1. CASE l = 1
      BY <1>5, <2>2, <3>1
    <3>2. CASE l # 1
      <4>1. l - 1 \in Coming(Me)' /\ IsHere(l - 1)'
        BY <1>3, <1>4, <2>2, <3>2
      <4>2. l - 1 < i
        BY <1>3, <1>4, <2>2
      <4> QED
        BY <4>1, <4>2 DEF OwnComing
    <3> QED
      BY <3>1, <3>2
  <2> QED
    BY <1>7, <2>1, <2>2 DEF OwnComing
<1>8. FreshRoom' /\ OwnListed'
  BY <1>1 DEF ManagerInv, FreshRoom, OwnListed
<1>9. ASSUME NEW m \in Nicks PROVE Sound(m)'
  <2>1. Sound(m)
    BY DEF ManagerInv
  <2>2. ASSUME NEW i \in Coming(m)'
        PROVE  IsHere(i)' \/ Now(m)' # "absent" \/ \E l \in Coming(m)' : l < i /\ IsHere(l)'
    <3>1. i \in Nat /\ i > 0 /\ i + 1 \in Coming(m) /\ (IsHere(i)' <=> IsHere(i + 1))
      BY <1>4, <2>2
    <3>2. CASE 1 \in Coming(m) /\ IsHere(1)
      <4>1. RankIn(wire[1]) # "absent"
        BY <1>0, <1>3, <3>2, WireFacts DEF RankIn, IsHere
      <4> QED
        BY <1>2, <3>2, <4>1
    <3>3. CASE 1 \in Coming(m) /\ ~IsHere(1)
      <4>1. IsHere(i + 1) \/ \E l \in Coming(m) : 1 < l /\ l < i + 1 /\ IsHere(l)
        BY <2>1, <3>1, <3>3 DEF Sound
      <4>2. ASSUME NEW l \in Coming(m), 1 < l, l < i + 1, IsHere(l)
            PROVE  l - 1 \in Coming(m)' /\ l - 1 < i /\ IsHere(l - 1)'
        BY <1>4, <3>1, <4>2
      <4> QED
        BY <3>1, <4>1, <4>2
    <3>4. CASE 1 \notin Coming(m)
      <4>1. IsHere(i + 1) \/ Now(m) # "absent" \/ \E l \in Coming(m) : l < i + 1 /\ IsHere(l)
        BY <2>1, <3>1 DEF Sound
      <4>2. ASSUME NEW l \in Coming(m), l < i + 1, IsHere(l)
            PROVE  l - 1 \in Coming(m)' /\ l - 1 < i /\ IsHere(l - 1)'
        BY <1>4, <3>1, <3>4, <4>2
      <4> QED
        BY <1>2, <3>1, <3>4, <4>1, <4>2
    <3> QED
      BY <3>2, <3>3, <3>4
  <2>3. ASSUME NEW i \in Coming(m)', NEW j \in Coming(m)', i < j
        PROVE  IsHere(i)' \/ IsHere(j)' \/ \E l \in Coming(m)' : i < l /\ l < j /\ IsHere(l)'
    <3>1. /\ i \in Nat /\ i + 1 \in Coming(m) /\ (IsHere(i)' <=> IsHere(i + 1))
          /\ j \in Nat /\ j + 1 \in Coming(m) /\ (IsHere(j)' <=> IsHere(j + 1))
          /\ i + 1 < j + 1
      BY <1>4, <2>3
    <3>2. IsHere(i + 1) \/ IsHere(j + 1) \/ \E l \in Coming(m) : i + 1 < l /\ l < j + 1 /\ IsHere(l)
      BY <2>1, <3>1 DEF Sound
    <3>3. ASSUME NEW l \in Coming(m), i + 1 < l, l < j + 1, IsHere(l)
          PROVE  l - 1 \in Coming(m)' /\ i < l - 1 /\ l - 1 < j /\ IsHere(l - 1)'
      <4>1. l \in Nat /\ l # 1
        BY <1>4, <3>1, <3>3
      <4> QED
        BY <1>4, <3>1, <3>3, <4>1
    <3> QED
      BY <3>1, <3>2, <3>3
  <2> QED
    BY <2>2, <2>3 DEF Sound
<1>10. OwnFirst'
  <2>1. ASSUME NEW i \in 1 .. (L - 1), Counts(wire[i])', wire'[i].what \in NeedsOwn
        PROVE  OwnIsSet' \/ OwnComing(i)'
    <3>1. i + 1 \in 1 .. L /\ Counts(wire[i + 1]) /\ wire[i + 1].what \in NeedsOwn
      BY <1>1, <1>3, <2>1 DEF Counts
    <3>2. OwnIsSet \/ OwnComing(i + 1)
      BY <1>0, <3>1 DEF ManagerInv, OwnFirst
    <3> QED
      BY <1>7, <3>2
  <2> QED
    BY <1>3, <2>1 DEF OwnFirst
<1>11. ASSUME inside # "absent", since[manager] < stay PROVE AllPresent'
  <2>1. (\A m \in Nicks : Present(m)) /\ (due = {} => OwnIsSet \/ OwnComing(L + 1))
    BY <1>0, <1>11 DEF ManagerInv, AllPresent
  <2>2. ASSUME NEW m \in Nicks PROVE Present(m)'
    <3>1. Target(m)' = Target(m) /\ Present(m)
      BY <1>1, <2>1 DEF Target
    <3>2. SUFFICES ASSUME Target(m) # "absent"
                   PROVE  /\ Now(m)' # "absent" \/ \E l \in Coming(m)' : IsHere(l)'
                          /\ \A i \in Coming(m)' : IsHere(i)' \/ \E l \in Coming(m)' : i < l /\ IsHere(l)'
      BY <3>1 DEF Present
    <3>3. ASSUME NEW i \in Coming(m)'
          PROVE  IsHere(i)' \/ \E l \in Coming(m)' : i < l /\ IsHere(l)'
      <4>1. i \in Nat /\ i + 1 \in Coming(m) /\ (IsHere(i)' <=> IsHere(i + 1))
        BY <1>4, <3>3
      <4>2. IsHere(i + 1) \/ \E l \in Coming(m) : i + 1 < l /\ IsHere(l)
        BY <3>1, <3>2, <4>1 DEF Present
      <4>3. ASSUME NEW l \in Coming(m), i + 1 < l, IsHere(l)
            PROVE  l - 1 \in Coming(m)' /\ i < l - 1 /\ IsHere(l - 1)'
        BY <1>4, <4>1, <4>3
      <4> QED
        BY <4>1, <4>2, <4>3
    <3>4. Now(m)' # "absent" \/ \E l \in Coming(m)' : IsHere(l)'
      <4>1. CASE 1 \in Coming(m) /\ IsHere(1)
        <5>1. RankIn(wire[1]) # "absent"
          BY <1>0, <1>3, <4>1, WireFacts DEF RankIn, IsHere
        <5> QED
          BY <1>2, <4>1, <5>1
      <4>2. CASE 1 \in Coming(m) /\ ~IsHere(1)
        <5>1. PICK l \in Coming(m) : 1 < l /\ IsHere(l)
          BY <3>1, <3>2, <4>2 DEF Present
        <5>2. l - 1 \in Coming(m)' /\ IsHere(l - 1)'
          BY <1>4, <5>1
        <5> QED
          BY <5>2
      <4>3. CASE 1 \notin Coming(m)
        <5>1. Now(m) # "absent" \/ \E l \in Coming(m) : IsHere(l)
          BY <3>1, <3>2 DEF Present
        <5>2. \A l \in Coming(m) : IsHere(l) => l - 1 \in Coming(m)' /\ IsHere(l - 1)'
          BY <1>4, <4>3
        <5> QED
          BY <1>2, <4>3, <5>1, <5>2
      <4> QED
        BY <4>1, <4>2, <4>3
    <3> QED
      BY <3>3, <3>4
  <2>3. due' = {} => OwnIsSet' \/ OwnComing(L)'
    BY <1>1, <1>7, <2>1
  <2>4. Len(wire') + 1 = L
    BY <1>3
  <2> QED
    BY <2>2, <2>3, <2>4 DEF AllPresent
<1>12. ASSUME inside # "absent", stay = since[manager] + 1
       PROVE  JoinedOnce' /\ \A m \in Nicks : Agrees(m)'
  <2>1. JoinedOnce /\ \A m \in Nicks : Agrees(m)
    BY <1>12 DEF ManagerInv, AllAgree
  <2>2. JoinedOnce'
    BY <1>1, <2>1 DEF JoinedOnce
  <2>3. ASSUME NEW m \in Nicks PROVE Agrees(m)'
    <3>1. \A r : Fits(m, r)' <=> Fits(m, r)
      BY <1>1 DEF Fits, Target
    <3>2. Target(m)' = Target(m) /\ renamed' = renamed
      BY <1>1 DEF Target
    <3>3. ASSUME Coming(m)' = {} PROVE Fits(m, Now(m))'
      <4>1. \A i \in Coming(m) : i = 1
        BY <1>4, <3>3
      <4>2. CASE 1 \in Coming(m)
        <5>1. Fits(m, RankIn(wire[1]))
          BY <2>1, <4>1, <4>2 DEF Agrees
        <5> QED
          BY <1>2, <3>2, <4>2, <5>1 DEF Fits
      <4>3. CASE 1 \notin Coming(m)
        <5>1. Coming(m) = {}
          BY <4>1, <4>3
        <5>2. Fits(m, Now(m)) /\ Now(m)' = Now(m)
          BY <1>2, <2>1, <4>3, <5>1 DEF Agrees
        <5> QED
          BY <3>2, <5>2 DEF Fits
      <4> QED
        BY <4>2, <4>3
    <3>4. ASSUME NEW i \in Coming(m)', \A j \in Coming(m)' : j <= i
          PROVE  Fits(m, RankIn(wire[i]))'
      <4>1. i \in 1 .. (L - 1) /\ i + 1 \in Coming(m)
        BY <1>4, <3>4
      <4>2. ASSUME NEW j \in Coming(m) PROVE j <= i + 1
        <5>1. j \in 1 .. L /\ (j = 1 \/ j - 1 \in Coming(m)')
          BY <1>4, <4>2
        <5>2. j - 1 \in Coming(m)' => j - 1 <= i
          BY <3>4
        <5> QED
          BY <4>1, <5>1, <5>2
      <4>3. Fits(m, RankIn(wire[i + 1])) /\ wire'[i] = wire[i + 1]
        BY <1>3, <2>1, <4>1, <4>2 DEF Agrees
      <4> QED
        BY <3>2, <4>3 DEF Fits, RankIn
    <3> QED
      BY <3>3, <3>4 DEF Agrees
  <2> QED
    BY <2>2, <2>3
<1>13. AllPresent' /\ AllAgree'
  BY <1>1, <1>11, <1>12 DEF AllPresent, AllAgree
<1> QED
  BY <1>8, <1>9, <1>10, <1>13 DEF ManagerInv

\* What the handler finds when it takes a presence is in order.
LEMMA HandleHand ==
  ASSUME TypeOK, RosterInv, HandlePresence
  PROVE  HandInv'
<1>1. /\ handler = "idle" /\ presence' = Head(wire) /\ found' = manager
      /\ handler' = IF manager = NoRoom \/ presence'.what = "ignored" THEN "idle"
                    ELSE IF presence'.what # "here" \/ presence'.nick # Me THEN "act"
                    ELSE IF Knows(manager, Me) THEN "refresh" ELSE "add"
      /\ UNCHANGED <<manager, made, roster, selfOccupant, listed, joined, due, since, mixed>>
  BY Zenon DEF HandlePresence, room, server, history
<1>2. HandInv
  BY DEF RosterInv
<1>3. handler' = "add" => found' \notin listed'
  BY <1>1, <1>2 DEF HandInv, Knows
<1>4. ASSUME manager # NoRoom, manager \notin mixed
      PROVE  /\ handler' = "refresh" => found' \in listed'
             /\ handler' = "act" /\ presence'.visit > since[manager] =>
                   /\ presence'.what = "kicked" => Known(found)'
                   /\ presence'.what \in NeedsOwn => selfOccupant[manager] # "unset"
  <2>1. ManagerInv
    BY <1>4 DEF RosterInv
  <2>2. handler' = "refresh" => found' \in listed'
    BY <1>1, <2>1 DEF ManagerInv, OwnListed, Knows
  <2>3. ASSUME handler' = "act", presence'.visit > since[manager]
        PROVE  /\ presence'.what = "kicked" => Known(found)'
               /\ presence'.what \in NeedsOwn => selfOccupant[manager] # "unset"
    <3>1. /\ Me \in Nicks /\ Len(wire) \in Nat \ {0} /\ presence' = wire[1]
          /\ presence' \in Presence /\ presence'.nick \in Nicks
      <4>1. Me \in Nicks
        BY DEF Nicks
      <4>2. Len(wire) \in Nat \ {0} /\ presence' = wire[1]
        BY <1>4, <4>1, HandleShifts
      <4> QED
        BY <4>1, <4>2, WireFacts
    <3>2. presence'.what # "ignored"
      BY <1>1, <2>3
    <3>3. 1 \in 1 .. Len(wire) /\ Counts(wire[1])
      BY <2>3, <3>1, <3>2 DEF Counts
    <3>4. ASSUME presence'.what = "kicked" PROVE Known(found)'
      <4>1. 1 \in Coming(presence'.nick) /\ ~IsHere(1)
        BY <3>1, <3>3, <3>4 DEF Coming, IsHere
      <4>2. Sound(presence'.nick)
        BY <2>1, <3>1 DEF ManagerInv
      <4>3. \A l \in Coming(presence'.nick) : ~(l < 1)
        BY DEF Coming
      <4>4. Now(presence'.nick) # "absent"
        BY <4>1, <4>2, <4>3 DEF Sound
      <4>5. Now(presence'.nick) = roster[manager][presence'.nick]
        BY <1>1 DEF Now, InHand
      <4> QED
        BY <1>1, <4>4, <4>5 DEF Known, Knows
    <3>5. ASSUME presence'.what \in NeedsOwn PROVE selfOccupant[manager] # "unset"
      <4>1. OwnIsSet \/ OwnComing(1)
        BY <2>1, <3>1, <3>3, <3>5 DEF ManagerInv, OwnFirst
      <4>2. ~OwnComing(1)
        BY DEF OwnComing, Coming
      <4> QED
        BY <1>1, <4>1, <4>2 DEF OwnIsSet
    <3> QED
      BY <3>4, <3>5
  <2> QED
    BY <2>2, <2>3
<1>5. handler' # "idle" => manager # NoRoom
  BY <1>1
<1>6. handler' \in {"refresh", "add", "adopt"} => presence'.nick = Me /\ presence'.what = "here"
  BY <1>1
<1>7. handler' = "act" /\ presence'.what = "here" => presence'.nick # Me
  BY <1>1
<1>8. handler' # "adopt"
  BY <1>1
<1> QED
  BY <1>1, <1>2, <1>3, <1>4, <1>5, <1>6, <1>7, <1>8 DEF HandInv

\* A handler that does to the roster what the presence in hand said
LEMMA RosterActs ==
  ASSUME ManagerInv, manager \in Rooms,
         UNCHANGED <<manager, wire, stay, inside, due, occupants, renamed>>,
         since'[manager] = since[manager], \A n \in Nicks : Now(n)' = Now(n),
         OwnIsSet => OwnIsSet', FreshRoom', OwnListed',
         inside # "absent" /\ stay = since[manager] + 1 /\ JoinedOnce => JoinedOnce'
  PROVE  ManagerInv'
<1>1. \A n \in Nicks : Coming(n)' = Coming(n) /\ Target(n)' = Target(n)
  BY DEF Coming, Counts, Target
<1>2. \A i : IsHere(i)' <=> IsHere(i)
  BY DEF IsHere
<1>3. ASSUME NEW n \in Nicks
      PROVE  (Sound(n) => Sound(n)') /\ (Present(n) => Present(n)')
  BY <1>1, <1>2 DEF Sound, Present
<1>4. ASSUME NEW n \in Nicks, Agrees(n) PROVE Agrees(n)'
  BY <1>1, <1>4 DEF Agrees, Fits, RankIn
<1>5. OwnFirst' /\ (OwnComing(Len(wire) + 1) => OwnComing(Len(wire) + 1)')
  BY DEF ManagerInv, OwnFirst, OwnComing, Coming, Counts, IsHere
<1>6. AllPresent'
  BY <1>3, <1>5 DEF ManagerInv, AllPresent
<1>7. AllAgree'
  BY <1>4 DEF ManagerInv, AllAgree
<1> QED
  BY <1>3, <1>5, <1>6, <1>7 DEF ManagerInv

\* What updating or removing an occupant does to every room and nickname
LEMMA UpdateFacts ==
  ASSUME TypeOK, NEW r \in Rooms, UpdateOrAddOccupant(r)
  PROVE  /\ \A s \in Rooms, n \in Nicks :
                roster'[s][n] = IF s = r /\ n = presence.nick THEN presence.rank ELSE roster[s][n]
         /\ \A s \in Rooms : s # r => roster'[s] = roster[s]
         /\ \A s \in Rooms : selfOccupant'[s] =
                IF s = r /\ r \in listed /\ presence.nick = Me THEN presence.rank ELSE selfOccupant[s]
         /\ mixed \subseteq mixed' /\ (presence.visit <= since[r] => r \in mixed')
<1>1. roster' = [roster EXCEPT ![r][presence.nick] = presence.rank]
      /\ roster \in [Rooms -> [Nicks -> Ranks \union {"absent", "none"}]]
  BY Zenon DEF UpdateOrAddOccupant, TypeOK
<1>2. \A s \in Rooms : s # r => roster'[s] = roster[s]
  BY <1>1
<1>3. \A n \in Nicks : roster'[r][n] = IF n = presence.nick THEN presence.rank ELSE roster[r][n]
  BY <1>1
<1> QED
  BY <1>2, <1>3 DEF UpdateOrAddOccupant, MixedBy, TypeOK

\* What removing the occupant of a presence changes: its own entry of one room,
\* and the own occupant if it is the user.
LEMMA RemoveFacts ==
  ASSUME TypeOK, NEW r \in Rooms, RemoveOccupant(r)
  PROVE  /\ \A s \in Rooms, n \in Nicks :
                roster'[s][n] = IF s = r /\ n = presence.nick THEN "absent" ELSE roster[s][n]
         /\ \A s \in Rooms : s # r => roster'[s] = roster[s]
         /\ \A s \in Rooms : selfOccupant'[s] =
                IF s = r /\ r \in listed /\ presence.nick = Me THEN "none" ELSE selfOccupant[s]
         /\ listed' = IF presence.nick = Me THEN listed \ {r} ELSE listed
         /\ mixed \subseteq mixed' /\ (presence.visit <= since[r] => r \in mixed')
<1>1. roster' = [roster EXCEPT ![r][presence.nick] = "absent"]
      /\ roster \in [Rooms -> [Nicks -> Ranks \union {"absent", "none"}]]
  BY Zenon DEF RemoveOccupant, TypeOK
<1>2. \A s \in Rooms : s # r => roster'[s] = roster[s]
  BY <1>1
<1>3. \A n \in Nicks : roster'[r][n] = IF n = presence.nick THEN "absent" ELSE roster[r][n]
  BY <1>1
<1> QED
  BY <1>2, <1>3 DEF RemoveOccupant, MixedBy, TypeOK

\* Somebody else's presence
LEMMA UpdateStep ==
  ASSUME TypeOK, RemovalInv, RosterInv, HandleOccupantUpdate
  PROVE  RosterInv'
<1>1. /\ handler = "act" /\ handler' = "idle" /\ presence.what = "here"
      /\ UpdateOrAddOccupant(found)
      /\ UNCHANGED <<manager, made, listed, joined, presence, found, wire, since, renamed,
                     occupants, inside, stay, due>>
  BY Zenon DEF HandleOccupantUpdate, network, server
<1>2. HandInv /\ presence.nick # Me /\ found \in Rooms /\ Me \in Nicks
  BY <1>1, RoomsInUse DEF RosterInv, HandInv, Nicks
<1>3. /\ \A s \in Rooms, n \in Nicks :
             roster'[s][n] = IF s = found /\ n = presence.nick THEN presence.rank ELSE roster[s][n]
      /\ \A s \in Rooms : s # found => roster'[s] = roster[s]
      /\ \A s \in Rooms : selfOccupant'[s] = selfOccupant[s]
      /\ mixed \subseteq mixed' /\ (presence.visit <= since[found] => found \in mixed')
  BY <1>1, <1>2, UpdateFacts
<1>4. HandInv'
  <2>1. \A r \in listed' : roster'[r][Me] # "absent" /\ selfOccupant'[r] = roster'[r][Me]
    BY <1>1, <1>2, <1>3 DEF HandInv, TypeOK
  <2>2. \A r \in Rooms : r > made => r # found
    BY DEF TypeOK, Rooms
  <2>3. \A r \in Rooms : r > made' =>
            roster'[r] = [n \in Nicks |-> "absent"] /\ r \notin listed' /\ joined'[r] = 0
    BY <1>1, <1>2, <1>3, <2>2 DEF HandInv
  <2> QED
    BY <1>1, <1>2, <2>1, <2>3 DEF HandInv
<1>5. ASSUME manager # NoRoom, manager \notin mixed' PROVE ManagerInv'
  <2>1. ManagerInv /\ manager \in Rooms
    BY <1>3, <1>5, RoomsInUse DEF RosterInv
  <2>2. stay \in Nat /\ since[manager] \in Nat /\ presence.visit \in Nat /\ presence.visit <= stay
    BY <2>1, WireFacts DEF RemovalInv, Over
  <2>3. found = manager => InHand
    BY <1>1, <1>3, <1>5, <2>2 DEF InHand
  <2>4. \A n \in Nicks : Now(n)' = Now(n)
    BY <1>1, <1>2, <1>3, <2>1, <2>3 DEF Now, InHand, RankIn
  <2>5. OwnIsSet => OwnIsSet'
    BY <1>1, <1>3, <2>1 DEF OwnIsSet
  <2>6. FreshRoom'
    <3>1. CASE found = manager
      BY <1>1, <2>2, <2>3, <3>1 DEF FreshRoom, InHand
    <3>2. CASE found # manager
      BY <1>1, <1>3, <2>1, <3>2 DEF ManagerInv, FreshRoom
    <3> QED
      BY <3>1, <3>2
  <2>7. OwnListed'
    BY <1>1, <1>2, <1>3, <2>1 DEF ManagerInv, OwnListed
  <2> QED
    BY <1>1, <2>1, <2>4, <2>5, <2>6, <2>7, RosterActs DEF JoinedOnce
<1> QED
  BY <1>1, <1>4, <1>5 DEF RosterInv, CrashNeedsMixedRoom

\* The user's own presence, put in the roster of the room the manager has by then
LEMMA SelfUpdateStep ==
  ASSUME TypeOK, RemovalInv, RosterInv, SelfOccupantUpdate
  PROVE  RosterInv'
<1>1. /\ handler \in {"refresh", "add"} /\ handler' = IF handler = "add" THEN "adopt" ELSE "idle"
      /\ IF manager = NoRoom THEN UNCHANGED <<roster, selfOccupant, mixed>>
         ELSE UpdateOrAddOccupant(manager)
      /\ UNCHANGED <<manager, made, listed, joined, presence, found, wire, since, renamed,
                     occupants, inside, stay, due>>
  BY Zenon DEF SelfOccupantUpdate, network, server
<1>2. HandInv /\ presence.nick = Me /\ presence.what = "here" /\ Me \in Nicks
      /\ presence.rank # "absent" /\ presence.rank # "unset"
  BY <1>1, WireFacts DEF RosterInv, HandInv, Nicks
<1>3. CASE manager = NoRoom
  <2>1. UNCHANGED <<roster, selfOccupant, mixed>>
    BY <1>1, <1>3
  <2>2. HandInv'
    BY <1>1, <1>2, <1>3, <2>1 DEF HandInv
  <2> QED
    BY <1>1, <1>3, <2>2 DEF RosterInv, CrashNeedsMixedRoom
<1>4. CASE manager # NoRoom
  <2>1. manager \in Rooms /\ UpdateOrAddOccupant(manager)
    BY <1>1, <1>4, RoomsInUse
  <2>2. /\ \A s \in Rooms, n \in Nicks :
               roster'[s][n] = IF s = manager /\ n = presence.nick THEN presence.rank ELSE roster[s][n]
        /\ \A s \in Rooms : s # manager => roster'[s] = roster[s]
        /\ \A s \in Rooms : selfOccupant'[s] =
               IF s = manager /\ manager \in listed /\ presence.nick = Me
               THEN presence.rank ELSE selfOccupant[s]
        /\ mixed \subseteq mixed' /\ (presence.visit <= since[manager] => manager \in mixed')
    BY <2>1, UpdateFacts
  <2>3. HandInv'
    <3>1. \A r \in listed' : roster'[r][Me] # "absent" /\ selfOccupant'[r] = roster'[r][Me]
      BY <1>1, <1>2, <2>2 DEF HandInv, TypeOK
    <3>2. \A r \in Rooms : r > made => r # manager
      BY DEF TypeOK, Rooms
    <3>3. \A r \in Rooms : r > made' =>
              roster'[r] = [n \in Nicks |-> "absent"] /\ r \notin listed' /\ joined'[r] = 0
      BY <1>1, <1>2, <2>1, <2>2, <3>2 DEF HandInv
    <3> QED
      BY <1>1, <1>2, <3>1, <3>3 DEF HandInv
  <2>4. ASSUME manager \notin mixed' PROVE ManagerInv'
    <3>1. ManagerInv /\ presence.visit \in Nat /\ since[manager] \in Nat /\ stay \in Nat
          /\ presence.visit <= stay
      BY <1>4, <2>1, <2>2, <2>4, WireFacts DEF RosterInv, RemovalInv, Over
    <3>2. presence.visit > since[manager]
      BY <2>2, <2>4, <3>1
    <3>3. found = manager /\ InHand
      BY <1>1, <1>2, <1>4, <3>1, <3>2 DEF HandInv, InHand
    <3>4. \A n \in Nicks : Now(n)' = Now(n)
      BY <1>1, <1>2, <2>1, <2>2, <3>3 DEF Now, InHand, RankIn
    <3>5. FreshRoom'
      BY <1>1, <3>1, <3>2 DEF FreshRoom
    <3>6. handler = "refresh" => manager \in listed
      BY <1>2, <2>2, <2>4, <3>3 DEF HandInv
    <3>7. OwnListed'
      BY <1>1, <1>2, <2>1, <2>2, <3>3, <3>6 DEF OwnListed
    <3>8. OwnIsSet'
      BY <1>1, <1>2, <2>1, <2>2, <3>2, <3>3, <3>6 DEF OwnIsSet
    <3> QED
      BY <1>1, <2>1, <3>1, <3>4, <3>5, <3>7, <3>8, RosterActs DEF JoinedOnce
  <2> QED
    BY <1>1, <2>3, <2>4 DEF RosterInv, CrashNeedsMixedRoom
<1> QED
  BY <1>3, <1>4

\* The user's occupant of the room the handler found
LEMMA AdoptStep ==
  ASSUME TypeOK, RemovalInv, RosterInv, AddSelfOccupant
  PROVE  RosterInv'
<1>1. /\ handler = "adopt" /\ handler' = "idle"
      /\ mixed' = mixed \union {r \in {found, manager} \ {NoRoom} : presence.visit <= since[r]}
      /\ joined' = IF manager # NoRoom /\ joined[manager] < 2
                   THEN [joined EXCEPT ![manager] = @ + 1] ELSE joined
      /\ UNCHANGED <<manager, made, roster, presence, found, wire, since, renamed,
                     occupants, inside, stay, due>>
  BY Zenon DEF AddSelfOccupant, network, server
<1>2. HandInv /\ found \in Rooms /\ Me \in Nicks /\ found \notin listed
  BY <1>1, RoomsInUse DEF RosterInv, HandInv, Nicks
<1>3. /\ \A r \in Rooms : r # found => selfOccupant'[r] = selfOccupant[r] /\ (r \in listed' <=> r \in listed)
      /\ found \in listed' <=> roster[found][Me] # "absent"
      /\ roster[found][Me] # "absent" => selfOccupant'[found] = roster[found][Me]
  BY <1>2 DEF AddSelfOccupant, TypeOK
<1>4. HandInv'
  <2>1. listed' \subseteq Rooms
    BY <1>2 DEF AddSelfOccupant, TypeOK
  <2>2. \A r \in listed' : roster'[r][Me] # "absent" /\ selfOccupant'[r] = roster'[r][Me]
    BY <1>1, <1>2, <1>3, <2>1 DEF HandInv
  <2>3. found <= made /\ manager <= made
    BY DEF TypeOK
  <2>4. \A r \in Rooms : r > made => joined'[r] = joined[r]
    BY <1>1, <2>3 DEF TypeOK, Rooms
  <2>5. \A r \in Rooms : r > made' =>
            roster'[r] = [n \in Nicks |-> "absent"] /\ r \notin listed' /\ joined'[r] = 0
    BY <1>1, <1>2, <1>3, <2>3, <2>4 DEF HandInv, Rooms
  <2> QED
    BY <1>1, <1>2, <2>2, <2>5 DEF HandInv
<1>5. ASSUME manager # NoRoom, manager \notin mixed' PROVE ManagerInv'
  <2>1. ManagerInv /\ manager \in Rooms
    BY <1>1, <1>5, RoomsInUse DEF RosterInv
  <2>2. stay \in Nat /\ since[manager] \in Nat /\ presence.visit \in Nat /\ presence.visit <= stay
    BY <2>1, WireFacts DEF RemovalInv, Over
  <2>3. presence.visit > since[manager]
    BY <1>1, <1>5, <2>2
  <2>4. found = manager
    BY <1>1, <1>2, <1>5, <2>2, <2>3 DEF HandInv
  <2>5. roster[manager][Me] # "absent" /\ manager \in listed'
    BY <1>1, <1>3, <2>1, <2>4 DEF ManagerInv, OwnListed
  <2>6. \A n \in Nicks : Now(n)' = Now(n)
    BY <1>1 DEF Now, InHand
  <2>7. FreshRoom'
    BY <1>1, <2>2, <2>3 DEF FreshRoom
  <2>8. OwnListed'
    BY <1>1, <2>5 DEF OwnListed
  <2>9. OwnIsSet'
    <3>1. roster[manager][Me] \in Ranks \union {"absent", "none"}
      BY <1>2, <2>1 DEF TypeOK
    <3>2. selfOccupant'[manager] # "unset"
      BY <1>3, <2>4, <2>5, <3>1, RoomsAssumption
    <3> QED
      BY <1>1, <3>2 DEF OwnIsSet
  <2>10. JoinedOnce => JoinedOnce'
    <3>1. JoinedOnce => joined[manager] = 0
      BY <1>2, <2>4 DEF JoinedOnce
    <3>2. joined[manager] = 0 => joined'[manager] = 1
      BY <1>1, <1>5, <2>1 DEF TypeOK
    <3> QED
      BY <1>1, <2>5, <3>1, <3>2 DEF JoinedOnce
  <2> QED
    BY <1>1, <2>1, <2>6, <2>7, <2>8, <2>9, <2>10, RosterActs
<1> QED
  BY <1>1, <1>4, <1>5 DEF RosterInv, CrashNeedsMixedRoom

\* A removal, which also drops the room or ends in a crash
LEMMA RemoveStep ==
  ASSUME TypeOK, RemovalInv, RosterInv, handler = "act", presence.what \in Departures,
         RemoveOccupant(found), manager' \in {manager, NoRoom}, handler' \in {"idle", "crashed"},
         UNCHANGED <<presence, found, made, joined, wire, since, renamed,
                     occupants, inside, stay, due>>,
         handler' = "crashed" =>
             \/ presence.what = "kicked" /\ ~Known(found)
             \/ presence.what \in NeedsOwn /\ selfOccupant[found] = "unset"
  PROVE  RosterInv'
<1>1. presence.what # "here"
  BY DEF Departures
<1>2. HandInv /\ found \in Rooms /\ Me \in Nicks
  BY RoomsInUse DEF RosterInv, Nicks
<1>3. /\ \A s \in Rooms, n \in Nicks :
             roster'[s][n] = IF s = found /\ n = presence.nick THEN "absent" ELSE roster[s][n]
      /\ \A s \in Rooms : s # found => roster'[s] = roster[s]
      /\ \A s \in Rooms : selfOccupant'[s] =
             IF s = found /\ found \in listed /\ presence.nick = Me THEN "none" ELSE selfOccupant[s]
      /\ listed' = IF presence.nick = Me THEN listed \ {found} ELSE listed
      /\ mixed \subseteq mixed' /\ (presence.visit <= since[found] => found \in mixed')
  BY <1>2, RemoveFacts
<1>4. stay \in Nat /\ presence.visit \in Nat /\ presence.visit <= stay /\ \A r \in Rooms : since[r] \in Nat
  BY WireFacts DEF RemovalInv, Over
<1>5. HandInv'
  <2>1. \A r \in listed' : roster'[r][Me] # "absent" /\ selfOccupant'[r] = roster'[r][Me]
    <3>1. ASSUME NEW r \in listed' PROVE roster'[r][Me] # "absent" /\ selfOccupant'[r] = roster'[r][Me]
      <4>1. r \in listed /\ r \in Rooms /\ (r = found => presence.nick # Me)
        BY <1>3, <3>1 DEF TypeOK
      <4> QED
        BY <1>2, <1>3, <4>1 DEF HandInv
    <3> QED
      BY <3>1
  <2>2. \A r \in Rooms : r > made => r # found
    BY DEF TypeOK, Rooms
  <2>3. \A r \in Rooms : r > made' =>
            roster'[r] = [n \in Nicks |-> "absent"] /\ r \notin listed' /\ joined'[r] = 0
    BY <1>2, <1>3, <2>2 DEF HandInv
  <2> QED
    BY <1>2, <2>1, <2>3 DEF HandInv
<1>6. CrashNeedsMixedRoom'
  <2>1. SUFFICES ASSUME handler' = "crashed", found \notin mixed' PROVE FALSE
    BY DEF CrashNeedsMixedRoom
  <2>2. presence.visit > since[found] /\ found \notin mixed
    BY <1>2, <1>3, <1>4, <2>1
  <2> QED
    BY <1>2, <2>1, <2>2 DEF HandInv
<1>7. ASSUME manager' = manager, manager # NoRoom, manager \notin mixed' PROVE ManagerInv'
  <2>1. ManagerInv /\ manager \in Rooms
    BY <1>3, <1>7, RoomsInUse DEF RosterInv
  <2>2. found = manager => presence.visit > since[manager] /\ InHand
    BY <1>3, <1>4, <1>7, <2>1 DEF InHand
  <2>3. \A n \in Nicks : Now(n)' = Now(n)
    BY <1>1, <1>2, <1>3, <1>7, <2>1, <2>2 DEF Now, InHand, RankIn
  <2>4. OwnIsSet => OwnIsSet'
    <3>1. OwnIsSet => selfOccupant[manager] # "unset"
      BY DEF OwnIsSet
    <3>2. selfOccupant[manager] # "unset" => selfOccupant'[manager] # "unset"
      BY <1>3, <2>1
    <3> QED
      BY <1>7, <3>1, <3>2 DEF OwnIsSet
  <2>5. FreshRoom'
    <3>1. CASE found = manager
      BY <1>4, <1>7, <2>1, <2>2, <3>1 DEF FreshRoom
    <3>2. CASE found # manager
      BY <1>3, <1>7, <2>1, <3>2 DEF ManagerInv, FreshRoom
    <3> QED
      BY <3>1, <3>2
  <2>6. OwnListed'
    BY <1>2, <1>3, <1>7, <2>1 DEF ManagerInv, OwnListed
  <2>7. inside # "absent" /\ stay = since[manager] + 1 /\ JoinedOnce => JoinedOnce'
    <3>1. CASE found = manager /\ presence.nick = Me
      <4>1. inside = "absent" \/ stay # presence.visit
        BY <3>1 DEF RemovalInv, Over
      <4>2. stay = since[manager] + 1 => stay = presence.visit
        BY <1>4, <2>1, <2>2, <3>1
      <4> QED
        BY <4>1, <4>2
    <3>2. CASE ~(found = manager /\ presence.nick = Me)
      BY <1>3, <1>7, <3>2 DEF JoinedOnce
    <3> QED
      BY <3>1, <3>2
  <2> QED
    BY <1>7, <2>1, <2>3, <2>4, <2>5, <2>6, <2>7, RosterActs
<1> QED
  BY <1>5, <1>6, <1>7 DEF RosterInv

\* Nothing the handler or the wire holds counts for a room made or reset now.
LEMMA NothingCounts ==
  ASSUME TypeOK, RemovalInv, UNCHANGED <<wire, presence, stay>>, manager' \in Rooms,
         since'[manager'] = visit
  PROVE  /\ stay <= visit /\ presence.visit <= visit
         /\ \A i \in 1 .. Len(wire) : ~Counts(wire[i])'
         /\ \A n \in Nicks : Coming(n)' = {}
<1>1. stay <= visit /\ presence.visit <= visit
  BY WireFacts DEF RemovalInv, VisitsInv, Over
<1>2. \A i \in 1 .. Len(wire) : wire[i].visit <= visit
  BY <1>1, WireFacts DEF RemovalInv, Over
<1>3. \A i \in 1 .. Len(wire) : ~Counts(wire[i])'
  BY <1>2, WireFacts DEF Counts
<1>4. \A n \in Nicks : Coming(n)' = {}
  BY <1>3 DEF Coming, Counts
<1> QED
  BY <1>1, <1>3, <1>4

\* Such a room has nothing to keep up with until the next visit.
LEMMA FreshManager ==
  ASSUME TypeOK, RemovalInv, UNCHANGED <<wire, presence, stay>>, manager' \in Rooms,
         since'[manager'] = visit, roster'[manager'] = [n \in Nicks |-> "absent"],
         manager' \notin listed', joined'[manager'] = 0,
         ~(handler' = "adopt" /\ found' = manager')
  PROVE  ManagerInv'
<1>1. /\ stay <= visit
      /\ \A i \in 1 .. Len(wire) : ~Counts(wire[i])'
      /\ \A n \in Nicks : Coming(n)' = {}
  BY NothingCounts
<1>2. FreshRoom'
  BY DEF FreshRoom
<1>3. OwnListed'
  BY DEF OwnListed, Nicks
<1>4. \A n \in Nicks : Sound(n)'
  BY <1>1 DEF Sound
<1>5. OwnFirst'
  BY <1>1 DEF OwnFirst
<1>6. ~(since'[manager'] < stay') /\ stay' # since'[manager'] + 1
  BY <1>1, WireFacts
<1>7. AllPresent' /\ AllAgree'
  BY <1>6 DEF AllPresent, AllAgree
<1> QED
  BY <1>2, <1>3, <1>4, <1>5, <1>7 DEF ManagerInv

\* Making a room and adding it, unless there is one already
LEMMA NewRoomStep ==
  ASSUME TypeOK, RemovalInv, RosterInv, NEW o \in Openers, NewRoom(o)
  PROVE  RosterInv'
<1>1. /\ made < MaxRooms /\ made' = made + 1
      /\ manager' = IF manager = NoRoom THEN made + 1 ELSE manager
      /\ since' = [since EXCEPT ![made + 1] = visit]
      /\ UNCHANGED <<roster, selfOccupant, listed, joined, handler, presence, found, wire,
                     occupants, inside, stay, due, mixed, renamed>>
  BY Zenon DEF NewRoom, AddRoom, handling, network, server
<1>2. made \in Nat /\ made + 1 \in Rooms /\ found # made + 1 /\ manager # made + 1
  BY <1>1, RoomsAssumption DEF TypeOK, Rooms, NoRoom
<1>3. \A r \in Rooms : r # made + 1 => since'[r] = since[r]
  BY <1>1 DEF TypeOK
<1>4. HandInv
  BY DEF RosterInv
<1>5. since'[made + 1] = visit
  BY <1>1, <1>2 DEF TypeOK
<1>6. handler # "idle" => found \in Rooms
  BY RoomsInUse
<1>7. CASE manager = NoRoom
  <2>1. manager' = made + 1
    BY <1>1, <1>7
  <2>2. presence.visit <= visit
    BY WireFacts DEF RemovalInv, VisitsInv, Over
  <2>3. \A r \in Rooms : r > made' => r > made
    BY <1>1, <1>2 DEF Rooms
  <2>4. HandInv'
    BY <1>1, <1>2, <1>3, <1>4, <1>5, <1>6, <2>1, <2>2, <2>3 DEF HandInv, Known, Knows
  <2>5. /\ roster'[manager'] = [n \in Nicks |-> "absent"] /\ manager' \notin listed'
        /\ joined'[manager'] = 0
    BY <1>1, <1>2, <1>4, <2>1 DEF HandInv
  <2>6. ManagerInv'
    BY <1>1, <1>2, <1>5, <2>1, <2>5, FreshManager
  <2> QED
    BY <1>1, <2>4, <2>6 DEF RosterInv, CrashNeedsMixedRoom
<1>8. CASE manager # NoRoom
  <2>1. manager' = manager /\ manager \in Rooms /\ since'[manager] = since[manager]
    BY <1>1, <1>2, <1>3, <1>8, RoomsInUse
  <2>2. \A r \in Rooms : r > made' => r > made
    BY <1>1, <1>2 DEF Rooms
  <2>3. HandInv'
    BY <1>1, <1>2, <1>3, <1>4, <1>6, <2>1, <2>2 DEF HandInv, Known, Knows
  <2>4. ASSUME ManagerInv PROVE ManagerInv'
    <3>1. FreshRoom' /\ OwnListed'
      BY <1>1, <2>1, <2>4 DEF ManagerInv, FreshRoom, OwnListed
    <3>2. \A n \in Nicks : Now(n)' = Now(n)
      BY <1>1, <2>1 DEF Now, InHand, RankIn
    <3>3. (OwnIsSet => OwnIsSet') /\ (JoinedOnce => JoinedOnce')
      BY <1>1, <2>1 DEF OwnIsSet, JoinedOnce
    <3> QED
      BY <1>1, <2>1, <2>4, <3>1, <3>2, <3>3, RosterActs
  <2> QED
    BY <1>1, <2>1, <2>3, <2>4 DEF RosterInv, CrashNeedsMixedRoom
<1> QED
  BY <1>7, <1>8

\* The connection goes: the user is nobody any more in the manager's room.
LEMMA DisconnectedStep ==
  ASSUME TypeOK, RosterInv, Disconnected
  PROVE  RosterInv'
<1>1. /\ wire' = <<>> /\ inside' = "absent" /\ due' = {}
      /\ selfOccupant' = [r \in Rooms |->
             IF r = manager /\ selfOccupant[r] # "unset" THEN "none" ELSE selfOccupant[r]]
      /\ roster' = [r \in Rooms |-> IF r = manager /\ r \in listed
                                    THEN [roster[r] EXCEPT ![Me] = "none"] ELSE roster[r]]
      /\ UNCHANGED <<manager, made, listed, joined, handler, presence, found, stay,
                     since, mixed, renamed>>
  BY Zenon DEF Disconnected, handling, history
<1>2. HandInv /\ Me \in Nicks
  BY DEF RosterInv, Nicks
<1>3. \A r \in Rooms : selfOccupant'[r] # "unset" <=> selfOccupant[r] # "unset"
  BY <1>1
<1>4. \A r \in Rooms, n \in Nicks :
          /\ roster'[r][n] # "absent" <=> roster[r][n] # "absent"
          /\ r \notin listed => roster'[r] = roster[r]
  BY <1>1, <1>2 DEF HandInv, TypeOK
<1>5. HandInv'
  <2>1. ASSUME NEW r \in listed' PROVE roster'[r][Me] # "absent" /\ selfOccupant'[r] = roster'[r][Me]
    <3>1. r \in listed /\ r \in Rooms
      BY <1>1, <2>1 DEF TypeOK
    <3>2. roster[r][Me] # "absent" /\ selfOccupant[r] = roster[r][Me] /\ roster[r][Me] # "unset"
      BY <1>2, <3>1, RoomsAssumption DEF HandInv, TypeOK
    <3> QED
      BY <1>1, <1>2, <3>1, <3>2 DEF TypeOK
  <2>2. \A r \in Rooms : r > made' =>
            roster'[r] = [n \in Nicks |-> "absent"] /\ r \notin listed' /\ joined'[r] = 0
    BY <1>1, <1>2, <1>4 DEF HandInv
  <2>3. ASSUME handler' = "act", found \notin mixed, presence.visit > since[found]
        PROVE  /\ presence.what = "kicked" => Known(found)'
               /\ presence.what \in NeedsOwn => selfOccupant'[found] # "unset"
    <3>1. found \in Rooms /\ presence.nick \in Nicks
      BY <1>1, <2>3, RoomsInUse, WireFacts
    <3>2. /\ presence.what = "kicked" => Known(found)
          /\ presence.what \in NeedsOwn => selfOccupant[found] # "unset"
      BY <1>1, <1>2, <2>3 DEF HandInv
    <3> QED
      BY <1>1, <1>3, <1>4, <3>1, <3>2 DEF Known, Knows
  <2> QED
    BY <1>1, <1>2, <2>1, <2>2, <2>3 DEF HandInv
<1>6. ASSUME ManagerInv, manager \in Rooms PROVE ManagerInv'
  <2>1. FreshRoom' /\ OwnListed'
    BY <1>1, <1>2, <1>4, <1>6 DEF ManagerInv, FreshRoom, OwnListed
  <2>2. Len(wire') = 0
    BY <1>1
  <2>3. \A n \in Nicks : Coming(n)' = {}
    BY <2>2 DEF Coming
  <2>4. (\A n \in Nicks : Sound(n)') /\ OwnFirst'
    BY <2>2, <2>3 DEF Sound, OwnFirst
  <2>5. AllPresent' /\ AllAgree'
    BY <1>1 DEF AllPresent, AllAgree
  <2> QED
    BY <2>1, <2>4, <2>5 DEF ManagerInv
<1> QED
  BY <1>1, <1>5, <1>6, RoomsInUse DEF RosterInv, CrashNeedsMixedRoom

\* A new connection resets the room.
LEMMA ConnectedStep ==
  ASSUME TypeOK, RemovalInv, RosterInv, Connected
  PROVE  RosterInv'
<1>1. /\ handler = "idle"
      /\ roster' = [r \in Rooms |-> IF r = manager THEN [n \in Nicks |-> "absent"] ELSE roster[r]]
      /\ listed' = listed \ {manager}
      /\ joined' = [r \in Rooms |-> IF r = manager THEN 0 ELSE joined[r]]
      /\ since' = [r \in Rooms |-> IF r = manager THEN visit ELSE since[r]]
      /\ UNCHANGED <<manager, made, selfOccupant, handler, presence, found, wire, stay, due>>
  BY Zenon DEF Connected, handling, server
<1>2. HandInv
  BY DEF RosterInv
<1>3. HandInv'
  <2>1. \A r \in listed' : roster'[r][Me] # "absent" /\ selfOccupant'[r] = roster'[r][Me]
    BY <1>1, <1>2 DEF HandInv, TypeOK
  <2>2. \A r \in Rooms : r > made' =>
            roster'[r] = [n \in Nicks |-> "absent"] /\ r \notin listed' /\ joined'[r] = 0
    BY <1>1, <1>2 DEF HandInv
  <2> QED
    BY <1>1, <1>2, <2>1, <2>2 DEF HandInv
<1>4. manager # NoRoom => ManagerInv'
  BY <1>1, RoomsInUse, FreshManager
<1> QED
  BY <1>1, <1>3, <1>4 DEF RosterInv, CrashNeedsMixedRoom

\* Entering the room: everybody in it is due to be told of.
LEMMA ServerJoinStep ==
  ASSUME TypeOK, RemovalInv, RosterInv, ServerJoin
  PROVE  RosterInv'
<1>1. /\ due' = {n \in Others : occupants[n] # "absent"} \union {Me}
      /\ stay' = Head(requests).visit /\ Head(requests).what = "join"
      /\ requests # <<>> /\ requests' = Tail(requests) /\ visit' = visit
      /\ UNCHANGED <<room, handling, wire, occupants, since, mixed, renamed>>
  BY DEF ServerJoin, Has, history
<1>2. HandInv' /\ CrashNeedsMixedRoom'
  BY <1>1, HandUntouched
<1>3. stay < stay' /\ stay \in Nat
  <2> DEFINE Kind == [what : {"join", "leave", "destroy"}, visit : Visits]
  <2>1. requests \in Seq(Kind)
    BY Zenon DEF TypeOK
  <2>2. 1 \in 1 .. Len(requests) /\ Head(requests) = requests[1]
    BY <1>1, <2>1, HeadTailProperties
  <2> QED
    BY <1>1, <2>2, WireFacts DEF RemovalInv, VisitsInv
<1>4. \A n \in Nicks : Target(n)' = "absent"
  BY <1>1 DEF Target, Nicks
<1>5. due' # {}
  BY <1>1
<1>6. ASSUME ManagerInv, manager \in Rooms PROVE ManagerInv'
  <2>1. /\ UNCHANGED <<manager, since, roster, selfOccupant, listed, joined, handler, presence, found, wire>>
        /\ since[manager] \in Nat /\ stay' \in Nat
    <3>1. UNCHANGED <<manager, since, roster, selfOccupant, listed, joined, handler, presence, found, wire>>
      BY <1>1 DEF room, handling
    <3>2. since[manager] \in Nat
      BY <1>6, WireFacts
    <3> DEFINE Kind == [what : {"join", "leave", "destroy"}, visit : Visits]
    <3>3. requests \in Seq(Kind)
      BY Zenon DEF TypeOK
    <3>4. 1 \in 1 .. Len(requests) /\ Head(requests) = requests[1]
      BY <1>1, <3>3, HeadTailProperties
    <3>5. requests[1] \in Kind
      BY <3>3, <3>4, ElementOfSeq
    <3>6. stay' \in Nat
      BY <1>1, <3>4, <3>5, RoomsAssumption DEF Visits
    <3> QED
      BY <3>1, <3>2, <3>6
  <2>2. FreshRoom' /\ OwnListed'
    BY <1>3, <1>6, <2>1 DEF ManagerInv, FreshRoom, OwnListed
  <2>3. \A n \in Nicks : Coming(n)' = Coming(n) /\ Now(n)' = Now(n)
    BY <2>1 DEF Coming, Counts, Now, InHand, RankIn
  <2>4. \A n \in Nicks : Sound(n)'
    BY <1>6, <2>1, <2>3 DEF ManagerInv, Sound, IsHere
  <2>5. OwnFirst'
    BY <1>6, <2>1 DEF ManagerInv, OwnFirst, OwnIsSet, OwnComing, Coming, Counts, IsHere
  <2>6. AllPresent'
    BY <1>4, <1>5 DEF AllPresent, Present
  <2>7. ASSUME stay' = since[manager] + 1 PROVE JoinedOnce' /\ \A n \in Nicks : Agrees(n)'
    <3>1. stay <= since[manager]
      BY <1>3, <2>1, <2>7
    <3>2. roster[manager] = [n \in Nicks |-> "absent"] /\ manager \notin listed /\ joined[manager] = 0
      BY <1>6, <3>1 DEF ManagerInv, FreshRoom
    <3>3. \A i \in 1 .. Len(wire) : wire[i].visit <= since[manager]
      BY <2>1, <3>1, WireFacts DEF RemovalInv, Over
    <3>4. presence.visit <= since[manager]
      BY <2>1, <3>1, WireFacts DEF RemovalInv, Over
    <3>5. \A n \in Nicks : Coming(n) = {} /\ Now(n) = "absent"
      <4>1. \A i \in 1 .. Len(wire) : ~Counts(wire[i])
        BY <2>1, <3>3, WireFacts DEF Counts
      <4>2. ~InHand
        BY <2>1, <3>4, WireFacts DEF InHand
      <4> QED
        BY <3>2, <4>1, <4>2 DEF Coming, Now
    <3>6. \A n \in Nicks : Agrees(n)'
      BY <1>4, <2>3, <3>5 DEF Agrees, Fits
    <3> QED
      BY <2>1, <3>2, <3>6 DEF JoinedOnce
  <2>8. AllAgree'
    BY <2>1, <2>7 DEF AllAgree
  <2> QED
    BY <2>2, <2>4, <2>5, <2>6, <2>8 DEF ManagerInv
<1> QED
  BY <1>1, <1>2, <1>6, RoomsInUse DEF RosterInv, room

\* A step of the server that sends, or would send, one presence
LEMMA ServerStep ==
  ASSUME TypeOK, RosterInv, UNCHANGED <<room, handling, since, mixed, stay>>,
         NEW w \in Departures \union {"here", "ignored"}, NEW n \in Nicks, NEW k, Send(w, n, k),
         inside # "absent" => k \in Ranks \union {"none"},
         inside = "absent" => inside' = "absent",
         due' = {} \/ Me \in due',
         inside # "absent" /\ w \in Departures => due = {} /\ Target(n) # "absent",
         due' = {} => due = {} \/ (n = Me /\ w = "here"),
         inside # "absent" /\ inside' # "absent" =>
            /\ \A m \in Nicks \ {n} : Target(m)' = Target(m) /\ (m \in renamed' <=> m \in renamed)
            /\ w = "here" => Target(n)' = k
            /\ w \in Departures => Target(n)' = "absent"
            /\ w = "ignored" => Target(n)' = "absent" /\ n \in renamed'
  PROVE  RosterInv'
<1>1. HandInv' /\ CrashNeedsMixedRoom'
  BY HandUntouched
<1>2. ASSUME ManagerInv, manager \in Rooms PROVE ManagerInv'
  <2>1. CASE inside = "absent"
    BY <1>2, <2>1, ServerSilent DEF Send
  <2>2. CASE inside # "absent"
    BY <1>2, <2>2, ServerSends
  <2> QED
    BY <2>1, <2>2
<1> QED
  BY <1>1, <1>2, RoomsInUse DEF RosterInv, room

\* A step keeps the invariant.
LEMMA RosterStep ==
  ASSUME TypeOK, RemovalInv, RosterInv, [Next]_vars
  PROVE  RosterInv'
<1>a. Me \in Nicks /\ Me \notin Others /\ Others \subseteq Nicks
  BY RoomsAssumption DEF Nicks
<1>b. due = {} \/ Me \in due
  BY DEF RosterInv, HandInv
<1>1. ASSUME NEW o \in Openers, LookUp(o) PROVE RosterInv'
  BY <1>1, RosterUntouched DEF LookUp, network
<1>2. ASSUME NEW o \in Openers, NewRoom(o) PROVE RosterInv'
  BY <1>2, NewRoomStep
<1>3. ASSUME CloseView PROVE RosterInv'
  BY <1>3, RosterUntouched DEF CloseView, network
<1>4. ASSUME JoinRoom \/ LeaveRoom \/ DestroyRoom PROVE RosterInv'
  BY <1>4, RosterUntouched DEF JoinRoom, LeaveRoom, DestroyRoom
<1>5. ASSUME LeaveDone \/ DestroyDone PROVE RosterInv'
  <2>1. /\ manager' = NoRoom
        /\ UNCHANGED <<made, roster, selfOccupant, listed, joined, handling, due, history>>
    BY <1>5 DEF LeaveDone, DestroyDone, server
  <2>2. HandInv'
    BY <2>1 DEF RosterInv, HandInv, Known, Knows, handling, history
  <2> QED
    BY <2>1, <2>2 DEF RosterInv, CrashNeedsMixedRoom, handling, history
<1>6. ASSUME HandlePresence PROVE RosterInv'
  <2>1. HandInv' /\ UNCHANGED <<manager, mixed>> /\ handler' # "crashed"
    BY <1>6, HandleHand DEF HandlePresence, room, history
  <2>2. manager # NoRoom /\ manager \notin mixed => ManagerInv'
    BY <1>6, RoomsInUse, HandleManager DEF RosterInv
  <2> QED
    BY <2>1, <2>2 DEF RosterInv, CrashNeedsMixedRoom
<1>7. ASSUME HandleOccupantUpdate \/ SelfOccupantUpdate \/ AddSelfOccupant PROVE RosterInv'
  BY <1>7, UpdateStep, SelfUpdateStep, AdoptStep
<1>8. ASSUME HandleOccupantLeft PROVE RosterInv'
  <2>1. /\ handler = "act" /\ presence.what \in Departures /\ RemoveOccupant(found)
        /\ manager' \in {manager, NoRoom} /\ handler' = "idle"
        /\ UNCHANGED <<presence, found, made, joined, wire, since, renamed, occupants, inside, stay, due>>
    BY <1>8 DEF HandleOccupantLeft, network, server, Departures
  <2> QED
    BY <2>1, RemoveStep
<1>9. ASSUME HandleOccupantKick PROVE RosterInv'
  <2>1. /\ handler = "act" /\ presence.what = "kicked" /\ presence.what \in Departures
        /\ RemoveOccupant(found)
        /\ manager' \in {manager, NoRoom} /\ handler' \in {"idle", "crashed"}
        /\ handler' = "crashed" => ~Known(found)
        /\ UNCHANGED <<presence, found, made, joined, wire, since, renamed, occupants, inside, stay, due>>
    BY <1>9 DEF HandleOccupantKick, network, server, Departures
  <2> QED
    BY <2>1, RemoveStep
<1>10. ASSUME HandleOccupantRemoved PROVE RosterInv'
  <2>1. /\ handler = "act" /\ presence.what \in NeedsOwn /\ presence.what \in Departures
        /\ RemoveOccupant(found)
        /\ manager' \in {manager, NoRoom} /\ handler' \in {"idle", "crashed"}
        /\ handler' = "crashed" => selfOccupant[found] = "unset"
        /\ UNCHANGED <<presence, found, made, joined, wire, since, renamed, occupants, inside, stay, due>>
    BY <1>10 DEF HandleOccupantRemoved, network, server, Departures, NeedsOwn
  <2> QED
    BY <2>1, RemoveStep
<1>11. ASSUME Disconnected \/ Connected PROVE RosterInv'
  BY <1>11, DisconnectedStep, ConnectedStep
<1>12. ASSUME ServerJoin PROVE RosterInv'
  BY <1>12, ServerJoinStep
<1>13. ASSUME NEW n \in Nicks, ServerLists(n) PROVE RosterInv'
  <2>1. /\ n \in due /\ due' = due \ {n} /\ (n = Me => due = {Me})
        /\ Send("here", n, IF n = Me THEN inside ELSE occupants[n])
        /\ UNCHANGED <<room, handling, since, mixed, stay, occupants, inside, renamed>>
    BY <1>13 DEF ServerLists, history
  <2>2. due' = {} => n = Me
    BY <1>b, <2>1
  <2>3. due' = {} \/ Me \in due'
    BY <1>b, <2>1
  <2>4. n # Me => occupants[n] \in Ranks
    BY <2>1 DEF TypeOK, Nicks
  <2>5. inside # "absent" => inside \in Ranks
    BY DEF TypeOK
  <2>6. \A m \in Nicks \ {n} : Target(m)' = Target(m)
    BY <2>1 DEF Target
  <2>7. Target(n)' = IF n = Me THEN inside ELSE occupants[n]
    BY <2>1 DEF Target
  <2> DEFINE k == IF n = Me THEN inside ELSE occupants[n]
  <2>8. inside # "absent" => k \in Ranks
    BY <2>4, <2>5
  <2>9. Send("here", n, k) /\ Target(n)' = k
    BY <2>1, <2>7
  <2> HIDE DEF k
  <2>10. "here" \notin Departures
    BY DEF Departures
  <2> QED
    BY <2>1, <2>2, <2>3, <2>6, <2>8, <2>9, <2>10, ServerStep
<1>14. ASSUME ServerLeave PROVE RosterInv'
  <2>1. /\ Send("ignored", Me, "none") /\ inside' = "absent"
        /\ UNCHANGED <<room, handling, since, mixed, stay, due>>
    BY <1>14 DEF ServerLeave, history
  <2>2. "ignored" \notin Departures
    BY DEF Departures
  <2> QED
    BY <1>a, <1>b, <2>1, <2>2, ServerStep
<1>15. ASSUME ServerDestroy PROVE RosterInv'
  <2>1. UNCHANGED <<room, handling, history, stay, due>>
    BY <1>15 DEF ServerDestroy
  <2>2. CASE UNCHANGED <<wire, inside, occupants>>
    BY <2>1, <2>2, RosterUntouched DEF server
  <2>3. CASE Send("ignored", Me, "none") /\ inside' = "absent"
    <3>1. "ignored" \notin Departures
      BY DEF Departures
    <3> QED
      BY <1>a, <1>b, <2>1, <2>3, <3>1, ServerStep DEF history
  <2> QED
    BY <1>15, <2>2, <2>3 DEF ServerDestroy
<1>16. ASSUME NEW n \in Others, NEW k \in Ranks, OtherIsHere(n, k) PROVE RosterInv'
  <2>1. /\ due = {} /\ due' = due /\ inside' = inside /\ n \in Nicks /\ n # Me
        /\ occupants' = [occupants EXCEPT ![n] = k] /\ Send("here", n, k)
        /\ renamed' = IF inside = "absent" THEN renamed ELSE renamed \ {n}
        /\ UNCHANGED <<room, handling, since, mixed, stay>>
    BY <1>16, <1>a DEF OtherIsHere
  <2>2. \A m \in Nicks \ {n} : Target(m)' = Target(m)
    BY <2>1 DEF Target, TypeOK, Nicks
  <2>3. Target(n)' = k
    BY <2>1 DEF Target, TypeOK
  <2>4. "here" \notin Departures
    BY DEF Departures
  <2>5. inside # "absent" => \A m \in Nicks \ {n} : m \in renamed' <=> m \in renamed
    BY <2>1
  <2> QED
    BY <2>1, <2>2, <2>3, <2>4, <2>5, ServerStep
<1>17. ASSUME NEW n \in Others, NEW w \in Departures, OtherGoes(n, w) PROVE RosterInv'
  <2>1. /\ due = {} /\ due' = due /\ inside' = inside /\ n \in Nicks /\ n # Me
        /\ occupants[n] # "absent"
        /\ occupants' = [occupants EXCEPT ![n] = "absent"] /\ Send(w, n, "none")
        /\ UNCHANGED <<room, handling, since, mixed, stay, renamed>>
    BY <1>17, <1>a DEF OtherGoes, history
  <2>2. \A m \in Nicks \ {n} : Target(m)' = Target(m)
    BY <2>1 DEF Target, TypeOK, Nicks
  <2>3. Target(n)' = "absent" /\ Target(n) # "absent"
    BY <2>1 DEF Target, TypeOK
  <2>4. w # "here" /\ w # "ignored"
    BY DEF Departures
  <2> QED
    BY <2>1, <2>2, <2>3, <2>4, ServerStep
<1>18. ASSUME NEW n \in Others, OtherRenames(n) PROVE RosterInv'
  <2>1. /\ due = {} /\ due' = due /\ inside' = inside /\ n \in Nicks /\ n # Me
        /\ occupants' = [occupants EXCEPT ![n] = "absent"] /\ Send("ignored", n, "none")
        /\ renamed' = IF inside = "absent" THEN renamed ELSE renamed \union {n}
        /\ UNCHANGED <<room, handling, since, mixed, stay>>
    BY <1>18, <1>a DEF OtherRenames
  <2>2. \A m \in Nicks \ {n} : Target(m)' = Target(m)
    BY <2>1 DEF Target, TypeOK, Nicks
  <2>3. Target(n)' = "absent"
    BY <2>1 DEF Target, TypeOK
  <2>4. "ignored" \notin Departures
    BY DEF Departures
  <2>5. inside # "absent" => n \in renamed' /\ \A m \in Nicks \ {n} : m \in renamed' <=> m \in renamed
    BY <2>1
  <2> QED
    BY <2>1, <2>2, <2>3, <2>4, <2>5, ServerStep
<1>19. ASSUME NEW k \in Ranks, OwnRank(k) PROVE RosterInv'
  <2>1. /\ due = {} /\ due' = due /\ inside # "absent" /\ inside' = k /\ Send("here", Me, k)
        /\ UNCHANGED <<room, handling, since, mixed, stay, occupants, renamed>>
    BY <1>19 DEF OwnRank, history
  <2>2. (\A m \in Nicks \ {Me} : Target(m)' = Target(m)) /\ Target(Me)' = k
    BY <2>1 DEF Target
  <2>3. "here" \notin Departures
    BY DEF Departures
  <2> QED
    BY <1>a, <2>1, <2>2, <2>3, ServerStep
<1>20. ASSUME NEW w \in (Departures \ {"left"}) \union {"ignored"}, OwnRemoval(w) PROVE RosterInv'
  <2>1. /\ due = {} /\ due' = due /\ inside # "absent" /\ inside' = "absent" /\ Send(w, Me, "none")
        /\ UNCHANGED <<room, handling, since, mixed, stay>>
    BY <1>20 DEF OwnRemoval, history
  <2>2. Target(Me) # "absent"
    BY <2>1 DEF Target
  <2> QED
    BY <1>a, <2>1, <2>2, ServerStep
<1>21. ASSUME UNCHANGED vars PROVE RosterInv'
  BY <1>21, RosterUntouched DEF vars, network
<1> QED
  BY <1>1, <1>2, <1>3, <1>4, <1>5, <1>6, <1>7, <1>8, <1>9, <1>10, <1>11, <1>12, <1>13, <1>14,
     <1>15, <1>16, <1>17, <1>18, <1>19, <1>20, <1>21, Zenon
     DEF Next, User, Opens, Handler, Server, Join, Rejoin

\* At first there is no room.
LEMMA RosterInit == Init => RosterInv
  BY DEF Init, RosterInv, HandInv, CrashNeedsMixedRoom

\* The invariant, for any occupants, ranks, rooms, visits and bounds
THEOREM RosterAlways == Spec => []RosterInv
<1>1. TypeOK /\ RemovalInv /\ RosterInv /\ [Next]_vars => TypeOK' /\ RemovalInv' /\ RosterInv'
  BY TypeStep, RemovalStep, RosterStep, Zenon
<1> QED
  BY TypeInit, RemovalInit, RosterInit, <1>1, PTL DEF Spec

(***************************************************************************)
(* The handlers crash only on what a mixed room lacks: see                 *)
(* Rooms!CrashNeedsMixedRoom.                                              *)
(***************************************************************************)
THEOREM CrashAlwaysNeedsMixedRoom == Spec => []CrashNeedsMixedRoom
<1>1. RosterInv => CrashNeedsMixedRoom
  BY DEF RosterInv
<1> QED
  BY <1>1, RosterAlways, PTL

(***************************************************************************)
(* Once every presence is handled the roster has the server's occupants:   *)
(* see Rooms!RosterAgrees.                                                 *)
(***************************************************************************)
THEOREM RosterAlwaysAgrees == Spec => []RosterAgrees
<1>1. TypeOK /\ RosterInv => RosterAgrees
  <2> SUFFICES ASSUME TypeOK, RosterInv, Quiet, InTheRoom, manager \notin mixed, NEW n \in Others
               PROVE  roster[manager][n] = occupants[n] \/ (occupants[n] = "absent" /\ n \in renamed)
    BY DEF RosterAgrees
  <2>1. n \in Nicks /\ n # Me /\ Target(n) = occupants[n]
    BY RoomsAssumption DEF Nicks, Target, Quiet
  <2>2. Agrees(n)
    BY <2>1 DEF RosterInv, ManagerInv, AllAgree, InTheRoom
  <2>3. Coming(n) = {} /\ Now(n) = roster[manager][n]
    BY DEF Quiet, Coming, Now, InHand
  <2> QED
    BY <2>1, <2>2, <2>3 DEF Agrees, Fits
<1> QED
  BY <1>1, RosterAlways, RoomsTypeCorrect, PTL

(***************************************************************************)
(* And the user's own occupant is the server's: see Rooms!SelfAgrees.      *)
(***************************************************************************)
THEOREM SelfAlwaysAgrees == Spec => []SelfAgrees
<1>1. TypeOK /\ RosterInv => SelfAgrees
  <2> SUFFICES ASSUME TypeOK, RosterInv, Quiet, InTheRoom, manager \notin mixed
               PROVE  manager \in listed /\ selfOccupant[manager] = inside /\ joined[manager] = 1
    BY DEF SelfAgrees
  <2>1. Me \in Nicks /\ Me \notin renamed /\ Target(Me) = inside
    BY RoomsAssumption DEF Nicks, Target, Quiet, TypeOK
  <2>2. ManagerInv /\ Agrees(Me) /\ JoinedOnce
    BY <2>1 DEF RosterInv, ManagerInv, AllAgree, InTheRoom
  <2>3. Coming(Me) = {} /\ Now(Me) = roster[manager][Me]
    BY DEF Quiet, Coming, Now, InHand
  <2>4. roster[manager][Me] = inside /\ inside # "absent"
    BY <2>1, <2>2, <2>3 DEF Agrees, Fits, InTheRoom
  <2>5. manager \in listed
    BY <2>2, <2>4 DEF ManagerInv, OwnListed, Quiet
  <2> QED
    BY <2>2, <2>4, <2>5 DEF RosterInv, HandInv, JoinedOnce
<1> QED
  BY <1>1, RosterAlways, RoomsTypeCorrect, PTL

=============================================================================
