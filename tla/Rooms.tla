------------------------------- MODULE Rooms -------------------------------
(***************************************************************************)
(* A multi-user chat room (session/muc*.go and session/muc): the manager   *)
(* of the rooms, the room with its roster and the user's own occupant, the *)
(* handler of the server's presences, leaving and destroying a room, and   *)
(* what the interface does to open one (gui/muc_room_manager.go).          *)
(*                                                                         *)
(* One room address: the manager treats each apart.  The user's nickname   *)
(* is Me; affiliation, role and status of an occupant are one rank.  The   *)
(* server is external: it handles its requests in order and its presences  *)
(* arrive in order.  A visit is what one request to join begins; its       *)
(* number is carried by the presences for the sake of the properties only. *)
(* Others are the nicknames followed; presences of the rest change nothing *)
(* of what is modelled.                                                    *)
(***************************************************************************)
EXTENDS Naturals, Sequences

CONSTANTS
    Me, Others,  \* nicknames
    Ranks,       \* of an occupant: its affiliation, role and status
    Openers,     \* goroutines of the interface that open the room
    MaxRooms, MaxVisits, MaxRequests, MaxWire  \* bounds of the instance

ASSUME RoomsAssumption ==
    /\ Me \notin Others
    /\ Ranks \intersect {"absent", "unset", "none"} = {}
    /\ MaxRooms \in Nat
    /\ MaxVisits \in Nat
    /\ MaxRequests \in Nat
    /\ MaxWire \in Nat

Nicks == Others \union {Me}
Rooms == 1 .. MaxRooms
NoRoom == 0
Visits == 0 .. MaxVisits

VARIABLES
    manager,      \* the room RoomManager has, or NoRoom
    made,         \* rooms made by NewRoom
    roster,       \* of a room: the rank of a nickname, or "absent"
    selfOccupant, \* of a room: "unset", or the rank of the user's occupant
    listed,       \* rooms whose own occupant is the one in their roster
    joined,       \* how often a room published MUCSelfOccupantJoined
    opener,       \* goroutines in joinRoom
    view,         \* the room of the view the account has, or NoRoom
    reconnecting, \* the view is to join again
    leaver,       \* the goroutine of LeaveRoom or DestroyRoom
    handler, presence, found,  \* handlePresence, its stanza, its room
    online,
    visit,        \* of the last request to join
    requests, wire,  \* what the client and the server sent
    occupants,    \* the server: the others in the room
    inside,       \* the user's rank there, or "absent"
    stay,         \* the visit it belongs to
    due,          \* occupants whose presence a new one is still sent
    since,        \* of a room: the last visit before it was made or reset
    mixed,        \* rooms that a presence of such a visit changed
    renamed       \* nicknames given up for others while the user was in

room == <<manager, made, roster, selfOccupant, listed, joined>>
interface == <<opener, view, reconnecting>>
handling == <<handler, presence, found>>
network == <<online, visit, requests, wire>>
server == <<occupants, inside, stay, due>>
history == <<since, mixed, renamed>>
vars == <<room, interface, leaver, handling, network, server, history>>

Departures == {"left", "kicked", "banned", "demoted", "membersonly"}

Presence ==
    [what : Departures \union {"here", "ignored"}, nick : Nicks,
     rank : Ranks \union {"none"}, visit : Visits]

TypeOK ==
    /\ manager \in 0 .. made
    /\ made \in 0 .. MaxRooms
    /\ roster \in [Rooms -> [Nicks -> Ranks \union {"absent", "none"}]]
    /\ selfOccupant \in [Rooms -> Ranks \union {"unset", "none"}]
    /\ listed \subseteq Rooms
    /\ joined \in [Rooms -> 0 .. 2]
    /\ opener \in [Openers -> {"idle", "missing"}]
    /\ view \in 0 .. made
    /\ reconnecting \in {"no", "yes"}
    /\ leaver \in {"idle", "sent", "asked", "granted"}
    /\ handler \in {"idle", "act", "refresh", "add", "adopt", "crashed"}
    /\ presence \in Presence
    /\ found \in 0 .. made
    /\ handler # "idle" => found # NoRoom
    /\ online \in {"yes", "no"}
    /\ visit \in Visits
    /\ requests \in Seq([what : {"join", "leave", "destroy"}, visit : Visits])
    /\ Len(requests) <= MaxRequests
    /\ wire \in Seq(Presence)
    /\ Len(wire) <= MaxWire
    /\ occupants \in [Others -> Ranks \union {"absent"}]
    /\ inside \in Ranks \union {"absent"}
    /\ stay \in Visits
    /\ due \subseteq {n \in Nicks : n = Me \/ occupants[n] # "absent"}
    /\ since \in [Rooms -> Visits]
    /\ mixed \subseteq Rooms
    /\ renamed \subseteq Others

Init ==
    /\ manager = NoRoom
    /\ made = 0
    /\ roster = [r \in Rooms |-> [n \in Nicks |-> "absent"]]
    /\ selfOccupant = [r \in Rooms |-> "unset"]
    /\ listed = {}
    /\ joined = [r \in Rooms |-> 0]
    /\ opener = [o \in Openers |-> "idle"]
    /\ view = NoRoom
    /\ reconnecting = "no"
    /\ leaver = "idle"
    /\ handler = "idle"
    /\ presence \in {p \in Presence : p.what = "ignored" /\ p.nick = Me
                                       /\ p.rank = "none" /\ p.visit = 0}
    /\ found = NoRoom
    /\ online = "yes"
    /\ visit = 0
    /\ requests = <<>>
    /\ wire = <<>>
    /\ occupants \in [Others -> Ranks \union {"absent"}]
    /\ inside = "absent"
    /\ stay = 0
    /\ due = {}
    /\ since = [r \in Rooms |-> 0]
    /\ mixed = {}
    /\ renamed = {}

(***************************************************************************)
(* Opening a room.  newRoom looks for the room under one lock and adds a   *)
(* new one under another; what AddRoom answers is ignored.  The view is    *)
(* the one the account has for the address, or a new one of the room that  *)
(* newRoom made.                                                           *)
(***************************************************************************)
JoinRoomWithData(r) == view' = IF view = NoRoom THEN r ELSE view

LookUp(o) ==
    /\ opener[o] = "idle"
    /\ IF manager = NoRoom
       THEN opener' = [opener EXCEPT ![o] = "missing"] /\ view' = view
       ELSE opener' = opener /\ JoinRoomWithData(manager)
    /\ UNCHANGED <<reconnecting, room, leaver, handling, network, server, history>>

AddRoom(r) == manager' = IF manager = NoRoom THEN r ELSE manager

NewRoom(o) ==
    /\ opener[o] = "missing"
    /\ made < MaxRooms
    /\ made' = made + 1
    /\ AddRoom(made + 1)
    /\ JoinRoomWithData(made + 1)
    /\ opener' = [opener EXCEPT ![o] = "idle"]
    /\ since' = [since EXCEPT ![made + 1] = visit]
    /\ UNCHANGED <<roster, selfOccupant, listed, joined, reconnecting,
                   leaver, handling, network, server, mixed, renamed>>

CloseView ==
    /\ view # NoRoom
    /\ view' = NoRoom
    /\ reconnecting' = "no"
    /\ UNCHANGED <<opener, room, leaver, handling, network, server, history>>

Request(w, v) ==
    /\ online = "yes"
    /\ Len(requests) < MaxRequests
    /\ requests' = Append(requests, [what |-> w, visit |-> v])

\* JoinRoom, from the lobby or again after a new connection.
JoinRoom ==
    /\ visit < MaxVisits
    /\ visit' = visit + 1
    /\ Request("join", visit + 1)
    /\ reconnecting' = "no"
    /\ UNCHANGED <<online, wire, opener, view, room, leaver, handling, server, history>>

Join == view # NoRoom /\ selfOccupant[view] = "unset" /\ JoinRoom
Rejoin == view # NoRoom /\ reconnecting = "yes" /\ selfOccupant[view] # "unset" /\ JoinRoom

(***************************************************************************)
(* LeaveRoom and DestroyRoom: each sends a request from a goroutine of its *)
(* own and drops the room by its address; DestroyRoom waits for an answer. *)
(* The user does not ask for both at once.                                 *)
(***************************************************************************)
LeaveRoom ==
    /\ leaver = "idle"
    /\ view # NoRoom
    /\ selfOccupant[view] # "unset"
    /\ Request("leave", visit)
    /\ leaver' = "sent"
    /\ UNCHANGED <<online, visit, wire, room, interface, handling, server, history>>

\* The account's view of the address goes too.
LeaveDone ==
    /\ leaver = "sent"
    /\ leaver' = "idle"
    /\ manager' = NoRoom
    /\ view' = NoRoom
    /\ reconnecting' = "no"
    /\ UNCHANGED <<made, roster, selfOccupant, listed, joined, opener,
                   handling, network, server, history>>

DestroyRoom ==
    /\ leaver = "idle"
    /\ view # NoRoom
    /\ selfOccupant[view] \in Ranks
    /\ Request("destroy", visit)
    /\ leaver' = "asked"
    /\ UNCHANGED <<online, visit, wire, room, interface, handling, server, history>>

DestroyDone ==
    /\ leaver = "granted"
    /\ leaver' = "idle"
    /\ manager' = NoRoom
    /\ UNCHANGED <<made, roster, selfOccupant, listed, joined, interface,
                   handling, network, server, history>>

(***************************************************************************)
(* The roster of a room.                                                   *)
(***************************************************************************)
MixedBy(r) == IF presence.visit <= since[r] THEN mixed \union {r} ELSE mixed

UpdateOrAddOccupant(r) ==
    /\ roster' = [roster EXCEPT ![r][presence.nick] = presence.rank]
    /\ selfOccupant' = [selfOccupant EXCEPT ![r] =
           IF r \in listed /\ presence.nick = Me THEN presence.rank ELSE @]
    /\ mixed' = MixedBy(r)

\* Removing an unknown occupant is an error and changes nothing.
RemoveOccupant(r) ==
    /\ roster' = [roster EXCEPT ![r][presence.nick] = "absent"]
    /\ selfOccupant' = [selfOccupant EXCEPT ![r] =
           IF r \in listed /\ presence.nick = Me THEN "none" ELSE @]
    /\ listed' = IF presence.nick = Me THEN listed \ {r} ELSE listed
    /\ mixed' = MixedBy(r)

Knows(r, n) == roster[r][n] # "absent"
Known(r) == Knows(r, presence.nick)

\* mutant: any presence counts as the user's own once the user is in.
AnyPresenceIsOwn(r) == selfOccupant[r] # "unset"

IsOwnPresence(r) == presence.nick = Me /\ selfOccupant[r] # "unset"

(***************************************************************************)
(* handlePresence, on the goroutine of the session's stanzas.  Each        *)
(* handler looks the room up first and then works on what it found, which  *)
(* need not be the manager's room any more.  selfOccupantUpdate also asks  *)
(* whether the occupant is known already.                                  *)
(***************************************************************************)
HandlePresence ==
    /\ handler = "idle"
    /\ wire # <<>>
    /\ presence' = Head(wire)
    /\ wire' = Tail(wire)
    /\ found' = manager
    /\ handler' = IF manager = NoRoom \/ presence'.what = "ignored" THEN "idle"
                  ELSE IF presence'.what # "here" \/ presence'.nick # Me THEN "act"
                  ELSE IF Knows(manager, Me) THEN "refresh" ELSE "add"
    /\ UNCHANGED <<online, visit, requests, room, interface, leaver, server, history>>

\* mutant: others are not noted before the user is in.
IgnoredBeforeJoining ==
    /\ handler = "act"
    /\ presence.what = "here"
    /\ IF selfOccupant[found] = "unset" THEN UNCHANGED <<roster, selfOccupant, mixed>>
       ELSE UpdateOrAddOccupant(found)
    /\ handler' = "idle"
    /\ UNCHANGED <<presence, found, manager, made, listed, joined, interface,
                   leaver, network, server, since, renamed>>

HandleOccupantUpdate ==
    /\ handler = "act"
    /\ presence.what = "here"
    /\ UpdateOrAddOccupant(found)
    /\ handler' = "idle"
    /\ UNCHANGED <<presence, found, manager, made, listed, joined, interface,
                   leaver, network, server, since, renamed>>

\* Looks the room up again: handleOccupantUpdate takes its address.
SelfOccupantUpdate ==
    /\ handler \in {"refresh", "add"}
    /\ IF manager = NoRoom
       THEN UNCHANGED <<roster, selfOccupant, mixed>>
       ELSE UpdateOrAddOccupant(manager)
    /\ handler' = IF handler = "add" THEN "adopt" ELSE "idle"
    /\ UNCHANGED <<presence, found, manager, made, listed, joined, interface,
                   leaver, network, server, since, renamed>>

\* The event goes to the observers of the manager's room.
AddSelfOccupant ==
    /\ handler = "adopt"
    /\ IF roster[found][Me] = "absent"
       THEN /\ selfOccupant' = [selfOccupant EXCEPT ![found] = "unset"]
            /\ listed' = listed \ {found}
       ELSE /\ selfOccupant' = [selfOccupant EXCEPT ![found] = roster[found][Me]]
            /\ listed' = listed \union {found}
    /\ joined' = IF manager # NoRoom /\ joined[manager] < 2
                 THEN [joined EXCEPT ![manager] = @ + 1] ELSE joined
    /\ mixed' = mixed \union {r \in {found, manager} \ {NoRoom} : presence.visit <= since[r]}
    /\ handler' = "idle"
    /\ UNCHANGED <<presence, found, manager, made, roster, interface, leaver,
                   network, server, since, renamed>>

\* Somebody left, or was banned: an unknown occupant is not looked at further.
HandleOccupantLeft ==
    /\ handler = "act"
    /\ presence.what \in {"left", "banned"}
    /\ RemoveOccupant(found)
    /\ manager' = IF presence.what = "banned" /\ Known(found) /\ IsOwnPresence(found)
                  THEN NoRoom ELSE manager
    /\ handler' = "idle"
    /\ UNCHANGED <<presence, found, made, joined, interface, leaver, network,
                   server, since, renamed>>

\* The role an occupant had is read before it is known to have been there.
HandleOccupantKick ==
    /\ handler = "act"
    /\ presence.what = "kicked"
    /\ RemoveOccupant(found)
    /\ manager' = IF Known(found) /\ IsOwnPresence(found) THEN NoRoom ELSE manager
    /\ handler' = IF Known(found) THEN "idle" ELSE "crashed"
    /\ UNCHANGED <<presence, found, made, joined, interface, leaver, network,
                   server, since, renamed>>

\* The nickname of the user's own occupant is read whether there is one or not.
HandleOccupantRemoved ==
    /\ handler = "act"
    /\ presence.what \in {"demoted", "membersonly"}
    /\ RemoveOccupant(found)
    /\ manager' = IF IsOwnPresence(found) THEN NoRoom ELSE manager
    /\ handler' = IF selfOccupant[found] = "unset" THEN "crashed" ELSE "idle"
    /\ UNCHANGED <<presence, found, made, joined, interface, leaver, network,
                   server, since, renamed>>

(***************************************************************************)
(* The connection.  OnStatusDisconnected and OnStatusConnected of the      *)
(* manager's room: the first may run while a presence is handled; nothing  *)
(* in a handler waits, so a new connection finds it done.                  *)
(***************************************************************************)
Disconnected ==
    /\ online = "yes"
    /\ online' = "no"
    /\ requests' = <<>>
    /\ wire' = <<>>
    /\ inside' = "absent"
    /\ due' = {}
    /\ reconnecting' = "no"
    /\ leaver' = IF leaver = "asked" THEN "idle" ELSE leaver
    /\ selfOccupant' = [r \in Rooms |->
           IF r = manager /\ selfOccupant[r] # "unset" THEN "none" ELSE selfOccupant[r]]
    /\ roster' = [r \in Rooms |-> IF r = manager /\ r \in listed
                                  THEN [roster[r] EXCEPT ![Me] = "none"] ELSE roster[r]]
    /\ UNCHANGED <<manager, made, listed, joined, opener, view,
                   handling, visit, occupants, stay, history>>

\* mutant: the roster is kept.
KeepsRoster ==
    /\ online = "no"
    /\ handler = "idle"
    /\ online' = "yes"
    /\ joined' = [r \in Rooms |-> IF r = manager THEN 0 ELSE joined[r]]
    /\ since' = [r \in Rooms |-> IF r = manager THEN visit ELSE since[r]]
    /\ mixed' = mixed \ {manager}
    /\ reconnecting' = IF view # NoRoom /\ view = manager THEN "yes" ELSE "no"
    /\ UNCHANGED <<manager, made, roster, listed, selfOccupant, opener, view, leaver,
                   handling, visit, requests, wire, server, renamed>>

Connected ==
    /\ online = "no"
    /\ handler = "idle"
    /\ online' = "yes"
    /\ roster' = [r \in Rooms |-> IF r = manager THEN [n \in Nicks |-> "absent"] ELSE roster[r]]
    /\ listed' = listed \ {manager}
    /\ joined' = [r \in Rooms |-> IF r = manager THEN 0 ELSE joined[r]]
    /\ since' = [r \in Rooms |-> IF r = manager THEN visit ELSE since[r]]
    /\ mixed' = mixed \ {manager}
    /\ reconnecting' = IF view # NoRoom /\ view = manager THEN "yes" ELSE "no"
    /\ UNCHANGED <<manager, made, selfOccupant, opener, view, leaver,
                   handling, visit, requests, wire, server, renamed>>

(***************************************************************************)
(* The server (external).  A new occupant is sent the presence of every    *)
(* other one and then its own; nothing happens in the room in between.     *)
(***************************************************************************)
Has(w) == online = "yes" /\ due = {} /\ requests # <<>> /\ Head(requests).what = w

Send(w, n, k) ==
    IF inside = "absent" THEN wire' = wire
    ELSE /\ Len(wire) < MaxWire
         /\ wire' = Append(wire, [what |-> w, nick |-> n, rank |-> k, visit |-> stay])

ServerJoin ==
    /\ Has("join")
    /\ requests' = Tail(requests)
    /\ inside' \in Ranks
    /\ stay' = Head(requests).visit
    /\ due' = {n \in Others : occupants[n] # "absent"} \union {Me}
    /\ UNCHANGED <<occupants, online, visit, wire, room, interface, leaver, handling, history>>

ServerLists(n) ==
    /\ n \in due
    /\ n = Me => due = {Me}
    /\ Send("here", n, IF n = Me THEN inside ELSE occupants[n])
    /\ due' = due \ {n}
    /\ UNCHANGED <<occupants, inside, stay, online, visit, requests, room, interface,
                   leaver, handling, history>>

\* The answer to leaving has status 110 and is ignored.
ServerLeave ==
    /\ Has("leave")
    /\ requests' = Tail(requests)
    /\ Send("ignored", Me, "none")
    /\ inside' = "absent"
    /\ UNCHANGED <<occupants, stay, due, online, visit, room, interface, leaver, handling, history>>

ServerDestroy ==
    /\ Has("destroy")
    /\ requests' = Tail(requests)
    /\ \/ /\ leaver' = "idle"   \* refused
          /\ UNCHANGED <<wire, inside, occupants>>
       \/ /\ inside # "absent"
          /\ leaver' = "granted"
          /\ Send("ignored", Me, "none")
          /\ inside' = "absent"
          /\ occupants' = [n \in Others |-> "absent"]
    /\ UNCHANGED <<stay, due, online, visit, room, interface, handling, history>>

\* Somebody enters, or changes rank.
OtherIsHere(n, k) ==
    /\ due = {}
    /\ occupants[n] # k
    /\ occupants' = [occupants EXCEPT ![n] = k]
    /\ Send("here", n, k)
    /\ renamed' = IF inside = "absent" THEN renamed ELSE renamed \ {n}
    /\ UNCHANGED <<inside, stay, due, online, visit, requests, room, interface,
                   leaver, handling, since, mixed>>

OtherGoes(n, w) ==
    /\ due = {}
    /\ occupants[n] # "absent"
    /\ occupants' = [occupants EXCEPT ![n] = "absent"]
    /\ Send(w, n, "none")
    /\ UNCHANGED <<inside, stay, due, online, visit, requests, room, interface,
                   leaver, handling, history>>

\* Status 303, which is ignored; the new nickname's presence is one of OtherIsHere,
\* or of a nickname outside Others.
OtherRenames(n) ==
    /\ due = {}
    /\ occupants[n] # "absent"
    /\ occupants' = [occupants EXCEPT ![n] = "absent"]
    /\ Send("ignored", n, "none")
    /\ renamed' = IF inside = "absent" THEN renamed ELSE renamed \union {n}
    /\ UNCHANGED <<inside, stay, due, online, visit, requests, room, interface,
                   leaver, handling, since, mixed>>

OwnRank(k) ==
    /\ due = {}
    /\ inside \notin {"absent", k}
    /\ inside' = k
    /\ Send("here", Me, k)
    /\ UNCHANGED <<occupants, stay, due, online, visit, requests, room, interface,
                   leaver, handling, history>>

\* Also a room that another occupant or the service closes, which is ignored.
OwnRemoval(w) ==
    /\ due = {}
    /\ inside # "absent"
    /\ inside' = "absent"
    /\ Send(w, Me, "none")
    /\ UNCHANGED <<occupants, stay, due, online, visit, requests, room, interface,
                   leaver, handling, history>>

Opens == \E o \in Openers : LookUp(o) \/ NewRoom(o)
User == Opens \/ CloseView \/ Join \/ Rejoin \/ LeaveRoom \/ LeaveDone
             \/ DestroyRoom \/ DestroyDone
Handler ==
    \/ HandlePresence
    \/ HandleOccupantUpdate \/ SelfOccupantUpdate \/ AddSelfOccupant
    \/ HandleOccupantLeft \/ HandleOccupantKick \/ HandleOccupantRemoved
Server ==
    \/ ServerJoin \/ ServerLeave \/ ServerDestroy
    \/ \E n \in Nicks : ServerLists(n)
    \/ \E n \in Others, k \in Ranks : OtherIsHere(n, k)
    \/ \E n \in Others, w \in Departures : OtherGoes(n, w)
    \/ \E n \in Others : OtherRenames(n)
    \/ \E k \in Ranks : OwnRank(k)
    \/ \E w \in (Departures \ {"left"}) \union {"ignored"} : OwnRemoval(w)

Next == handler # "crashed" /\ (User \/ Handler \/ Server \/ Disconnected \/ Connected)

Spec == Init /\ [][Next]_vars

-----------------------------------------------------------------------------
\* Nothing is under way, and the user is in the manager's room, by the first
\* request to join since it was made or reset.
Quiet ==
    /\ online = "yes" /\ wire = <<>> /\ due = {} /\ handler = "idle"

InTheRoom == manager # NoRoom /\ inside # "absent" /\ stay = since[manager] + 1

(***************************************************************************)
(* Once every presence is handled the roster has exactly the occupants the *)
(* server has, each with its rank, and besides them only nicknames that    *)
(* were given up for others (UpdateNickname has no caller).  This is about *)
(* rooms that no presence of an earlier visit has reached.                 *)
(***************************************************************************)
RosterAgrees ==
    Quiet /\ InTheRoom /\ manager \notin mixed =>
        \A n \in Others :
            roster[manager][n] = occupants[n] \/ (occupants[n] = "absent" /\ n \in renamed)

(***************************************************************************)
(* Then the user's own occupant also is the one of the roster, has the     *)
(* rank the server gave it, and the window was told of the join once,      *)
(* however often the server changed the user's rank since: what the code   *)
(* does, not what the comment quoted at EachOwnUpdateJoins says of it.     *)
(***************************************************************************)
SelfAgrees ==
    Quiet /\ InTheRoom /\ manager \notin mixed =>
        /\ manager \in listed
        /\ selfOccupant[manager] = inside
        /\ joined[manager] = 1

(***************************************************************************)
(* "handleSelfOccupantUpdate can happen several times [...] For now, it    *)
(* will generate a event about joining" (session/muc.go:126): the handling *)
(* of every presence of the user's own is followed by the event.  Not so   *)
(* of this code, which publishes it only of an occupant the roster did not *)
(* have; SelfAgrees counts on that.                                        *)
(***************************************************************************)
EachOwnUpdateJoins ==
    [][(handler \in {"refresh", "add"} /\ manager # NoRoom /\ handler' # handler)
         => handler' = "adopt"]_vars

(***************************************************************************)
(* The handlers that read an occupant they have not looked for find one,   *)
(* unless the room was reached by a presence of a visit that had ended     *)
(* before the room was made.                                               *)
(***************************************************************************)
CrashNeedsMixedRoom == handler = "crashed" => found \in mixed

(***************************************************************************)
(* The handler drops the room only when the server no longer has the user  *)
(* in the visit that the presence is about: nobody else's removal does it. *)
(***************************************************************************)
DroppedOnlyWhenOut ==
    [][(handler = "act" /\ manager # NoRoom /\ manager' = NoRoom /\ handler' # "act")
         => inside = "absent" \/ stay # presence.visit]_vars

(***************************************************************************)
(* "NewRoom creates a new muc room and add it to the room manager"         *)
(* (session/muc.go:51): what it returns is the manager's room.  Not so of  *)
(* this code when two goroutines open the room at once.                    *)
(***************************************************************************)
NewRoomIsAdded ==
    [][made' # made => manager' = made']_vars
=============================================================================
