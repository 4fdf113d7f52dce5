---------------------------- MODULE RosterProofs ----------------------------
(* Type correctness of Roster, and what holds of every contact whichever   *)
(* goroutines use the list at once and however many connections overlap:   *)
(* its last resource, its coming and going, its resources, its             *)
(* subscription and its request for one.                                   *)
EXTENDS Roster, TLAPS

\* A merge keeps the type, whatever it merges.
LEMMA MergeType ==
    ASSUME NEW p \in Peers, NEW q \in Peers
    PROVE  MergeWith(p, q) \in Peers
<1>1. Pending(p, q) \in BOOLEAN
    BY Zenon DEF Pending, Peers
<1> QED BY <1>1 DEF Peers, MergeWith, NewPeer, Union, Prefer, Subs

\* The new objects a handler may make are peers.
LEMMA NewPeerTypes ==
    /\ NewPeer \in Peers
    /\ PeerWithPendingSubscribe \in Peers
    /\ \A r \in Res : PeerWithState(r) \in Peers
    /\ \A s \in Entries : PeerFrom(s) \in Peers
BY DEF Peers, NewPeer, PeerWithPendingSubscribe, PeerWithState, PeerFrom, Subs, Entries

\* A merge keeps the types of the list and of the objects.
LEMMA AddOrMergeType ==
    ASSUME TypeOK, NEW j \in Jids, NEW p \in Peers, AddOrMerge(j, p)
    PROVE  /\ list' \in [Jids -> Objs \cup {Nil}]
           /\ peer' \in [Objs -> Peers]
           /\ torn' \subseteq Jids /\ crossed' \subseteq Jids
<1>1. PICK o \in Objs :
          /\ list' = [list EXCEPT ![j] = o]
          /\ peer' = [peer EXCEPT ![o] =
                         IF list[j] = Nil THEN p ELSE MergeWith(peer[list[j]], p)]
    BY DEF AddOrMerge
<1>2. list[j] # Nil => MergeWith(peer[list[j]], p) \in Peers
    BY MergeType DEF TypeOK
<1>3. torn' \subseteq Jids /\ crossed' \subseteq Jids
    BY DEF AddOrMerge, TypeOK
<1> QED BY <1>1, <1>2, <1>3 DEF TypeOK

\* The handlers that change a peer keep its type.
LEMMA PeerTypes ==
    ASSUME NEW p \in Peers
    PROVE  /\ \A r \in Res : AddResource(p, r) \in Peers
           /\ \A r \in Res : RemoveResource(p, r) \subseteq Peers
           /\ ClearResources(p) \in Peers
           /\ Subscribed(p) \in Peers /\ Unsubscribed(p) \in Peers
           /\ [p EXCEPT !.pending = FALSE] \in Peers
<1>1. ASSUME NEW r \in Res PROVE AddResource(p, r) \in Peers
    BY DEF Peers, AddResource
<1>2. ASSUME NEW r \in Res PROVE RemoveResource(p, r) \subseteq Peers
    <2> SUFFICES ASSUME NEW x \in NextLast(p, r, p.on \ {r})
                 PROVE  [[p EXCEPT !.on = p.on \ {r}] EXCEPT !.last = x] \in Peers
        BY DEF RemoveResource
    <2>1. x \in Res \cup {Nil}
        BY DEF NextLast, Peers
    <2> QED BY <2>1 DEF Peers
<1>3. Subscribed(p) \in Peers
    BY DEF Peers, Subscribed, Subs
<1>4. Unsubscribed(p) \in Peers
    BY DEF Peers, Unsubscribed, Subs
<1> QED BY <1>1, <1>2, <1>3, <1>4 DEF Peers, ClearResources

\* What the watcher of a connection holds while it handles a stanza.
LEMMA WatchFacts ==
    ASSUME TypeOK, NEW c \in Conns
    PROVE  /\ watch[c].op = "add" => watch[c].jid \in Jids /\ watch[c].res \in Res
           /\ watch[c].op = "update" =>
                  /\ watch[c].obj \in Objs /\ watch[c].res \in Res
                  /\ watch[c].online \in BOOLEAN
           /\ watch[c].op = "gone" =>
                  /\ watch[c].obj \in Objs /\ watch[c].res \in Res \cup {Nil}
                  /\ watch[c].online \in BOOLEAN
           /\ watch[c].op \in {"subscribed", "unsubscribe"} => watch[c].obj \in Objs
<1>1. watch[c] \in Watches
    BY DEF TypeOK
<1> QED BY <1>1 DEF Watches, Idle

\* What the user interface holds.
LEMMA UserFacts ==
    ASSUME TypeOK
    PROVE  user # Idle =>
               user.op = "answer" /\ user.obj \in Objs /\ user.jid \in Jids
BY DEF TypeOK, Users, Idle

\* A handler that takes hold of an object keeps the types.
LEMMA HoldType ==
    ASSUME TypeOK, NEW c \in Conns, NEW j \in Jids, NEW w \in Watches, Hold(c, j, w)
    PROVE  watch' \in [Conns -> Watches] /\ crossed' \subseteq Jids
BY DEF TypeOK, Hold

\* The steps of a watcher keep the types.
LEMMA HandlesType ==
    ASSUME TypeOK, NEW c \in Conns, Handles(c)
    PROVE  TypeOK'
<1> USE RosterAssumption
<1>1. ASSUME NEW j \in Jids, NEW r \in Res, ReceiveAvailable(c, j, r) PROVE TypeOK'
    <2>1. watch' \in [Conns -> Watches] /\ crossed' \subseteq Jids
        <3>1. CASE list[j] = Nil
            <4>1. [op |-> "add", jid |-> j, res |-> r] \in Watches
                BY DEF Watches
            <4> QED BY <1>1, <3>1, <4>1 DEF ReceiveAvailable, TypeOK
        <3>2. CASE list[j] # Nil
            <4>1. IsOnline(peer[list[j]]) \in BOOLEAN
                BY Zenon DEF IsOnline
            <4>2. [op |-> "update", jid |-> j, obj |-> list[j], res |-> r,
                   online |-> IsOnline(peer[list[j]])] \in Watches
                BY <3>2, <4>1 DEF Watches, TypeOK
            <4> QED BY <1>1, <3>2, <4>2, HoldType DEF ReceiveAvailable
        <3> QED BY <3>1, <3>2
    <2>2. avail' \in [Jids -> SUBSET Res]
        BY <1>1 DEF ReceiveAvailable, TypeOK
    <2> QED BY <1>1, <2>1, <2>2
            DEF ReceiveAvailable, Receive, Silent, TypeOK, fetchVars, sessionVars, serverVars
<1>2. ASSUME NEW j \in Jids, NEW r \in Res \cup {Nil}, ReceiveUnavailable(c, j, r)
      PROVE  TypeOK'
    <2>1. watch' \in [Conns -> Watches] /\ crossed' \subseteq Jids
        <3>1. CASE list[j] = Nil
            BY <1>2, <3>1 DEF ReceiveUnavailable, TypeOK
        <3>2. CASE list[j] # Nil
            <4>1. IsOnline(peer[list[j]]) \in BOOLEAN
                BY Zenon DEF IsOnline
            <4>2. [op |-> "gone", obj |-> list[j], res |-> r,
                   online |-> IsOnline(peer[list[j]])] \in Watches
                BY <3>2, <4>1 DEF Watches, TypeOK
            <4> QED BY <1>2, <3>2, <4>2, HoldType DEF ReceiveUnavailable
        <3> QED BY <3>1, <3>2
    <2>2. avail' \in [Jids -> SUBSET Res]
        BY <1>2 DEF ReceiveUnavailable, TypeOK
    <2> QED BY <1>2, <2>1, <2>2
            DEF ReceiveUnavailable, Receive, Silent, TypeOK, fetchVars, sessionVars, serverVars
<1>3. ASSUME NEW j \in Jids, ReceiveSubscribe(c, j) PROVE TypeOK'
    <2>1. /\ list' \in [Jids -> Objs \cup {Nil}] /\ peer' \in [Objs -> Peers]
          /\ torn' \subseteq Jids /\ crossed' \subseteq Jids
        BY <1>3, AddOrMergeType, NewPeerTypes DEF ReceiveSubscribe
    <2> QED BY <1>3, <2>1
            DEF ReceiveSubscribe, Receive, TypeOK, fetchVars, sessionVars, serverVars
<1>4. ASSUME NEW j \in Jids, NEW op \in {"subscribed", "unsubscribe"},
             NEW from \in Entries, NEW to \in Entries, ReceiveAnswer(c, j, op, from, to)
      PROVE  TypeOK'
    <2>1. HandleAnswer(c, j, op)
        BY <1>4 DEF ReceiveAnswer
    <2>2. watch' \in [Conns -> Watches] /\ crossed' \subseteq Jids
        <3>1. CASE list[j] = Nil
            BY <2>1, <3>1 DEF HandleAnswer, TypeOK
        <3>2. CASE list[j] # Nil
            <4>1. [op |-> op, obj |-> list[j]] \in Watches
                BY <3>2 DEF Watches, TypeOK
            <4> QED BY <2>1, <3>2, <4>1, HoldType DEF HandleAnswer
        <3> QED BY <3>1, <3>2
    <2>3. refresh' \in BOOLEAN
        BY <2>1, Zenon DEF HandleAnswer
    <2>4. srv' \in [Jids -> Entries \cup {Nil}] /\ owed' \in [Conns -> SUBSET Jids]
        BY <1>4 DEF ReceiveAnswer, Change, TypeOK, serverVars
    <2> QED BY <2>1, <2>2, <2>3, <2>4
            DEF HandleAnswer, Receive, TypeOK, fetchVars, sessionVars
<1>5. ASSUME NEW j \in Jids, ReceivePush(c, j) PROVE TypeOK'
    <2>1. /\ list' \in [Jids -> Objs \cup {Nil}] /\ peer' \in [Objs -> Peers]
          /\ torn' \subseteq Jids /\ crossed' \subseteq Jids
          /\ avail' \in [Jids -> SUBSET Res] /\ open' \subseteq Jids
        <3>1. CASE srv[j] = Nil
            BY <1>5, <3>1 DEF ReceivePush, TypeOK
        <3>2. CASE srv[j] # Nil
            <4>1. srv[j] \in Entries
                BY <3>2 DEF TypeOK
            <4> QED BY <1>5, <3>2, <4>1, AddOrMergeType, NewPeerTypes DEF ReceivePush, TypeOK
        <3> QED BY <3>1, <3>2
    <2>2. refresh' \in BOOLEAN
        BY <1>5, Zenon DEF ReceivePush, Silent
    <2> QED BY <1>5, <2>1, <2>2 DEF ReceivePush, Receive, TypeOK, fetchVars, sessionVars
<1>6. Idle \in Watches
    BY DEF Watches
<1>7. CASE FinishAdd(c)
    <2>1. /\ list' \in [Jids -> Objs \cup {Nil}] /\ peer' \in [Objs -> Peers]
          /\ torn' \subseteq Jids /\ crossed' \subseteq Jids
          /\ avail' \in [Jids -> SUBSET Res]
        <3>1. watch[c].jid \in Jids /\ watch[c].res \in Res
            BY <1>7, WatchFacts DEF FinishAdd
        <3> QED BY <1>7, <3>1, AddOrMergeType, NewPeerTypes DEF FinishAdd, TypeOK
    <2> QED BY <1>6, <1>7, <2>1
            DEF FinishAdd, Finish, TypeOK, fetchVars, sessionVars, serverVars
<1>8. CASE FinishUpdate(c)
    <2>1. watch[c].obj \in Objs /\ watch[c].res \in Res /\ watch[c].online \in BOOLEAN
        BY <1>8, WatchFacts DEF FinishUpdate
    <2>2. AddResource(peer[watch[c].obj], watch[c].res) \in Peers
        BY <2>1, PeerTypes DEF TypeOK
    <2>3. refresh' \in BOOLEAN
        BY <1>8, <2>1, Zenon DEF FinishUpdate, Updated
    <2> QED BY <1>6, <1>8, <2>1, <2>2, <2>3
            DEF FinishUpdate, Finish, TypeOK, fetchVars, sessionVars, serverVars, overlaps
<1>9. CASE FinishGone(c)
    <2>1. watch[c].obj \in Objs /\ watch[c].res \in Res \cup {Nil}
        BY <1>9, WatchFacts DEF FinishGone
    <2>2. PICK q : /\ q \in IF watch[c].res = Nil THEN {ClearResources(peer[watch[c].obj])}
                            ELSE RemoveResource(peer[watch[c].obj], watch[c].res)
                   /\ peer' = [peer EXCEPT ![watch[c].obj] = q]
                   /\ refresh' = (watch[c].online # IsOnline(q))
        BY <1>9 DEF FinishGone
    <2>3. q \in Peers
        BY <2>1, <2>2, PeerTypes DEF TypeOK
    <2>4. refresh' \in BOOLEAN
        BY <2>2, Zenon
    <2> QED BY <1>6, <1>9, <2>1, <2>2, <2>3, <2>4
            DEF FinishGone, Finish, TypeOK, fetchVars, sessionVars, serverVars, overlaps
<1>10. CASE FinishAnswer(c)
    <2>1. watch[c].obj \in Objs
        BY <1>10, WatchFacts DEF FinishAnswer
    <2>2. /\ Subscribed(peer[watch[c].obj]) \in Peers
          /\ Unsubscribed(peer[watch[c].obj]) \in Peers
        BY <2>1, PeerTypes DEF TypeOK
    <2> QED BY <1>6, <1>10, <2>1, <2>2
            DEF FinishAnswer, Finish, TypeOK, fetchVars, sessionVars, serverVars, overlaps
<1> QED BY <1>1, <1>2, <1>3, <1>4, <1>5, <1>7, <1>8, <1>9, <1>10
        DEF Handles, ReceiveSubscribed, ReceiveUnsubscribe, Entries

\* Every variable keeps its type, for any sets of connections, addresses,
\* resources and objects.
THEOREM TypeCorrect == Spec => []TypeOK
<1> USE RosterAssumption
<1>1. Init => TypeOK
    <2> SUFFICES ASSUME Init PROVE TypeOK
        OBVIOUS
    <2>1. Idle \in Watches /\ user \in Users
        BY DEF Init, Watches, Users
    <2>2. peer \in [Objs -> Peers]
        BY NewPeerTypes DEF Init
    <2>3. clears \in 0..MaxClears
        BY DEF Init
    <2> QED BY <2>1, <2>2, <2>3 DEF Init, TypeOK
<1>2. TypeOK /\ [Next]_vars => TypeOK'
    <2> SUFFICES ASSUME TypeOK, [Next]_vars PROVE TypeOK'
        OBVIOUS
    <2>1. ASSUME NEW c \in Conns, Handles(c) PROVE TypeOK'
        BY <2>1, HandlesType
    <2>2. ASSUME NEW c \in Conns, Connect(c) PROVE TypeOK'
        BY <2>2 DEF Connect, Silent, TypeOK, fetchVars, serverVars, overlaps
    <2>3. Publish => clears' \in 0..MaxClears
        BY DEF Publish, TypeOK
    <2>4. ASSUME NEW c \in Conns, WatcherEnds(c) PROVE TypeOK'
        <3>1. clears' \in 0..MaxClears
            BY <2>3, <2>4 DEF WatcherEnds, TypeOK
        <3> QED BY <2>4, <3>1 DEF WatcherEnds, Silent, TypeOK, fetchVars, overlaps
    <2>5. ASSUME NEW c \in Conns, ConnectionLost(c) PROVE TypeOK'
        BY <2>3, <2>5 DEF ConnectionLost, Silent, TypeOK, fetchVars, serverVars, overlaps
    <2>6. ASSUME NEW f \in Fetchers, FetchReply(f) PROVE TypeOK'
        BY <2>6 DEF FetchReply, Silent, TypeOK, sessionVars, serverVars, overlaps
    <2>7. ASSUME NEW f \in Fetchers, FetchEnd(f) PROVE TypeOK'
        BY <2>7 DEF FetchEnd, TypeOK, sessionVars, serverVars, overlaps
    <2>8. ASSUME NEW f \in Fetchers, NEW j \in Jids, FetchMerge(f, j) PROVE TypeOK'
        <3>1. fetch[f][j] \in Entries
            BY <2>8 DEF FetchMerge, TypeOK
        <3>2. /\ list' \in [Jids -> Objs \cup {Nil}] /\ peer' \in [Objs -> Peers]
              /\ torn' \subseteq Jids /\ crossed' \subseteq Jids
            BY <2>8, <3>1, AddOrMergeType, NewPeerTypes DEF FetchMerge
        <3>3. fetch' \in [Fetchers -> [Jids -> Entries \cup {Nil}]] /\ told' \subseteq Jids
            BY <2>8 DEF FetchMerge, TypeOK
        <3>4. /\ refresh' = FALSE
              /\ UNCHANGED <<watch, user, fetching, clears, connected, stream, srv, owed,
                             avail, open>>
            BY <2>8 DEF FetchMerge, Silent, sessionVars, serverVars
        <3> QED BY <3>2, <3>3, <3>4 DEF TypeOK
    <2>9. ASSUME NEW j \in Jids, UserGets(j) PROVE TypeOK'
        <3>1. user' \in Users
            BY <2>9 DEF UserGets, TypeOK, Users
        <3> QED BY <2>9, <3>1
                DEF UserGets, Silent, TypeOK, fetchVars, sessionVars, serverVars, overlaps
    <2>10. ASSUME NEW j \in Jids, NEW s \in Entries \cup {Nil}, ServerChanges(j, s)
           PROVE  TypeOK'
        BY <2>10 DEF ServerChanges, Change, Silent, TypeOK, fetchVars, sessionVars, overlaps
    <2>11. CASE Clear
        <3>1. clears' \in 0..MaxClears
            BY <2>11 DEF Clear, TypeOK
        <3> QED BY <2>11, <3>1 DEF Clear, TypeOK, fetchVars, serverVars
    <2>12. CASE UserActs
        <3>1. user.obj \in Objs
            BY <2>12, UserFacts DEF UserActs
        <3>2. [peer[user.obj] EXCEPT !.pending = FALSE] \in Peers
            BY <3>1, PeerTypes DEF TypeOK
        <3>3. user' \in Users /\ open' \subseteq Jids
            BY <2>12 DEF UserActs, TypeOK, Users
        <3> QED BY <2>12, <3>1, <3>2, <3>3
                DEF UserActs, Silent, TypeOK, fetchVars, sessionVars, serverVars, overlaps
    <2>13. CASE Disconnect
        BY <2>3, <2>13 DEF Disconnect, Silent, TypeOK, fetchVars, serverVars, overlaps
    <2>14. CASE UNCHANGED vars
        BY <2>14
           DEF TypeOK, vars, fetchVars, sessionVars, serverVars, overlaps
    <2> QED BY <2>1, <2>2, <2>4, <2>5, <2>6, <2>7, <2>8, <2>9, <2>10, <2>11, <2>12,
               <2>13, <2>14 DEF Next
<1> QED BY <1>1, <1>2, PTL DEF Spec

-----------------------------------------------------------------------------
\* Of any object, listed or not: its last resource is online if any is.
LastOnline == \A o \in Objs :
    peer[o].last # Nil /\ IsOnline(peer[o]) => peer[o].last \in peer[o].on

\* No new object names a last resource that is not online.
LEMMA NewPeerLasts ==
    /\ PeerWithPendingSubscribe.last = Nil
    /\ \A r \in Res : PeerWithState(r).last \in PeerWithState(r).on
    /\ \A s \in Entries : PeerFrom(s).last = Nil
BY DEF NewPeer, PeerWithPendingSubscribe, PeerWithState, PeerFrom

\* A merge forgets the last resource.
LEMMA MergeLast ==
    ASSUME TypeOK, LastOnline, NEW j \in Jids, NEW p \in Peers, AddOrMerge(j, p),
           p.last # Nil => p.last \in p.on
    PROVE  LastOnline'
<1>1. PICK o \in Objs :
          peer' = [peer EXCEPT ![o] =
                      IF list[j] = Nil THEN p ELSE MergeWith(peer[list[j]], p)]
    BY DEF AddOrMerge
<1>2. /\ peer'[o] = IF list[j] = Nil THEN p ELSE MergeWith(peer[list[j]], p)
      /\ \A x \in Objs \ {o} : peer'[x] = peer[x]
    BY <1>1 DEF TypeOK
<1>3. MergeWith(peer[list[j]], p).last = Nil
    BY DEF MergeWith, NewPeer
<1>4. peer'[o].last # Nil => peer'[o].last \in peer'[o].on
    BY <1>2, <1>3
<1> QED BY <1>2, <1>4 DEF LastOnline, IsOnline

\* So does no handler that changes one object.
LEMMA ObjectLast ==
    ASSUME TypeOK, LastOnline, NEW o \in Objs, NEW q, peer' = [peer EXCEPT ![o] = q],
           q.last # Nil /\ IsOnline(q) => q.last \in q.on
    PROVE  LastOnline'
BY DEF TypeOK, LastOnline

\* RemoveResource takes another last resource if that one is removed.
LEMMA RemoveLast ==
    ASSUME NEW p \in Peers, p.last # Nil /\ IsOnline(p) => p.last \in p.on,
           NEW r \in Res, NEW q \in RemoveResource(p, r)
    PROVE  q.last # Nil /\ IsOnline(q) => q.last \in q.on
<1> DEFINE on == p.on \ {r}
<1>1. PICK x \in NextLast(p, r, on) : q = [[p EXCEPT !.on = on] EXCEPT !.last = x]
    BY DEF RemoveResource
<1>2. q.on = on /\ q.last = x
    BY <1>1 DEF Peers
<1>3. CASE p.last = r /\ on # {}
    BY <1>2, <1>3 DEF NextLast
<1>4. CASE ~(p.last = r /\ on # {})
    <2>1. x = p.last
        BY <1>4 DEF NextLast
    <2> QED BY <1>2, <1>4, <2>1 DEF IsOnline
<1> QED BY <1>3, <1>4

\* What the handlers do to the rest of a peer.
LEMMA PeerFields ==
    ASSUME NEW p \in Peers
    PROVE  /\ \A r \in Res :
                  LET q == AddResource(p, r) IN
                  /\ q.on = p.on \cup {r} /\ q.last = r
                  /\ q.sub = p.sub /\ q.pending = p.pending
           /\ \A r \in Res : \A q \in RemoveResource(p, r) :
                  q.on = p.on \ {r} /\ q.sub = p.sub /\ q.pending = p.pending
           /\ LET q == ClearResources(p) IN
              q.on = {} /\ q.last = p.last /\ q.sub = p.sub /\ q.pending = p.pending
           /\ LET q == [p EXCEPT !.pending = FALSE] IN
              q.on = p.on /\ q.last = p.last /\ q.sub = p.sub
           /\ Subscribed(p).on = p.on /\ Subscribed(p).last = p.last
           /\ Unsubscribed(p).on = p.on /\ Unsubscribed(p).last = p.last
<1>1. ASSUME NEW r \in Res, NEW q \in RemoveResource(p, r)
      PROVE  q.on = p.on \ {r} /\ q.sub = p.sub /\ q.pending = p.pending
    <2>1. PICK x : q = [[p EXCEPT !.on = p.on \ {r}] EXCEPT !.last = x]
        BY DEF RemoveResource
    <2> QED BY <2>1 DEF Peers
<1>2. /\ Subscribed(p).on = p.on /\ Subscribed(p).last = p.last
      /\ Unsubscribed(p).on = p.on /\ Unsubscribed(p).last = p.last
    BY DEF Subscribed, Unsubscribed, Peers
<1> QED BY <1>1, <1>2 DEF AddResource, ClearResources, Peers

\* The object a handler changes, and what becomes of it.
Changed(c, q) ==
    LET p == peer[watch[c].obj] IN
    \/ watch[c].op = "update" /\ q = AddResource(p, watch[c].res)
    \/ /\ watch[c].op = "gone"
       /\ q \in IF watch[c].res = Nil THEN {ClearResources(p)}
                ELSE RemoveResource(p, watch[c].res)
    \/ watch[c].op = "subscribed" /\ q = Subscribed(p)
    \/ watch[c].op = "unsubscribe" /\ q = Unsubscribed(p)

Finishes(c) == FinishUpdate(c) \/ FinishGone(c) \/ FinishAnswer(c)

\* Every handler but the one that adds a contact changes the object it holds,
\* and publishes when that comes online or leaves since it was read.
LEMMA FinishFacts ==
    ASSUME TypeOK, NEW c \in Conns, Finishes(c)
    PROVE  \E q :
              /\ Changed(c, q)
              /\ watch[c].obj \in Objs
              /\ peer' = [peer EXCEPT ![watch[c].obj] = q]
              /\ watch' = [watch EXCEPT ![c] = Idle]
              /\ UNCHANGED <<list, user, srv, avail, open, told, crossed, torn>>
              /\ watch[c].op \in {"update", "gone"} =>
                     (watch[c].online # IsOnline(q) => refresh')
              /\ watch[c].op \in {"update", "gone", "subscribed", "unsubscribe"}
<1>1. CASE FinishUpdate(c)
    <2> DEFINE q == AddResource(peer[watch[c].obj], watch[c].res)
    <2>1. watch[c].op = "update" /\ watch[c].obj \in Objs /\ watch[c].online \in BOOLEAN
        BY <1>1, WatchFacts DEF FinishUpdate
    <2>2. watch[c].online # IsOnline(q) => refresh'
        <3>1. IsOnline(q)
            <4>1. q.on = peer[watch[c].obj].on \cup {watch[c].res}
                BY <2>1, WatchFacts, PeerFields DEF TypeOK
            <4> QED BY <4>1 DEF IsOnline
        <3>2. refresh' \in {~watch[c].online, TRUE}
            BY <1>1 DEF FinishUpdate, Updated
        <3> QED BY <2>1, <3>1, <3>2
    <2> QED BY <1>1, <2>1, <2>2 DEF FinishUpdate, Finish, Changed, overlaps, serverVars
<1>2. CASE FinishGone(c)
    <2>1. watch[c].op = "gone" /\ watch[c].obj \in Objs
        BY <1>2, WatchFacts DEF FinishGone
    <2>2. PICK q : /\ q \in IF watch[c].res = Nil THEN {ClearResources(peer[watch[c].obj])}
                            ELSE RemoveResource(peer[watch[c].obj], watch[c].res)
                   /\ peer' = [peer EXCEPT ![watch[c].obj] = q]
                   /\ refresh' = (watch[c].online # IsOnline(q))
        BY <1>2 DEF FinishGone
    <2>3. watch[c].online # IsOnline(q) => refresh'
        BY <2>2, Zenon
    <2> QED BY <1>2, <2>1, <2>2, <2>3 DEF FinishGone, Finish, Changed, overlaps, serverVars
<1>3. CASE FinishAnswer(c)
    <2>1. watch[c].op \in {"subscribed", "unsubscribe"} /\ watch[c].obj \in Objs
        BY <1>3, WatchFacts DEF FinishAnswer
    <2> DEFINE q == IF watch[c].op = "subscribed" THEN Subscribed(peer[watch[c].obj])
                    ELSE Unsubscribed(peer[watch[c].obj])
    <2>2. Changed(c, q)
        BY <2>1 DEF Changed
    <2>3. peer' = [peer EXCEPT ![watch[c].obj] = q]
        BY <1>3 DEF FinishAnswer
    <2> HIDE DEF q
    <2> QED BY <1>3, <2>1, <2>2, <2>3 DEF FinishAnswer, Finish, overlaps, serverVars
<1> QED BY <1>1, <1>2, <1>3 DEF Finishes

\* Every step keeps the last resources.
LEMMA StepLast ==
    ASSUME TypeOK, LastOnline, [Next]_vars
    PROVE  LastOnline'
<1> USE RosterAssumption
<1>1. ASSUME UNCHANGED peer PROVE LastOnline'
    BY <1>1 DEF LastOnline
<1>2. ASSUME NEW c \in Conns, Finishes(c) PROVE LastOnline'
    <2>1. PICK q : /\ Changed(c, q) /\ watch[c].obj \in Objs
                   /\ peer' = [peer EXCEPT ![watch[c].obj] = q]
        BY <1>2, FinishFacts
    <2> DEFINE p == peer[watch[c].obj]
    <2>2. p \in Peers /\ (p.last # Nil /\ IsOnline(p) => p.last \in p.on)
        BY <2>1 DEF TypeOK, LastOnline
    <2>3. q.last # Nil /\ IsOnline(q) => q.last \in q.on
        <3>1. CASE watch[c].op = "update"
            BY <2>1, <2>2, <3>1, WatchFacts, PeerFields DEF Changed
        <3>2. CASE watch[c].op = "gone"
            <4>1. CASE watch[c].res = Nil
                BY <2>1, <2>2, <3>2, <4>1, PeerFields DEF Changed, IsOnline
            <4>2. CASE watch[c].res # Nil
                <5>1. watch[c].res \in Res /\ q \in RemoveResource(p, watch[c].res)
                    BY <2>1, <3>2, <4>2, WatchFacts DEF Changed
                <5> QED BY <2>2, <5>1, RemoveLast
            <4> QED BY <4>1, <4>2
        <3>3. CASE watch[c].op \in {"subscribed", "unsubscribe"}
            BY <2>1, <2>2, <3>3, PeerFields DEF Changed, IsOnline
        <3> QED BY <2>1, <3>1, <3>2, <3>3 DEF Changed
    <2> QED BY <2>1, <2>3, ObjectLast
<1>3. ASSUME NEW c \in Conns, FinishAdd(c) PROVE LastOnline'
    <2>1. watch[c].jid \in Jids /\ watch[c].res \in Res
        BY <1>3, WatchFacts DEF FinishAdd
    <2> QED BY <1>3, <2>1, MergeLast, NewPeerTypes, NewPeerLasts DEF FinishAdd
<1>4. ASSUME NEW c \in Conns, NEW j \in Jids, ReceiveSubscribe(c, j) PROVE LastOnline'
    BY <1>4, MergeLast, NewPeerTypes, NewPeerLasts DEF ReceiveSubscribe
<1>5. ASSUME NEW c \in Conns, NEW j \in Jids, ReceivePush(c, j) PROVE LastOnline'
    <2>1. CASE srv[j] = Nil
        BY <1>1, <1>5, <2>1 DEF ReceivePush
    <2>2. CASE srv[j] # Nil
        <3>1. srv[j] \in Entries
            BY <2>2 DEF TypeOK
        <3> QED BY <1>5, <2>2, <3>1, MergeLast, NewPeerTypes, NewPeerLasts DEF ReceivePush
    <2> QED BY <2>1, <2>2
<1>6. ASSUME NEW f \in Fetchers, NEW j \in Jids, FetchMerge(f, j) PROVE LastOnline'
    <2>1. fetch[f][j] \in Entries
        BY <1>6 DEF FetchMerge, TypeOK
    <2> QED BY <1>6, <2>1, MergeLast, NewPeerTypes, NewPeerLasts DEF FetchMerge
<1>7. CASE UserActs
    <2>1. user.obj \in Objs
        BY <1>7, UserFacts DEF UserActs
    <2> DEFINE p == peer[user.obj]
    <2>2. p \in Peers /\ (p.last # Nil /\ IsOnline(p) => p.last \in p.on)
        BY <2>1 DEF TypeOK, LastOnline
    <2> DEFINE q == [p EXCEPT !.pending = FALSE]
    <2>3. peer' = [peer EXCEPT ![user.obj] = q]
        BY <1>7 DEF UserActs
    <2>4. q.on = p.on /\ q.last = p.last
        BY <2>2, PeerFields
    <2>5. q.last # Nil /\ IsOnline(q) => q.last \in q.on
        BY <2>2, <2>4 DEF IsOnline
    <2> HIDE DEF q
    <2> QED BY <2>1, <2>3, <2>5, ObjectLast
<1>8. ASSUME NEW c \in Conns, Handles(c) PROVE LastOnline'
    <2>1. ASSUME NEW j \in Jids, NEW r, ReceiveAvailable(c, j, r) \/ ReceiveUnavailable(c, j, r)
          PROVE  LastOnline'
        BY <1>1, <2>1 DEF ReceiveAvailable, ReceiveUnavailable
    <2>2. ASSUME NEW j \in Jids, ReceiveSubscribed(c, j) \/ ReceiveUnsubscribe(c, j)
          PROVE  LastOnline'
        BY <1>1, <2>2 DEF ReceiveSubscribed, ReceiveUnsubscribe, ReceiveAnswer, HandleAnswer
    <2> QED BY <1>2, <1>3, <1>4, <1>5, <1>8, <2>1, <2>2 DEF Handles, Finishes
<1>9. ASSUME NEW c \in Conns, Connect(c) \/ WatcherEnds(c) \/ ConnectionLost(c)
      PROVE  LastOnline'
    BY <1>1, <1>9 DEF Connect, WatcherEnds, ConnectionLost
<1>10. ASSUME NEW f \in Fetchers, FetchReply(f) \/ FetchEnd(f) PROVE LastOnline'
    BY <1>1, <1>10 DEF FetchReply, FetchEnd
<1>11. ASSUME NEW j \in Jids, NEW s, UserGets(j) \/ ServerChanges(j, s) PROVE LastOnline'
    BY <1>1, <1>11 DEF UserGets, ServerChanges
<1>12. CASE Clear \/ Disconnect \/ UNCHANGED vars
    BY <1>1, <1>12 DEF Clear, Disconnect, vars
<1> QED BY <1>6, <1>7, <1>8, <1>9, <1>10, <1>11, <1>12 DEF Next

\* The last resource of an online contact is online, whichever goroutines use
\* the list at the same time.
THEOREM LastResourceIsOnline == Spec => []LastIsOnline
<1>1. Init /\ TypeOK => LastOnline
    <2>1. NewPeer.last = Nil
        BY DEF NewPeer
    <2> QED BY <2>1 DEF Init, LastOnline
<1>2. TypeOK /\ LastOnline /\ [Next]_vars => LastOnline'
    BY StepLast
<1>3. TypeOK /\ LastOnline => LastIsOnline
    BY DEF TypeOK, LastOnline, LastIsOnline
<1> QED BY <1>1, <1>2, <1>3, TypeCorrect, PTL DEF Spec

-----------------------------------------------------------------------------
(* What holds of a contact, whichever goroutines use the list at once.     *)

\* Two addresses never share an object.
Distinct == \A i, j \in Jids : list[i] # Nil /\ list[i] = list[j] => i = j

\* What the user answers is the request of the address that was asked for.
UserHasOwn == user # Idle => \A j \in Jids : list[j] = user.obj => j = user.jid

HeldBy(c, i) == list[i] # Nil /\ Holds(watch[c], list[i])
NobodyHolds(i) == \A c \in Conns : ~HeldBy(c, i)

\* The resources there will be once a handler has returned.
After(w, on) ==
    IF w.op = "update" THEN on \cup {w.res}
    ELSE IF w.op = "gone" THEN IF w.res = Nil THEN {} ELSE on \ {w.res}
    ELSE on

NoSub == ""

\* One watcher at most holds an object that was not crossed, ...
OneHolder(i) == i \notin crossed =>
    \A c, d \in Conns : HeldBy(c, i) /\ HeldBy(d, i) => c = d

\* ... so what its handler read of the object is still so.
Current(i) == i \notin crossed =>
    \A c \in Conns : HeldBy(c, i) /\ watch[c].op \in {"update", "gone"} =>
        watch[c].online = IsOnline(peer[list[i]])

\* The contact's own answer leaves neither an open request nor a subscription
\* the server has told of.
Settled(i) ==
    \A c \in Conns : HeldBy(c, i) /\ watch[c].op \in {"subscribed", "unsubscribe"} =>
        i \notin open /\ i \notin told

Asked(i) == i \in open => list[i] # Nil /\ peer[list[i]].pending

\* Every handler leaves the resources that the presences say are there.
Present(i) == i \notin torn /\ i \notin crossed =>
    /\ list[i] = Nil => avail[i] = {}
    /\ list[i] # Nil /\ NobodyHolds(i) => avail[i] = peer[list[i]].on
    /\ \A c \in Conns : HeldBy(c, i) => avail[i] = After(watch[c], peer[list[i]].on)

Said(i) == i \in told =>
    IF srv[i] = Nil THEN list[i] = Nil \/ peer[list[i]].sub = NoSub
    ELSE list[i] # Nil /\ peer[list[i]].sub = srv[i]

Contact(i) ==
    OneHolder(i) /\ Current(i) /\ Settled(i) /\ Asked(i) /\ Present(i) /\ Said(i)

ContactsInv ==
    /\ TypeOK /\ Distinct /\ UserHasOwn
    /\ \A i \in Jids : Contact(i)

\* What OnlineChangeIsPublished says of a step, for one contact.
Shown(i) ==
    list[i] # Nil /\ list'[i] # Nil /\ i \notin crossed =>
        (IsOnline(peer[list[i]]) # IsOnline(peer'[list'[i]]) => refresh')

\* A step that is about other contacts, or about nothing the list says.
Same(i) ==
    /\ list'[i] = list[i]
    /\ list[i] # Nil =>
           /\ peer'[list[i]].on = peer[list[i]].on
           /\ peer'[list[i]].sub = peer[list[i]].sub
           /\ i \in open' => peer'[list[i]].pending = peer[list[i]].pending
    /\ \A c \in Conns : HeldBy(c, i)' <=> HeldBy(c, i)
    /\ \A c \in Conns : HeldBy(c, i) => watch'[c] = watch[c]
    /\ avail'[i] = avail[i]
    /\ i \in open' => i \in open
    /\ i \in told' => i \in told /\ srv'[i] = srv[i]
    /\ (i \in crossed' <=> i \in crossed) /\ (i \in torn' <=> i \in torn)

LEMMA SameKeeps ==
    ASSUME NEW i \in Jids, Contact(i), Same(i)
    PROVE  Contact(i)' /\ Shown(i)
<1>1. NobodyHolds(i)' <=> NobodyHolds(i)
    BY DEF Same, NobodyHolds
<1>2. OneHolder(i)' /\ Settled(i)'
    BY DEF Contact, Same, OneHolder, Settled
<1>3. Current(i)'
    BY DEF Contact, Same, Current, HeldBy, IsOnline
<1>4. Asked(i)'
    BY DEF Contact, Same, Asked
<1>5. Present(i)'
    BY <1>1 DEF Contact, Same, Present, HeldBy
<1>6. Said(i)'
    BY DEF Contact, Same, Said
<1>7. Shown(i)
    BY DEF Same, Shown, IsOnline
<1> QED BY <1>2, <1>3, <1>4, <1>5, <1>6, <1>7 DEF Contact

\* What is proved of every step.
Kept == Distinct' /\ UserHasOwn' /\ \A i \in Jids : Contact(i)' /\ Shown(i)

\* A merge keeps a request of either part, and a subscription unless the new
\* part has one.
LEMMA MergeFields ==
    ASSUME NEW p \in Peers, NEW q \in Peers
    PROVE  /\ MergeWith(p, q).on = p.on \cup q.on
           /\ p.pending \/ q.pending => MergeWith(p, q).pending
           /\ MergeWith(p, q).sub = IF q.sub # NoSub THEN q.sub ELSE p.sub
<1>1. /\ MergeWith(p, q).on = Union(p, q)
      /\ MergeWith(p, q).pending = Pending(p, q)
      /\ MergeWith(p, q).sub = Prefer(p.sub, q.sub)
    BY Zenon DEF MergeWith, NewPeer
<1>2. Prefer(p.sub, q.sub) = IF q.sub # NoSub THEN q.sub ELSE p.sub
    BY Zenon DEF Prefer, NoSub
<1>3. p.pending \/ q.pending => MergeWith(p, q).pending
    BY <1>1, Zenon DEF Pending
<1> QED BY <1>1, <1>2, <1>3 DEF Union

\* A merge: of a new part p into the entry of j, by whichever goroutine.
LEMMA MergeStep ==
    ASSUME ContactsInv, NEW j \in Jids, NEW p \in Peers, AddOrMerge(j, p),
           \A c \in Conns : watch'[c] = watch[c] \/ (watch[c].op = "add" /\ watch'[c] = Idle),
           user' = user, srv' = srv,
           \A i \in Jids \ {j} : /\ avail'[i] = avail[i]
                                 /\ i \in open' => i \in open
                                 /\ i \in told' => i \in told,
           avail'[j] = avail[j] \cup p.on,
           j \in open' => j \in open \/ p.pending,
           p.on # {} => refresh',
           j \in told' => IF p.sub = NoSub THEN j \in told
                            ELSE srv[j] # Nil /\ p.sub = srv[j]
    PROVE  Kept
<1> USE RosterAssumption
<1>1. PICK o \in Objs :
          /\ Unused(o)
          /\ list' = [list EXCEPT ![j] = o]
          /\ peer' = [peer EXCEPT ![o] =
                         IF list[j] = Nil THEN p ELSE MergeWith(peer[list[j]], p)]
    BY DEF AddOrMerge
<1>2. /\ peer'[o] = IF list[j] = Nil THEN p ELSE MergeWith(peer[list[j]], p)
      /\ \A x \in Objs \ {o} : peer'[x] = peer[x]
      /\ list'[j] = o /\ o # Nil
      /\ \A i \in Jids \ {j} : list'[i] = list[i]
      /\ \A i \in Jids : list[i] # o /\ list[i] \in Objs \cup {Nil}
    BY <1>1 DEF ContactsInv, TypeOK, Unused
<1>3. Distinct'
    BY <1>2 DEF Distinct, ContactsInv
<1>4. UserHasOwn'
    <2>1. user # Idle => user.obj # o
        BY <1>1, UserFacts DEF Unused, Holds, ContactsInv
    <2> QED BY <1>2, <2>1 DEF UserHasOwn, ContactsInv
<1>5. \A c \in Conns : \A x : Holds(watch'[c], x) <=> Holds(watch[c], x)
    BY DEF Holds, Idle
<1>6. ASSUME NEW i \in Jids \ {j} PROVE Contact(i)' /\ Shown(i)
    <2>1. \A c \in Conns : HeldBy(c, i)' <=> HeldBy(c, i)
        BY <1>2, <1>5 DEF HeldBy
    <2>2. \A c \in Conns : HeldBy(c, i) => watch'[c] = watch[c]
        BY DEF HeldBy, Holds
    <2>3. /\ i \in crossed' <=> i \in crossed
          /\ i \in torn' <=> i \in torn
        BY DEF AddOrMerge
    <2>4. Same(i)
        BY <1>2, <2>1, <2>2, <2>3 DEF Same
    <2> QED BY <2>4, SameKeeps DEF ContactsInv
<1>7. Contact(j)' /\ Shown(j)
    <2>1. \A c \in Conns : ~HeldBy(c, j)'
        BY <1>1, <1>2, <1>5 DEF HeldBy, Unused
    <2>2. OneHolder(j)' /\ Current(j)' /\ Settled(j)'
        BY <2>1 DEF OneHolder, Current, Settled
    <2>3. Contact(j)
        BY DEF ContactsInv
    <2>4. list[j] # Nil => /\ peer'[o].on = peer[list[j]].on \cup p.on
                           /\ peer[list[j]].pending \/ p.pending => peer'[o].pending
                           /\ peer'[o].sub = IF p.sub # NoSub THEN p.sub ELSE peer[list[j]].sub
        BY <1>2, MergeFields DEF ContactsInv, TypeOK
    <2>5. Asked(j)'
        BY <1>2, <2>3, <2>4 DEF Asked, Contact
    <2>6. Present(j)'
        <3> SUFFICES ASSUME j \notin torn', j \notin crossed'
                     PROVE  avail'[j] = peer'[o].on
            BY <1>2, <2>1 DEF Present
        <3>1. ~Held(j) /\ j \notin crossed /\ j \notin torn
            BY DEF AddOrMerge
        <3>2. NobodyHolds(j)
            BY <3>1 DEF Held, NobodyHolds, HeldBy
        <3>3. IF list[j] = Nil THEN avail[j] = {} ELSE avail[j] = peer[list[j]].on
            BY <2>3, <3>1, <3>2 DEF Contact, Present
        <3> QED BY <1>2, <2>4, <3>3
    <2>7. Said(j)'
        BY <1>2, <2>3, <2>4 DEF Said, Contact
    <2>8. Shown(j)
        <3>1. CASE p.on = {}
            BY <1>2, <2>4, <3>1 DEF Shown, IsOnline
        <3>2. CASE p.on # {}
            BY <3>2 DEF Shown
        <3> QED BY <3>1, <3>2
    <2> QED BY <2>2, <2>5, <2>6, <2>7, <2>8 DEF Contact
<1> QED BY <1>3, <1>4, <1>6, <1>7 DEF Kept

\* A handler that takes hold of the entry of j, to do later what w says.
LEMMA HoldStep ==
    ASSUME ContactsInv, NEW c \in Conns, NEW j \in Jids, NEW w, Hold(c, j, w),
           watch[c] = Idle, list[j] # Nil,
           w.op \in {"update", "gone", "subscribed", "unsubscribe"}, w.obj = list[j],
           w.op \in {"update", "gone"} => w.online = IsOnline(peer[list[j]]),
           w.op \in {"subscribed", "unsubscribe"} => j \notin open' /\ j \notin told',
           UNCHANGED <<list, peer, user, torn>>,
           avail' = [avail EXCEPT ![j] = After(w, avail[j])],
           \A i \in Jids : /\ i \in open' => i \in open
                           /\ i \in told' => i \in told /\ srv'[i] = srv[i]
    PROVE  Kept
<1>1. Distinct' /\ UserHasOwn'
    BY DEF ContactsInv, Distinct, UserHasOwn
<1>2. /\ watch'[c] = w
      /\ \A d \in Conns \ {c} : watch'[d] = watch[d]
      /\ \A x : ~Holds(watch[c], x) /\ (Holds(w, x) <=> x = list[j])
    BY DEF Hold, Holds, Idle, ContactsInv, TypeOK
<1>3. \A i \in Jids : i # j => avail'[i] = avail[i] /\ list[i] # list[j]
    BY DEF ContactsInv, TypeOK, Distinct
<1>4. ASSUME NEW i \in Jids \ {j} PROVE Contact(i)' /\ Shown(i)
    <2>1. /\ \A d \in Conns : HeldBy(d, i)' <=> HeldBy(d, i)
          /\ \A d \in Conns : HeldBy(d, i) => watch'[d] = watch[d]
        BY <1>2, <1>3 DEF HeldBy
    <2>2. i \in crossed' <=> i \in crossed
        BY DEF Hold
    <2>3. Same(i)
        BY <1>3, <2>1, <2>2 DEF Same
    <2> QED BY <2>3, SameKeeps DEF ContactsInv
<1>5. Contact(j)' /\ Shown(j)
    <2>1. \A d \in Conns : HeldBy(d, j)' <=> (d = c \/ HeldBy(d, j))
        BY <1>2 DEF HeldBy
    <2>2. Contact(j)
        BY DEF ContactsInv
    <2>3. j \notin crossed' => j \notin crossed /\ NobodyHolds(j)
        BY DEF Hold, Held, NobodyHolds, HeldBy
    <2>4. OneHolder(j)'
        BY <2>1, <2>3 DEF OneHolder, NobodyHolds
    <2>5. Current(j)'
        BY <1>2, <2>1, <2>3 DEF Current, NobodyHolds
    <2>6. Settled(j)'
        BY <1>2, <2>1, <2>2 DEF Settled, Contact
    <2>7. Asked(j)' /\ Said(j)'
        BY <2>2 DEF Asked, Said, Contact
    <2>8. Present(j)'
        <3> SUFFICES ASSUME j \notin torn, j \notin crossed'
                     PROVE  Present(j)'
            BY DEF Present
        <3>1. avail[j] = peer[list[j]].on
            BY <2>2, <2>3 DEF Contact, Present
        <3>2. avail'[j] = After(watch'[c], peer'[list'[j]].on)
            BY <1>2, <3>1 DEF ContactsInv, TypeOK
        <3>3. \A d \in Conns : HeldBy(d, j)' => d = c
            BY <2>1, <2>3 DEF NobodyHolds
        <3>4. HeldBy(c, j)'
            BY <2>1
        <3> QED BY <3>2, <3>3, <3>4 DEF Present, NobodyHolds
    <2>9. Shown(j)
        BY DEF Shown
    <2> QED BY <2>4, <2>5, <2>6, <2>7, <2>8, <2>9 DEF Contact
<1> QED BY <1>1, <1>4, <1>5 DEF Kept

\* What a handler makes of the object it holds.
LEMMA ChangedFields ==
    ASSUME TypeOK, NEW c \in Conns, NEW q, Changed(c, q), watch[c].obj \in Objs
    PROVE  /\ q.on = After(watch[c], peer[watch[c].obj].on)
           /\ watch[c].op \in {"update", "gone"} =>
                  /\ q.sub = peer[watch[c].obj].sub
                  /\ q.pending = peer[watch[c].obj].pending
<1> DEFINE p == peer[watch[c].obj]
<1>1. p \in Peers
    BY DEF TypeOK
<1>2. CASE watch[c].op = "update"
    BY <1>1, <1>2, WatchFacts, PeerFields DEF Changed, After
<1>3. CASE watch[c].op = "gone"
    <2>1. CASE watch[c].res = Nil
        BY <1>1, <1>3, <2>1, PeerFields DEF Changed, After
    <2>2. CASE watch[c].res # Nil
        BY <1>1, <1>3, <2>2, WatchFacts, PeerFields DEF Changed, After
    <2> QED BY <2>1, <2>2
<1>4. CASE watch[c].op \in {"subscribed", "unsubscribe"}
    BY <1>1, <1>4, PeerFields DEF Changed, After
<1> QED BY <1>2, <1>3, <1>4 DEF Changed

\* A handler that changes the object it holds.
LEMMA FinishStep ==
    ASSUME ContactsInv, NEW c \in Conns, Finishes(c)
    PROVE  Kept
<1> USE RosterAssumption
<1>1. PICK q : /\ Changed(c, q)
               /\ watch[c].obj \in Objs
               /\ peer' = [peer EXCEPT ![watch[c].obj] = q]
               /\ watch' = [watch EXCEPT ![c] = Idle]
               /\ UNCHANGED <<list, user, srv, avail, open, told, crossed, torn>>
               /\ watch[c].op \in {"update", "gone"} =>
                      (watch[c].online # IsOnline(q) => refresh')
               /\ watch[c].op \in {"update", "gone", "subscribed", "unsubscribe"}
    BY FinishFacts DEF ContactsInv
<1>2. /\ peer'[watch[c].obj] = q
      /\ \A x \in Objs \ {watch[c].obj} : peer'[x] = peer[x]
      /\ watch'[c] = Idle
      /\ \A d \in Conns \ {c} : watch'[d] = watch[d]
      /\ \A x : ~Holds(watch'[c], x) /\ (Holds(watch[c], x) <=> x = watch[c].obj)
    BY <1>1 DEF ContactsInv, TypeOK, Holds, Idle
<1>3. Distinct' /\ UserHasOwn'
    BY <1>1 DEF ContactsInv, Distinct, UserHasOwn
<1>4. ASSUME NEW i \in Jids, list[i] # watch[c].obj PROVE Contact(i)' /\ Shown(i)
    <2>1. \A d \in Conns : HeldBy(d, i)' <=> HeldBy(d, i)
        BY <1>1, <1>2, <1>4 DEF HeldBy
    <2>2. \A d \in Conns : HeldBy(d, i) => watch'[d] = watch[d]
        BY <1>2, <1>4 DEF HeldBy
    <2>3. list[i] # Nil => peer'[list[i]] = peer[list[i]]
        BY <1>2, <1>4 DEF ContactsInv, TypeOK
    <2>4. Same(i)
        BY <1>1, <2>1, <2>2, <2>3 DEF Same
    <2> QED BY <2>4, SameKeeps DEF ContactsInv
<1>5. ASSUME NEW i \in Jids, list[i] = watch[c].obj PROVE Contact(i)' /\ Shown(i)
    <2>1. Contact(i) /\ HeldBy(c, i) /\ list'[i] = list[i]
        BY <1>1, <1>2, <1>5 DEF ContactsInv, HeldBy, TypeOK
    <2>2. \A d \in Conns : HeldBy(d, i)' <=> (d # c /\ HeldBy(d, i))
        BY <1>1, <1>2 DEF HeldBy
    <2>3. i \notin crossed => NobodyHolds(i)'
        BY <2>1, <2>2 DEF Contact, OneHolder, NobodyHolds
    <2>4. OneHolder(i)' /\ Current(i)'
        BY <1>1, <2>3 DEF OneHolder, Current, NobodyHolds
    <2>5. Settled(i)'
        BY <1>1, <1>2, <2>1, <2>2 DEF Settled, Contact
    <2>6. /\ q.on = After(watch[c], peer[list[i]].on)
          /\ watch[c].op \in {"update", "gone"} =>
                 q.sub = peer[list[i]].sub /\ q.pending = peer[list[i]].pending
        BY <1>1, <1>5, ChangedFields DEF ContactsInv
    <2>7. i \in open \/ i \in told => watch[c].op \in {"update", "gone"}
        BY <1>1, <2>1 DEF Settled, Contact
    <2>8. Asked(i)' /\ Said(i)'
        BY <1>1, <1>2, <1>5, <2>1, <2>6, <2>7 DEF Asked, Said, Contact
    <2>9. Present(i)'
        BY <1>1, <1>2, <1>5, <2>1, <2>3, <2>6 DEF Present, NobodyHolds, Contact
    <2>10. Shown(i)
        <3> SUFFICES ASSUME i \notin crossed, IsOnline(peer[list[i]]) # IsOnline(q)
                     PROVE  refresh'
            BY <1>2, <1>5, <2>1 DEF Shown
        <3>1. CASE watch[c].op \in {"update", "gone"}
            <4>1. watch[c].online = IsOnline(peer[list[i]])
                BY <2>1, <3>1 DEF Contact, Current
            <4>2. watch[c].online # IsOnline(q) => refresh'
                BY <1>1, <3>1
            <4> QED BY <4>1, <4>2, Zenon
        <3>2. CASE watch[c].op \in {"subscribed", "unsubscribe"}
            <4>1. q.on = peer[list[i]].on
                BY <2>6, <3>2 DEF After
            <4> QED BY <4>1, Zenon DEF IsOnline
        <3> QED BY <1>1, <3>1, <3>2
    <2> QED BY <2>4, <2>5, <2>8, <2>9, <2>10 DEF Contact
<1> QED BY <1>3, <1>4, <1>5 DEF Kept

\* A step that gives nobody an object and changes no fields.
LEMMA QuietStep ==
    ASSUME ContactsInv, UNCHANGED <<list, peer, watch, user, avail, open, crossed, torn>>,
           \A i \in Jids : i \in told' => i \in told /\ srv'[i] = srv[i]
    PROVE  Kept
<1>1. Distinct' /\ UserHasOwn'
    BY DEF ContactsInv, Distinct, UserHasOwn
<1>2. ASSUME NEW i \in Jids PROVE Contact(i)' /\ Shown(i)
    <2>1. Same(i)
        BY DEF Same, HeldBy
    <2> QED BY <2>1, SameKeeps DEF ContactsInv
<1> QED BY <1>1, <1>2 DEF Kept

\* A contact that is not listed has no resources, request or subscription.
LEMMA UnlistedStep ==
    ASSUME ContactsInv, NEW i \in Jids, list'[i] = Nil, avail'[i] = {}, i \notin open',
           i \in told' => srv'[i] = Nil
    PROVE  Contact(i)' /\ Shown(i)
<1>1. \A c \in Conns : ~HeldBy(c, i)'
    BY DEF HeldBy
<1> QED BY <1>1
        DEF Contact, OneHolder, Current, Settled, Asked, Present, Said, Shown

\* The steps of a watcher.
LEMMA HandlesStep ==
    ASSUME ContactsInv, NEW c \in Conns, Handles(c)
    PROVE  Kept
<1> USE RosterAssumption
<1>1. ASSUME NEW j \in Jids, NEW r \in Res, ReceiveAvailable(c, j, r) PROVE Kept
    <2>1. CASE list[j] = Nil
        <3> DEFINE w == [op |-> "add", jid |-> j, res |-> r]
        <3>1. /\ watch[c] = Idle /\ watch' = [watch EXCEPT ![c] = w]
              /\ UNCHANGED <<list, peer, user, srv, avail, open, told, crossed, torn>>
            BY <1>1, <2>1 DEF ReceiveAvailable, Receive, serverVars
        <3>2. /\ watch'[c] = w /\ \A d \in Conns \ {c} : watch'[d] = watch[d]
              /\ \A x : ~Holds(w, x) /\ ~Holds(watch[c], x)
            BY <3>1 DEF ContactsInv, TypeOK, Holds, Idle
        <3>3. ASSUME NEW i \in Jids PROVE Contact(i)' /\ Shown(i)
            <4>1. Same(i)
                BY <3>1, <3>2 DEF Same, HeldBy
            <4> QED BY <4>1, SameKeeps DEF ContactsInv
        <3> QED BY <3>1, <3>3 DEF Kept, ContactsInv, Distinct, UserHasOwn
    <2>2. CASE list[j] # Nil
        <3> DEFINE w == [op |-> "update", jid |-> j, obj |-> list[j], res |-> r,
                         online |-> IsOnline(peer[list[j]])]
        <3>1. /\ watch[c] = Idle /\ Hold(c, j, w)
              /\ UNCHANGED <<list, peer, user, srv, open, told, torn>>
              /\ avail' = [avail EXCEPT ![j] = @ \cup {r}]
            BY <1>1, <2>2 DEF ReceiveAvailable, Receive, serverVars
        <3>2. /\ w.op = "update" /\ w.obj = list[j] /\ w.online = IsOnline(peer[list[j]])
              /\ After(w, avail[j]) = avail[j] \cup {r}
            BY DEF After
        <3> HIDE DEF w
        <3> QED BY <2>2, <3>1, <3>2, HoldStep
    <2> QED BY <2>1, <2>2
<1>2. ASSUME NEW j \in Jids, NEW r \in Res \cup {Nil}, ReceiveUnavailable(c, j, r)
      PROVE  Kept
    <2>1. CASE list[j] = Nil
        <3>1. /\ UNCHANGED <<list, peer, watch, user, srv, open, told, crossed, torn>>
              /\ \A i \in Jids : IF i = j THEN avail'[i] \subseteq avail[i]
                                 ELSE avail'[i] = avail[i]
            BY <1>2, <2>1 DEF ReceiveUnavailable, Receive, serverVars, ContactsInv, TypeOK
        <3>2. ASSUME NEW i \in Jids \ {j} PROVE Contact(i)' /\ Shown(i)
            <4>1. Same(i)
                BY <3>1 DEF Same, HeldBy
            <4> QED BY <4>1, SameKeeps DEF ContactsInv
        <3>3. Contact(j)' /\ Shown(j)
            <4>1. \A d \in Conns : ~HeldBy(d, j) /\ ~HeldBy(d, j)'
                BY <2>1, <3>1 DEF HeldBy
            <4>2. Contact(j)
                BY DEF ContactsInv
            <4> QED BY <2>1, <3>1, <4>1, <4>2
                    DEF Contact, OneHolder, Current, Settled, Asked, Present, Said, Shown
        <3> QED BY <3>1, <3>2, <3>3 DEF Kept, ContactsInv, Distinct, UserHasOwn
    <2>2. CASE list[j] # Nil
        <3> DEFINE w == [op |-> "gone", obj |-> list[j], res |-> r,
                         online |-> IsOnline(peer[list[j]])]
        <3>1. /\ watch[c] = Idle /\ Hold(c, j, w)
              /\ UNCHANGED <<list, peer, user, srv, open, told, torn>>
              /\ avail' = [avail EXCEPT ![j] = IF r = Nil THEN {} ELSE @ \ {r}]
            BY <1>2, <2>2 DEF ReceiveUnavailable, Receive, serverVars
        <3>2. /\ w.op = "gone" /\ w.obj = list[j] /\ w.online = IsOnline(peer[list[j]])
              /\ After(w, avail[j]) = IF r = Nil THEN {} ELSE avail[j] \ {r}
            BY DEF After
        <3> HIDE DEF w
        <3>3. avail' = [avail EXCEPT ![j] = After(w, avail[j])]
            BY <3>1, <3>2 DEF ContactsInv, TypeOK
        <3> QED BY <2>2, <3>1, <3>2, <3>3, HoldStep
    <2> QED BY <2>1, <2>2
<1>3. ASSUME NEW j \in Jids, ReceiveSubscribe(c, j) PROVE Kept
    <2> DEFINE p == PeerWithPendingSubscribe
    <2>1. /\ p \in Peers /\ p.on = {} /\ p.pending
        BY NewPeerTypes DEF PeerWithPendingSubscribe, NewPeer
    <2>2. p.sub = NoSub
        BY Zenon DEF PeerWithPendingSubscribe, NewPeer, NoSub
    <2>3. /\ AddOrMerge(j, p) /\ open' = open \cup {j}
          /\ UNCHANGED <<watch, user, srv, avail, told>>
        BY <1>3 DEF ReceiveSubscribe, Receive, serverVars
    <2> HIDE DEF p
    <2> QED BY <2>1, <2>2, <2>3, MergeStep
<1>4. ASSUME NEW j \in Jids, NEW op \in {"subscribed", "unsubscribe"}, NEW from, NEW to,
             ReceiveAnswer(c, j, op, from, to)
      PROVE  Kept
    <2>1. /\ watch[c] = Idle /\ open' = open \ {j} /\ told' = told \ {j}
          /\ UNCHANGED <<list, peer, user, avail, torn>>
          /\ IF list[j] = Nil THEN UNCHANGED <<watch, crossed>>
             ELSE Hold(c, j, [op |-> op, obj |-> list[j]])
        BY <1>4 DEF ReceiveAnswer, HandleAnswer, Receive
    <2>2. \A i \in Jids : i \in told' => i \in told /\ srv'[i] = srv[i]
        BY <1>4, <2>1 DEF ReceiveAnswer, Change, serverVars, ContactsInv, TypeOK
    <2>3. CASE list[j] = Nil
        <3>1. Asked(j)
            BY DEF ContactsInv, Contact
        <3>2. open' = open
            BY <2>1, <2>3, <3>1 DEF Asked
        <3> QED BY <2>1, <2>2, <2>3, <3>2, QuietStep
    <2>4. CASE list[j] # Nil
        <3> DEFINE w == [op |-> op, obj |-> list[j]]
        <3>1. w.op = op /\ w.obj = list[j] /\ After(w, avail[j]) = avail[j]
            BY DEF After
        <3>2. Hold(c, j, w)
            BY <2>1, <2>4
        <3> HIDE DEF w
        <3>3. avail' = [avail EXCEPT ![j] = After(w, avail[j])]
            BY <2>1, <3>1 DEF ContactsInv, TypeOK
        <3> QED BY <2>1, <2>2, <2>4, <3>1, <3>2, <3>3, HoldStep
    <2> QED BY <2>3, <2>4
<1>5. ASSUME NEW j \in Jids, ReceivePush(c, j) PROVE Kept
    <2>1. UNCHANGED <<watch, user, srv>> /\ told' = told \cup {j}
        BY <1>5 DEF ReceivePush, Receive
    <2>2. CASE srv[j] = Nil
        <3>1. /\ UNCHANGED peer
              /\ list' = [list EXCEPT ![j] = Nil] /\ avail' = [avail EXCEPT ![j] = {}]
              /\ open' = open \ {j} /\ crossed' = crossed \ {j} /\ torn' = torn \ {j}
            BY <1>5, <2>2 DEF ReceivePush
        <3>2. \A i \in Jids \ {j} : list'[i] = list[i] /\ avail'[i] = avail[i]
            BY <3>1 DEF ContactsInv, TypeOK
        <3>3. list'[j] = Nil /\ avail'[j] = {}
            BY <3>1 DEF ContactsInv, TypeOK
        <3>4. ASSUME NEW i \in Jids \ {j} PROVE Contact(i)' /\ Shown(i)
            <4>1. Same(i)
                BY <2>1, <3>1, <3>2 DEF Same, HeldBy
            <4> QED BY <4>1, SameKeeps DEF ContactsInv
        <3>5. Contact(j)' /\ Shown(j)
            BY <2>1, <2>2, <3>1, <3>3, UnlistedStep
        <3>6. Distinct'
            BY <3>2, <3>3 DEF Distinct, ContactsInv
        <3>7. UserHasOwn'
            <4>1. user # Idle => user.obj # Nil
                BY UserFacts DEF ContactsInv
            <4> QED BY <2>1, <3>2, <3>3, <4>1 DEF UserHasOwn, ContactsInv
        <3> QED BY <3>4, <3>5, <3>6, <3>7 DEF Kept
    <2>3. CASE srv[j] # Nil
        <3> DEFINE p == PeerFrom(srv[j])
        <3>1. srv[j] \in Entries
            BY <2>3 DEF ContactsInv, TypeOK
        <3>2. p \in Peers /\ p.on = {} /\ p.sub = srv[j]
            BY <3>1, NewPeerTypes DEF PeerFrom, NewPeer
        <3>3. AddOrMerge(j, p) /\ UNCHANGED <<avail, open>>
            BY <1>5, <2>3 DEF ReceivePush
        <3>4. p.sub # NoSub
            <4>1. NoSub \notin Entries
                BY Zenon DEF Entries, NoSub
            <4> QED BY <3>1, <3>2, <4>1
        <3> HIDE DEF p
        <3> QED BY <2>1, <2>3, <3>2, <3>3, <3>4, MergeStep
    <2> QED BY <2>2, <2>3
<1>6. CASE FinishAdd(c)
    <2> DEFINE j == watch[c].jid
               r == watch[c].res
               p == PeerWithState(r)
    <2>1. watch[c].op = "add" /\ j \in Jids /\ r \in Res
        BY <1>6, WatchFacts DEF FinishAdd, ContactsInv
    <2>2. p \in Peers /\ p.on = {r}
        BY <2>1, NewPeerTypes DEF PeerWithState, NewPeer
    <2>3. p.sub = NoSub
        BY Zenon DEF PeerWithState, NewPeer, NoSub
    <2>4. /\ AddOrMerge(j, p) /\ refresh'
          /\ UNCHANGED <<user, srv, open, told>>
          /\ avail' = [avail EXCEPT ![j] = @ \cup {r}]
          /\ watch' = [watch EXCEPT ![c] = Idle]
        BY <1>6 DEF FinishAdd, Finish, serverVars
    <2>5. \A d \in Conns : watch'[d] = watch[d] \/ (watch[d].op = "add" /\ watch'[d] = Idle)
        BY <2>1, <2>4 DEF ContactsInv, TypeOK
    <2>6. avail'[j] = avail[j] \cup p.on /\ \A i \in Jids \ {j} : avail'[i] = avail[i]
        BY <2>1, <2>2, <2>4 DEF ContactsInv, TypeOK
    <2> HIDE DEF p, j, r
    <2> QED BY <2>1, <2>2, <2>3, <2>4, <2>5, <2>6, MergeStep
<1>7. CASE Finishes(c)
    BY <1>7, FinishStep
<1> QED BY <1>1, <1>2, <1>3, <1>4, <1>5, <1>6, <1>7
        DEF Handles, Finishes, ReceiveSubscribed, ReceiveUnsubscribe

\* Every step keeps what is said of every contact.
LEMMA StepKeeps ==
    ASSUME ContactsInv, [Next]_vars
    PROVE  Kept
<1> USE RosterAssumption
<1>1. ASSUME NEW c \in Conns, Handles(c) PROVE Kept
    BY <1>1, HandlesStep
<1>2. ASSUME NEW c \in Conns, Connect(c) \/ WatcherEnds(c) \/ ConnectionLost(c)
      PROVE  Kept
    BY <1>2, QuietStep DEF Connect, WatcherEnds, ConnectionLost, serverVars, overlaps
<1>3. ASSUME NEW f \in Fetchers, FetchReply(f) \/ FetchEnd(f) PROVE Kept
    BY <1>3, QuietStep DEF FetchReply, FetchEnd, serverVars, overlaps
<1>4. ASSUME NEW f \in Fetchers, NEW j \in Jids, FetchMerge(f, j) PROVE Kept
    <2> DEFINE p == PeerFrom(fetch[f][j])
    <2>1. fetch[f][j] \in Entries /\ fetch[f][j] # Nil
        BY <1>4 DEF FetchMerge, ContactsInv, TypeOK
    <2>2. p \in Peers /\ p.on = {} /\ p.sub = fetch[f][j]
        BY <2>1, NewPeerTypes DEF PeerFrom, NewPeer
    <2>3. p.sub # NoSub
        <3>1. NoSub \notin Entries
            BY Zenon DEF Entries, NoSub
        <3> QED BY <2>1, <2>2, <3>1
    <2>4. /\ AddOrMerge(j, p)
          /\ UNCHANGED <<watch, user, srv, avail, open>>
          /\ told' = IF fetch[f][j] = srv[j] THEN told \cup {j} ELSE told \ {j}
        BY <1>4 DEF FetchMerge, serverVars
    <2> HIDE DEF p
    <2> QED BY <2>1, <2>2, <2>3, <2>4, MergeStep
<1>5. ASSUME NEW j \in Jids, UserGets(j) PROVE Kept
    <2>1. /\ list[j] # Nil /\ user'.jid = j /\ user'.obj = list[j]
          /\ UNCHANGED <<list, peer, watch, srv, avail, open, told, crossed, torn>>
        BY <1>5 DEF UserGets, serverVars, overlaps
    <2>2. Distinct' /\ UserHasOwn'
        BY <2>1 DEF ContactsInv, Distinct, UserHasOwn
    <2>3. ASSUME NEW i \in Jids PROVE Contact(i)' /\ Shown(i)
        <3>1. Same(i)
            BY <2>1 DEF Same, HeldBy
        <3> QED BY <3>1, SameKeeps DEF ContactsInv
    <2> QED BY <2>2, <2>3 DEF Kept
<1>6. CASE UserActs
    <2> DEFINE q == [peer[user.obj] EXCEPT !.pending = FALSE]
    <2>1. user # Idle /\ user.obj \in Objs /\ user.jid \in Jids
        BY <1>6, UserFacts DEF UserActs, ContactsInv
    <2>2. /\ peer' = [peer EXCEPT ![user.obj] = q]
          /\ open' = IF list[user.jid] = user.obj THEN open \ {user.jid} ELSE open
          /\ user' = Idle
          /\ UNCHANGED <<list, watch, srv, avail, told, crossed, torn>>
        BY <1>6 DEF UserActs, serverVars, overlaps
    <2>3. q.on = peer[user.obj].on /\ q.sub = peer[user.obj].sub
        BY <2>1, PeerFields DEF ContactsInv, TypeOK
    <2> HIDE DEF q
    <2>4. /\ peer'[user.obj] = q
          /\ \A x \in Objs \ {user.obj} : peer'[x] = peer[x]
        BY <2>1, <2>2 DEF ContactsInv, TypeOK
    <2>5. ASSUME NEW i \in Jids PROVE Contact(i)' /\ Shown(i)
        <3>1. CASE list[i] = user.obj
            <4>1. i = user.jid /\ i \notin open'
                BY <2>1, <2>2, <3>1 DEF ContactsInv, UserHasOwn
            <4>2. Same(i)
                BY <2>2, <2>3, <2>4, <3>1, <4>1 DEF Same, HeldBy
            <4> QED BY <4>2, SameKeeps DEF ContactsInv
        <3>2. CASE list[i] # user.obj
            <4>1. list[i] # Nil => peer'[list[i]] = peer[list[i]]
                BY <2>4, <3>2 DEF ContactsInv, TypeOK
            <4>2. Same(i)
                BY <2>2, <4>1 DEF Same, HeldBy
            <4> QED BY <4>2, SameKeeps DEF ContactsInv
        <3> QED BY <3>1, <3>2
    <2>6. Distinct' /\ UserHasOwn'
        BY <2>2 DEF ContactsInv, Distinct, UserHasOwn
    <2> QED BY <2>5, <2>6 DEF Kept
<1>7. ASSUME NEW j \in Jids, NEW s, ServerChanges(j, s) PROVE Kept
    <2>1. UNCHANGED <<list, peer, watch, user, avail, open, crossed, torn>>
        BY <1>7 DEF ServerChanges, overlaps
    <2>2. \A i \in Jids : i \in told' => i \in told /\ srv'[i] = srv[i]
        BY <1>7 DEF ServerChanges, Change, ContactsInv, TypeOK
    <2> QED BY <2>1, <2>2, QuietStep
<1>8. CASE Clear
    <2>1. /\ \A i \in Jids : list'[i] = Nil /\ avail'[i] = {} /\ i \notin open' /\ i \notin told'
          /\ UNCHANGED user
        BY <1>8 DEF Clear
    <2>2. \A i \in Jids : Contact(i)' /\ Shown(i)
        BY <2>1, UnlistedStep
    <2>3. Distinct'
        BY <2>1 DEF Distinct
    <2>4. UserHasOwn'
        <3>1. user # Idle => user.obj # Nil
            BY UserFacts DEF ContactsInv
        <3> QED BY <2>1, <3>1 DEF UserHasOwn
    <2> QED BY <2>2, <2>3, <2>4 DEF Kept
<1>9. CASE Disconnect
    BY <1>9, QuietStep DEF Disconnect, serverVars, overlaps
<1>10. CASE UNCHANGED vars
    BY <1>10, QuietStep DEF vars, serverVars, overlaps
<1> QED BY <1>1, <1>2, <1>3, <1>4, <1>5, <1>6, <1>7, <1>8, <1>9, <1>10 DEF Next

\* What is said of every contact holds in every state.
LEMMA ContactsAlways == Spec => []ContactsInv
<1>1. Init /\ TypeOK => ContactsInv
    <2> SUFFICES ASSUME Init, TypeOK PROVE ContactsInv
        OBVIOUS
    <2>1. /\ user = Idle /\ open = {} /\ told = {}
          /\ \A i \in Jids : list[i] = Nil /\ avail[i] = {}
        BY DEF Init
    <2>2. \A i \in Jids : Contact(i)
        BY <2>1 DEF Contact, OneHolder, Current, Settled, Asked, Present, Said, HeldBy
    <2> QED BY <2>1, <2>2 DEF ContactsInv, Distinct, UserHasOwn
<1>2. ContactsInv /\ [Next]_vars /\ TypeOK' => ContactsInv'
    BY StepKeeps DEF Kept, ContactsInv
<1> QED BY <1>1, <1>2, TypeCorrect, PTL DEF Spec

\* A contact never comes online or leaves without an event, unless two watchers
\* held its object at once.
THEOREM ChangesArePublished == Spec => OnlineChangeIsPublished
<1>1. ContactsInv /\ [Next]_vars =>
          [\A j \in Jids :
              list[j] # Nil /\ list'[j] # Nil /\ j \notin crossed =>
                  (IsOnline(peer[list[j]]) # IsOnline(peer'[list'[j]]) => refresh')]_vars
    BY StepKeeps DEF Kept, Shown
<1> QED BY <1>1, ContactsAlways, PTL DEF Spec, OnlineChangeIsPublished

\* No merge forgets a request, for any contacts, connections and fetchers: only the
\* user's answer, a Clear, a removal and the contact's own answer do.
THEOREM RequestsAreKept == Spec => []RequestsKept
<1>1. ContactsInv => RequestsKept
    BY DEF ContactsInv, TypeOK, Contact, Asked, RequestsKept
<1> QED BY <1>1, ContactsAlways, PTL

\* The resources of a contact are those the presences handled since the list was
\* cleared say are there, for any connections and goroutines, except where a
\* watcher lost its object or shared it.
THEOREM PresenceAlwaysKept == Spec => []PresenceKept
<1>1. ContactsInv => PresenceKept
    <2> SUFFICES ASSUME ContactsInv, NEW j \in Jids \ (torn \cup crossed), ~Held(j)
                 PROVE  avail[j] = IF list[j] = Nil THEN {} ELSE peer[list[j]].on
        BY DEF PresenceKept
    <2>1. Present(j) /\ NobodyHolds(j)
        BY DEF ContactsInv, Contact, Held, NobodyHolds, HeldBy
    <2> QED BY <2>1 DEF Present
<1> QED BY <1>1, ContactsAlways, PTL

\* A contact whose present entry in the server's roster reached the list last is
\* listed with that subscription, for any connections and fetchers.
THEOREM SubscriptionsAlwaysAgree == Spec => []SubscriptionAgrees
<1>1. ContactsInv => SubscriptionAgrees
    <2> SUFFICES ASSUME ContactsInv, NEW j \in told
                 PROVE  IF srv[j] = Nil THEN list[j] = Nil \/ peer[list[j]].sub = NoSub
                        ELSE list[j] # Nil /\ peer[list[j]].sub = srv[j]
        BY Zenon DEF SubscriptionAgrees, NoSub
    <2>1. j \in Jids
        BY DEF ContactsInv, TypeOK
    <2> QED BY <2>1 DEF ContactsInv, Contact, Said
<1> QED BY <1>1, ContactsAlways, PTL

=============================================================================
