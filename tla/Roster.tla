------------------------------- MODULE Roster -------------------------------
(***************************************************************************)
(* The contact list of a session (package roster) and the goroutines of    *)
(* package session that use it: the watcher of each connection handles     *)
(* presences and roster pushes, requestRoster merges the server's answers, *)
(* the observer clears the list after a disconnection, and the user        *)
(* answers requests.                                                       *)
(*                                                                         *)
(* The list maps an address to a Peer object.  List.Get hands the object   *)
(* out and its fields are then used without the lock of the list, while a  *)
(* merge puts a new object in its place: so objects have identities here.  *)
(*                                                                         *)
(* A session publishes that it is disconnected before it closes its        *)
(* connection, or without closing it: so the watcher of a former           *)
(* connection may go on beside that of the next.                           *)
(***************************************************************************)
EXTENDS Naturals

CONSTANTS
    Conns,     \* connections, each with its watcher
    Fetchers,  \* goroutines that run requestRoster
    Jids,      \* bare addresses of contacts
    Res,       \* resources a contact may use
    Objs,      \* bound: Peer objects referred to at once
    Nil,       \* nil; also no resource
    MaxClears  \* bound: events the observer has not handled yet

ASSUME RosterAssumption ==
    /\ Nil \notin Res \cup Objs
    /\ MaxClears \in Nat

Subs == {"", "none", "to", "from", "both"}
Entries == {"none", "to", "from", "both"}      \* subscriptions a server reports

VARIABLES
    list,       \* l.peers: the object stored for each address, or Nil
    peer,       \* the fields of each object
    watch,      \* what the watcher of each connection is doing with a stanza
    user,       \* what a goroutine of the user interface is doing
    fetch,      \* entries of each answer that are still to be merged, or Nil
    fetching,   \* the fetchers that are merging an answer
    clears,     \* Disconnected and ConnectionLost events on their way to observe
    connected,  \* the status of the session is CONNECTED
    stream,     \* each connection: "none", "open" while its watcher is running, or
                \* "losing" while that is closing the session
    srv,        \* the server's roster: a subscription or Nil for each address
    owed,       \* addresses whose change is still to be pushed over a connection
    refresh,    \* the last step published an event that redraws the contact list
    avail,      \* history: the resources that are there by the presences handled
                \* since the list was cleared
    open,       \* history: requests for a subscription the list is to remember
    told,       \* history: contacts whose present entry in the server's roster was
                \* the last thing the list was told of their subscription
    crossed,    \* history: contacts whose listed object two watchers held at once
    torn        \* history: contacts whose object was replaced under a watcher

vars == <<list, peer, watch, user, fetch, fetching, clears, connected, stream, srv,
          owed, refresh, avail, open, told, crossed, torn>>
sessionVars == <<clears, connected, stream>>
serverVars  == <<srv, owed>>
fetchVars   == <<fetch, fetching>>
overlaps    == <<crossed, torn>>

\* The resources that are online, lastResource, the subscription, and whether
\* the contact asked for one.  What a presence says besides, and the resource
\* LastSeen locks, only choose the text that is shown.
Peers == [on : SUBSET Res, last : Res \cup {Nil}, sub : Subs, pending : BOOLEAN]

Idle == [op |-> "idle"]
Watches ==
    {Idle} \cup [op : {"add"}, jid : Jids, res : Res]
           \cup [op : {"update"}, jid : Jids, obj : Objs, res : Res,
                 online : BOOLEAN]
           \cup [op : {"gone"}, obj : Objs, res : Res \cup {Nil}, online : BOOLEAN]
           \cup [op : {"subscribed", "unsubscribe"}, obj : Objs]
Users == {Idle} \cup [op : {"answer"}, jid : Jids, obj : Objs]

TypeOK ==
    /\ list \in [Jids -> Objs \cup {Nil}]
    /\ peer \in [Objs -> Peers]
    /\ watch \in [Conns -> Watches] /\ user \in Users
    /\ fetch \in [Fetchers -> [Jids -> Entries \cup {Nil}]]
    /\ fetching \in SUBSET Fetchers
    /\ clears \in 0..MaxClears
    /\ stream \in [Conns -> {"none", "open", "losing"}]
    /\ srv \in [Jids -> Entries \cup {Nil}]
    /\ owed \in [Conns -> SUBSET Jids]
    /\ avail \in [Jids -> SUBSET Res]
    /\ {open, told, crossed, torn} \subseteq SUBSET Jids
    /\ {connected, refresh} \subseteq BOOLEAN

-----------------------------------------------------------------------------
(* Peers.                                                                  *)

IsOnline(p) == p.on # {}

NewPeer == [on |-> {}, last |-> Nil, sub |-> "", pending |-> FALSE]
PeerWithState(r) == [NewPeer EXCEPT !.on = {r}, !.last = r]
PeerWithPendingSubscribe == [NewPeer EXCEPT !.pending = TRUE]
PeerFrom(sub) == [NewPeer EXCEPT !.sub = sub]

OldFirst(s1, s2) == IF s1 # "" THEN s1 ELSE s2     \* mutant: keeps the old one
Prefer(s1, s2) == IF s2 # "" THEN s2 ELSE s1

Newest(p, q) == q.pending                          \* mutant: forgets the request
Pending(p, q) == p.pending \/ q.pending

KeepOn(p, q) == q.on                               \* mutant: not a union
Union(p, q) == p.on \cup q.on

\* A new object: lastResource is not carried over.
MergeWith(p, q) ==
    [NewPeer EXCEPT !.on = Union(p, q), !.sub = Prefer(p.sub, q.sub),
                    !.pending = Pending(p, q)]

\* AddResource sets lastResource, RemoveResource replaces the one it removes
\* by any that is left.
AddResource(p, r) == [p EXCEPT !.on = @ \cup {r}, !.last = r]

NextLast(p, r, on) == IF p.last = r /\ on # {} THEN on ELSE {p.last}

RemoveResource(p, r) ==
    LET on == p.on \ {r} IN {[p EXCEPT !.on = on, !.last = x] : x \in NextLast(p, r, on)}

ClearResources(p) == [p EXCEPT !.on = {}]

Subscribed(p) ==
    [p EXCEPT !.sub = CASE p.sub = "from" -> "both"
                        [] p.sub \in {"none", ""} -> "to"
                        [] OTHER -> p.sub,
              !.pending = FALSE]

Unsubscribed(p) ==
    [p EXCEPT !.sub = CASE p.sub = "both" -> "from"
                        [] p.sub = "to" -> "none"
                        [] OTHER -> p.sub,
              !.pending = FALSE]

-----------------------------------------------------------------------------
Init ==
    /\ list = [j \in Jids |-> Nil]
    /\ peer = [o \in Objs |-> NewPeer]
    /\ watch = [c \in Conns |-> Idle] /\ user = Idle
    /\ fetch = [f \in Fetchers |-> [j \in Jids |-> Nil]] /\ fetching = {}
    /\ clears = 0 /\ connected = FALSE
    /\ stream = [c \in Conns |-> "none"]
    /\ srv \in [Jids -> Entries \cup {Nil}]
    /\ owed = [c \in Conns |-> {}]
    /\ refresh = FALSE
    /\ avail = [j \in Jids |-> {}]
    /\ open = {} /\ told = {} /\ crossed = {} /\ torn = {}

Holds(g, o) == g.op \notin {"idle", "add"} /\ g.obj = o
Unused(o) == /\ \A j \in Jids : list[j] # o
             /\ \A c \in Conns : ~Holds(watch[c], o)
             /\ ~Holds(user, o)

\* A watcher holds the object that is listed for j.
Held(j) == \E c \in Conns : list[j] # Nil /\ Holds(watch[c], list[j])

\* A merge always lists another object, whoever holds the one before.
AddOrMerge(j, p) ==
    /\ \E o \in Objs :
          /\ Unused(o)
          /\ list' = [list EXCEPT ![j] = o]
          /\ peer' = [peer EXCEPT ![o] =
                         IF list[j] = Nil THEN p ELSE MergeWith(peer[list[j]], p)]
    /\ torn' = IF Held(j) \/ j \in crossed THEN torn \cup {j} ELSE torn
    /\ crossed' = crossed \ {j}

Silent == refresh' = FALSE

-----------------------------------------------------------------------------
(* The watcher of a connection: the first step of a handler is its         *)
(* List.Get.  The server's own changes are what the stanza reports.        *)

Receive(c) ==
    /\ stream[c] = "open" /\ watch[c] = Idle
    /\ UNCHANGED <<user, fetchVars, sessionVars>>

\* A handler that holds the listed object of j from now on
Hold(c, j, w) ==
    /\ watch' = [watch EXCEPT ![c] = w]
    /\ crossed' = IF Held(j) THEN crossed \cup {j} ELSE crossed

ReceiveAvailable(c, j, r) ==
    /\ Receive(c)
    /\ IF list[j] = Nil
       THEN /\ watch' = [watch EXCEPT ![c] = [op |-> "add", jid |-> j, res |-> r]]
            /\ UNCHANGED <<avail, crossed>>
       ELSE /\ Hold(c, j, [op |-> "update", jid |-> j, obj |-> list[j], res |-> r,
                           online |-> IsOnline(peer[list[j]])])
            /\ avail' = [avail EXCEPT ![j] = @ \cup {r}]
    /\ UNCHANGED <<list, peer, serverVars, open, told, torn>> /\ Silent

\* r = Nil is a presence from the bare address.
ReceiveUnavailable(c, j, r) ==
    /\ Receive(c)
    /\ avail' = [avail EXCEPT ![j] = IF r = Nil THEN {} ELSE @ \ {r}]
    /\ IF list[j] = Nil THEN UNCHANGED <<watch, crossed>>
       ELSE Hold(c, j, [op |-> "gone", obj |-> list[j], res |-> r,
                        online |-> IsOnline(peer[list[j]])])
    /\ UNCHANGED <<list, peer, serverVars, open, told, torn>> /\ Silent

\* A request that is approved automatically does not change the list.
ReceiveSubscribe(c, j) ==
    /\ Receive(c)
    /\ AddOrMerge(j, PeerWithPendingSubscribe)
    /\ open' = open \cup {j} /\ refresh' = TRUE
    /\ UNCHANGED <<watch, serverVars, avail, told>>

\* The contact approved our request, or withdrew its own.  Both handlers
\* forget a request of the contact's that waits for the user's answer.
HandleAnswer(c, j, op) ==
    /\ Receive(c)
    /\ open' = open \ {j} /\ told' = told \ {j}
    /\ IF list[j] = Nil THEN UNCHANGED <<watch, crossed>>
       ELSE Hold(c, j, [op |-> op, obj |-> list[j]])
    /\ refresh' = (list[j] = Nil)
    /\ UNCHANGED <<list, peer, avail, torn>>

Owed(j) == \E c \in Conns : j \in owed[c]
OpenTo == {c \in Conns : stream[c] = "open"}

\* The server pushes a change over each connection, after the presence.
\* Bound: one change of a contact is on its way at a time.
Change(j, s) ==
    /\ ~Owed(j) /\ srv[j] # s
    /\ srv' = [srv EXCEPT ![j] = s]
    /\ owed' = [c \in Conns |-> IF c \in OpenTo THEN owed[c] \cup {j} ELSE owed[c]]

\* The first connection that has the presence, and those that have it after.
ReceiveAnswer(c, j, op, from, to) ==
    /\ HandleAnswer(c, j, op)
    /\ \/ srv[j] = from /\ Change(j, to)
       \/ srv[j] = to /\ j \in owed[c] /\ UNCHANGED serverVars

ReceiveSubscribed(c, j) ==
    \/ ReceiveAnswer(c, j, "subscribed", "none", "to")
    \/ ReceiveAnswer(c, j, "subscribed", "from", "both")

ReceiveUnsubscribe(c, j) ==
    \/ ReceiveAnswer(c, j, "unsubscribe", "from", "none")
    \/ ReceiveAnswer(c, j, "unsubscribe", "both", "to")

\* receivedIQRosterQuery, for one entry of a push
ReceivePush(c, j) ==
    /\ Receive(c)
    /\ IF srv[j] = Nil
       THEN /\ list' = [list EXCEPT ![j] = Nil]
            /\ avail' = [avail EXCEPT ![j] = {}]
            /\ open' = open \ {j}
            /\ crossed' = crossed \ {j} /\ torn' = torn \ {j}
            /\ UNCHANGED peer /\ Silent
       ELSE /\ AddOrMerge(j, PeerFrom(srv[j]))
            /\ refresh' = (list[j] = Nil)
            /\ UNCHANGED <<avail, open>>
    /\ told' = told \cup {j}
    /\ owed' = [owed EXCEPT ![c] = @ \ {j}]
    /\ UNCHANGED <<watch, srv>>

Finish(c) ==
    /\ watch' = [watch EXCEPT ![c] = Idle]
    /\ UNCHANGED <<user, fetchVars, sessionVars, serverVars, open, told>>

FinishAdd(c) ==
    /\ watch[c].op = "add"
    /\ AddOrMerge(watch[c].jid, PeerWithState(watch[c].res))
    /\ avail' = [avail EXCEPT ![watch[c].jid] = @ \cup {watch[c].res}]
    /\ refresh' = TRUE
    /\ Finish(c)

\* A status that differs from the main one is an update too.
NewStatus(w) == {TRUE, FALSE}                          \* mutant: onlineness forgotten
Updated(w) == {~w.online, TRUE}

FinishUpdate(c) ==
    /\ watch[c].op = "update"
    /\ peer' = [peer EXCEPT ![watch[c].obj] = AddResource(@, watch[c].res)]
    /\ refresh' \in Updated(watch[c])
    /\ UNCHANGED <<list, avail, overlaps>>
    /\ Finish(c)

FinishGone(c) ==
    /\ watch[c].op = "gone"
    /\ LET p == peer[watch[c].obj] IN
       \E q \in IF watch[c].res = Nil THEN {ClearResources(p)}
                ELSE RemoveResource(p, watch[c].res) :
           /\ peer' = [peer EXCEPT ![watch[c].obj] = q]
           /\ refresh' = (watch[c].online # IsOnline(q))
    /\ UNCHANGED <<list, avail, overlaps>>
    /\ Finish(c)

FinishAnswer(c) ==
    /\ watch[c].op \in {"subscribed", "unsubscribe"}
    /\ peer' = [peer EXCEPT ![watch[c].obj] =
                   IF watch[c].op = "subscribed" THEN Subscribed(@) ELSE Unsubscribed(@)]
    /\ refresh' = TRUE
    /\ UNCHANGED <<list, avail, overlaps>>
    /\ Finish(c)

-----------------------------------------------------------------------------
(* requestRoster, observe and the user interface.                          *)

\* The reader hands the answer over; what the server says later may be
\* handled by a watcher before it is merged.
FetchReply(f) ==
    /\ OpenTo # {} /\ f \notin fetching
    /\ fetch' = [fetch EXCEPT ![f] = srv] /\ fetching' = fetching \cup {f}
    /\ UNCHANGED <<list, peer, watch, user, sessionVars, serverVars, avail, open, told,
                   overlaps>>
    /\ Silent

FetchMerge(f, j) ==
    /\ f \in fetching /\ fetch[f][j] # Nil
    /\ AddOrMerge(j, PeerFrom(fetch[f][j]))
    /\ fetch' = [fetch EXCEPT ![f][j] = Nil]
    /\ told' = IF fetch[f][j] = srv[j] THEN told \cup {j} ELSE told \ {j}
    /\ UNCHANGED <<watch, user, fetching, sessionVars, serverVars, avail, open>>
    /\ Silent

FetchEnd(f) ==
    /\ f \in fetching /\ \A j \in Jids : fetch[f][j] = Nil
    /\ fetching' = fetching \ {f} /\ refresh' = TRUE
    /\ UNCHANGED <<list, peer, watch, user, fetch, sessionVars, serverVars, avail, open,
                   told, overlaps>>

Clear ==
    /\ clears > 0
    /\ list' = [j \in Jids |-> Nil]
    /\ clears' = clears - 1
    /\ avail' = [j \in Jids |-> {}]
    /\ open' = {} /\ told' = {} /\ crossed' = {} /\ torn' = {}
    /\ refresh' = TRUE
    /\ UNCHANGED <<peer, watch, user, fetchVars, connected, stream, serverVars>>

\* HandleConfirmOrDeny: RemovePendingSubscribe's Get, then its assignment.
UserGets(j) ==
    /\ user = Idle /\ list[j] # Nil
    /\ user' = [op |-> "answer", jid |-> j, obj |-> list[j]]
    /\ UNCHANGED <<list, peer, watch, fetchVars, sessionVars, serverVars, avail, open,
                   told, overlaps>>
    /\ Silent

UserActs ==
    /\ user # Idle
    /\ peer' = [peer EXCEPT ![user.obj].pending = FALSE]
    /\ open' = IF list[user.jid] = user.obj THEN open \ {user.jid} ELSE open
    /\ user' = Idle
    /\ UNCHANGED <<list, watch, fetchVars, sessionVars, serverVars, avail, told, overlaps>>
    /\ Silent

-----------------------------------------------------------------------------
(* The session connects and disconnects; the server's roster changes.      *)

Connect(c) ==
    /\ ~connected /\ connected' = TRUE
    /\ stream[c] = "none" /\ stream' = [stream EXCEPT ![c] = "open"]
    /\ UNCHANGED <<list, peer, watch, user, fetchVars, clears, serverVars, avail, open,
                   told, overlaps>>
    /\ Silent

Publish == clears < MaxClears /\ clears' = clears + 1

\* Close, a ping that is not answered, or a dial that fails: the session publishes
\* Disconnected.  The watchers go on, those of a ping for as long as the
\* connection lives.
Disconnect ==
    /\ Publish /\ connected' = FALSE
    /\ UNCHANGED <<list, peer, watch, user, fetchVars, stream, serverVars, avail, open,
                   told, overlaps>>
    /\ Silent

\* The stanzas of a connection come to an end: connectionLost closes a session that
\* is connected, or connecting again, whichever connection that has by now ...
WatcherEnds(c) ==
    /\ stream[c] = "open" /\ watch[c] = Idle
    /\ \/ /\ Publish /\ connected' = FALSE
          /\ stream' = [stream EXCEPT ![c] = "losing"]
       \/ /\ ~connected /\ UNCHANGED <<clears, connected>>
          /\ stream' = [stream EXCEPT ![c] = "none"]
    /\ owed' = [owed EXCEPT ![c] = {}]
    /\ UNCHANGED <<list, peer, watch, user, fetchVars, srv, avail, open, told, overlaps>>
    /\ Silent

\* ... and publishes ConnectionLost when that is done.
ConnectionLost(c) ==
    /\ stream[c] = "losing" /\ stream' = [stream EXCEPT ![c] = "none"]
    /\ Publish
    /\ UNCHANGED <<list, peer, watch, user, fetchVars, connected, serverVars, avail,
                   open, told, overlaps>>
    /\ Silent

ServerChanges(j, s) ==
    /\ Change(j, s)
    /\ told' = told \ {j}
    /\ UNCHANGED <<list, peer, watch, user, fetchVars, sessionVars, avail, open, overlaps>>
    /\ Silent

Handles(c) ==
    \/ \E j \in Jids :
          \/ \E r \in Res : ReceiveAvailable(c, j, r)
          \/ \E r \in Res \cup {Nil} : ReceiveUnavailable(c, j, r)
          \/ ReceiveSubscribe(c, j) \/ ReceiveSubscribed(c, j)
          \/ ReceiveUnsubscribe(c, j) \/ ReceivePush(c, j)
    \/ FinishAdd(c) \/ FinishUpdate(c) \/ FinishGone(c) \/ FinishAnswer(c)

Next ==
    \/ \E c \in Conns : Handles(c) \/ Connect(c) \/ WatcherEnds(c) \/ ConnectionLost(c)
    \/ \E f \in Fetchers : FetchReply(f) \/ FetchEnd(f) \/ \E j \in Jids : FetchMerge(f, j)
    \/ \E j \in Jids :
          UserGets(j) \/ \E s \in Entries \cup {Nil} : ServerChanges(j, s)
    \/ Clear \/ UserActs \/ Disconnect

Spec == Init /\ [][Next]_vars

-----------------------------------------------------------------------------
(* Properties                                                              *)

\* ResourceToUseFallback: "or any resource if one exists": the last resource of
\* a peer that is online is one that is online, so a file is never offered to
\* a resource that left while another is there.
LastIsOnline ==
    \A j \in Jids : list[j] # Nil =>
        LET p == peer[list[j]] IN p.last # Nil /\ IsOnline(p) => p.last \in p.on

\* A contact that comes online or leaves causes an event that redraws it,
\* although the handler compares with what it read before it took a lock, and
\* whatever is merged, fetched and cleared meanwhile.  Two watchers that work on
\* the same object may each find that nothing changed.
OnlineChangeIsPublished ==
    [][\A j \in Jids :
          list[j] # Nil /\ list'[j] # Nil /\ j \notin crossed =>
              (IsOnline(peer[list[j]]) # IsOnline(peer'[list'[j]]) => refresh')]_vars

\* "It also contains information about pending subscribes": no merge of presences,
\* pushes and answers, by whichever goroutines, forgets a request.  What does is
\* the user's answer, a Clear or the removal of the contact, and the contact's own
\* answer: both Subscribed and Unsubscribed drop a request nobody has answered.
RequestsKept == \A j \in open : list[j] # Nil /\ peer[list[j]].pending

\* "It takes care of both roster and presence information transparently": the
\* resources of a contact are those the presences handled since the list was
\* cleared say are there, whatever presences, pushes, requests and answers came in
\* whatever order, over one connection or several.  Only where a watcher's object
\* was replaced while it held it, or was held by two, is a presence lost.
PresenceKept ==
    \A j \in Jids \ (torn \cup crossed) : ~Held(j) =>
        avail[j] = IF list[j] = Nil THEN {} ELSE peer[list[j]].on

\* A contact whose entry in the server's roster reached the list last, by a push or
\* an answer, is listed with that subscription, and one that has no entry with
\* none, whatever handlers of other stanzas were under way.
SubscriptionAgrees ==
    \A j \in told :
        IF srv[j] = Nil THEN list[j] = Nil \/ peer[list[j]].sub = ""
        ELSE list[j] # Nil /\ peer[list[j]].sub = srv[j]

\* PeerPresenceUpdate "updates the status for the peer": once it returns, a
\* contact that is still listed has the resource, whichever goroutine merged
\* what meanwhile.  Not so of this code: the object may have been replaced.
PresenceIsUpdated ==
    [][\A c \in Conns : watch[c].op = "update" /\ watch'[c] = Idle =>
          LET o == list'[watch[c].jid] IN o # Nil => watch[c].res \in peer'[o].on]_vars

=============================================================================
