------------------------------- MODULE Cache -------------------------------
(***************************************************************************)
(* Package cache: a map under one lock, and one goroutine per timed entry  *)
(* that deletes it when its lifetime ends or leaves when it is told to on  *)
(* an unbuffered channel.                                                  *)
(*                                                                         *)
(* An operation holds the lock throughout, so it is one step, unless it    *)
(* has to cancel an expiry: then it keeps the lock while its send waits    *)
(* for the goroutine.  The lock lets one operation do so at a time, so the *)
(* model needs no names for the goroutines that call the cache.            *)
(***************************************************************************)
EXTENDS Naturals, FiniteSets

CONSTANTS
    Keys, Values,
    Entries,    \* bound: entry objects alive at once
    Timers,     \* bound: goroutines running startExpiryCheck at once
    Nil

ASSUME CacheAssumption == Nil \notin Entries \cup Timers \cup Values

VARIABLES
    data,     \* c.data: the entry of each key, or Nil
    key,      \* e.key
    value,    \* e.value
    cancel,   \* e.cancelExpiryCheck: its goroutine's channel, or Nil
    timer,    \* "unused", "waiting" in the select, or "fired": wants the lock
    owner,    \* the entry a goroutine was started for
    holder,   \* the operation that holds the lock and cancels expiries, or Nil
    killed,   \* keys whose expiry a Clear in progress has cancelled
    by        \* history: whether a caller or an expiry made the last change

vars == <<data, key, value, cancel, timer, owner, holder, killed, by>>

Holders == [op : {"put", "putTimed"}, key : Keys, value : Values]
             \cup [op : {"remove"}, key : Keys] \cup [op : {"clear"}]

TypeOK ==
    /\ data \in [Keys -> Entries \cup {Nil}]
    /\ key \in [Entries -> Keys]
    /\ value \in [Entries -> Values]
    /\ cancel \in [Entries -> Timers \cup {Nil}]
    /\ timer \in [Timers -> {"unused", "waiting", "fired"}]
    /\ owner \in [Timers -> Entries]
    /\ holder \in Holders \cup {Nil}
    /\ killed \in SUBSET Keys
    /\ by \in {"caller", "expiry"}

Init ==
    /\ data = [k \in Keys |-> Nil]
    /\ key \in [Entries -> Keys]
    /\ value \in [Entries -> Values]
    /\ cancel = [e \in Entries |-> Nil]
    /\ timer = [x \in Timers |-> "unused"]
    /\ owner \in [Timers -> Entries]
    /\ holder = Nil
    /\ killed = {}
    /\ by = "caller"

Present(k) == data[k] # Nil

NoExpiry(e) == FALSE                           \* mutant: expiries not cancelled
HasExpiry(e) == cancel[e] # Nil

\* An entry object the program no longer refers to.
Fresh(e) ==
    /\ \A k \in Keys : data[k] # e
    /\ \A x \in Timers : timer[x] # "unused" => owner[x] # e

\* setExpiry
SetExpiry(e, x) ==
    /\ timer[x] = "unused"
    /\ cancel' = [cancel EXCEPT ![e] = x]
    /\ timer' = [timer EXCEPT ![x] = "waiting"]
    /\ owner' = [owner EXCEPT ![x] = e]

-----------------------------------------------------------------------------
(* Operations that find no expiry to cancel.                               *)

Add(k, v, e) ==
    /\ holder = Nil /\ ~Present(k) /\ Fresh(e)
    /\ data' = [data EXCEPT ![k] = e]
    /\ key' = [key EXCEPT ![e] = k]
    /\ value' = [value EXCEPT ![e] = v]
    /\ by' = "caller"
    /\ UNCHANGED <<holder, killed>>

\* Put, PutIfAbsent and GetOrCompute of an absent key.
Insert(k, v) ==
    \E e \in Entries :
        /\ Add(k, v, e)
        /\ cancel' = [cancel EXCEPT ![e] = Nil]
        /\ UNCHANGED <<timer, owner>>

\* PutTimed, PutTimedIfAbsent and GetOrComputeTimed of an absent key.
InsertTimed(k, v) ==
    \E e \in Entries, x \in Timers : Add(k, v, e) /\ SetExpiry(e, x)

\* Put of a present key.
Replace(k, v) ==
    /\ holder = Nil /\ Present(k) /\ ~HasExpiry(data[k])
    /\ value' = [value EXCEPT ![data[k]] = v]
    /\ by' = "caller"
    /\ UNCHANGED <<data, key, cancel, timer, owner, holder, killed>>

\* PutTimed of a present key.
ReplaceTimed(k, v) ==
    /\ holder = Nil /\ Present(k) /\ ~HasExpiry(data[k])
    /\ value' = [value EXCEPT ![data[k]] = v]
    /\ \E x \in Timers : SetExpiry(data[k], x)
    /\ by' = "caller"
    /\ UNCHANGED <<data, key, holder, killed>>

Remove(k) ==
    /\ holder = Nil /\ Present(k) /\ ~HasExpiry(data[k])
    /\ data' = [data EXCEPT ![k] = Nil]
    /\ by' = "caller"
    /\ UNCHANGED <<key, value, cancel, timer, owner, holder, killed>>

-----------------------------------------------------------------------------
(* killPotentialExpiry: e.cancelExpiryCheck <- true, the lock being held.  *)

Acquire(o) ==
    /\ holder = Nil
    /\ o.op # "clear" => Present(o.key) /\ HasExpiry(data[o.key])
    /\ holder' = o
    /\ UNCHANGED <<data, key, value, cancel, timer, owner, killed, by>>

\* The goroutine x of the entry e receives the cancellation and ends.
Heard(e, x) == HasExpiry(e) /\ x = cancel[e] /\ timer[x] = "waiting"

DropCancel(e) == cancel' = [cancel EXCEPT ![e] = Nil]

FinishPut(x) ==
    /\ holder # Nil /\ holder.op = "put"
    /\ LET e == data[holder.key] IN
         /\ Heard(e, x)
         /\ DropCancel(e)
         /\ value' = [value EXCEPT ![e] = holder.value]
    /\ timer' = [timer EXCEPT ![x] = "unused"]
    /\ holder' = Nil
    /\ by' = "caller"
    /\ UNCHANGED <<data, key, owner, killed>>

\* The goroutine for the new lifetime replaces the one that ends.
FinishPutTimed(x) ==
    /\ holder # Nil /\ holder.op = "putTimed"
    /\ LET e == data[holder.key] IN
         /\ Heard(e, x)
         /\ value' = [value EXCEPT ![e] = holder.value]
         /\ owner' = [owner EXCEPT ![x] = e]
    /\ holder' = Nil
    /\ by' = "caller"
    /\ UNCHANGED <<data, key, cancel, timer, killed>>

FinishRemove(x) ==
    /\ holder # Nil /\ holder.op = "remove"
    /\ Heard(data[holder.key], x)
    /\ DropCancel(data[holder.key])
    /\ data' = [data EXCEPT ![holder.key] = Nil]
    /\ timer' = [timer EXCEPT ![x] = "unused"]
    /\ holder' = Nil
    /\ by' = "caller"
    /\ UNCHANGED <<key, value, owner, killed>>

\* Clear cancels the expiries one by one, in the map's order, which is any.
ClearKill(k, x) ==
    /\ holder # Nil /\ holder.op = "clear"
    /\ Present(k) /\ Heard(data[k], x)
    /\ DropCancel(data[k])
    /\ timer' = [timer EXCEPT ![x] = "unused"]
    /\ killed' = killed \cup {k}
    /\ UNCHANGED <<data, key, value, owner, holder, by>>

ClearEnd ==
    /\ holder # Nil /\ holder.op = "clear"
    /\ \A k \in Keys : Present(k) => ~HasExpiry(data[k])
    /\ data' = [k \in Keys |-> Nil]
    /\ killed' = {}
    /\ holder' = Nil
    /\ by' = "caller"
    /\ UNCHANGED <<key, value, cancel, timer, owner>>

CancelStep ==
    \/ \E x \in Timers :
          \/ FinishPut(x) \/ FinishPutTimed(x) \/ FinishRemove(x)
          \/ \E k \in Keys : ClearKill(k, x)
    \/ ClearEnd

-----------------------------------------------------------------------------
(* startExpiryCheck.                                                       *)

\* The lifetime has passed: the goroutine left the select and wants the lock.
Fire(x) ==
    /\ timer[x] = "waiting"
    /\ timer' = [timer EXCEPT ![x] = "fired"]
    /\ UNCHANGED <<data, key, value, cancel, owner, holder, killed, by>>

DeleteKey(k) == data' = [data EXCEPT ![k] = Nil]

Expire(x) ==
    /\ timer[x] = "fired" /\ holder = Nil
    /\ cancel' = [cancel EXCEPT ![owner[x]] = Nil]
    /\ DeleteKey(key[owner[x]])
    /\ timer' = [timer EXCEPT ![x] = "unused"]
    /\ by' = "expiry"
    /\ UNCHANGED <<key, value, owner, holder, killed>>

Next ==
    \/ \E k \in Keys, v \in Values :
          Insert(k, v) \/ InsertTimed(k, v) \/ Replace(k, v) \/ ReplaceTimed(k, v)
    \/ \E k \in Keys : Remove(k)
    \/ \E o \in Holders : Acquire(o)
    \/ CancelStep
    \/ \E x \in Timers : Fire(x) \/ Expire(x)

Spec == Init /\ [][Next]_vars

FairSpec ==
    /\ Spec
    /\ WF_vars(CancelStep)
    /\ \A x \in Timers : WF_vars(Expire(x))

-----------------------------------------------------------------------------
\* startExpiryCheck deletes by key and not by entry: it deletes what it was
\* started for because its entry is still the one stored under that key.
ExpiryOwnsItsKey ==
    \A x \in Timers :
        timer[x] # "unused" =>
            /\ data[key[owner[x]]] = owner[x]
            /\ cancel[owner[x]] = x

\* A stored entry that remembers a channel has a goroutine at its other end:
\* killPotentialExpiry never sends to nobody.
CancelHasListener ==
    \A k \in Keys :
        Present(k) /\ HasExpiry(data[k]) =>
            LET x == cancel[data[k]] IN timer[x] # "unused" /\ owner[x] = data[k]

\* Every entry is stored under its own key.
KeyMatches == \A k \in Keys : Present(k) => key[data[k]] = k

\* What an operation waiting in killPotentialExpiry found stays in place.
HolderFound ==
    /\ (holder # Nil /\ holder.op # "clear") =>
           Present(holder.key) /\ HasExpiry(data[holder.key])
    /\ killed # {} => holder # Nil /\ holder.op = "clear"
    /\ \A k \in killed : Present(k) /\ ~HasExpiry(data[k])

CacheInv == KeyMatches /\ ExpiryOwnsItsKey /\ CancelHasListener /\ HolderFound

\* The cache implements the map of ExpiringMap.  A Clear in progress has
\* cancelled expiries of entries that are timed until it ends.
ValueOf(k) == IF Present(k) THEN value[data[k]] ELSE Nil
IsTimed(k) == Present(k) /\ (cancel[data[k]] # Nil \/ k \in killed)

Map == INSTANCE ExpiringMap WITH
    NoValue <- Nil,
    map <- [k \in Keys |-> ValueOf(k)],
    timed <- {k \in Keys : IsTimed(k)}

ImplementsMap == Map!Spec

\* The test Test_Expiry_DealsOKWithOverridingATimedEntryWithARegularOne: an
\* operation that cancels an expiry returns.  Not so of this code: an expiry that
\* has already fired waits for the lock the operation holds.
OverrideReturns == (holder # Nil) ~> (holder = Nil)

=============================================================================
