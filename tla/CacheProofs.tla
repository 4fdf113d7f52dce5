---------------------------- MODULE CacheProofs ----------------------------
(***************************************************************************)
(* Proofs about Cache: its invariant, and that it implements ExpiringMap,  *)
(* for any sets of keys, values, entries and expiry goroutines.            *)
(***************************************************************************)
EXTENDS Cache, TLAPS

\* Every step keeps the types.
LEMMA TypeStep == TypeOK /\ CacheInv /\ [Next]_vars => TypeOK'
<1> SUFFICES ASSUME TypeOK, CacheInv, [Next]_vars PROVE TypeOK'
  OBVIOUS
<1> USE CacheAssumption DEF TypeOK, Present, HasExpiry, Heard, DropCancel
<1>1. ASSUME NEW k \in Keys, NEW v \in Values, Insert(k, v) PROVE TypeOK'
  BY <1>1 DEF Insert, Add
<1>2. ASSUME NEW k \in Keys, NEW v \in Values, InsertTimed(k, v) PROVE TypeOK'
  BY <1>2 DEF InsertTimed, Add, SetExpiry
<1>3. ASSUME NEW k \in Keys, NEW v \in Values, Replace(k, v) PROVE TypeOK'
  BY <1>3 DEF Replace
<1>4. ASSUME NEW k \in Keys, NEW v \in Values, ReplaceTimed(k, v) PROVE TypeOK'
  BY <1>4 DEF ReplaceTimed, SetExpiry
<1>5. ASSUME NEW k \in Keys, Remove(k) PROVE TypeOK'
  BY <1>5 DEF Remove
<1>6. ASSUME NEW o \in Holders, Acquire(o) PROVE TypeOK'
  BY <1>6 DEF Acquire
<1>7. ASSUME NEW x \in Timers, FinishPut(x) PROVE TypeOK'
  <2>1. holder.key \in Keys /\ holder.value \in Values
    BY <1>7 DEF FinishPut, Holders
  <2>2. QED
    BY <1>7, <2>1 DEF FinishPut
<1>8. ASSUME NEW x \in Timers, FinishPutTimed(x) PROVE TypeOK'
  <2>1. holder.key \in Keys /\ holder.value \in Values /\ data[holder.key] \in Entries
    BY <1>8 DEF FinishPutTimed, Holders, CacheInv, HolderFound
  <2>2. QED
    BY <1>8, <2>1 DEF FinishPutTimed
<1>9. ASSUME NEW x \in Timers, FinishRemove(x) PROVE TypeOK'
  BY <1>9 DEF FinishRemove, Holders
<1>10. ASSUME NEW k \in Keys, NEW x \in Timers, ClearKill(k, x) PROVE TypeOK'
  BY <1>10 DEF ClearKill
<1>11. ASSUME ClearEnd PROVE TypeOK'
  BY <1>11 DEF ClearEnd
<1>12. ASSUME NEW x \in Timers, Fire(x) PROVE TypeOK'
  BY <1>12 DEF Fire
<1>13. ASSUME NEW x \in Timers, Expire(x) PROVE TypeOK'
  BY <1>13 DEF Expire, DeleteKey
<1>14. CASE UNCHANGED vars
  BY <1>14 DEF vars
<1>15. QED
  BY <1>1, <1>2, <1>3, <1>4, <1>5, <1>6, <1>7, <1>8, <1>9, <1>10, <1>11, <1>12,
     <1>13, <1>14 DEF Next, CancelStep

-----------------------------------------------------------------------------
\* No operation and no expiry breaks the correspondence of keys, entries,
\* channels and goroutines.
LEMMA CacheInvStep == TypeOK /\ CacheInv /\ [Next]_vars => CacheInv'
<1> SUFFICES ASSUME TypeOK, CacheInv, [Next]_vars PROVE CacheInv'
  OBVIOUS
<1> USE CacheAssumption DEF TypeOK, CacheInv, KeyMatches, ExpiryOwnsItsKey, CancelHasListener, HolderFound,
        Present, HasExpiry, Heard, DropCancel
<1>1. ASSUME NEW k \in Keys, NEW v \in Values, Insert(k, v) PROVE CacheInv'
  BY <1>1 DEF Insert, Add, Fresh
<1>2. ASSUME NEW k \in Keys, NEW v \in Values, InsertTimed(k, v) PROVE CacheInv'
  BY <1>2 DEF InsertTimed, Add, SetExpiry, Fresh
<1>3. ASSUME NEW k \in Keys, NEW v \in Values, Replace(k, v) PROVE CacheInv'
  BY <1>3 DEF Replace
<1>4. ASSUME NEW k \in Keys, NEW v \in Values, ReplaceTimed(k, v) PROVE CacheInv'
  BY <1>4 DEF ReplaceTimed, SetExpiry
<1>5. ASSUME NEW k \in Keys, Remove(k) PROVE CacheInv'
  BY <1>5 DEF Remove
<1>6. ASSUME NEW o \in Holders, Acquire(o) PROVE CacheInv'
  BY <1>6 DEF Acquire, Holders
<1>7. ASSUME NEW x \in Timers, FinishPut(x) PROVE CacheInv'
  BY <1>7 DEF FinishPut, Holders
<1>8. ASSUME NEW x \in Timers, FinishPutTimed(x) PROVE CacheInv'
  BY <1>8 DEF FinishPutTimed, Holders
<1>9. ASSUME NEW x \in Timers, FinishRemove(x) PROVE CacheInv'
  BY <1>9 DEF FinishRemove, Holders
<1>10. ASSUME NEW k \in Keys, NEW x \in Timers, ClearKill(k, x) PROVE CacheInv'
  BY <1>10 DEF ClearKill, Holders
<1>11. ASSUME ClearEnd PROVE CacheInv'
  BY <1>11 DEF ClearEnd
<1>12. ASSUME NEW x \in Timers, Fire(x) PROVE CacheInv'
  BY <1>12 DEF Fire
<1>13. ASSUME NEW x \in Timers, Expire(x) PROVE CacheInv'
  BY <1>13 DEF Expire, DeleteKey
<1>14. CASE UNCHANGED vars
  BY <1>14 DEF vars
<1>15. QED
  BY <1>1, <1>2, <1>3, <1>4, <1>5, <1>6, <1>7, <1>8, <1>9, <1>10, <1>11, <1>12,
     <1>13, <1>14 DEF Next, CancelStep

\* Types and invariant are inductive together: an operation that waits for the
\* lock to be its own must find the entry it found before.
LEMMA Inductive == Spec => [](TypeOK /\ CacheInv)
<1>1. Init => TypeOK /\ CacheInv
  BY CacheAssumption DEF Init, TypeOK, CacheInv, KeyMatches, ExpiryOwnsItsKey,
     CancelHasListener, HolderFound, Present
<1>2. QED
  BY <1>1, TypeStep, CacheInvStep, PTL DEF Spec

\* Every variable of the cache keeps its type.
THEOREM TypeCorrect == Spec => []TypeOK
BY Inductive, PTL

\* The keys, entries, channels and goroutines of the cache always correspond.
THEOREM CacheCorrect == Spec => []CacheInv
BY Inductive, PTL

\* An expiry deletes the entry it was started for, though it deletes by key.
THEOREM ExpiryIsForItsKey == Spec => []ExpiryOwnsItsKey
<1>1. CacheInv => ExpiryOwnsItsKey
  BY DEF CacheInv
<1>2. QED
  BY <1>1, CacheCorrect, PTL

-----------------------------------------------------------------------------
\* Pointwise conditions under which a step of the cache is one of the map.
LEMMA PutMaps ==
    ASSUME NEW k \in Keys, NEW v \in Values, NEW b \in BOOLEAN,
           \A j \in Keys : ValueOf(j)' = IF j = k THEN v ELSE ValueOf(j),
           \A j \in Keys : IsTimed(j)' <=> IF j = k THEN b ELSE IsTimed(j),
           by' = "caller"
    PROVE  IF b THEN Map!PutTimed(k, v) ELSE Map!Put(k, v)
BY DEF Map!Put, Map!PutTimed

\* The same for an entry that goes.
LEMMA DeleteMaps ==
    ASSUME NEW k \in Keys,
           \A j \in Keys : ValueOf(j)' = IF j = k THEN Nil ELSE ValueOf(j),
           \A j \in Keys : IsTimed(j)' <=> j # k /\ IsTimed(j)
    PROVE  Map!Delete(k)
BY DEF Map!Delete

\* The same for a step the map does not see.
LEMMA StutterMaps ==
    ASSUME \A j \in Keys : ValueOf(j)' = ValueOf(j),
           \A j \in Keys : IsTimed(j)' <=> IsTimed(j),
           by' = by
    PROVE  UNCHANGED Map!mapVars
BY DEF Map!mapVars

\* Every step of the cache is a step of the map or changes nothing of it.
LEMMA MapStep == TypeOK /\ CacheInv /\ [Next]_vars => [Map!Next]_(Map!mapVars)
<1> SUFFICES ASSUME TypeOK, CacheInv, [Next]_vars PROVE [Map!Next]_(Map!mapVars)
  OBVIOUS
<1> USE CacheAssumption DEF TypeOK, CacheInv, KeyMatches, ExpiryOwnsItsKey, CancelHasListener, HolderFound,
        Present, HasExpiry, Heard, DropCancel
<1>1. ASSUME NEW k \in Keys, NEW v \in Values, Insert(k, v) PROVE Map!Put(k, v)
  <2>1. \A j \in Keys : ValueOf(j)' = IF j = k THEN v ELSE ValueOf(j)
    BY <1>1 DEF Insert, Add, Fresh, ValueOf
  <2>2. \A j \in Keys : IsTimed(j)' <=> IF j = k THEN FALSE ELSE IsTimed(j)
    BY <1>1 DEF Insert, Add, Fresh, IsTimed
  <2>3. QED
    BY <1>1, <2>1, <2>2, PutMaps DEF Insert, Add
<1>2. ASSUME NEW k \in Keys, NEW v \in Values, InsertTimed(k, v) PROVE Map!PutTimed(k, v)
  <2>1. \A j \in Keys : ValueOf(j)' = IF j = k THEN v ELSE ValueOf(j)
    BY <1>2 DEF InsertTimed, Add, Fresh, SetExpiry, ValueOf
  <2>2. \A j \in Keys : IsTimed(j)' <=> IF j = k THEN TRUE ELSE IsTimed(j)
    BY <1>2 DEF InsertTimed, Add, Fresh, SetExpiry, IsTimed
  <2>3. QED
    BY <1>2, <2>1, <2>2, PutMaps DEF InsertTimed, Add
<1>3. ASSUME NEW k \in Keys, NEW v \in Values, Replace(k, v) PROVE Map!Put(k, v)
  <2>1. \A j \in Keys : ValueOf(j)' = IF j = k THEN v ELSE ValueOf(j)
    BY <1>3 DEF Replace, ValueOf
  <2>2. \A j \in Keys : IsTimed(j)' <=> IF j = k THEN FALSE ELSE IsTimed(j)
    BY <1>3 DEF Replace, IsTimed
  <2>3. QED
    BY <1>3, <2>1, <2>2, PutMaps DEF Replace
<1>4. ASSUME NEW k \in Keys, NEW v \in Values, ReplaceTimed(k, v) PROVE Map!PutTimed(k, v)
  <2>1. \A j \in Keys : ValueOf(j)' = IF j = k THEN v ELSE ValueOf(j)
    BY <1>4 DEF ReplaceTimed, SetExpiry, ValueOf
  <2>2. \A j \in Keys : IsTimed(j)' <=> IF j = k THEN TRUE ELSE IsTimed(j)
    BY <1>4 DEF ReplaceTimed, SetExpiry, IsTimed
  <2>3. QED
    BY <1>4, <2>1, <2>2, PutMaps DEF ReplaceTimed
<1>5. ASSUME NEW k \in Keys, Remove(k) PROVE Map!Remove(k)
  <2>1. \A j \in Keys : ValueOf(j)' = IF j = k THEN Nil ELSE ValueOf(j)
    BY <1>5 DEF Remove, ValueOf
  <2>2. \A j \in Keys : IsTimed(j)' <=> j # k /\ IsTimed(j)
    BY <1>5 DEF Remove, IsTimed
  <2>3. QED
    BY <1>5, <2>1, <2>2, DeleteMaps DEF Remove, Map!Remove
<1>6. ASSUME NEW o \in Holders, Acquire(o) PROVE UNCHANGED Map!mapVars
  <2>1. \A j \in Keys : ValueOf(j)' = ValueOf(j)
    BY <1>6 DEF Acquire, ValueOf
  <2>2. \A j \in Keys : IsTimed(j)' <=> IsTimed(j)
    BY <1>6 DEF Acquire, IsTimed
  <2>3. QED
    BY <1>6, <2>1, <2>2, StutterMaps DEF Acquire
<1>7. ASSUME NEW x \in Timers, FinishPut(x) PROVE Map!Put(holder.key, holder.value)
  <2>1. holder.key \in Keys /\ holder.value \in Values
    BY <1>7 DEF FinishPut, Holders
  <2>2. \A j \in Keys : ValueOf(j)' = IF j = holder.key THEN holder.value ELSE ValueOf(j)
    BY <1>7, <2>1 DEF FinishPut, ValueOf
  <2>3. \A j \in Keys : IsTimed(j)' <=> IF j = holder.key THEN FALSE ELSE IsTimed(j)
    BY <1>7, <2>1 DEF FinishPut, IsTimed
  <2>4. QED
    BY <1>7, <2>1, <2>2, <2>3, PutMaps DEF FinishPut
<1>8. ASSUME NEW x \in Timers, FinishPutTimed(x) PROVE Map!PutTimed(holder.key, holder.value)
  <2>1. holder.key \in Keys /\ holder.value \in Values
    BY <1>8 DEF FinishPutTimed, Holders
  <2>2. \A j \in Keys : ValueOf(j)' = IF j = holder.key THEN holder.value ELSE ValueOf(j)
    BY <1>8, <2>1 DEF FinishPutTimed, ValueOf
  <2>3. \A j \in Keys : IsTimed(j)' <=> IF j = holder.key THEN TRUE ELSE IsTimed(j)
    BY <1>8, <2>1 DEF FinishPutTimed, IsTimed
  <2>4. QED
    BY <1>8, <2>1, <2>2, <2>3, PutMaps DEF FinishPutTimed
<1>9. ASSUME NEW x \in Timers, FinishRemove(x) PROVE Map!Remove(holder.key)
  <2>1. holder.key \in Keys
    BY <1>9 DEF FinishRemove, Holders
  <2>2. \A j \in Keys : ValueOf(j)' = IF j = holder.key THEN Nil ELSE ValueOf(j)
    BY <1>9, <2>1 DEF FinishRemove, ValueOf
  <2>3. \A j \in Keys : IsTimed(j)' <=> j # holder.key /\ IsTimed(j)
    BY <1>9, <2>1 DEF FinishRemove, IsTimed
  <2>4. QED
    BY <1>9, <2>1, <2>2, <2>3, DeleteMaps DEF FinishRemove, Map!Remove
<1>10. ASSUME NEW k \in Keys, NEW x \in Timers, ClearKill(k, x) PROVE UNCHANGED Map!mapVars
  <2>1. \A j \in Keys : ValueOf(j)' = ValueOf(j)
    BY <1>10 DEF ClearKill, ValueOf
  <2>2. \A j \in Keys : IsTimed(j)' <=> IsTimed(j)
    BY <1>10 DEF ClearKill, IsTimed
  <2>3. QED
    BY <1>10, <2>1, <2>2, StutterMaps DEF ClearKill
<1>11. ASSUME ClearEnd PROVE Map!Clear
  <2>1. \A j \in Keys : ValueOf(j)' = Nil /\ ~IsTimed(j)'
    BY <1>11 DEF ClearEnd, ValueOf, IsTimed
  <2>2. QED
    BY <1>11, <2>1 DEF ClearEnd, Map!Clear
<1>12. ASSUME NEW x \in Timers, Fire(x) PROVE UNCHANGED Map!mapVars
  <2>1. \A j \in Keys : ValueOf(j)' = ValueOf(j)
    BY <1>12 DEF Fire, ValueOf
  <2>2. \A j \in Keys : IsTimed(j)' <=> IsTimed(j)
    BY <1>12 DEF Fire, IsTimed
  <2>3. QED
    BY <1>12, <2>1, <2>2, StutterMaps DEF Fire
<1>13. ASSUME NEW x \in Timers, Expire(x) PROVE Map!Expire(key[owner[x]])
  <2> DEFINE k == key[owner[x]]
  <2>1. k \in Keys /\ data[k] = owner[x] /\ cancel[owner[x]] = x /\ holder = Nil
    BY <1>13 DEF Expire
  <2>2. IsTimed(k)
    BY <2>1 DEF IsTimed
  <2>3. \A j \in Keys : ValueOf(j)' = IF j = k THEN Nil ELSE ValueOf(j)
    BY <1>13, <2>1 DEF Expire, DeleteKey, ValueOf
  <2>4. \A j \in Keys : IsTimed(j)' <=> j # k /\ IsTimed(j)
    BY <1>13, <2>1 DEF Expire, DeleteKey, IsTimed
  <2>5. Map!Delete(k)
    BY <2>1, <2>3, <2>4, DeleteMaps
  <2>6. QED
    BY <1>13, <2>1, <2>2, <2>5 DEF Expire, Map!Expire
<1>14. CASE UNCHANGED vars
  <2>1. \A j \in Keys : ValueOf(j)' = ValueOf(j)
    BY <1>14 DEF vars, ValueOf
  <2>2. \A j \in Keys : IsTimed(j)' <=> IsTimed(j)
    BY <1>14 DEF vars, IsTimed
  <2>3. QED
    BY <1>14, <2>1, <2>2, StutterMaps DEF vars
<1>15. ASSUME NEW x \in Timers PROVE key[owner[x]] \in Keys
  OBVIOUS
<1>16. ASSUME NEW x \in Timers, FinishPut(x) \/ FinishPutTimed(x)
       PROVE  holder.key \in Keys /\ holder.value \in Values
  BY <1>16 DEF FinishPut, FinishPutTimed, Holders
<1>17. ASSUME NEW x \in Timers, FinishRemove(x) PROVE holder.key \in Keys
  BY <1>17 DEF FinishRemove, Holders
<1>18. QED
  BY <1>1, <1>2, <1>3, <1>4, <1>5, <1>6, <1>7, <1>8, <1>9, <1>10, <1>11, <1>12,
     <1>13, <1>14, <1>15, <1>16, <1>17 DEF Next, CancelStep, Map!Next

\* Whatever operations and expiries interleave, the cache behaves as a map with
\* atomic operations from which only timed entries disappear.
THEOREM CacheImplementsMap == Spec => ImplementsMap
<1>1. Init => Map!Init
  BY CacheAssumption DEF Init, Map!Init, Present, ValueOf, IsTimed
<1>2. QED
  BY <1>1, Inductive, MapStep, PTL DEF Spec, ImplementsMap, Map!Spec

=============================================================================
