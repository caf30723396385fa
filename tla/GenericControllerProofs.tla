----------------------- MODULE GenericControllerProofs -----------------------
(***************************************************************************)
(* The safety properties of GenericController for every set of keys and    *)
(* workers and every bound.  Each step of Next preserves Inv; the lemmas   *)
(* before it say what a step does to the pending notifications, and those  *)
(* of WorkqueueProofs what it does to the queue.                           *)
(***************************************************************************)
EXTENDS GenericController, WorkqueueProofs, FiniteSetTheorems

\* An UNCHANGED is about the variables, not about their tuples.
USE DEF workqueueVars, queueVars, delayVars, informerVars, workerVars

\* Every notification is about a key.
LEMMA NotificationKey ==
  ASSUME NEW n \in Notification
  PROVE  n.key \in Keys
BY DEF Notification

\* Distributing a notification loses none of those that are pending.
LEMMA DistributeLemma ==
  ASSUME NEW n \in Notification,
         notifications \in Seq(Notification),
         Distribute(n)
  PROVE  /\ notifications' \in Seq(Notification)
         /\ NotifiedKeys \subseteq NotifiedKeys'
         /\ Registered /\ Relevant(n) /\ HasKey(n) => n.key \in NotifiedKeys'
<1>1. CASE ~Registered
  BY <1>1 DEF Distribute, NotifiedKeys, Relevant, HasKey
<1>2. CASE Registered
  <2>1. /\ notifications' \in Seq(Notification)
        /\ Len(notifications) \in Nat
        /\ Len(notifications') = Len(notifications) + 1
        /\ \A i \in 1..Len(notifications) :
             notifications'[i] = notifications[i]
        /\ notifications'[Len(notifications')] = n
    BY <1>2 DEF Distribute
  <2>2. NotifiedKeys \subseteq NotifiedKeys'
    BY <2>1 DEF NotifiedKeys, Relevant, HasKey
  <2>3. Relevant(n) /\ HasKey(n) => n.key \in NotifiedKeys'
    <3> DEFINE last == Len(notifications')
    <3>1. last \in 1..last
      BY <2>1
    <3> QED
      BY <2>1, <3>1, NotificationKey DEF NotifiedKeys, Relevant, HasKey
  <2> QED
    BY <2>1, <2>2, <2>3
<1> QED
  BY <1>1, <1>2

\* Handling a notification leaves the ones behind it pending.
LEMMA HandleLemma ==
  ASSUME notifications \in Seq(Notification),
         notifications # << >>,
         notifications' = Tail(notifications)
  PROVE  /\ notifications' \in Seq(Notification)
         /\ Head(notifications) \in Notification
         /\ \A x \in NotifiedKeys :
              \/ x \in NotifiedKeys'
              \/ /\ Head(notifications).key = x
                 /\ Relevant(Head(notifications))
                 /\ HasKey(Head(notifications))
<1>1. /\ notifications' \in Seq(Notification)
      /\ Head(notifications) \in Notification
      /\ Head(notifications) = notifications[1]
      /\ Len(notifications) \in Nat \ {0}
      /\ Len(notifications') = Len(notifications) - 1
      /\ \A i \in 1..Len(notifications') :
           notifications'[i] = notifications[i + 1]
  OBVIOUS
<1>2. ASSUME NEW x \in NotifiedKeys
      PROVE  \/ x \in NotifiedKeys'
             \/ /\ Head(notifications).key = x
                /\ Relevant(Head(notifications))
                /\ HasKey(Head(notifications))
  <2>1. PICK i \in 1..Len(notifications) :
               /\ notifications[i].key = x
               /\ Relevant(notifications[i])
               /\ HasKey(notifications[i])
    BY <1>2 DEF NotifiedKeys
  <2>2. CASE i = 1
    BY <2>1, <2>2, <1>1
  <2>3. CASE i # 1
    <3>1. i - 1 \in 1..Len(notifications')
      BY <2>3, <1>1
    <3>2. notifications'[i - 1] = notifications[i]
      BY <3>1, <1>1
    <3>3. \E j \in 1..Len(notifications') :
             /\ notifications'[j].key = x
             /\ Relevant(notifications'[j])
             /\ HasKey(notifications'[j])
      BY <2>1, <3>1, <3>2
    <3>4. x \in Keys
      BY DEF NotifiedKeys
    <3> QED
      BY <3>3, <3>4 DEF NotifiedKeys, Relevant, HasKey
  <2> QED
    BY <2>2, <2>3
<1> QED
  BY <1>1, <1>2

\* Replaying the cache to a new handler announces every object in it.
LEMMA ReplayLemma ==
  ASSUME TypeOK, RunRegister
  PROVE  /\ notifications' \in Seq(Notification)
         /\ \A x \in Keys : cache[x].live => x \in NotifiedKeys'
<1> DEFINE present == {x \in Keys : cache[x].live}
<1>1. PICK s \in [1..Cardinality(present) -> present] :
             /\ \A x \in present : \E i \in DOMAIN s : s[i] = x
             /\ notifications' =
                  [i \in DOMAIN s |-> [op |-> "add", key |-> s[i]]]
  BY DEF RunRegister
<1>2. Cardinality(present) \in Nat
  <2>1. IsFiniteSet(present)
    BY FS_Subset, ConstantsAssumption
  <2> QED
    BY <2>1, FS_CardinalityType
<1>3. notifications' \in [1..Cardinality(present) -> Notification]
  BY <1>1 DEF Notification
<1>4. notifications' \in Seq(Notification)
  <2>1. \A n \in Nat : \A f \in [1..n -> Notification] :
          f \in Seq(Notification)
    BY SeqDef
  <2> HIDE DEF present
  <2> QED
    BY <1>2, <1>3, <2>1
<1>5. /\ DOMAIN notifications' = DOMAIN s
      /\ DOMAIN notifications' = 1..Len(notifications')
  <2>1. DOMAIN notifications' = DOMAIN s
    BY <1>1
  <2>2. DOMAIN notifications' = 1..Len(notifications')
    BY <1>4, LenProperties
  <2> QED
    BY <2>1, <2>2
<1>6. ASSUME NEW x \in Keys, cache[x].live
      PROVE  x \in NotifiedKeys'
  <2>1. PICK i \in DOMAIN s : s[i] = x
    BY <1>1, <1>6
  <2>2. notifications'[i] = [op |-> "add", key |-> x]
    BY <1>1, <2>1
  <2>3. i \in 1..Len(notifications')
    BY <2>1, <1>5
  <2>4. /\ notifications'[i].key = x
        /\ Relevant(notifications'[i])
        /\ HasKey(notifications'[i])
    BY <2>2 DEF Relevant, HasKey
  <2> QED
    BY <2>3, <2>4 DEF NotifiedKeys, Relevant, HasKey
<1> QED
  BY <1>4, <1>6

\* A worker that works holds a key that is marked as being processed.
LEMMA WorkingItem ==
  ASSUME Inv, NEW w \in Workers, Working(w)
  PROVE  item[w] \in Keys /\ item[w] \in processing
BY DEF Inv, ItemsProcessing, TypeOK, QueueTypeOK

\* The informer changes or repeats an entry of its cache.
LEMMA CacheStep ==
  ASSUME Inv, NEW k \in Keys, CacheChange(k)
  PROVE  Inv'
<1>1. CASE CacheAdd(k)
  <2> DEFINE n == [op |-> "add", key |-> k]
  <2>1. QueuedKeys' = QueuedKeys
    BY <1>1 DEF CacheAdd, QueuedKeys
  <2>2. n \in Notification
    BY <1>1, ConstantsAssumption
       DEF CacheAdd, Inv, TypeOK, Object, Notification
  <2>3. Relevant(n) /\ HasKey(n)
    BY <1>1 DEF CacheAdd, Inv, TypeOK, Object, Relevant, HasKey
  <2>4. /\ notifications' \in Seq(Notification)
        /\ NotifiedKeys \subseteq NotifiedKeys'
        /\ Registered => k \in NotifiedKeys'
    BY <1>1, <2>2, <2>3, DistributeLemma DEF CacheAdd, Inv, TypeOK
  <2>5. TypeOK'
    BY <1>1, <2>4, ConstantsAssumption
       DEF Inv, TypeOK, QueueTypeOK, DelayTypeOK, Object, CacheAdd
  <2>6. QueueConsistent' /\ ItemsProcessing' /\ BackoffInv' /\ Lifecycle'
    BY <1>1
       DEF Inv, QueueConsistent, QueuedKeys, ItemsProcessing, SingleFlight,
           Working, BackoffInv, BackoffOnlyWhilePending, Lifecycle, CacheAdd
  <2>7. Freshness'
    BY <1>1 DEF Inv, Freshness, TypeOK, Object, CacheAdd
  <2>8. StaleReadOwed'
    BY <1>1, <2>4 DEF Inv, StaleReadOwed, Registered, CacheAdd
  <2>9. NoLostUpdate'
    BY <1>1, <2>1, <2>4
       DEF Inv, NoLostUpdate, Registered, UpToDate, Owed, Working, CacheAdd
  <2> QED
    BY <2>5, <2>6, <2>7, <2>8, <2>9 DEF Inv
<1>2. CASE CacheUpdate(k)
  <2> DEFINE n == [op |-> "update", key |-> k,
                   old |-> cache[k].rev, new |-> cache[k].rev + 1]
  <2>1. QueuedKeys' = QueuedKeys
    BY <1>2 DEF CacheUpdate, QueuedKeys
  <2>2. n \in Notification
    BY <1>2, ConstantsAssumption
       DEF CacheUpdate, Inv, TypeOK, Object, Notification
  <2>3. Relevant(n) /\ HasKey(n)
    BY <1>2 DEF CacheUpdate, Inv, TypeOK, Object, Relevant, HasKey
  <2>4. /\ notifications' \in Seq(Notification)
        /\ NotifiedKeys \subseteq NotifiedKeys'
        /\ Registered => k \in NotifiedKeys'
    BY <1>2, <2>2, <2>3, DistributeLemma DEF CacheUpdate, Inv, TypeOK
  <2>5. TypeOK'
    BY <1>2, <2>4, ConstantsAssumption
       DEF Inv, TypeOK, QueueTypeOK, DelayTypeOK, Object, CacheUpdate
  <2>6. QueueConsistent' /\ ItemsProcessing' /\ BackoffInv' /\ Lifecycle'
    BY <1>2
       DEF Inv, QueueConsistent, QueuedKeys, ItemsProcessing, SingleFlight,
           Working, BackoffInv, BackoffOnlyWhilePending, Lifecycle, CacheUpdate
  <2>7. Freshness'
    BY <1>2 DEF Inv, Freshness, TypeOK, Object, CacheUpdate
  <2>8. StaleReadOwed'
    BY <1>2, <2>4 DEF Inv, StaleReadOwed, Registered, CacheUpdate
  <2>9. NoLostUpdate'
    BY <1>2, <2>1, <2>4
       DEF Inv, NoLostUpdate, Registered, UpToDate, Owed, Working, CacheUpdate
  <2> QED
    BY <2>5, <2>6, <2>7, <2>8, <2>9 DEF Inv
<1>3. CASE CacheResync(k)
  <2> DEFINE n == [op |-> "update", key |-> k,
                   old |-> cache[k].rev, new |-> cache[k].rev]
  <2>1. QueuedKeys' = QueuedKeys
    BY <1>3 DEF CacheResync, QueuedKeys
  <2>2. n \in Notification
    BY <1>3, ConstantsAssumption
       DEF CacheResync, Inv, TypeOK, Object, Notification
  <2>3. /\ notifications' \in Seq(Notification)
        /\ NotifiedKeys \subseteq NotifiedKeys'
    BY <1>3, <2>2, DistributeLemma DEF CacheResync, Inv, TypeOK
  <2>4. TypeOK'
    BY <1>3, <2>3 DEF Inv, TypeOK, QueueTypeOK, DelayTypeOK, CacheResync
  <2>5. /\ QueueConsistent'
        /\ ItemsProcessing'
        /\ Freshness'
        /\ BackoffInv'
        /\ Lifecycle'
    BY <1>3
       DEF Inv, QueueConsistent, QueuedKeys, ItemsProcessing, SingleFlight,
           Working, Freshness, BackoffInv, BackoffOnlyWhilePending, Lifecycle,
           CacheResync
  <2>6. StaleReadOwed' /\ NoLostUpdate'
    BY <1>3, <2>1, <2>3
       DEF Inv, StaleReadOwed, Registered, NoLostUpdate, UpToDate, Owed,
           Working, CacheResync
  <2> QED
    BY <2>4, <2>5, <2>6 DEF Inv
<1>4. CASE CacheDelete(k)
  <2> DEFINE n(t) == [op |-> "delete", key |-> k, tombstone |-> t]
  <2>1. QueuedKeys' = QueuedKeys
    BY <1>4 DEF CacheDelete, QueuedKeys
  <2>2. PICK tombstone \in BOOLEAN :
          /\ Distribute(n(tombstone))
          /\ tombstoned' = IF tombstone THEN tombstoned \cup {k} ELSE tombstoned
    BY <1>4 DEF CacheDelete
  <2>3. n(tombstone) \in Notification
    BY <2>2 DEF Notification
  <2>4. /\ notifications' \in Seq(Notification)
        /\ NotifiedKeys \subseteq NotifiedKeys'
        /\ Registered => k \in NotifiedKeys' \cup tombstoned'
    BY <2>2, <2>3, DistributeLemma DEF Inv, TypeOK, Relevant, HasKey
  <2>5. TypeOK'
    BY <1>4, <2>4, ConstantsAssumption
       DEF Inv, TypeOK, QueueTypeOK, DelayTypeOK, Object, CacheDelete
  <2>6. QueueConsistent' /\ ItemsProcessing' /\ BackoffInv' /\ Lifecycle'
    BY <1>4
       DEF Inv, QueueConsistent, QueuedKeys, ItemsProcessing, SingleFlight,
           Working, BackoffInv, BackoffOnlyWhilePending, Lifecycle, CacheDelete
  <2>7. Freshness'
    BY <1>4 DEF Inv, Freshness, TypeOK, Object, CacheDelete
  <2>8. StaleReadOwed'
    BY <1>4, <2>4 DEF Inv, StaleReadOwed, Registered, CacheDelete
  <2>9. NoLostUpdate'
    BY <1>4, <2>1, <2>4
       DEF Inv, NoLostUpdate, Registered, UpToDate, Owed, Working, CacheDelete
  <2> QED
    BY <2>5, <2>6, <2>7, <2>8, <2>9 DEF Inv
<1> QED
  BY <1>1, <1>2, <1>3, <1>4 DEF CacheChange

\* A delay expires, or a handler is called.
LEMMA QueueStep ==
  ASSUME Inv, NEW k \in Keys, WaitingLoop(k) \/ HandleNotification
  PROVE  Inv'
<1>1. CASE WaitingLoop(k)
  <2>1. NotifiedKeys' = NotifiedKeys
    BY <1>1 DEF WaitingLoop, NotifiedKeys
  <2>2. /\ QueueTypeOK'
        /\ QueueConsistent'
        /\ processing' = processing
        /\ shuttingDown' = shuttingDown
        /\ dirty \subseteq dirty'
        /\ shuttingDown => queue' = queue
        /\ ~shuttingDown => k \in dirty'
    BY <1>1, AddLemma DEF WaitingLoop, DelayExpires, Inv, TypeOK
  <2>3. TypeOK'
    BY <1>1, <2>2 DEF Inv, TypeOK, DelayTypeOK, WaitingLoop, DelayExpires
  <2>4. QueueConsistent'
    BY <2>2
  <2>5. ItemsProcessing' /\ Freshness'
    BY <1>1, <2>2
       DEF Inv, ItemsProcessing, SingleFlight, Working, Freshness, WaitingLoop
  <2>6. BackoffInv'
    BY <1>1, <2>2
       DEF Inv, BackoffInv, BackoffOnlyWhilePending, WaitingLoop, DelayExpires
  <2>7. Lifecycle'
    BY <1>1, <2>2 DEF Inv, Lifecycle, Working, WaitingLoop
  <2>8. StaleReadOwed'
    BY <1>1, <2>1, <2>2
       DEF Inv, StaleReadOwed, Registered, WaitingLoop, DelayExpires
  <2>9. NoLostUpdate'
    BY <1>1, <2>1, <2>2
       DEF Inv, NoLostUpdate, Registered, UpToDate, Owed, Working,
           ItemsProcessing, QueueConsistent, WaitingLoop, DelayExpires
  <2> QED
    BY <2>3, <2>4, <2>5, <2>6, <2>7, <2>8, <2>9 DEF Inv
<1>2. CASE HandleNotification
  <2>1. /\ notifications # << >>
        /\ notifications' = Tail(notifications)
        /\ enqueue(Head(notifications))
        /\ UNCHANGED <<delayVars, cache, hasSynced, tombstoned, ctxDone, runPc,
                       workerVars>>
    BY <1>2 DEF HandleNotification
  <2>2. /\ notifications' \in Seq(Notification)
        /\ Head(notifications) \in Notification
        /\ Head(notifications).key \in Keys
    BY <2>1, HandleLemma, NotificationKey DEF Inv, TypeOK
  <2>3. /\ QueueTypeOK'
        /\ QueueConsistent'
        /\ processing' = processing
        /\ shuttingDown' = shuttingDown
        /\ dirty \subseteq dirty'
        /\ shuttingDown => queue' = queue
        /\ ~shuttingDown /\ Relevant(Head(notifications))
             /\ HasKey(Head(notifications)) => Head(notifications).key \in dirty'
    <3>1. CASE Relevant(Head(notifications)) /\ HasKey(Head(notifications))
      BY <3>1, <2>1, <2>2, AddLemma DEF enqueue, Inv, TypeOK
    <3>2. CASE ~(Relevant(Head(notifications)) /\ HasKey(Head(notifications)))
      <4>1. UNCHANGED <<queue, dirty, processing, shuttingDown, waiters>>
        BY <3>2, <2>1 DEF enqueue
      <4>2. QueueTypeOK'
        BY <4>1 DEF Inv, TypeOK, QueueTypeOK
      <4>3. QueueConsistent'
        BY <4>1 DEF Inv, QueueConsistent, QueuedKeys
      <4> QED
        BY <3>2, <4>1, <4>2, <4>3
    <3> QED
      BY <3>1, <3>2
  <2>4. ~shuttingDown => NotifiedKeys \subseteq NotifiedKeys' \cup dirty'
    BY <2>1, <2>3, HandleLemma DEF Inv, TypeOK
  <2>5. TypeOK'
    BY <2>1, <2>3 DEF Inv, TypeOK, DelayTypeOK
  <2>6. QueueConsistent'
    BY <2>3
  <2>7. ItemsProcessing' /\ Freshness'
    BY <2>1, <2>3 DEF Inv, ItemsProcessing, SingleFlight, Working, Freshness
  <2>8. BackoffInv'
    BY <2>1, <2>3 DEF Inv, BackoffInv, BackoffOnlyWhilePending
  <2>9. Lifecycle'
    BY <2>1, <2>3 DEF Inv, Lifecycle, Working
  <2>10. StaleReadOwed'
    BY <2>1, <2>3, <2>4 DEF Inv, StaleReadOwed, Registered
  <2>11. NoLostUpdate'
    BY <2>1, <2>3, <2>4
       DEF Inv, NoLostUpdate, Registered, UpToDate, Owed, Working,
           ItemsProcessing, QueueConsistent
  <2> QED
    BY <2>5, <2>6, <2>7, <2>8, <2>9, <2>10, <2>11 DEF Inv
<1> QED
  BY <1>1, <1>2

\* The informer syncs, the context is cancelled, or nothing happens.
LEMMA OtherStep ==
  ASSUME Inv, InformerSyncs \/ Cancel \/ UNCHANGED vars
  PROVE  Inv'
<1>1. CASE InformerSyncs
  <2>1. NotifiedKeys' = NotifiedKeys
    BY <1>1 DEF InformerSyncs, NotifiedKeys
  <2>2. QueuedKeys' = QueuedKeys
    BY <1>1 DEF InformerSyncs, QueuedKeys
  <2>3. TypeOK'
    BY <1>1 DEF Inv, TypeOK, QueueTypeOK, DelayTypeOK, InformerSyncs
  <2>4. /\ QueueConsistent'
        /\ ItemsProcessing'
        /\ Freshness'
        /\ BackoffInv'
        /\ Lifecycle'
    BY <1>1
       DEF Inv, QueueConsistent, QueuedKeys, ItemsProcessing, SingleFlight,
           Working, Freshness, BackoffInv, BackoffOnlyWhilePending, Lifecycle,
           InformerSyncs
  <2>5. StaleReadOwed' /\ NoLostUpdate'
    BY <1>1, <2>1, <2>2
       DEF Inv, StaleReadOwed, Registered, NoLostUpdate, UpToDate, Owed,
           Working, InformerSyncs
  <2> QED
    BY <2>3, <2>4, <2>5 DEF Inv
<1>2. CASE Cancel
  <2>1. NotifiedKeys' = NotifiedKeys
    BY <1>2 DEF Cancel, NotifiedKeys
  <2>2. QueuedKeys' = QueuedKeys
    BY <1>2 DEF Cancel, QueuedKeys
  <2>3. TypeOK'
    BY <1>2 DEF Inv, TypeOK, QueueTypeOK, DelayTypeOK, Cancel
  <2>4. /\ QueueConsistent'
        /\ ItemsProcessing'
        /\ Freshness'
        /\ BackoffInv'
        /\ Lifecycle'
    BY <1>2
       DEF Inv, QueueConsistent, QueuedKeys, ItemsProcessing, SingleFlight,
           Working, Freshness, BackoffInv, BackoffOnlyWhilePending, Lifecycle,
           Cancel
  <2>5. StaleReadOwed' /\ NoLostUpdate'
    BY <1>2, <2>1, <2>2
       DEF Inv, StaleReadOwed, Registered, NoLostUpdate, UpToDate, Owed,
           Working, Cancel
  <2> QED
    BY <2>3, <2>4, <2>5 DEF Inv
<1>3. CASE UNCHANGED vars
  <2>1. NotifiedKeys' = NotifiedKeys
    BY <1>3 DEF vars, NotifiedKeys
  <2>2. QueuedKeys' = QueuedKeys
    BY <1>3 DEF vars, QueuedKeys
  <2>3. TypeOK'
    BY <1>3 DEF Inv, TypeOK, QueueTypeOK, DelayTypeOK, vars
  <2>4. /\ QueueConsistent'
        /\ ItemsProcessing'
        /\ Freshness'
        /\ BackoffInv'
        /\ Lifecycle'
    BY <1>3
       DEF Inv, QueueConsistent, QueuedKeys, ItemsProcessing, SingleFlight,
           Working, Freshness, BackoffInv, BackoffOnlyWhilePending, Lifecycle,
           vars
  <2>5. StaleReadOwed' /\ NoLostUpdate'
    BY <1>3, <2>1, <2>2
       DEF Inv, StaleReadOwed, Registered, NoLostUpdate, UpToDate, Owed,
           Working, vars
  <2> QED
    BY <2>3, <2>4, <2>5 DEF Inv
<1> QED
  BY <1>1, <1>2, <1>3

\* Run takes a step.
LEMMA RunStepLemma ==
  ASSUME Inv, RunStep
  PROVE  Inv'
<1>1. CASE RunRegister
  <2>1. QueuedKeys' = QueuedKeys
    BY <1>1 DEF RunRegister, QueuedKeys
  <2>2. /\ notifications' \in Seq(Notification)
        /\ \A x \in Keys : cache[x].live => x \in NotifiedKeys'
    BY <1>1, ReplayLemma DEF Inv
  <2>3. TypeOK'
    BY <1>1, <2>2 DEF Inv, TypeOK, QueueTypeOK, DelayTypeOK, RunRegister
  <2>4. QueueConsistent' /\ ItemsProcessing' /\ Freshness' /\ BackoffInv'
    BY <1>1
       DEF Inv, QueueConsistent, QueuedKeys, ItemsProcessing, SingleFlight,
           Working, Freshness, BackoffInv, BackoffOnlyWhilePending, RunRegister
  <2>5. Lifecycle'
    BY <1>1 DEF Inv, Lifecycle, RunRegister
  <2>6. StaleReadOwed'
    BY <1>1 DEF Inv, StaleReadOwed, Registered, Lifecycle, RunRegister
  <2>7. NoLostUpdate'
    BY <1>1, <2>2
       DEF Inv, NoLostUpdate, Registered, UpToDate, Owed, StaleReadOwed,
           NoObject, RunRegister
  <2> QED
    BY <2>3, <2>4, <2>5, <2>6, <2>7 DEF Inv
<1>2. CASE RunSync
  <2>1. NotifiedKeys' = NotifiedKeys
    BY <1>2 DEF RunSync, NotifiedKeys
  <2>2. QueuedKeys' = QueuedKeys
    BY <1>2 DEF RunSync, QueuedKeys
  <2>3. TypeOK'
    BY <1>2 DEF Inv, TypeOK, QueueTypeOK, DelayTypeOK, RunSync, SpawnWorkers
  <2>4. QueueConsistent' /\ Freshness' /\ BackoffInv'
    BY <1>2
       DEF Inv, QueueConsistent, QueuedKeys, Freshness, BackoffInv,
           BackoffOnlyWhilePending, RunSync, SpawnWorkers
  <2>5. ItemsProcessing'
    BY <1>2
       DEF Inv, ItemsProcessing, SingleFlight, Working, Lifecycle, RunSync,
           SpawnWorkers
  <2>6. Lifecycle'
    BY <1>2 DEF Inv, Lifecycle, RunSync, SpawnWorkers
  <2>7. StaleReadOwed'
    BY <1>2, <2>1 DEF Inv, StaleReadOwed, Registered, RunSync, SpawnWorkers
  <2>8. NoLostUpdate'
    BY <1>2, <2>1, <2>2
       DEF Inv, NoLostUpdate, Registered, UpToDate, Owed, Working, Lifecycle,
           RunSync
  <2> QED
    BY <2>3, <2>4, <2>5, <2>6, <2>7, <2>8 DEF Inv
<1>3. CASE RunSynced
  <2>1. NotifiedKeys' = NotifiedKeys
    BY <1>3 DEF RunSynced, NotifiedKeys
  <2>2. QueuedKeys' = QueuedKeys
    BY <1>3 DEF RunSynced, QueuedKeys
  <2>3. TypeOK'
    BY <1>3 DEF Inv, TypeOK, QueueTypeOK, DelayTypeOK, RunSynced, SpawnWorkers
  <2>4. QueueConsistent' /\ Freshness' /\ BackoffInv'
    BY <1>3
       DEF Inv, QueueConsistent, QueuedKeys, Freshness, BackoffInv,
           BackoffOnlyWhilePending, RunSynced, SpawnWorkers
  <2>5. ItemsProcessing'
    BY <1>3
       DEF Inv, ItemsProcessing, SingleFlight, Working, Lifecycle, RunSynced,
           SpawnWorkers
  <2>6. Lifecycle'
    BY <1>3 DEF Lifecycle, RunSynced, SpawnWorkers
  <2>7. StaleReadOwed'
    BY <1>3 DEF StaleReadOwed, Registered, RunSynced, SpawnWorkers
  <2>8. NoLostUpdate'
    BY <1>3, <2>1, <2>2
       DEF Inv, NoLostUpdate, Registered, UpToDate, Owed, Working, Lifecycle,
           RunSynced
  <2> QED
    BY <2>3, <2>4, <2>5, <2>6, <2>7, <2>8 DEF Inv
<1>4. CASE RunSyncCancelled
  <2>1. NotifiedKeys' = NotifiedKeys
    BY <1>4 DEF RunSyncCancelled, NotifiedKeys
  <2>2. QueuedKeys' = QueuedKeys
    BY <1>4 DEF RunSyncCancelled, QueuedKeys
  <2>3. TypeOK'
    BY <1>4 DEF Inv, TypeOK, QueueTypeOK, DelayTypeOK, RunSyncCancelled
  <2>4. QueueConsistent' /\ ItemsProcessing' /\ Freshness' /\ BackoffInv'
    BY <1>4
       DEF Inv, QueueConsistent, QueuedKeys, ItemsProcessing, SingleFlight,
           Working, Freshness, BackoffInv, BackoffOnlyWhilePending,
           RunSyncCancelled
  <2>5. Lifecycle'
    BY <1>4 DEF Inv, Lifecycle, RunSyncCancelled
  <2>6. StaleReadOwed' /\ NoLostUpdate'
    BY <1>4, <2>1, <2>2
       DEF Inv, StaleReadOwed, Registered, NoLostUpdate, UpToDate, Owed,
           Working, RunSyncCancelled
  <2> QED
    BY <2>3, <2>4, <2>5, <2>6 DEF Inv
<1>5. CASE RunShutdown
  <2>1. NotifiedKeys' = NotifiedKeys
    BY <1>5 DEF RunShutdown, NotifiedKeys
  <2>2. QueuedKeys' = QueuedKeys
    BY <1>5 DEF RunShutdown, Shutdown, QueuedKeys
  <2>3. TypeOK'
    BY <1>5 DEF Inv, TypeOK, QueueTypeOK, DelayTypeOK, RunShutdown, Shutdown
  <2>4. QueueConsistent' /\ ItemsProcessing' /\ Freshness' /\ BackoffInv'
    BY <1>5
       DEF Inv, QueueConsistent, QueuedKeys, ItemsProcessing, SingleFlight,
           Working, Freshness, BackoffInv, BackoffOnlyWhilePending,
           RunShutdown, Shutdown
  <2>5. Lifecycle'
    BY <1>5 DEF Inv, Lifecycle, Working, RunShutdown, Shutdown
  <2>6. StaleReadOwed' /\ NoLostUpdate'
    BY <1>5 DEF StaleReadOwed, Registered, NoLostUpdate, RunShutdown, Shutdown
  <2> QED
    BY <2>3, <2>4, <2>5, <2>6 DEF Inv
<1>6. CASE RunDrain
  <2>1. NotifiedKeys' = NotifiedKeys
    BY <1>6 DEF RunDrain, NotifiedKeys
  <2>2. QueuedKeys' = QueuedKeys
    BY <1>6 DEF RunDrain, QueuedKeys
  <2>3. TypeOK'
    BY <1>6 DEF Inv, TypeOK, QueueTypeOK, DelayTypeOK, RunDrain
  <2>4. QueueConsistent' /\ ItemsProcessing' /\ Freshness' /\ BackoffInv'
    BY <1>6
       DEF Inv, QueueConsistent, QueuedKeys, ItemsProcessing, SingleFlight,
           Working, Freshness, BackoffInv, BackoffOnlyWhilePending, RunDrain
  <2>5. Lifecycle'
    BY <1>6 DEF Inv, Lifecycle, Working, RunDrain
  <2>6. StaleReadOwed' /\ NoLostUpdate'
    BY <1>6, <2>1, <2>2
       DEF Inv, StaleReadOwed, Registered, NoLostUpdate, UpToDate, Owed,
           Working, RunDrain
  <2> QED
    BY <2>3, <2>4, <2>5, <2>6 DEF Inv
<1>7. CASE RunDrainWait
  <2>1. NotifiedKeys' = NotifiedKeys
    BY <1>7 DEF RunDrainWait, NotifiedKeys
  <2>2. QueuedKeys' = QueuedKeys
    BY <1>7 DEF RunDrainWait, waitForProcessing, QueuedKeys
  <2>3. TypeOK'
    BY <1>7, ConstantsAssumption
       DEF Inv, TypeOK, QueueTypeOK, DelayTypeOK, RunDrainWait,
           waitForProcessing, Wait
  <2>4. QueueConsistent' /\ ItemsProcessing' /\ Freshness' /\ BackoffInv'
    BY <1>7
       DEF Inv, QueueConsistent, QueuedKeys, ItemsProcessing, SingleFlight,
           Working, Freshness, BackoffInv, BackoffOnlyWhilePending,
           RunDrainWait, waitForProcessing
  <2>5. Lifecycle'
    BY <1>7 DEF Inv, Lifecycle, Working, RunDrainWait, waitForProcessing
  <2>6. StaleReadOwed' /\ NoLostUpdate'
    BY <1>7, <2>1, <2>2
       DEF Inv, StaleReadOwed, Registered, NoLostUpdate, UpToDate, Owed,
           Working, RunDrainWait, waitForProcessing
  <2> QED
    BY <2>3, <2>4, <2>5, <2>6 DEF Inv
<1>8. CASE RunJoin
  <2>1. NotifiedKeys' = NotifiedKeys
    BY <1>8 DEF RunJoin, NotifiedKeys
  <2>2. QueuedKeys' = QueuedKeys
    BY <1>8 DEF RunJoin, QueuedKeys
  <2>3. TypeOK'
    BY <1>8 DEF Inv, TypeOK, QueueTypeOK, DelayTypeOK, RunJoin
  <2>4. QueueConsistent' /\ ItemsProcessing' /\ Freshness' /\ BackoffInv'
    BY <1>8
       DEF Inv, QueueConsistent, QueuedKeys, ItemsProcessing, SingleFlight,
           Working, Freshness, BackoffInv, BackoffOnlyWhilePending, RunJoin
  <2>5. Lifecycle'
    BY <1>8 DEF Inv, Lifecycle, Working, RunJoin
  <2>6. StaleReadOwed' /\ NoLostUpdate'
    BY <1>8, <2>1, <2>2
       DEF Inv, StaleReadOwed, Registered, NoLostUpdate, UpToDate, Owed,
           Working, RunJoin
  <2> QED
    BY <2>3, <2>4, <2>5, <2>6 DEF Inv
<1> QED
  BY <1>1, <1>2, <1>3, <1>4, <1>5, <1>6, <1>7, <1>8 DEF RunStep

\* A worker takes a step.
LEMMA WorkerStepLemma ==
  ASSUME Inv, NEW w \in Workers, WorkerStep(w)
  PROVE  Inv'
<1>1. CASE WorkerStart(w)
  <2>1. NotifiedKeys' = NotifiedKeys
    BY <1>1 DEF WorkerStart, NotifiedKeys
  <2>2. QueuedKeys' = QueuedKeys
    BY <1>1 DEF WorkerStart, QueuedKeys
  <2>3. TypeOK'
    BY <1>1 DEF Inv, TypeOK, QueueTypeOK, DelayTypeOK, WorkerStart
  <2>4. QueueConsistent' /\ Freshness' /\ BackoffInv'
    BY <1>1
       DEF Inv, QueueConsistent, QueuedKeys, Freshness, BackoffInv,
           BackoffOnlyWhilePending, WorkerStart
  <2>5. ItemsProcessing'
    BY <1>1 DEF Inv, ItemsProcessing, SingleFlight, Working, WorkerStart
  <2>6. Lifecycle'
    BY <1>1 DEF Inv, Lifecycle, Working, WorkerStart
  <2>7. StaleReadOwed' /\ NoLostUpdate'
    BY <1>1, <2>1, <2>2
       DEF Inv, StaleReadOwed, Registered, NoLostUpdate, UpToDate, Owed,
           Working, WorkerStart
  <2> QED
    BY <2>3, <2>4, <2>5, <2>6, <2>7 DEF Inv
<1>2. CASE WorkerGet(w)
  <2>1. NotifiedKeys' = NotifiedKeys
    BY <1>2 DEF WorkerGet, NotifiedKeys
  <2>2. /\ QueueTypeOK'
        /\ QueueConsistent'
        /\ Head(queue) \in Keys
        /\ Head(queue) \notin processing
        /\ processing' = processing \cup {Head(queue)}
        /\ dirty' = dirty \ {Head(queue)}
        /\ shuttingDown' = shuttingDown
    BY <1>2, GetItemLemma DEF WorkerGet, Inv, TypeOK
  <2>3. TypeOK'
    BY <1>2, <2>2 DEF Inv, TypeOK, DelayTypeOK, WorkerGet
  <2>4. QueueConsistent'
    BY <2>2
  <2>5. ItemsProcessing'
    BY <1>2, <2>2
       DEF Inv, ItemsProcessing, SingleFlight, Working, TypeOK, WorkerGet
  <2>6. Freshness'
    BY <1>2 DEF Inv, Freshness, WorkerGet
  <2>7. BackoffInv'
    BY <1>2, <2>2
       DEF Inv, BackoffInv, BackoffOnlyWhilePending, ItemsProcessing, Working,
           WorkerGet
  <2>8. Lifecycle'
    BY <1>2, <2>2 DEF Inv, Lifecycle, Working, WorkerGet
  <2>9. StaleReadOwed'
    BY <1>2, <2>1, <2>2
       DEF Inv, StaleReadOwed, Registered, ItemsProcessing, Working, WorkerGet
  <2>10. NoLostUpdate'
    BY <1>2, <2>1, <2>2
       DEF Inv, NoLostUpdate, Registered, UpToDate, Owed, Working, TypeOK,
           QueueConsistent, WorkerGet
  <2> QED
    BY <2>3, <2>4, <2>5, <2>6, <2>7, <2>8, <2>9, <2>10 DEF Inv
<1>3. CASE WorkerWait(w)
  <2>1. NotifiedKeys' = NotifiedKeys
    BY <1>3 DEF WorkerWait, NotifiedKeys
  <2>2. QueuedKeys' = QueuedKeys
    BY <1>3 DEF WorkerWait, GetWait, QueuedKeys
  <2>3. TypeOK'
    BY <1>3, ConstantsAssumption
       DEF Inv, TypeOK, QueueTypeOK, DelayTypeOK, WorkerWait, GetWait, Wait
  <2>4. QueueConsistent' /\ ItemsProcessing' /\ Freshness' /\ BackoffInv'
    BY <1>3
       DEF Inv, QueueConsistent, QueuedKeys, ItemsProcessing, SingleFlight,
           Working, Freshness, BackoffInv, BackoffOnlyWhilePending, WorkerWait,
           GetWait
  <2>5. Lifecycle'
    BY <1>3 DEF Inv, Lifecycle, WorkerWait, GetWait
  <2>6. StaleReadOwed' /\ NoLostUpdate'
    BY <1>3, <2>1, <2>2
       DEF Inv, StaleReadOwed, Registered, NoLostUpdate, UpToDate, Owed,
           Working, WorkerWait, GetWait
  <2> QED
    BY <2>3, <2>4, <2>5, <2>6 DEF Inv
<1>4. CASE WorkerExit(w)
  <2>1. NotifiedKeys' = NotifiedKeys
    BY <1>4 DEF WorkerExit, NotifiedKeys
  <2>2. QueuedKeys' = QueuedKeys
    BY <1>4 DEF WorkerExit, GetShutdown, QueuedKeys
  <2>3. TypeOK'
    BY <1>4 DEF Inv, TypeOK, QueueTypeOK, DelayTypeOK, WorkerExit, GetShutdown
  <2>4. QueueConsistent' /\ Freshness' /\ BackoffInv'
    BY <1>4
       DEF Inv, QueueConsistent, QueuedKeys, Freshness, BackoffInv,
           BackoffOnlyWhilePending, WorkerExit, GetShutdown
  <2>5. ItemsProcessing'
    BY <1>4
       DEF Inv, ItemsProcessing, SingleFlight, Working, WorkerExit, GetShutdown
  <2>6. Lifecycle'
    BY <1>4 DEF Inv, Lifecycle, WorkerExit, GetShutdown
  <2>7. StaleReadOwed' /\ NoLostUpdate'
    BY <1>4
       DEF Inv, StaleReadOwed, Registered, NoLostUpdate, WorkerExit,
           GetShutdown
  <2> QED
    BY <2>3, <2>4, <2>5, <2>6, <2>7 DEF Inv
<1>5. CASE WorkerRead(w)
  <2>1. NotifiedKeys' = NotifiedKeys
    BY <1>5 DEF WorkerRead, NotifiedKeys
  <2>2. QueuedKeys' = QueuedKeys
    BY <1>5 DEF WorkerRead, QueuedKeys
  <2>3. item[w] \in Keys /\ item[w] \in processing
    BY <1>5, WorkingItem DEF WorkerRead, Working
  <2>4. TypeOK'
    BY <1>5, <2>3 DEF Inv, TypeOK, QueueTypeOK, DelayTypeOK, WorkerRead
  <2>5. QueueConsistent' /\ BackoffInv' /\ Lifecycle'
    BY <1>5
       DEF Inv, QueueConsistent, QueuedKeys, BackoffInv,
           BackoffOnlyWhilePending, Lifecycle, Working, WorkerRead
  <2>6. ItemsProcessing'
    BY <1>5 DEF Inv, ItemsProcessing, SingleFlight, Working, WorkerRead
  <2>7. Freshness'
    BY <1>5, <2>3 DEF Inv, Freshness, TypeOK, Object, WorkerRead
  <2>8. StaleReadOwed'
    BY <1>5, <2>1 DEF Inv, StaleReadOwed, Registered, TypeOK, WorkerRead
  <2>9. NoLostUpdate'
    BY <1>5, <2>1, <2>2
       DEF Inv, NoLostUpdate, Registered, UpToDate, Owed, Working, TypeOK,
           WorkerRead
  <2> QED
    BY <2>4, <2>5, <2>6, <2>7, <2>8, <2>9 DEF Inv
<1>6. CASE WorkerReconciled(w)
  <2>1. NotifiedKeys' = NotifiedKeys
    BY <1>6 DEF WorkerReconciled, NotifiedKeys
  <2>2. QueuedKeys' = QueuedKeys
    BY <1>6 DEF WorkerReconciled, QueuedKeys
  <2>3. item[w] \in Keys /\ item[w] \in processing
    BY <1>6, WorkingItem DEF WorkerReconciled, Forget, Working
  <2>4. TypeOK'
    BY <1>6 DEF Inv, TypeOK, QueueTypeOK, DelayTypeOK, WorkerReconciled, Forget
  <2>5. QueueConsistent' /\ Lifecycle'
    BY <1>6
       DEF Inv, QueueConsistent, QueuedKeys, Lifecycle, Working,
           WorkerReconciled
  <2>6. ItemsProcessing'
    BY <1>6 DEF Inv, ItemsProcessing, SingleFlight, Working, WorkerReconciled
  <2>7. Freshness'
    BY <1>6
       DEF Inv, Freshness, TypeOK, ItemsProcessing, SingleFlight, Working,
           WorkerReconciled
  <2>8. BackoffInv'
    BY <1>6
       DEF Inv, BackoffInv, BackoffOnlyWhilePending, WorkerReconciled, Forget
  <2>9. StaleReadOwed'
    BY <1>6, <2>1
       DEF Inv, StaleReadOwed, Registered, Lifecycle, WorkerReconciled, Forget
  <2>10. NoLostUpdate'
    BY <1>6, <2>1, <2>2
       DEF Inv, NoLostUpdate, Registered, UpToDate, Owed, Working, TypeOK,
           StaleReadOwed, WorkerReconciled, Forget
  <2> QED
    BY <2>4, <2>5, <2>6, <2>7, <2>8, <2>9, <2>10 DEF Inv
<1>7. CASE WorkerFailed(w)
  <2>1. NotifiedKeys' = NotifiedKeys
    BY <1>7 DEF WorkerFailed, NotifiedKeys
  <2>2. QueuedKeys' = QueuedKeys
    BY <1>7 DEF WorkerFailed, QueuedKeys
  <2>3. item[w] \in Keys /\ item[w] \in processing
    BY <1>7, WorkingItem DEF WorkerFailed, AddRateLimited, Working
  <2>4. TypeOK'
    BY <1>7, <2>3
       DEF Inv, TypeOK, QueueTypeOK, DelayTypeOK, WorkerFailed, AddRateLimited
  <2>5. QueueConsistent' /\ Freshness' /\ Lifecycle'
    BY <1>7
       DEF Inv, QueueConsistent, QueuedKeys, Freshness, Lifecycle, Working,
           WorkerFailed
  <2>6. ItemsProcessing'
    BY <1>7 DEF Inv, ItemsProcessing, SingleFlight, Working, WorkerFailed
  <2>7. BackoffInv'
    BY <1>7
       DEF Inv, BackoffInv, BackoffOnlyWhilePending, WorkerFailed,
           AddRateLimited
  <2>8. StaleReadOwed'
    BY <1>7, <2>1
       DEF Inv, StaleReadOwed, Registered, WorkerFailed, AddRateLimited
  <2>9. NoLostUpdate'
    BY <1>7, <2>1, <2>2
       DEF Inv, NoLostUpdate, Registered, UpToDate, Owed, Working,
           WorkerFailed, AddRateLimited
  <2> QED
    BY <2>4, <2>5, <2>6, <2>7, <2>8, <2>9 DEF Inv
<1>8. CASE WorkerDone(w)
  <2>1. NotifiedKeys' = NotifiedKeys
    BY <1>8 DEF WorkerDone, NotifiedKeys
  <2>2. item[w] \in Keys /\ item[w] \in processing
    BY <1>8, WorkingItem DEF WorkerDone, Working
  <2>3. /\ QueueTypeOK'
        /\ QueueConsistent'
        /\ processing' = processing \ {item[w]}
        /\ dirty' = dirty
        /\ shuttingDown' = shuttingDown
    BY <1>8, <2>2, DoneLemma DEF WorkerDone, Inv, TypeOK
  <2>4. TypeOK'
    BY <1>8, <2>3, ConstantsAssumption
       DEF Inv, TypeOK, DelayTypeOK, Object, NoObject, WorkerDone
  <2>5. QueueConsistent'
    BY <2>3
  <2>6. ItemsProcessing'
    BY <1>8, <2>3
       DEF Inv, ItemsProcessing, SingleFlight, Working, TypeOK, WorkerDone
  <2>7. Freshness'
    BY <1>8 DEF Inv, Freshness, WorkerDone
  <2>8. BackoffInv'
    BY <1>8, <2>3
       DEF Inv, BackoffInv, BackoffOnlyWhilePending, TypeOK, WorkerDone
  <2>9. Lifecycle'
    BY <1>8, <2>3 DEF Inv, Lifecycle, TypeOK, WorkerDone
  <2>10. StaleReadOwed'
    BY <1>8, <2>1, <2>3 DEF Inv, StaleReadOwed, Registered, WorkerDone
  <2>11. NoLostUpdate'
    BY <1>8, <2>1, <2>3
       DEF Inv, NoLostUpdate, Registered, UpToDate, Owed, Working,
           QueueConsistent, WorkerDone
  <2> QED
    BY <2>4, <2>5, <2>6, <2>7, <2>8, <2>9, <2>10, <2>11 DEF Inv
<1> QED
  BY <1>1, <1>2, <1>3, <1>4, <1>5, <1>6, <1>7, <1>8 DEF WorkerStep

\* The initial states satisfy the invariant.
LEMMA InitInv == Init => Inv
<1> SUFFICES ASSUME Init
             PROVE  Inv
  OBVIOUS
<1>1. TypeOK
  <2>1. NoObject \in Object
    BY ConstantsAssumption DEF Object, NoObject
  <2>2. << >> \in Seq(Keys) /\ << >> \in Seq(Notification)
    OBVIOUS
  <2> QED
    BY <2>1, <2>2 DEF Init, WorkqueueInit, TypeOK, QueueTypeOK, DelayTypeOK
<1>2. QueueConsistent
  BY DEF Init, WorkqueueInit, QueueConsistent, QueuedKeys
<1>3. ItemsProcessing /\ BackoffInv /\ Lifecycle
  BY DEF Init, WorkqueueInit, ItemsProcessing, SingleFlight, Working,
         BackoffInv, BackoffOnlyWhilePending, Lifecycle
<1>4. Freshness
  BY DEF Init, Freshness, NoObject
<1>5. StaleReadOwed /\ NoLostUpdate
  BY DEF Init, StaleReadOwed, NoLostUpdate, Registered
<1> QED
  BY <1>1, <1>2, <1>3, <1>4, <1>5 DEF Inv

\* Every step preserves the invariant.
LEMMA NextInv == Inv /\ [Next]_vars => Inv'
<1> SUFFICES ASSUME Inv, [Next]_vars
             PROVE  Inv'
  OBVIOUS
<1>1. CASE \E k \in Keys : CacheChange(k) \/ WaitingLoop(k)
  BY <1>1, CacheStep, QueueStep
<1>2. CASE HandleNotification
  <2>1. Head(notifications).key \in Keys
    BY <1>2, HandleLemma, NotificationKey DEF HandleNotification, Inv, TypeOK
  <2> QED
    BY <1>2, <2>1, QueueStep
<1>3. CASE InformerSyncs \/ Cancel \/ Terminated \/ UNCHANGED vars
  BY <1>3, OtherStep DEF Terminated
<1>4. CASE RunStep
  BY <1>4, RunStepLemma
<1>5. CASE \E w \in Workers : WorkerStep(w)
  BY <1>5, WorkerStepLemma
<1> QED
  BY <1>1, <1>2, <1>3, <1>4, <1>5 DEF Next

\* The invariant holds in every reachable state of the controller.
THEOREM Invariance == Spec => []Inv
<1>1. Inv /\ [Next]_vars => Inv'
  BY NextInv
<1> QED
  BY InitInv, <1>1, PTL DEF Spec

\* The variables keep their types, for every instance of the controller.
THEOREM TypeCorrect == Spec => []TypeOK
BY Invariance, PTL DEF Inv

\* The work queue never holds an item twice, never one that is being processed,
\* and never loses a dirty one.
THEOREM QueueStaysConsistent == Spec => []QueueConsistent
BY Invariance, PTL DEF Inv

\* With any number of workers, no key is reconciled twice at the same time.
THEOREM OneWorkerPerKey == Spec => []SingleFlight
<1>1. Inv => SingleFlight
  BY DEF Inv, ItemsProcessing
<1> QED
  BY Invariance, <1>1, PTL

\* With any number of workers, keys and changes, no update of the cache is lost
\* before the queue shuts down.
THEOREM UpdatesAreNotLost == Spec => []NoLostUpdate
BY Invariance, PTL DEF Inv

\* A back-off is kept only for a key that is still to be worked on.
THEOREM BackoffsArePending == Spec => []BackoffOnlyWhilePending
<1>1. Inv => BackoffOnlyWhilePending
  BY DEF Inv, BackoffInv
<1> QED
  BY Invariance, <1>1, PTL

\* If any worker got to run, nothing is left on the queue when Run returns.
THEOREM QueueDrained == Spec => []DrainedOnReturn
<1>1. Inv => DrainedOnReturn
  <2> SUFFICES ASSUME Inv, runPc = "returned",
                      \E w \in Workers : pc[w] = "exited"
               PROVE  queue = << >> /\ dirty = {} /\ processing = {}
    BY DEF DrainedOnReturn
  <2>1. \A w \in Workers : pc[w] # "get" /\ ~Working(w)
    BY DEF Inv, Lifecycle, Working
  <2>2. queue = << >>
    BY <2>1 DEF Inv, Lifecycle
  <2>3. processing = {}
    BY <2>1 DEF Inv, ItemsProcessing
  <2>4. dirty = {}
    BY <2>2, <2>3 DEF Inv, QueueConsistent, QueuedKeys
  <2> QED
    BY <2>2, <2>3, <2>4
<1> QED
  BY Invariance, <1>1, PTL

\* No step takes the reconciler back to an older object.
THEOREM ReconcilerMovesForward == Spec => KnownNeverGoesBack
<1>1. Inv /\ [Next]_vars => [\A k \in Keys : known[k].rev <= known'[k].rev]_vars
  <2> SUFFICES ASSUME Inv, Next, NEW k \in Keys
               PROVE  known[k].rev <= known'[k].rev
    OBVIOUS
  <2>1. known[k].rev \in Nat
    BY DEF Inv, TypeOK, Object
  <2>2. CASE \E w \in Workers : WorkerReconciled(w)
    <3>1. PICK w \in Workers : WorkerReconciled(w)
      BY <2>2
    <3>2. item[w] \in Keys
      BY <3>1, WorkingItem DEF WorkerReconciled, Working
    <3> QED
      BY <2>1, <3>1, <3>2 DEF Inv, Freshness, TypeOK, WorkerReconciled
  <2>3. CASE ~ \E w \in Workers : WorkerReconciled(w)
    <3>1. known' = known
      BY <2>3 DEF Next, CacheChange, CacheAdd, CacheUpdate, CacheResync,
                  CacheDelete, WaitingLoop, InformerSyncs, HandleNotification,
                  Cancel, Terminated, vars, RunStep, RunRegister, RunSync,
                  RunSynced, RunSyncCancelled, RunShutdown, RunDrain,
                  RunDrainWait, RunJoin, WorkerStep, WorkerStart, WorkerGet,
                  WorkerWait, WorkerExit, WorkerRead, WorkerFailed, WorkerDone
    <3> QED
      BY <2>1, <3>1
  <2> QED
    BY <2>2, <2>3
<1> QED
  BY Invariance, <1>1, PTL DEF Spec, KnownNeverGoesBack

-----------------------------------------------------------------------------
(* Wake-ups.                                                                 *)

Awake == {w \in Workers : pc[w] = "get"} \ waiters

\* More workers that are awake, or no fewer.
LEMMA AwakeGrows ==
  ASSUME NEW S \in SUBSET Workers, NEW T \in SUBSET Workers, S \subseteq T
  PROVE  /\ Cardinality(S) \in Nat
         /\ Cardinality(T) \in Nat
         /\ Cardinality(S) <= Cardinality(T)
         /\ \A t \in T \ S : Cardinality(S) + 1 <= Cardinality(T)
<1>1. IsFiniteSet(S) /\ IsFiniteSet(T)
  BY ConstantsAssumption, FS_Subset
<1>2. /\ Cardinality(S) \in Nat
      /\ Cardinality(T) \in Nat
      /\ Cardinality(S) <= Cardinality(T)
  BY <1>1, FS_CardinalityType, FS_Subset
<1>3. ASSUME NEW t \in T \ S
      PROVE  Cardinality(S) + 1 <= Cardinality(T)
  <2>1. Cardinality(S \cup {t}) = Cardinality(S) + 1 /\ IsFiniteSet(S \cup {t})
    BY <1>1, FS_AddElement
  <2>2. S \cup {t} \subseteq T
    OBVIOUS
  <2> QED
    BY <1>1, <2>1, <2>2, FS_Subset
<1> QED
  BY <1>2, <1>3

\* The queue gets no longer and no worker leaves Get or goes to sleep.
LEMMA WakeKept ==
  ASSUME Inv, WakeInv,
         UNCHANGED <<queue, waiters, shuttingDown>>,
         runPc' \in {"drain", "drainWait"} => shuttingDown,
         \A w \in Workers : pc[w] = "get" => pc'[w] = "get"
  PROVE  WakeInv'
<1>1. Sleepers'
  BY DEF WakeInv, Sleepers
<1>2. Awake \subseteq Awake' /\ Awake \in SUBSET Workers /\ Awake' \in SUBSET Workers
  BY DEF Awake
<1>3. /\ Cardinality(Awake) \in Nat
      /\ Cardinality(Awake') \in Nat
      /\ Cardinality(Awake) <= Cardinality(Awake')
  BY <1>2, AwakeGrows
<1>4. Len(queue) \in Nat
  BY DEF Inv, TypeOK, QueueTypeOK
<1>5. waiters \cap Workers # {} => Len(queue) <= Cardinality(Awake)
  BY DEF WakeInv, NoLostWakeup, Awake
<1>6. waiters' \cap Workers # {} => Len(queue') <= Cardinality(Awake')
  BY <1>3, <1>4, <1>5
<1> QED
  BY <1>1, <1>6 DEF WakeInv, NoLostWakeup, Awake

\* Once the queue is shut down no worker sleeps any more.
LEMMA WakeShutDown ==
  ASSUME WakeInv, shuttingDown, shuttingDown',
         waiters' \subseteq waiters \cup {Runner}
  PROVE  WakeInv'
<1>1. waiters' \cap Workers = {}
  BY ConstantsAssumption DEF WakeInv, Sleepers
<1> QED
  BY <1>1 DEF WakeInv, Sleepers, NoLostWakeup

\* An item more, or none, and a Signal: it wakes a worker if one sleeps.
LEMMA WakeSignal ==
  ASSUME Inv, WakeInv, ~shuttingDown, Signal,
         UNCHANGED <<shuttingDown, runPc>>,
         Len(queue') \in Nat, Len(queue') <= Len(queue) + 1,
         \A w \in Workers : pc[w] = "get" => pc'[w] = "get"
  PROVE  WakeInv'
<1>1. waiters \subseteq Workers /\ \A w \in waiters : pc[w] = "get"
  BY ConstantsAssumption DEF Inv, TypeOK, QueueTypeOK, WakeInv, Sleepers
<1>2. CASE waiters = {}
  <2>1. waiters' = {}
    BY <1>2 DEF Signal
  <2> QED
    BY <2>1 DEF WakeInv, Sleepers, NoLostWakeup
<1>3. CASE waiters # {}
  <2>1. PICK t \in waiters : waiters' = waiters \ {t}
    BY <1>3 DEF Signal
  <2>2. Sleepers'
    BY <1>1, <2>1 DEF WakeInv, Sleepers
  <2>3. /\ Awake \subseteq Awake' /\ Awake \in SUBSET Workers
        /\ Awake' \in SUBSET Workers /\ t \in Awake' \ Awake
    BY <1>1, <2>1 DEF Awake
  <2>4. /\ Cardinality(Awake) \in Nat
        /\ Cardinality(Awake') \in Nat
        /\ Cardinality(Awake) + 1 <= Cardinality(Awake')
    BY <2>3, AwakeGrows
  <2>5. Len(queue) \in Nat
    BY DEF Inv, TypeOK, QueueTypeOK
  <2>6. Len(queue) <= Cardinality(Awake)
    BY <1>1, <1>3 DEF WakeInv, NoLostWakeup, Awake
  <2>7. Len(queue') <= Cardinality(Awake')
    BY <2>4, <2>5, <2>6
  <2> QED
    BY <2>2, <2>7 DEF WakeInv, NoLostWakeup, Awake
<1> QED
  BY <1>2, <1>3

\* Type.Add.
LEMMA WakeAdd ==
  ASSUME Inv, WakeInv, NEW k \in Keys, Add(k), UNCHANGED <<runPc, pc>>
  PROVE  WakeInv'
<1>1. CASE UNCHANGED <<queue, dirty, processing, shuttingDown, waiters>>
  <2>1. runPc' \in {"drain", "drainWait"} => shuttingDown
    BY DEF WakeInv, Sleepers
  <2> QED
    BY <1>1, <2>1, WakeKept
<1>2. CASE ~shuttingDown /\ UNCHANGED <<queue, waiters, shuttingDown>>
  <2>1. runPc' \in {"drain", "drainWait"} => shuttingDown
    BY DEF WakeInv, Sleepers
  <2> QED
    BY <1>2, <2>1, WakeKept
<1>3. CASE /\ ~shuttingDown /\ queue' = Append(queue, k) /\ Signal
           /\ shuttingDown' = shuttingDown
  <2>1. Len(queue') \in Nat /\ Len(queue') <= Len(queue) + 1
    BY <1>3 DEF Inv, TypeOK, QueueTypeOK
  <2> QED
    BY <1>3, <2>1, WakeSignal
<1> QED
  BY <1>1, <1>2, <1>3 DEF Add

\* The initial states.
LEMMA WakeInit == Init => WakeInv
BY DEF Init, WorkqueueInit, WakeInv, Sleepers, NoLostWakeup

\* No step of a worker loses a wake-up.
LEMMA WakeWorker ==
  ASSUME Inv, WakeInv, NEW w \in Workers, WorkerStep(w)
  PROVE  WakeInv'
<1>1. pc \in [Workers -> {"idle", "start", "get", "read", "reconcile", "done",
                          "exited", "skipped"}]
      /\ queue \in Seq(Keys) /\ Len(queue) \in Nat /\ waiters \in SUBSET Threads
  BY DEF Inv, TypeOK, QueueTypeOK
<1>2. CASE \/ WorkerStart(w) \/ WorkerRead(w) \/ WorkerReconciled(w)
           \/ WorkerFailed(w)
  <2>1. /\ UNCHANGED <<queue, waiters, shuttingDown, runPc>>
        /\ \A x \in Workers : pc[x] = "get" => pc'[x] = "get"
    BY <1>1, <1>2 DEF WorkerStart, WorkerRead, WorkerReconciled, WorkerFailed
  <2>2. runPc' \in {"drain", "drainWait"} => shuttingDown
    BY <2>1 DEF WakeInv, Sleepers
  <2> QED
    BY <2>1, <2>2, WakeKept
<1>3. CASE WorkerGet(w)
  <2>1. /\ pc[w] = "get" /\ w \notin waiters /\ queue # << >>
        /\ queue' = Tail(queue) /\ UNCHANGED <<shuttingDown, waiters, runPc>>
        /\ pc' = [pc EXCEPT ![w] = "read"]
    BY <1>3 DEF WorkerGet, GetItem
  <2>2. Sleepers'
    BY <1>1, <2>1 DEF WakeInv, Sleepers
  <2>3. /\ Awake' = Awake \ {w} /\ w \in Awake /\ IsFiniteSet(Awake)
    <3>1. Awake' = Awake \ {w} /\ w \in Awake /\ Awake \subseteq Workers
      BY <1>1, <2>1 DEF Awake
    <3> QED
      BY <3>1, ConstantsAssumption, FS_Subset
  <2>4. /\ Cardinality(Awake') = Cardinality(Awake) - 1
        /\ Cardinality(Awake) \in Nat
    BY <2>3, FS_RemoveElement, FS_CardinalityType
  <2>5. Len(queue') = Len(queue) - 1
    BY <1>1, <2>1
  <2>6. waiters \cap Workers # {} => Len(queue) <= Cardinality(Awake)
    BY DEF WakeInv, NoLostWakeup, Awake
  <2>7. waiters' \cap Workers # {} => Len(queue') <= Cardinality(Awake')
    BY <1>1, <2>1, <2>4, <2>5, <2>6
  <2> QED
    BY <2>2, <2>7 DEF WakeInv, NoLostWakeup, Awake
<1>4. CASE WorkerWait(w)
  <2>1. /\ pc[w] = "get" /\ queue = << >> /\ ~shuttingDown
        /\ waiters' = waiters \cup {w}
        /\ UNCHANGED <<queue, shuttingDown, pc, runPc>>
    BY <1>4 DEF WorkerWait, GetWait, Wait
  <2>2. Sleepers'
    BY <2>1, ConstantsAssumption DEF WakeInv, Sleepers
  <2>3. Len(queue') = 0 /\ Cardinality(Awake') \in Nat
    <3>1. Awake' \subseteq Workers
      BY DEF Awake
    <3> QED
      BY <2>1, <3>1, ConstantsAssumption, FS_Subset, FS_CardinalityType
  <2>4. Len(queue') <= Cardinality(Awake')
    BY <2>3
  <2> QED
    BY <2>2, <2>4 DEF WakeInv, NoLostWakeup, Awake
<1>5. CASE WorkerExit(w)
  <2>1. shuttingDown /\ UNCHANGED <<shuttingDown, waiters>>
    BY <1>5 DEF WorkerExit, GetShutdown
  <2> QED
    BY <2>1, WakeShutDown
<1>6. CASE WorkerDone(w)
  <2>1. /\ UNCHANGED <<shuttingDown, runPc>>
        /\ \A x \in Workers : pc[x] = "get" => pc'[x] = "get"
        /\ \/ queue' = Append(queue, item[w]) /\ Signal
           \/ queue' = queue /\ Signal
           \/ UNCHANGED <<queue, waiters>>
    BY <1>1, <1>6 DEF WorkerDone, Done
  <2>2. waiters' \subseteq waiters
    BY <2>1 DEF Signal
  <2>3. CASE shuttingDown
    BY <2>1, <2>2, <2>3, WakeShutDown
  <2>4. CASE ~shuttingDown /\ UNCHANGED <<queue, waiters>>
    <3>1. runPc' \in {"drain", "drainWait"} => shuttingDown
      BY <2>1 DEF WakeInv, Sleepers
    <3> QED
      BY <2>1, <2>4, <3>1, WakeKept
  <2>5. CASE ~shuttingDown /\ ~UNCHANGED <<queue, waiters>>
    <3>1. item[w] \in Keys
      BY <1>6, WorkingItem DEF WorkerDone, Working
    <3>2. Len(queue') \in Nat /\ Len(queue') <= Len(queue) + 1 /\ Signal
      BY <1>1, <2>1, <2>5, <3>1
    <3> QED
      BY <2>1, <2>5, <3>2, WakeSignal
  <2> QED
    BY <2>3, <2>4, <2>5
<1> QED
  BY <1>2, <1>3, <1>4, <1>5, <1>6 DEF WorkerStep

\* No step of Run loses one.
LEMMA WakeRun ==
  ASSUME Inv, WakeInv, RunStep
  PROVE  WakeInv'
<1>1. CASE \/ RunRegister \/ RunSync \/ RunSynced \/ RunSyncCancelled
           \/ RunDrain \/ RunJoin
  <2>1. /\ UNCHANGED <<queue, waiters, shuttingDown>>
        /\ runPc' \in {"drain", "drainWait"} => runPc = "drain"
        /\ pc' = pc \/ runPc \in {"sync", "poll"}
    BY <1>1 DEF RunRegister, RunSync, RunSynced, RunSyncCancelled, RunDrain,
                RunJoin, SpawnWorkers
  <2>2. \A w \in Workers : pc[w] = "get" => pc'[w] = "get"
    BY <2>1 DEF Inv, Lifecycle
  <2>3. runPc' \in {"drain", "drainWait"} => shuttingDown
    BY <2>1 DEF WakeInv, Sleepers
  <2> QED
    BY <2>1, <2>2, <2>3, WakeKept
<1>2. CASE RunShutdown
  BY <1>2 DEF RunShutdown, Shutdown, WakeInv, Sleepers, NoLostWakeup
<1>3. CASE RunDrainWait
  <2>1. shuttingDown
    BY <1>3 DEF RunDrainWait, WakeInv, Sleepers
  <2>2. shuttingDown' = shuttingDown /\ waiters' \subseteq waiters \cup {Runner}
    BY <1>3 DEF RunDrainWait, waitForProcessing, Wait
  <2> QED
    BY <2>1, <2>2, WakeShutDown
<1> QED
  BY <1>1, <1>2, <1>3 DEF RunStep

\* NoLostWakeup: with any number of workers and items, no worker sleeps in Get
\* while there are more items than workers awake to take them, although idle
\* workers and a draining Run share one cond (queue.go:163-303).
THEOREM WakeupsAreNotLost == Spec => []NoLostWakeup
<1>1. Inv /\ WakeInv /\ [Next]_vars => WakeInv'
  <2> SUFFICES ASSUME Inv, WakeInv, [Next]_vars
               PROVE  WakeInv'
    OBVIOUS
  <2>1. CASE \E k \in Keys : WaitingLoop(k)
    BY <2>1, WakeAdd DEF WaitingLoop, DelayExpires
  <2>2. CASE HandleNotification
    <3>1. Head(notifications).key \in Keys
      BY <2>2, HandleLemma, NotificationKey DEF HandleNotification, Inv, TypeOK
    <3>2. UNCHANGED <<runPc, pc>>
      BY <2>2 DEF HandleNotification
    <3>3. CASE Add(Head(notifications).key)
      BY <3>1, <3>2, <3>3, WakeAdd
    <3>4. CASE UNCHANGED <<queue, waiters, shuttingDown>>
      <4>1. runPc' \in {"drain", "drainWait"} => shuttingDown
        BY <3>2 DEF WakeInv, Sleepers
      <4> QED
        BY <3>2, <3>4, <4>1, WakeKept
    <3> QED
      BY <2>2, <3>3, <3>4 DEF HandleNotification, enqueue
  <2>3. CASE \/ \E k \in Keys : CacheChange(k)
             \/ InformerSyncs \/ Cancel \/ Terminated \/ UNCHANGED vars
    <3>1. UNCHANGED <<queue, waiters, shuttingDown, runPc, pc>>
      BY <2>3 DEF CacheChange, CacheAdd, CacheUpdate, CacheResync, CacheDelete,
                  InformerSyncs, Cancel, Terminated, vars
    <3>2. runPc' \in {"drain", "drainWait"} => shuttingDown
      BY <3>1 DEF WakeInv, Sleepers
    <3> QED
      BY <3>1, <3>2, WakeKept
  <2>4. CASE RunStep
    BY <2>4, WakeRun
  <2>5. CASE \E w \in Workers : WorkerStep(w)
    BY <2>5, WakeWorker
  <2> QED
    BY <2>1, <2>2, <2>3, <2>4, <2>5 DEF Next
<1>2. WakeInv => NoLostWakeup
  BY DEF WakeInv
<1> QED
  BY Invariance, WakeInit, <1>1, <1>2, PTL DEF Spec

-----------------------------------------------------------------------------
(* Refinement of KeyedReconciler.                                            *)

\* The call for a key is the one of the only worker that has read its object.
LEMMA CallIs ==
  ASSUME SingleFlight, NEW w \in Workers, pc[w] = "reconcile"
  PROVE  CallOf(item[w]) = newObj[w]
<1> DEFINE P(x) == pc[x] = "reconcile" /\ item[x] = item[w]
           c == CHOOSE x \in Workers : P(x)
<1>1. c \in Workers /\ P(c)
  <2>1. \E x \in Workers : P(x)
    OBVIOUS
  <2> HIDE DEF P
  <2> QED
    BY <2>1
<1>2. CallOf(item[w]) = newObj[c]
  BY DEF CallOf
<1>3. c = w
  <2> HIDE DEF c
  <2> QED
    BY <1>1 DEF SingleFlight, Working
<1> QED
  BY <1>2, <1>3

\* The same after a step.
LEMMA CallIsNext ==
  ASSUME SingleFlight', NEW w \in Workers, pc'[w] = "reconcile", NEW k, item'[w] = k
  PROVE  CallOf(k)' = newObj'[w]
<1> DEFINE P(x) == pc'[x] = "reconcile" /\ item'[x] = k
           c == CHOOSE x \in Workers : P(x)
<1>1. c \in Workers /\ P(c)
  <2>1. \E x \in Workers : P(x)
    OBVIOUS
  <2> HIDE DEF P
  <2> QED
    BY <2>1
<1>2. CallOf(k)' = newObj'[c]
  BY DEF CallOf
<1>3. c = w
  <2> HIDE DEF c
  <2> QED
    BY <1>1 DEF SingleFlight, Working
<1> QED
  BY <1>2, <1>3

\* No worker has read an object of k.
NoReader(k) == ~ \E w \in Workers : pc[w] = "reconcile" /\ item[w] = k

\* Without a reader there is no call.
LEMMA NoCallIs ==
  ASSUME NEW k, NoReader(k)
  PROVE  CallOf(k) = NoKey
BY DEF CallOf, NoReader

\* The same after a step.
LEMMA NoCallIsNext ==
  ASSUME NEW k, NoReader(k)'
  PROVE  CallOf(k)' = NoKey
BY DEF CallOf, NoReader

\* A call that goes on stays what it is.
LEMMA CallKept ==
  ASSUME SingleFlight, SingleFlight', NEW k,
         \A w \in Workers : pc[w] = "reconcile" /\ item[w] = k <=>
                            pc'[w] = "reconcile" /\ item'[w] = k,
         \A w \in Workers : pc[w] = "reconcile" /\ item[w] = k =>
                            newObj'[w] = newObj[w]
  PROVE  CallOf(k)' = CallOf(k)
<1>1. CASE NoReader(k)
  <2>1. NoReader(k)'
    BY <1>1 DEF NoReader
  <2> QED
    BY <1>1, <2>1, NoCallIs, NoCallIsNext
<1>2. CASE ~NoReader(k)
  <2>1. PICK w \in Workers : pc[w] = "reconcile" /\ item[w] = k
    BY <1>2 DEF NoReader
  <2>2. CallOf(k) = newObj[w]
    BY <2>1, CallIs
  <2>3. CallOf(k)' = newObj'[w]
    BY <2>1, CallIsNext
  <2> QED
    BY <2>1, <2>2, <2>3
<1> QED
  BY <1>1, <1>2

\* A call that is under way carries an object.
LEMMA CallIsObject ==
  ASSUME Inv, NEW w \in Workers, pc[w] = "reconcile"
  PROVE  CallOf(item[w]) = newObj[w] /\ newObj[w] # NoKey /\ item[w] \in Keys
<1>1. CallOf(item[w]) = newObj[w]
  BY CallIs DEF Inv, ItemsProcessing
<1>2. newObj[w] \in Object
  BY DEF Inv, TypeOK
<1>3. item[w] \in Keys
  BY WorkingItem DEF Working
<1> QED
  BY <1>1, <1>2, <1>3, NoKeyAssumption

calls == [k \in Keys |-> CallOf(k)]

\* The call of one key begins or ends, and every other one goes on.
LEMMA OneCallChanges ==
  ASSUME Inv, Inv', NEW w \in Workers,
         WorkerRead(w) \/ WorkerReconciled(w) \/ WorkerFailed(w)
  PROVE  /\ item[w] \in Keys
         /\ calls' = [calls EXCEPT ![item[w]] = CallOf(item[w])']
<1>1. item[w] \in Keys
  BY WorkingItem DEF WorkerRead, WorkerReconciled, WorkerFailed, Working
<1>2. /\ item' = item
      /\ \A x \in Workers \ {w} : pc'[x] = pc[x] /\ newObj'[x] = newObj[x]
  BY DEF Inv, TypeOK, WorkerRead, WorkerReconciled, WorkerFailed
<1>3. SingleFlight /\ SingleFlight'
  BY DEF Inv, ItemsProcessing
<1>4. ASSUME NEW k \in Keys, k # item[w]
      PROVE  CallOf(k)' = CallOf(k)
  <2>1. \A x \in Workers : item[x] = k => x # w
    BY <1>4
  <2>2. \A x \in Workers : pc[x] = "reconcile" /\ item[x] = k <=>
                           pc'[x] = "reconcile" /\ item'[x] = k
    BY <1>2, <2>1
  <2>3. \A x \in Workers : pc[x] = "reconcile" /\ item[x] = k =>
                           newObj'[x] = newObj[x]
    BY <1>2, <2>1
  <2> QED
    BY <1>3, <2>2, <2>3, CallKept
<1>5. item[w]' = item[w]
  BY <1>2
<1>6. calls' = [k \in Keys |-> CallOf(k)']
  BY DEF calls
<1>7. calls = [k \in Keys |-> CallOf(k)]
  BY DEF calls
<1> QED
  BY <1>1, <1>4, <1>5, <1>6, <1>7

\* A step that neither begins nor ends a call, nor changes what is known.
LEMMA CallsKept ==
  ASSUME Inv, Inv',
         \A w \in Workers : /\ pc[w] = "reconcile" <=> pc'[w] = "reconcile"
                            /\ pc[w] = "reconcile" =>
                                 item'[w] = item[w] /\ newObj'[w] = newObj[w]
  PROVE  calls' = calls
<1>1. SingleFlight /\ SingleFlight'
  BY DEF Inv, ItemsProcessing
<1>2. \A k \in Keys : CallOf(k)' = CallOf(k)
  BY <1>1, CallKept
<1> QED
  BY <1>2 DEF calls

\* The steps of the informer, of Run and of the queue do nothing to the calls.
LEMMA RestKeepsCalls ==
  ASSUME Inv, Inv',
         \/ \E k \in Keys : CacheChange(k) \/ WaitingLoop(k)
         \/ InformerSyncs \/ HandleNotification \/ Cancel \/ RunStep \/ Terminated
  PROVE  calls' = calls /\ known' = known
<1>1. /\ UNCHANGED <<item, newObj, known>>
      /\ pc' = pc \/ (pc' = [w \in Workers |-> "start"] /\ runPc \in {"sync", "poll"})
  BY DEF CacheChange, CacheAdd, CacheUpdate, CacheResync, CacheDelete,
         WaitingLoop, InformerSyncs, HandleNotification, Cancel, Terminated,
         vars, RunStep, RunRegister, RunSync, RunSynced, RunSyncCancelled,
         RunShutdown, RunDrain, RunDrainWait, RunJoin, SpawnWorkers
<1>2. \A w \in Workers : pc[w] = "reconcile" <=> pc'[w] = "reconcile"
  BY <1>1 DEF Inv, Lifecycle
<1> QED
  BY <1>1, <1>2, CallsKept

\* The informer's cache changes only by a change of one entry.
LEMMA CacheRefines ==
  ASSUME Inv, Inv', NEW k \in Keys, CacheChange(k)
  PROVE  Reconciler!Change(k) \/ UNCHANGED Reconciler!vars
<1>1. calls' = calls /\ known' = known
  BY RestKeepsCalls
<1>2. cache \in [Keys -> Object] /\ cache' \in [Keys -> Object]
  BY DEF Inv, TypeOK
<1>3. CASE CacheResync(k)
  <2>1. cache' = cache
    BY <1>3 DEF CacheResync
  <2> QED
    BY <1>1, <2>1 DEF Reconciler!vars, calls
<1>4. CASE CacheAdd(k) \/ CacheUpdate(k) \/ CacheDelete(k)
  <2>1. PICK live \in BOOLEAN :
          cache' = [cache EXCEPT ![k] = [rev |-> cache[k].rev + 1, live |-> live]]
    BY <1>4 DEF CacheAdd, CacheUpdate, CacheDelete
  <2> DEFINE o == [rev |-> cache[k].rev + 1, live |-> live]
  <2>2. cache'[k] = o /\ o \in Object /\ o.rev = cache[k].rev + 1
    BY <1>2, <2>1
  <2>3. \E x \in Object : /\ x.rev = cache[k].rev + 1
                          /\ cache' = [cache EXCEPT ![k] = x]
    BY <2>1, <2>2
  <2> QED
    BY <1>1, <2>3 DEF Reconciler!Change, calls
<1> QED
  BY <1>3, <1>4 DEF CacheChange

\* A worker's read begins a call, and its reconciler's answer ends it.
LEMMA WorkerRefines ==
  ASSUME Inv, Inv', NEW w \in Workers, WorkerStep(w)
  PROVE  Reconciler!Next \/ UNCHANGED Reconciler!vars
<1>1. pc \in [Workers -> {"idle", "start", "get", "read", "reconcile", "done",
                          "exited", "skipped"}]
      /\ newObj \in [Workers -> Object]
  BY DEF Inv, TypeOK
<1> DEFINE k == item[w]
<1>2. CASE WorkerRead(w)
  <2>1. k \in Keys /\ calls' = [calls EXCEPT ![k] = CallOf(item[w])']
    BY <1>2, OneCallChanges
  <2>2. NoReader(k)
    BY <1>2 DEF NoReader, WorkerRead, Inv, ItemsProcessing, SingleFlight, Working
  <2>3. calls[k] = NoKey
    BY <2>1, <2>2, NoCallIs DEF calls
  <2>4. CallOf(item[w])' = cache[k]
    <3>1. pc'[w] = "reconcile" /\ newObj'[w] = cache[k] /\ item' = item
      BY <1>1, <1>2 DEF WorkerRead
    <3>2. SingleFlight'
      BY DEF Inv, ItemsProcessing
    <3>3. CallOf(k)' = newObj'[w]
      BY <3>1, <3>2, CallIsNext
    <3> QED
      BY <3>1, <3>3
  <2>5. UNCHANGED <<cache, known>>
    BY <1>2 DEF WorkerRead
  <2>6. Reconciler!Begin(k)
    BY <2>1, <2>3, <2>4, <2>5 DEF Reconciler!Begin, calls
  <2> QED
    BY <2>1, <2>6 DEF Reconciler!Next
<1>3. CASE WorkerReconciled(w) \/ WorkerFailed(w)
  <2>1. k \in Keys /\ calls' = [calls EXCEPT ![k] = CallOf(item[w])']
    BY <1>3, OneCallChanges
  <2>2. pc[w] = "reconcile" /\ pc' = [pc EXCEPT ![w] = "done"] /\ item' = item
        /\ cache' = cache
    BY <1>3 DEF WorkerReconciled, WorkerFailed
  <2>3. calls[k] = newObj[w] /\ newObj[w] # NoKey
    BY <2>1, <2>2, CallIsObject DEF calls
  <2>4. CallOf(item[w])' = NoKey
    <3>1. \A x \in Workers : pc[x] = "reconcile" /\ item[x] = k => x = w
      BY <2>2 DEF Inv, ItemsProcessing, SingleFlight, Working
    <3>2. NoReader(k)'
      BY <1>1, <2>2, <3>1 DEF NoReader
    <3> QED
      BY <3>2, NoCallIsNext
  <2>5. CASE WorkerReconciled(w)
    <3>1. known' = [known EXCEPT ![k] = newObj[w]]
      BY <2>5 DEF WorkerReconciled
    <3>2. Reconciler!Succeed(k)
      BY <2>1, <2>2, <2>3, <2>4, <3>1 DEF Reconciler!Succeed, calls
    <3> QED
      BY <2>1, <3>2 DEF Reconciler!Next
  <2>6. CASE WorkerFailed(w)
    <3>1. known' = known
      BY <2>6 DEF WorkerFailed
    <3>2. Reconciler!Fail(k)
      BY <2>1, <2>2, <2>3, <2>4, <3>1 DEF Reconciler!Fail, calls
    <3> QED
      BY <2>1, <3>2 DEF Reconciler!Next
  <2> QED
    BY <1>3, <2>5, <2>6
<1>4. CASE \/ WorkerStart(w) \/ WorkerGet(w) \/ WorkerWait(w)
           \/ WorkerExit(w) \/ WorkerDone(w)
  <2>1. /\ UNCHANGED <<cache, known>>
        /\ \A x \in Workers : pc[x] = "reconcile" <=> pc'[x] = "reconcile"
    BY <1>1, <1>4 DEF WorkerStart, WorkerGet, WorkerWait, WorkerExit, WorkerDone
  <2>2. \A x \in Workers : pc[x] = "reconcile" =>
                             item'[x] = item[x] /\ newObj'[x] = newObj[x]
    BY <1>1, <1>4 DEF Inv, TypeOK, WorkerStart, WorkerGet, WorkerWait,
                      WorkerExit, WorkerDone
  <2>3. calls' = calls
    BY <2>1, <2>2, CallsKept
  <2> QED
    BY <2>1, <2>3 DEF Reconciler!vars, calls
<1> QED
  BY <1>2, <1>3, <1>4 DEF WorkerStep

\* ImplementsReconciler: with any number of workers and keys, retries and
\* shutdown included, what the reconciler sees of the controller is one call at
\* a time for each key, with an object read while no other call was under way.
THEOREM ControllerImplementsReconciler == Spec => ImplementsReconciler
<1>1. Init => Reconciler!Init
  <2> SUFFICES ASSUME Init
               PROVE  Reconciler!Init
    OBVIOUS
  <2>1. \A k \in Keys : NoReader(k)
    BY DEF Init, NoReader
  <2>2. calls = [k \in Keys |-> NoKey]
    BY <2>1, NoCallIs DEF calls
  <2> QED
    BY <2>2 DEF Init, Reconciler!Init, calls
<1>2. Inv /\ Inv' /\ [Next]_vars => [Reconciler!Next]_Reconciler!vars
  <2> SUFFICES ASSUME Inv, Inv', [Next]_vars
               PROVE  Reconciler!Next \/ UNCHANGED Reconciler!vars
    OBVIOUS
  <2>1. CASE \E k \in Keys : CacheChange(k)
    BY <2>1, CacheRefines DEF Reconciler!Next
  <2>2. CASE \/ \E k \in Keys : WaitingLoop(k)
             \/ InformerSyncs \/ HandleNotification \/ Cancel \/ RunStep
             \/ Terminated
    <3>1. calls' = calls /\ known' = known
      BY <2>2, RestKeepsCalls
    <3>2. cache' = cache
      BY <2>2 DEF WaitingLoop, InformerSyncs, HandleNotification, Cancel,
                  Terminated, vars, RunStep, RunRegister, RunSync, RunSynced,
                  RunSyncCancelled, RunShutdown, RunDrain, RunDrainWait, RunJoin
    <3> QED
      BY <3>1, <3>2 DEF Reconciler!vars, calls
  <2>3. CASE \E w \in Workers : WorkerStep(w)
    BY <2>3, WorkerRefines
  <2>4. CASE UNCHANGED vars
    <3>1. UNCHANGED <<cache, known, pc, item, newObj>>
      BY <2>4 DEF vars
    <3>2. calls' = calls
      BY <3>1, CallsKept
    <3> QED
      BY <3>1, <3>2 DEF Reconciler!vars, calls
  <2> QED
    BY <2>1, <2>2, <2>3, <2>4 DEF Next
<1> QED
  BY Invariance, <1>1, <1>2, PTL DEF Spec, ImplementsReconciler, Reconciler!Spec

=============================================================================
