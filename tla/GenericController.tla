-------------------------- MODULE GenericController --------------------------
(***************************************************************************)
(* The generic controller of pkg/controller/generic.go: a shared informer  *)
(* calls the handlers that Run registered, the handlers put keys on the    *)
(* work queue, workers take keys off it, read the object from the lister   *)
(* and hand it to the reconciler, and Run waits for the context, drains    *)
(* the queue and waits for the workers.                                    *)
(*                                                                         *)
(* An object is abstracted to the revision of the cache entry it was read  *)
(* from: cache[k].rev counts the changes of the entry, which is also what  *)
(* tells two resource versions of k apart.                                 *)
(***************************************************************************)
EXTENDS Workqueue

CONSTANTS Workers,            \* the goroutines of runWorker
          Runner,             \* the goroutine of Run
          NoKey,              \* what a worker without an item holds
          MaxRev,             \* bound: changes of one cache entry
          MaxNotifications    \* bound: notifications not yet delivered

ASSUME ConstantsAssumption ==
  /\ IsFiniteSet(Keys)
  /\ IsFiniteSet(Workers)
  /\ Workers # {}
  /\ Runner \notin Workers
  /\ NoKey \notin Keys
  /\ Threads = Workers \cup {Runner}
  /\ MaxRev \in Nat
  /\ MaxNotifications \in Nat

VARIABLES
  cache,          \* the informer's indexer: per key the entry's revision, and
                  \* whether there is an object
  notifications,  \* what the informer has yet to call the handlers with
  hasSynced,      \* the informer's HasSynced
  ctxDone,        \* the context of Run is cancelled
  runPc,          \* where Run is
  pc,             \* where each worker is
  item,           \* the key each worker took off the queue
  newObj,         \* what each worker read from the lister
  known,          \* per key, what the reconciler was last called with and
                  \* returned no error for
  tombstoned      \* history: keys whose last deletion the informer found out
                  \* about by a relist

informerVars == <<cache, notifications, hasSynced, tombstoned>>
workerVars == <<pc, item, newObj, known>>
vars == <<workqueueVars, informerVars, ctxDone, runPc, workerVars>>

Object == [rev : 0..MaxRev, live : BOOLEAN]
NoObject == [rev |-> 0, live |-> FALSE]

ASSUME NoKeyAssumption == NoKey \notin Object

\* The calls of the ResourceEventHandler.  An update carries the resource
\* versions of both objects.
Notification ==
       [op : {"add"}, key : Keys]
  \cup [op : {"update"}, key : Keys, old : 0..MaxRev, new : 0..MaxRev]
  \cup [op : {"delete"}, key : Keys, tombstone : BOOLEAN]

Registered == runPc # "start"
Working(w) == pc[w] \in {"read", "reconcile", "done"}

TypeOK ==
  /\ QueueTypeOK
  /\ DelayTypeOK
  /\ cache \in [Keys -> Object]
  /\ notifications \in Seq(Notification)
  /\ hasSynced \in BOOLEAN
  /\ ctxDone \in BOOLEAN
  /\ runPc \in {"start", "sync", "poll", "running", "drain", "drainWait",
                "join", "returned"}
  /\ pc \in [Workers -> {"idle", "start", "get", "read", "reconcile", "done",
                         "exited", "skipped"}]
  /\ item \in [Workers -> Keys \cup {NoKey}]
  /\ newObj \in [Workers -> Object]
  /\ known \in [Keys -> Object]
  /\ tombstoned \in SUBSET Keys

\* New, and the state of the informer before Run.
Init ==
  /\ WorkqueueInit
  /\ cache = [k \in Keys |-> NoObject]
  /\ notifications = << >>
  /\ hasSynced = FALSE
  /\ ctxDone = FALSE
  /\ runPc = "start"
  /\ pc = [w \in Workers |-> "idle"]
  /\ item = [w \in Workers |-> NoKey]
  /\ newObj = [w \in Workers |-> NoObject]
  /\ known = [k \in Keys |-> NoObject]
  /\ tombstoned = {}

-----------------------------------------------------------------------------
(* The shared informer.  A change of the indexer and its distribution to the *)
(* listeners happen under one lock; the listener then calls the handlers in  *)
(* order, from its own goroutine.                                            *)

Distribute(n) ==
  /\ Len(notifications) < MaxNotifications
  /\ notifications' = IF Registered THEN Append(notifications, n)
                                    ELSE notifications

CacheAdd(k) ==
  /\ ~cache[k].live
  /\ cache[k].rev < MaxRev
  /\ cache' = [cache EXCEPT ![k] = [rev |-> cache[k].rev + 1, live |-> TRUE]]
  /\ tombstoned' = tombstoned \ {k}
  /\ Distribute([op |-> "add", key |-> k])
  /\ UNCHANGED <<workqueueVars, hasSynced, ctxDone, runPc, workerVars>>

CacheUpdate(k) ==
  /\ cache[k].live
  /\ cache[k].rev < MaxRev
  /\ cache' = [cache EXCEPT ![k] = [rev |-> cache[k].rev + 1, live |-> TRUE]]
  /\ Distribute([op |-> "update", key |-> k,
                 old |-> cache[k].rev, new |-> cache[k].rev + 1])
  /\ UNCHANGED <<workqueueVars, hasSynced, tombstoned, ctxDone, runPc,
                 workerVars>>

\* A resync repeats the object that is in the cache as an update.
CacheResync(k) ==
  /\ cache[k].live
  /\ Registered
  /\ Distribute([op |-> "update", key |-> k,
                 old |-> cache[k].rev, new |-> cache[k].rev])
  /\ UNCHANGED <<workqueueVars, cache, hasSynced, tombstoned, ctxDone, runPc,
                 workerVars>>

\* A deletion is watched, or found out about by a relist: the handler is then
\* given a DeletedFinalStateUnknown in place of the object.
CacheDelete(k) ==
  \E tombstone \in BOOLEAN :
    /\ cache[k].live
    /\ cache[k].rev < MaxRev
    /\ cache' = [cache EXCEPT ![k] = [rev |-> cache[k].rev + 1,
                                      live |-> FALSE]]
    /\ tombstoned' = IF tombstone THEN tombstoned \cup {k} ELSE tombstoned
    /\ Distribute([op |-> "delete", key |-> k, tombstone |-> tombstone])
    /\ UNCHANGED <<workqueueVars, hasSynced, ctxDone, runPc, workerVars>>

\* The initial list is in the cache.
InformerSyncs ==
  /\ ~hasSynced
  /\ hasSynced' = TRUE
  /\ UNCHANGED <<workqueueVars, cache, notifications, tombstoned, ctxDone,
                 runPc, workerVars>>

-----------------------------------------------------------------------------
(* The event handlers of Run.                                                *)

\* MetaNamespaceKeyFunc has a key for an object, and an error for a tombstone.
HasKey(n) == n.op = "delete" => ~n.tombstone

\* UpdateFunc leaves an update alone that repeats the resource version.
Relevant(n) == n.op = "update" => n.old # n.new

enqueue(n) ==
  IF Relevant(n) /\ HasKey(n)
  THEN Add(n.key)
  ELSE UNCHANGED <<queueVars, waiters>>

HandleNotification ==
  /\ notifications # << >>
  /\ notifications' = Tail(notifications)
  /\ enqueue(Head(notifications))
  /\ UNCHANGED <<delayVars, cache, hasSynced, tombstoned, ctxDone, runPc,
                 workerVars>>

-----------------------------------------------------------------------------
(* Run.                                                                      *)

\* AddEventHandler: the objects of the cache are replayed as adds, in the order
\* the indexer happens to list them.
RunRegister ==
  /\ runPc = "start"
  /\ LET present == {k \in Keys : cache[k].live}
     IN \E s \in [1..Cardinality(present) -> present] :
          /\ \A k \in present : \E i \in DOMAIN s : s[i] = k
          /\ notifications' = [i \in DOMAIN s |-> [op |-> "add", key |-> s[i]]]
  /\ runPc' = "sync"
  /\ UNCHANGED <<workqueueVars, cache, hasSynced, tombstoned, ctxDone,
                 workerVars>>

SpawnWorkers ==
  /\ pc' = [w \in Workers |-> "start"]
  /\ runPc' = "running"

\* WaitForNamedCacheSync tests HasSynced at once, and polls when that is false.
RunSync ==
  /\ runPc = "sync"
  /\ IF hasSynced
     THEN SpawnWorkers
     ELSE /\ runPc' = "poll"
          /\ UNCHANGED pc
  /\ UNCHANGED <<workqueueVars, informerVars, ctxDone, item, newObj, known>>

RunSynced ==
  /\ runPc = "poll"
  /\ hasSynced
  /\ SpawnWorkers
  /\ UNCHANGED <<workqueueVars, informerVars, ctxDone, item, newObj, known>>

RunSyncCancelled ==
  /\ runPc = "poll"
  /\ ctxDone
  /\ runPc' = "returned"
  /\ UNCHANGED <<workqueueVars, informerVars, ctxDone, workerVars>>

\* The caller cancels the context.
Cancel ==
  /\ ~ctxDone
  /\ ctxDone' = TRUE
  /\ UNCHANGED <<workqueueVars, informerVars, runPc, workerVars>>

RunShutdown ==
  /\ runPc = "running"
  /\ ctxDone
  /\ Shutdown
  /\ runPc' = "drain"
  /\ UNCHANGED <<delayVars, informerVars, ctxDone, workerVars>>

RunDrain ==
  /\ runPc = "drain"
  /\ Runner \notin waiters
  /\ runPc' = IF isProcessing THEN "drainWait" ELSE "join"
  /\ UNCHANGED <<workqueueVars, informerVars, ctxDone, workerVars>>

RunDrainWait ==
  /\ runPc = "drainWait"
  /\ waitForProcessing(Runner)
  /\ runPc' = "drain"
  /\ UNCHANGED <<delayVars, informerVars, ctxDone, workerVars>>

\* waitGroup.Wait
RunJoin ==
  /\ runPc = "join"
  /\ \A w \in Workers : pc[w] \in {"exited", "skipped"}
  /\ runPc' = "returned"
  /\ UNCHANGED <<workqueueVars, informerVars, ctxDone, workerVars>>

-----------------------------------------------------------------------------
(* runWorker, inside wait.Until.                                             *)

\* BackoffUntil tests the stop channel before it calls runWorker.
WorkerStart(w) ==
  /\ pc[w] = "start"
  /\ pc' = [pc EXCEPT ![w] = IF ctxDone THEN "skipped" ELSE "get"]
  /\ UNCHANGED <<workqueueVars, informerVars, ctxDone, runPc, item, newObj,
                 known>>

WorkerGet(w) ==
  /\ pc[w] = "get"
  /\ w \notin waiters
  /\ GetItem
  /\ pc' = [pc EXCEPT ![w] = "read"]
  /\ item' = [item EXCEPT ![w] = Head(queue)]
  /\ UNCHANGED <<delayVars, informerVars, ctxDone, runPc, newObj, known>>

WorkerWait(w) ==
  /\ pc[w] = "get"
  /\ w \notin waiters
  /\ GetWait(w)
  /\ UNCHANGED <<delayVars, informerVars, ctxDone, runPc, workerVars>>

\* Get says shutdown only after ctx is done, so wait.Until ends as well.
WorkerExit(w) ==
  /\ pc[w] = "get"
  /\ w \notin waiters
  /\ GetShutdown
  /\ pc' = [pc EXCEPT ![w] = "exited"]
  /\ UNCHANGED <<delayVars, informerVars, ctxDone, runPc, item, newObj, known>>

\* reconcile: lister.Get.  A missing object is the empty one, not an error.
WorkerRead(w) ==
  /\ pc[w] = "read"
  /\ newObj' = [newObj EXCEPT ![w] = cache[item[w]]]
  /\ pc' = [pc EXCEPT ![w] = "reconcile"]
  /\ UNCHANGED <<workqueueVars, informerVars, ctxDone, runPc, item, known>>

\* Mutant of WorkerReconciled: the item is not forgotten.
WorkerReconciled_NotForgotten(w) ==
  /\ pc[w] = "reconcile"
  /\ known' = [known EXCEPT ![item[w]] = newObj[w]]
  /\ pc' = [pc EXCEPT ![w] = "done"]
  /\ UNCHANGED <<queueVars, delayVars, waiters, informerVars, ctxDone, runPc,
                 item, newObj>>

\* The reconciler returns nil, and the item is forgotten.
WorkerReconciled(w) ==
  /\ pc[w] = "reconcile"
  /\ known' = [known EXCEPT ![item[w]] = newObj[w]]
  /\ Forget(item[w])
  /\ pc' = [pc EXCEPT ![w] = "done"]
  /\ UNCHANGED <<queueVars, waiters, informerVars, ctxDone, runPc, item,
                 newObj>>

\* Mutant of WorkerFailed: a shadowed, empty key is put back.
WorkerFailed_EmptyKey(w) ==
  /\ pc[w] = "reconcile"
  /\ AddRateLimited(NoKey)
  /\ pc' = [pc EXCEPT ![w] = "done"]
  /\ UNCHANGED <<queueVars, waiters, informerVars, ctxDone, runPc, item,
                 newObj, known>>

\* The reconciler returns an error, and the item is put back after a delay.
WorkerFailed(w) ==
  /\ pc[w] = "reconcile"
  /\ AddRateLimited(item[w])
  /\ pc' = [pc EXCEPT ![w] = "done"]
  /\ UNCHANGED <<queueVars, waiters, informerVars, ctxDone, runPc, item,
                 newObj, known>>

\* The deferred queue.Done.
WorkerDone(w) ==
  /\ pc[w] = "done"
  /\ Done(item[w])
  /\ pc' = [pc EXCEPT ![w] = "get"]
  /\ item' = [item EXCEPT ![w] = NoKey]
  /\ newObj' = [newObj EXCEPT ![w] = NoObject]
  /\ UNCHANGED <<delayVars, informerVars, ctxDone, runPc, known>>

\* The delaying queue's waitingLoop.
WaitingLoop(k) ==
  /\ DelayExpires(k)
  /\ UNCHANGED <<informerVars, ctxDone, runPc, workerVars>>

-----------------------------------------------------------------------------

CacheChange(k) ==
  \/ CacheAdd(k)
  \/ CacheUpdate(k)
  \/ CacheResync(k)
  \/ CacheDelete(k)

RunStep ==
  \/ RunRegister
  \/ RunSync
  \/ RunSynced
  \/ RunSyncCancelled
  \/ RunShutdown
  \/ RunDrain
  \/ RunDrainWait
  \/ RunJoin

WorkerStep(w) ==
  \/ WorkerStart(w)
  \/ WorkerGet(w)
  \/ WorkerWait(w)
  \/ WorkerExit(w)
  \/ WorkerRead(w)
  \/ WorkerReconciled(w)
  \/ WorkerFailed(w)
  \/ WorkerDone(w)

\* After Run has returned, its caller has nothing more to wait for.
Terminated ==
  /\ runPc = "returned"
  /\ UNCHANGED vars

Next ==
  \/ \E k \in Keys : CacheChange(k) \/ WaitingLoop(k)
  \/ InformerSyncs
  \/ HandleNotification
  \/ Cancel
  \/ RunStep
  \/ \E w \in Workers : WorkerStep(w)
  \/ Terminated

Spec == Init /\ [][Next]_vars

\* The goroutines run, and what the reconciler reports as a transient error of
\* a key does not last for ever.  Nothing is assumed of the informer's source
\* or of the caller, and nothing of the delaying queue once it is shut down.
Fairness ==
  /\ WF_vars(HandleNotification)
  /\ WF_vars(RunStep)
  /\ \A w \in Workers : WF_vars(WorkerStep(w))
  /\ \A w \in Workers, k \in Keys :
       SF_vars(item[w] = k /\ WorkerReconciled(w))
  /\ \A k \in Keys : WF_vars(~shuttingDown /\ WaitingLoop(k))

FairSpec == Spec /\ Fairness

-----------------------------------------------------------------------------
(* Properties.                                                               *)

\* What the reconciler was told of k is what the cache holds.  Two absences of
\* an object are alike, whatever the history.
UpToDate(k) ==
  \/ known[k] = cache[k]
  \/ ~known[k].live /\ ~cache[k].live

\* The keys that a pending notification will put on the queue.
NotifiedKeys ==
  {k \in Keys : \E i \in 1..Len(notifications) :
                  /\ notifications[i].key = k
                  /\ Relevant(notifications[i])
                  /\ HasKey(notifications[i])}

\* Something is under way that will have k reconciled with the current object.
Owed(k) ==
  \/ k \in NotifiedKeys \cup QueuedKeys \cup waiting
  \/ \E w \in Workers :
       /\ item[w] = k
       /\ Working(w)
       /\ \/ k \in dirty
          \/ pc[w] = "read"
          \/ pc[w] = "reconcile" /\ newObj[w] = cache[k]

\* Two workers never reconcile one key at the same time.
SingleFlight ==
  \A w1, w2 \in Workers :
    Working(w1) /\ Working(w2) /\ item[w1] = item[w2] => w1 = w2

\* No change of the cache is lost on its way through handlers, queue, retries
\* and workers, except a deletion found out about by a relist.
NoLostUpdate ==
  Registered /\ ~shuttingDown =>
    \A k \in Keys : UpToDate(k) \/ Owed(k) \/ k \in tombstoned

\* The reconciler is never taken back to an older object than it was already
\* given: runWorker reads the lister only once it owns the key.
KnownNeverGoesBack ==
  [][\A k \in Keys : known[k].rev <= known'[k].rev]_vars

\* No worker sleeps in Get while there are more items than awake workers that
\* are about to take one: no Signal is missing and none is wasted.
NoLostWakeup ==
  waiters \cap Workers # {} =>
    Len(queue) <= Cardinality({w \in Workers : pc[w] = "get"} \ waiters)

\* A key keeps a back-off only while it is still to be worked on: a success
\* forgets it, and a failure puts the key back.
BackoffOnlyWhilePending ==
  ~shuttingDown => failures \subseteq waiting \cup dirty \cup processing

\* When Run returns after a worker has run, what was on the queue at shutdown
\* has been worked off.
DrainedOnReturn ==
  runPc = "returned" /\ (\E w \in Workers : pc[w] = "exited") =>
    queue = << >> /\ dirty = {} /\ processing = {}

\* Cancelling the context ends Run, whatever the workers are doing.
ShutdownCompletes == ctxDone ~> runPc = "returned"

\* Once the informer has synced, an object the reconciler has not seen yet
\* reaches it, failures and concurrent changes notwithstanding.
Converges ==
  \A k \in Keys :
    (hasSynced /\ cache[k].live /\ ~UpToDate(k)) ~>
      (UpToDate(k) \/ ctxDone \/ k \in tombstoned)

-----------------------------------------------------------------------------
(* The inductive invariant behind the safety properties.                     *)

\* An item is marked as processed exactly while one worker works on it.
ItemsProcessing ==
  /\ \A w \in Workers : Working(w) => item[w] \in processing
  /\ \A k \in processing : \E w \in Workers : Working(w) /\ item[w] = k
  /\ SingleFlight

\* What the reconciler knows, what a worker is about to tell it and what the
\* cache holds are in this order.
Freshness ==
  /\ \A k \in Keys : known[k].rev <= cache[k].rev
  /\ \A w \in Workers : pc[w] = "reconcile" =>
       /\ known[item[w]].rev <= newObj[w].rev
       /\ newObj[w].rev <= cache[item[w]].rev

\* A failed item that its worker has not finished yet will be tried again.
BackoffInv ==
  /\ BackoffOnlyWhilePending
  /\ \A w \in Workers :
       ~shuttingDown /\ pc[w] = "done" /\ item[w] \in failures =>
         item[w] \in waiting \cup dirty

\* Workers exist between the cache sync and the return of Run, and the last
\* one to leave finds the queue empty.
Lifecycle ==
  /\ runPc \in {"start", "sync", "poll"} => \A w \in Workers : pc[w] = "idle"
  /\ runPc = "returned" =>
       \A w \in Workers : pc[w] \in {"idle", "exited", "skipped"}
  /\ (\E w \in Workers : pc[w] = "exited") =>
       /\ shuttingDown
       /\ queue = << >> \/ \E w \in Workers : pc[w] = "get" \/ Working(w)

\* Before the handlers are registered nothing was reconciled; afterwards an
\* object that was overtaken while a worker held it is owed a second call.
StaleReadOwed ==
  /\ ~Registered => \A k \in Keys : known[k] = NoObject
  /\ Registered /\ ~shuttingDown =>
       \A w \in Workers : pc[w] = "reconcile" =>
         \/ newObj[w] = cache[item[w]]
         \/ item[w] \in NotifiedKeys \cup dirty \cup waiting \cup tombstoned

Inv ==
  /\ TypeOK
  /\ QueueConsistent
  /\ ItemsProcessing
  /\ Freshness
  /\ BackoffInv
  /\ Lifecycle
  /\ StaleReadOwed
  /\ NoLostUpdate

\* A worker sleeps only in Get, and only until the Broadcast of the shutdown;
\* a draining Run, which sleeps on the same cond, comes after that, so that the
\* Signal of a new item never wakes Run in the place of a worker.
Sleepers ==
  /\ \A w \in waiters \cap Workers : pc[w] = "get" /\ ~shuttingDown
  /\ Runner \in waiters => shuttingDown
  /\ runPc \in {"drain", "drainWait"} => shuttingDown

WakeInv == Sleepers /\ NoLostWakeup

-----------------------------------------------------------------------------
(* The controller implements KeyedReconciler: the call under way for a key *)
(* is the one of the worker that has read the key's object.                *)

CallOf(k) ==
  IF \E w \in Workers : pc[w] = "reconcile" /\ item[w] = k
  THEN newObj[CHOOSE w \in Workers : pc[w] = "reconcile" /\ item[w] = k]
  ELSE NoKey

Reconciler ==
  INSTANCE KeyedReconciler WITH
    current <- cache,
    call    <- [k \in Keys |-> CallOf(k)],
    NoCall  <- NoKey

\* Every step of the controller is a step of the abstract reconciler or leaves
\* it alone.
ImplementsReconciler == Reconciler!Spec

-----------------------------------------------------------------------------
(* What a comment in the code says, and the code does not do.              *)

\* generic.go:222 "Deleted object. Inform reconciler with empty": a deletion
\* always reaches the reconciler while the controller runs.
DeletionsReachReconciler ==
  Registered /\ ~shuttingDown =>
    \A k \in Keys : ~cache[k].live => UpToDate(k) \/ Owed(k)
=============================================================================
