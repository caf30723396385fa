------------------------------ MODULE Workqueue ------------------------------
(***************************************************************************)
(* The rate limiting work queue of client-go that a controller's event     *)
(* handlers and workers share (util/workqueue): the FIFO "queue" with its  *)
(* "dirty" and "processing" sets, the one condition variable on which both *)
(* idle workers and a draining ShutDownWithDrain sleep, the delayed        *)
(* re-adds of AddAfter, and the failure counts of the rate limiter.        *)
(*                                                                         *)
(* Every operator below is what one method does while it holds the queue's *)
(* lock, so a step of a client is one or more of these, conjoined with the *)
(* client's own change of state.  Durations are abstracted away: an item   *)
(* is in "waiting" until its delay has expired, and only the presence of a *)
(* failure count is kept, not its value.                                   *)
(***************************************************************************)
EXTENDS Naturals, Sequences, FiniteSets

CONSTANTS Keys,     \* the items: namespace/name strings
          Threads   \* the goroutines that may sleep on the queue's cond

VARIABLES
  queue,         \* the order in which items are worked on
  dirty,         \* the items that need processing
  processing,    \* the items being processed
  shuttingDown,  \* no item is accepted any more
  waiters,       \* the goroutines asleep on cond
  waiting,       \* the items AddAfter holds back until their delay expires
  failures       \* the items for which the rate limiter counts a failure

queueVars == <<queue, dirty, processing, shuttingDown>>
delayVars == <<waiting, failures>>
workqueueVars == <<queueVars, waiters, delayVars>>

QueueTypeOK ==
  /\ queue \in Seq(Keys)
  /\ dirty \in SUBSET Keys
  /\ processing \in SUBSET Keys
  /\ shuttingDown \in BOOLEAN
  /\ waiters \in SUBSET Threads

DelayTypeOK ==
  /\ waiting \in SUBSET Keys
  /\ failures \in SUBSET Keys

WorkqueueInit ==
  /\ queue = << >>
  /\ dirty = {}
  /\ processing = {}
  /\ shuttingDown = FALSE
  /\ waiters = {}
  /\ waiting = {}
  /\ failures = {}

QueuedKeys == {queue[i] : i \in 1..Len(queue)}

\* The comment on Type.queue, "Every element of queue should be in the dirty
\* set and not in the processing set", and what it takes for that to hold: no
\* item is queued twice, and a dirty item is queued or being processed.
QueueConsistent ==
  /\ QueuedKeys = dirty \ processing
  /\ \A i, j \in 1..Len(queue) : queue[i] = queue[j] => i = j

-----------------------------------------------------------------------------

\* cond.Signal: one sleeper, whichever, is woken; nobody, if nobody sleeps.
Signal ==
  \/ /\ waiters = {}
     /\ UNCHANGED waiters
  \/ \E t \in waiters : waiters' = waiters \ {t}

\* cond.Wait by goroutine t.
Wait(t) == waiters' = waiters \cup {t}

\* Mutant of Add: an item that is being processed is queued all the same.
Add_IgnoresProcessing(k) ==
  \/ /\ shuttingDown \/ k \in dirty
     /\ UNCHANGED <<queueVars, waiters>>
  \/ /\ ~shuttingDown
     /\ k \notin dirty
     /\ dirty' = dirty \cup {k}
     /\ queue' = Append(queue, k)
     /\ Signal
     /\ UNCHANGED <<processing, shuttingDown>>

\* Mutant of Add: nobody is woken.
Add_NoSignal(k) ==
  IF shuttingDown \/ k \in dirty
  THEN UNCHANGED <<queueVars, waiters>>
  ELSE /\ dirty' = dirty \cup {k}
       /\ queue' = IF k \in processing THEN queue ELSE Append(queue, k)
       /\ UNCHANGED <<processing, shuttingDown, waiters>>

\* Type.Add.
Add(k) ==
  \/ /\ shuttingDown \/ k \in dirty
     /\ UNCHANGED <<queueVars, waiters>>
  \/ /\ ~shuttingDown
     /\ k \notin dirty
     /\ dirty' = dirty \cup {k}
     /\ \/ /\ k \in processing
           /\ UNCHANGED <<queue, waiters>>
        \/ /\ k \notin processing
           /\ queue' = Append(queue, k)
           /\ Signal
     /\ UNCHANGED <<processing, shuttingDown>>

\* Mutant of GetItem: the item is not marked as being processed.
GetItem_NotProcessing ==
  /\ queue # << >>
  /\ queue' = Tail(queue)
  /\ dirty' = dirty \ {Head(queue)}
  /\ UNCHANGED <<processing, shuttingDown, waiters>>

\* Type.Get has the three outcomes GetItem, GetWait and GetShutdown.  A woken
\* goroutine tests the loop condition again, so it is back before the choice.
GetItem ==
  /\ queue # << >>
  /\ queue' = Tail(queue)
  /\ processing' = processing \cup {Head(queue)}
  /\ dirty' = dirty \ {Head(queue)}
  /\ UNCHANGED <<shuttingDown, waiters>>

GetWait(t) ==
  /\ queue = << >>
  /\ ~shuttingDown
  /\ Wait(t)
  /\ UNCHANGED queueVars

\* Mutant of GetShutdown: the workers are told to stop with items left.
GetShutdown_AtOnce ==
  /\ shuttingDown
  /\ UNCHANGED <<queueVars, waiters>>

GetShutdown ==
  /\ queue = << >>
  /\ shuttingDown
  /\ UNCHANGED <<queueVars, waiters>>

\* Mutant of Done: an item that got dirty meanwhile is not queued again.
Done_NotRequeued(k) ==
  /\ processing' = processing \ {k}
  /\ IF processing' = {} THEN Signal ELSE UNCHANGED waiters
  /\ UNCHANGED <<queue, dirty, shuttingDown>>

\* Mutant of Done: the drainer is not told that nothing is processed any more.
Done_NoSignal(k) ==
  /\ processing' = processing \ {k}
  /\ IF k \in dirty
     THEN queue' = Append(queue, k) /\ Signal
     ELSE UNCHANGED <<queue, waiters>>
  /\ UNCHANGED <<dirty, shuttingDown>>

\* Type.Done.
Done(k) ==
  /\ processing' = processing \ {k}
  /\ \/ /\ k \in dirty
        /\ queue' = Append(queue, k)
        /\ Signal
     \/ /\ k \notin dirty
        /\ UNCHANGED queue
        /\ IF processing' = {} THEN Signal ELSE UNCHANGED waiters
  /\ UNCHANGED <<dirty, shuttingDown>>

-----------------------------------------------------------------------------

\* ShutDownWithDrain: shutdown() and its Broadcast; then the loop over
\* isProcessing and waitForProcessing, which lock the queue one after the other.
Shutdown ==
  /\ shuttingDown' = TRUE
  /\ waiters' = {}
  /\ UNCHANGED <<queue, dirty, processing>>

isProcessing == processing # {}

waitForProcessing(t) ==
  /\ IF isProcessing THEN Wait(t) ELSE UNCHANGED waiters
  /\ UNCHANGED queueVars

-----------------------------------------------------------------------------

\* Mutant of AddRateLimited: the failure is counted and the item is dropped.
AddRateLimited_Dropped(k) ==
  /\ failures' = failures \cup {k}
  /\ UNCHANGED waiting

\* rateLimitingType.AddRateLimited: the limiter's When counts the failure even
\* where AddAfter then refuses the item because the queue is shutting down.
AddRateLimited(k) ==
  /\ failures' = failures \cup {k}
  /\ waiting' = IF shuttingDown THEN waiting ELSE waiting \cup {k}

\* rateLimitingType.Forget.
Forget(k) ==
  /\ failures' = failures \ {k}
  /\ UNCHANGED waiting

\* delayingType.waitingLoop: an item whose delay has expired is added.
DelayExpires(k) ==
  /\ k \in waiting
  /\ waiting' = waiting \ {k}
  /\ Add(k)
  /\ UNCHANGED failures
=============================================================================
