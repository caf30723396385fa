--------------------------- MODULE WorkqueueProofs ---------------------------
(***************************************************************************)
(* What each operation of the work queue does to its types and to its      *)
(* consistency, for every set of keys and threads.                         *)
(***************************************************************************)
EXTENDS Workqueue, SequenceTheorems, TLAPS

\* Waking a sleeper leaves a set of threads.
LEMMA SignalType ==
  ASSUME waiters \in SUBSET Threads, Signal
  PROVE  waiters' \in SUBSET Threads
BY DEF Signal

\* Adding an item: Type.Add.
LEMMA AddLemma ==
  ASSUME QueueTypeOK, QueueConsistent, NEW k \in Keys, Add(k)
  PROVE  /\ QueueTypeOK'
         /\ QueueConsistent'
         /\ processing' = processing
         /\ shuttingDown' = shuttingDown
         /\ dirty \subseteq dirty'
         /\ dirty' \subseteq dirty \cup {k}
         /\ shuttingDown => queue' = queue
         /\ ~shuttingDown => k \in dirty'
<1>1. CASE shuttingDown \/ k \in dirty
  <2>1. UNCHANGED <<queue, dirty, processing, shuttingDown, waiters>>
    BY <1>1 DEF Add, queueVars
  <2> QED
    BY <1>1, <2>1 DEF QueueTypeOK, QueueConsistent, QueuedKeys
<1>2. CASE ~shuttingDown /\ k \notin dirty /\ k \in processing
  <2>1. /\ dirty' = dirty \cup {k}
        /\ UNCHANGED <<queue, waiters, processing, shuttingDown>>
    BY <1>2 DEF Add
  <2> QED
    BY <1>2, <2>1 DEF QueueTypeOK, QueueConsistent, QueuedKeys
<1>3. CASE ~shuttingDown /\ k \notin dirty /\ k \notin processing
  <2>1. /\ dirty' = dirty \cup {k}
        /\ queue' = Append(queue, k)
        /\ Signal
        /\ UNCHANGED <<processing, shuttingDown>>
    BY <1>3 DEF Add
  <2>2. QueueTypeOK'
    BY <2>1, SignalType DEF QueueTypeOK
  <2>3. /\ Len(queue') = Len(queue) + 1
        /\ \A i \in 1..Len(queue) : queue'[i] = queue[i]
        /\ queue'[Len(queue')] = k
        /\ Len(queue) \in Nat
    BY <2>1 DEF QueueTypeOK
  <2>4. QueueConsistent'
    <3>1. QueuedKeys' = QueuedKeys \cup {k}
      BY <2>3 DEF QueuedKeys
    <3>2. k \notin QueuedKeys
      BY <1>3 DEF QueueConsistent
    <3>3. \A i, j \in 1..Len(queue') : queue'[i] = queue'[j] => i = j
      BY <2>3, <3>2 DEF QueueConsistent, QueuedKeys
    <3> QED
      BY <1>3, <2>1, <3>1, <3>3 DEF QueueConsistent
  <2> QED
    BY <1>3, <2>1, <2>2, <2>4
<1> QED
  BY <1>1, <1>2, <1>3

\* Taking an item: the outcome of Type.Get that returns one.
LEMMA GetItemLemma ==
  ASSUME QueueTypeOK, QueueConsistent, GetItem
  PROVE  /\ QueueTypeOK'
         /\ QueueConsistent'
         /\ Head(queue) \in Keys
         /\ Head(queue) \notin processing
         /\ processing' = processing \cup {Head(queue)}
         /\ dirty' = dirty \ {Head(queue)}
         /\ shuttingDown' = shuttingDown
<1>1. /\ queue # << >>
      /\ queue' = Tail(queue)
      /\ processing' = processing \cup {Head(queue)}
      /\ dirty' = dirty \ {Head(queue)}
      /\ UNCHANGED <<shuttingDown, waiters>>
  BY DEF GetItem
<1>2. /\ Len(queue) \in Nat \ {0}
      /\ Head(queue) = queue[1]
      /\ Head(queue) \in Keys
      /\ queue' \in Seq(Keys)
      /\ Len(queue') = Len(queue) - 1
      /\ \A i \in 1..Len(queue') : queue'[i] = queue[i + 1]
  BY <1>1 DEF QueueTypeOK
<1>3. Head(queue) \in QueuedKeys /\ Head(queue) \notin processing
  BY <1>2 DEF QueueConsistent, QueuedKeys
<1>4. QueueTypeOK'
  BY <1>1, <1>2 DEF QueueTypeOK
<1>5. QueueConsistent'
  <2>1. \A i, j \in 1..Len(queue') : queue'[i] = queue'[j] => i = j
    <3> SUFFICES ASSUME NEW i \in 1..Len(queue'), NEW j \in 1..Len(queue'),
                        queue'[i] = queue'[j]
                 PROVE  i = j
      OBVIOUS
    <3>1. i + 1 \in 1..Len(queue) /\ j + 1 \in 1..Len(queue)
      BY <1>2
    <3>2. i + 1 = j + 1
      BY <3>1, <1>2 DEF QueueConsistent
    <3> QED
      BY <3>2
  <2>2. QueuedKeys' \subseteq QueuedKeys \ {Head(queue)}
    BY <1>2 DEF QueueConsistent, QueuedKeys
  <2>3. ASSUME NEW x \in QueuedKeys, x # Head(queue)
        PROVE  x \in QueuedKeys'
    <3>1. PICK i \in 1..Len(queue) : queue[i] = x
      BY <2>3 DEF QueuedKeys
    <3>2. i - 1 \in 1..Len(queue') /\ queue'[i - 1] = x
      BY <3>1, <2>3, <1>2
    <3> QED
      BY <3>2 DEF QueuedKeys
  <2> QED
    BY <1>1, <2>1, <2>2, <2>3 DEF QueueConsistent
<1> QED
  BY <1>1, <1>2, <1>3, <1>4, <1>5

\* Finishing an item: Type.Done.
LEMMA DoneLemma ==
  ASSUME QueueTypeOK, QueueConsistent, NEW k \in processing, Done(k)
  PROVE  /\ QueueTypeOK'
         /\ QueueConsistent'
         /\ processing' = processing \ {k}
         /\ dirty' = dirty
         /\ shuttingDown' = shuttingDown
<1>1. /\ processing' = processing \ {k}
      /\ dirty' = dirty
      /\ shuttingDown' = shuttingDown
      /\ k \in Keys
  BY DEF Done, QueueTypeOK
<1>2. waiters' \in SUBSET Threads
  BY SignalType DEF Done, QueueTypeOK
<1>3. CASE k \notin dirty
  <2>1. queue' = queue
    BY <1>3 DEF Done
  <2> QED
    BY <1>1, <1>2, <1>3, <2>1 DEF QueueTypeOK, QueueConsistent, QueuedKeys
<1>4. CASE k \in dirty
  <2>1. queue' = Append(queue, k)
    BY <1>4 DEF Done
  <2>2. /\ queue' \in Seq(Keys)
        /\ Len(queue') = Len(queue) + 1
        /\ \A i \in 1..Len(queue) : queue'[i] = queue[i]
        /\ queue'[Len(queue')] = k
        /\ Len(queue) \in Nat
    BY <2>1, <1>1 DEF QueueTypeOK
  <2>3. QueueTypeOK'
    BY <1>1, <1>2, <2>2 DEF QueueTypeOK
  <2>4. QueueConsistent'
    <3>1. QueuedKeys' = QueuedKeys \cup {k}
      BY <2>2 DEF QueuedKeys
    <3>2. k \notin QueuedKeys
      BY DEF QueueConsistent
    <3>3. \A i, j \in 1..Len(queue') : queue'[i] = queue'[j] => i = j
      BY <2>2, <3>2 DEF QueueConsistent, QueuedKeys
    <3> QED
      BY <1>1, <1>4, <3>1, <3>3 DEF QueueConsistent
  <2> QED
    BY <1>1, <2>3, <2>4
<1> QED
  BY <1>3, <1>4
=============================================================================
