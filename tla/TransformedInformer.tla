------------------------- MODULE TransformedInformer -------------------------
(***************************************************************************)
(* How policies get from the API server into the cache of the informer the *)
(* plugin reads: the client-go reflector lists and watches through the     *)
(* TransformedClient of pkg/controller/transformed_client.go, which        *)
(* converts every CRD object to its native type.                           *)
(*                                                                         *)
(* The API server is a log of changes: the object written by the n-th one  *)
(* has resource version n.  An object is abstracted to that number, with 0 *)
(* for none, so what it held at any time is a function of the log.         *)
(***************************************************************************)
EXTENDS Naturals, Sequences, FiniteSets, FiniteSetsExt

CONSTANTS Keys,           \* the policies
          Unconvertible,  \* resource versions whose content To cannot convert
          MaxRV           \* bound: changes at the API server

ASSUME InformerAssumption ==
  /\ IsFiniteSet(Keys)
  /\ Unconvertible \subseteq Nat \ {0}
  /\ MaxRV \in Nat

VARIABLES
  log,        \* the changes at the API server
  compacted,  \* changes up to here are no longer available to a new watch
  pc,         \* where the reflector is in ListAndWatch
  lastSync,   \* lastSyncResourceVersion, 0 for the empty string
  burst,      \* synthetic ADDED events the watch has still to deliver
  pos,        \* the last change the watch has delivered
  got,        \* the watch has delivered an event
  store,      \* the informer's cache
  gap         \* history: keys of which the reflector has skipped a change

serverVars == <<log, compacted>>
watchVars == <<burst, pos, got>>
vars == <<serverVars, pc, lastSync, watchVars, store, gap>>

Event == [type : {"ADDED", "MODIFIED", "DELETED"}, key : Keys]

\* The object of k as the change numbered r left it.
At(k, r) ==
  LET changes == {i \in 1..r : log[i].key = k}
  IN IF changes = {} THEN 0
     ELSE IF log[Max(changes)].type = "DELETED" THEN 0 ELSE Max(changes)

Now(k) == At(k, Len(log))

TypeOK ==
  /\ log \in Seq(Event)
  /\ Len(log) <= MaxRV
  /\ compacted \in 0..Len(log)
  /\ pc \in {"list", "watch", "watching"}
  /\ lastSync \in 0..Len(log)
  /\ burst \in Seq([key : Keys, rv : 1..Len(log)])
  /\ pos \in 0..Len(log)
  /\ got \in BOOLEAN
  /\ store \in [Keys -> 0..Len(log)]
  /\ gap \in SUBSET Keys

Init ==
  /\ log = << >>
  /\ compacted = 0
  /\ pc = "list"
  /\ lastSync = 0
  /\ burst = << >>
  /\ pos = 0
  /\ got = FALSE
  /\ store = [k \in Keys |-> 0]
  /\ gap = {}

-----------------------------------------------------------------------------
(* The API server.                                                           *)

Change(k, type) ==
  /\ Len(log) < MaxRV
  /\ type = "ADDED" <=> Now(k) = 0
  /\ log' = Append(log, [type |-> type, key |-> k])
  /\ UNCHANGED <<compacted, pc, lastSync, watchVars, store, gap>>

Compact ==
  /\ compacted < Len(log)
  /\ compacted' = Len(log)
  /\ UNCHANGED <<log, pc, lastSync, watchVars, store, gap>>

-----------------------------------------------------------------------------
(* TransformedClient.                                                        *)

\* Mutant of ListedVersion: the list says it is newer than its snapshot.
ListedVersion_TooNew(r) == r + 1

\* listWithItems sets the items of a new list and nothing else: the list has
\* no resource version, whatever the snapshot r it was made from.
ListedVersion(r) == 0

\* To: JSON made of the custom resource is read back as the native type, which
\* fails where a field has another form there.
CRDToNativePolicy(rv) == rv \notin Unconvertible

\* List: one item that cannot be converted fails the list as a whole.
Listable(r) == \A k \in Keys : CRDToNativePolicy(At(k, r))

\* Watch: an event whose object cannot be converted is filtered out.
Kept(rv) == CRDToNativePolicy(rv)

-----------------------------------------------------------------------------
(* The reflector.                                                            *)

\* list: a snapshot at least as new as lastSync, which for the empty string is
\* any snapshot a watch cache may still have, replaces the cache.
List ==
  /\ pc = "list"
  /\ \E r \in lastSync..Len(log) :
       /\ Listable(r)
       /\ store' = [k \in Keys |-> At(k, r)]
       /\ lastSync' = ListedVersion(r)
       /\ gap' = {}
  /\ pc' = "watch"
  /\ UNCHANGED <<serverVars, watchVars>>

\* A request or a conversion fails: the list is tried again, with no effect.
ListFails ==
  /\ pc = "list"
  /\ UNCHANGED vars

\* Mutant of Watch: nothing is delivered of what there already is.
Watch_FromNow ==
  /\ pc = "watch"
  /\ lastSync = 0 \/ lastSync >= compacted
  /\ pc' = "watching"
  /\ got' = FALSE
  /\ burst' = << >>
  /\ pos' = IF lastSync = 0 THEN Len(log) ELSE lastSync
  /\ UNCHANGED <<serverVars, lastSync, store, gap>>

\* watch: with no resource version the server starts at the most recent state,
\* which it delivers as synthetic ADDED events in the order of the keys; what
\* was deleted since the list is in none of them.  With a resource version it
\* delivers the changes after it.
Watch ==
  /\ pc = "watch"
  /\ lastSync = 0 \/ lastSync >= compacted
  /\ pc' = "watching"
  /\ got' = FALSE
  /\ IF lastSync = 0
     THEN LET present == {k \in Keys : Now(k) # 0}
          IN /\ \E s \in [1..Cardinality(present) -> present] :
                  /\ {s[i] : i \in DOMAIN s} = present
                  /\ burst' = [i \in DOMAIN s |->
                                 [key |-> s[i], rv |-> Now(s[i])]]
             /\ pos' = Len(log)
             /\ gap' = gap \cup {k \in Keys : store[k] # 0 /\ Now(k) = 0}
     ELSE /\ burst' = << >>
          /\ pos' = lastSync
          /\ UNCHANGED gap
  /\ UNCHANGED <<serverVars, lastSync, store>>

\* The changes after lastSync are gone: the reflector lists again.
WatchExpired ==
  /\ pc = "watch"
  /\ lastSync # 0
  /\ lastSync < compacted
  /\ pc' = "list"
  /\ UNCHANGED <<serverVars, lastSync, watchVars, store, gap>>

\* watchHandler: an event that was not filtered out for the content of its
\* object is applied to the store, and its resource version is the last one
\* synced.
Handle(k, rv, content, object) ==
  IF Kept(content)
  THEN /\ store' = [store EXCEPT ![k] = object]
       /\ lastSync' = rv
       /\ gap' = gap \ {k}
       /\ got' = TRUE
  ELSE /\ gap' = gap \cup {k}
       /\ UNCHANGED <<store, lastSync, got>>

HandleSynthetic ==
  /\ pc = "watching"
  /\ burst # << >>
  /\ Handle(Head(burst).key, Head(burst).rv, Head(burst).rv, Head(burst).rv)
  /\ burst' = Tail(burst)
  /\ UNCHANGED <<serverVars, pc, pos>>

\* Mutant of HandleChange: a deletion is taken for an update.
HandleChange_NoDelete ==
  /\ pc = "watching"
  /\ burst = << >>
  /\ pos < Len(log)
  /\ Handle(log[pos + 1].key, pos + 1, pos + 1, pos + 1)
  /\ pos' = pos + 1
  /\ UNCHANGED <<serverVars, pc, burst>>

\* The object of a deletion is the last one there was, with the resource
\* version of the deletion.
HandleChange ==
  /\ pc = "watching"
  /\ burst = << >>
  /\ pos < Len(log)
  /\ LET change == log[pos + 1]
     IN IF change.type = "DELETED"
        THEN Handle(change.key, pos + 1, At(change.key, pos), 0)
        ELSE Handle(change.key, pos + 1, pos + 1, pos + 1)
  /\ pos' = pos + 1
  /\ UNCHANGED <<serverVars, pc, burst>>

\* A bookmark says that everything up to pos has been delivered.
HandleBookmark ==
  /\ pc = "watching"
  /\ burst = << >>
  /\ pos # 0
  /\ lastSync' = pos
  /\ got' = TRUE
  /\ UNCHANGED <<serverVars, pc, burst, pos, store, gap>>

\* The watch ends.  The reflector watches again, from lastSync; after an error,
\* or a short watch without an event, it lists again.  Synthetic events that
\* were not delivered and are not newer than lastSync will not come again.
WatchCloses(next) ==
  /\ pc = "watching"
  /\ next = "list" \/ got \/ burst = << >>
  /\ pc' = next
  /\ burst' = << >>
  /\ gap' = gap \cup {burst[i].key : i \in {j \in 1..Len(burst) :
                        /\ burst[j].rv <= lastSync
                        /\ store[burst[j].key] # burst[j].rv}}
  /\ UNCHANGED <<serverVars, lastSync, pos, got, store>>

-----------------------------------------------------------------------------

Reflect ==
  \/ List
  \/ ListFails
  \/ Watch
  \/ WatchExpired
  \/ HandleSynthetic
  \/ HandleChange

Next ==
  \/ \E k \in Keys, type \in {"ADDED", "MODIFIED", "DELETED"} : Change(k, type)
  \/ Compact
  \/ Reflect
  \/ HandleBookmark
  \/ \E next \in {"list", "watch"} : WatchCloses(next)

Spec == Init /\ [][Next]_vars

\* The reflector's loop runs.
FairSpec ==
  /\ Spec
  /\ WF_vars(List)
  /\ WF_vars(Watch \/ WatchExpired)
  /\ WF_vars(HandleSynthetic)
  /\ WF_vars(HandleChange)

-----------------------------------------------------------------------------
(* Properties.                                                               *)

CaughtUp == pc = "watching" /\ burst = << >> /\ pos = Len(log)

\* A watch that has delivered everything leaves the cache as the API server has
\* it, but for the changes that are known to have been skipped: a deletion
\* between list and watch, what a broken initial burst did not deliver, and
\* objects that cannot be converted.
CaughtUpIsCurrent ==
  CaughtUp => \A k \in Keys : store[k] = Now(k) \/ k \in gap

\* Once a watch stays up, the cache becomes and stays what the API server has,
\* whatever lists and watches went wrong before.
StableWatchConverges ==
  <>[](pc = "watching") =>
    \A k \in Keys : <>[](store[k] = Now(k) \/ k \in gap)

-----------------------------------------------------------------------------
(* What a comment in the code says, and the code does not do.              *)

\* reflector.go:50 "causes all changes to be reflected in the given store": no
\* policy that was deleted stays in the cache once the watch has caught up.
DeletionsReflected ==
  CaughtUp => \A k \in Keys : Now(k) = 0 => store[k] = 0
=============================================================================
