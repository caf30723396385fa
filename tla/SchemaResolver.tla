---------------------------- MODULE SchemaResolver ----------------------------
(***************************************************************************)
(* The caching schema resolver of pkg/controller/schemaresolver: callers   *)
(* of ResolveSchema look in the cache under the read lock, and on a miss   *)
(* take the write lock and hold it across the discovery request; the       *)
(* handlers of a CRD informer purge the cache, each under the write lock.  *)
(*                                                                         *)
(* A schema is abstracted to the revision of its CRD.  The OpenAPI         *)
(* document is published some time after the CRD has changed, and a        *)
(* discovery request may fail.                                             *)
(***************************************************************************)
EXTENDS Naturals, Sequences, FiniteSets

CONSTANTS Callers,    \* the goroutines that call ResolveSchema
          Kinds,      \* the group kinds that CRDs define
          Versions,   \* the versions of a group
          EventKind,  \* the group kind that GetObjectKind of a CRD object says
          NoCaller,   \* nobody holds the write lock
          MaxRev,     \* bound: changes of one CRD
          MaxCalls    \* bound: calls of one caller

GVKs == Kinds \X Versions

ASSUME SchemaAssumption ==
  /\ IsFiniteSet(Kinds)
  /\ EventKind \notin Kinds
  /\ NoCaller \notin Callers
  /\ MaxRev \in Nat \ {0}
  /\ MaxCalls \in Nat

VARIABLES
  crd,        \* per kind, the revision of its CRD; 0 before it is created
  served,     \* per kind, the revision of the schema that discovery serves
  events,     \* kinds whose CRD event the informer has yet to deliver
  running,    \* Run has registered its handlers
  cache,      \* the cached entries
  lock,       \* the caller that holds the write lock
  pc,         \* where each caller is
  gvk,        \* what each caller resolves
  result,     \* what each caller returns
  calls,      \* history: the calls each caller has begun
  returned,   \* history: per GVK, the newest revision a call has returned
  floor,      \* history: "returned" when the caller's call began
  handled     \* history: per kind, the number of its events handled

environmentVars == <<crd, served, events>>
callerVars == <<pc, gvk, result, calls, floor>>
vars == <<environmentVars, running, cache, lock, callerVars, returned, handled>>

\* cacheEntry.  A failure is an entry as well.  The history field "gen" is the
\* number of events of the kind that had been handled when it was stored.
NoEntry == [cached |-> FALSE, failed |-> FALSE, rev |-> 0, gen |-> 0]
Entry == [cached : BOOLEAN, failed : BOOLEAN, rev : 0..MaxRev, gen : Nat]

\* The types; and a caller holds the write lock exactly while it makes the
\* request and stores what came of it.
TypeOK ==
  /\ crd \in [Kinds -> 0..MaxRev]
  /\ served \in [Kinds -> 0..MaxRev]
  /\ events \in Seq(Kinds)
  /\ running \in BOOLEAN
  /\ cache \in [GVKs -> Entry]
  /\ lock \in Callers \cup {NoCaller}
  /\ pc \in [Callers -> {"idle", "check", "lock", "fetch", "store", "return"}]
  /\ gvk \in [Callers -> GVKs]
  /\ result \in [Callers -> Entry]
  /\ calls \in [Callers -> 0..MaxCalls]
  /\ returned \in [GVKs -> 0..MaxRev]
  /\ floor \in [Callers -> 0..MaxRev]
  /\ handled \in [Kinds -> Nat]
  /\ \A c \in Callers : pc[c] \in {"fetch", "store"} <=> lock = c

\* New: an empty cache.  CRDs may exist already.
Init ==
  /\ crd \in [Kinds -> {0, 1}]
  /\ served = crd
  /\ events = << >>
  /\ running = FALSE
  /\ cache = [g \in GVKs |-> NoEntry]
  /\ lock = NoCaller
  /\ pc = [c \in Callers |-> "idle"]
  /\ gvk \in [Callers -> GVKs]
  /\ result = [c \in Callers |-> NoEntry]
  /\ calls = [c \in Callers |-> 0]
  /\ returned = [g \in GVKs |-> 0]
  /\ floor = [c \in Callers |-> 0]
  /\ handled = [k \in Kinds |-> 0]

-----------------------------------------------------------------------------
(* The API server and the informer.                                          *)

\* A CRD is created or updated; a registered informer will say so.
CRDChange(k) ==
  /\ crd[k] < MaxRev
  /\ crd' = [crd EXCEPT ![k] = @ + 1]
  /\ events' = IF running THEN Append(events, k) ELSE events
  /\ UNCHANGED <<served, running, cache, lock, callerVars, returned, handled>>

\* The OpenAPI document catches up with the CRD.
Publish(k) ==
  /\ served[k] # crd[k]
  /\ served' = [served EXCEPT ![k] = crd[k]]
  /\ UNCHANGED <<crd, events, running, cache, lock, callerVars, returned,
                 handled>>

\* Run: AddEventHandler, which replays the CRDs there are.
Run ==
  /\ ~running
  /\ running' = TRUE
  /\ LET present == {k \in Kinds : crd[k] > 0}
     IN \E s \in [1..Cardinality(present) -> present] :
          /\ {s[i] : i \in DOMAIN s} = present
          /\ events' = s
  /\ UNCHANGED <<crd, served, cache, lock, callerVars, returned, handled>>

-----------------------------------------------------------------------------
(* The event handlers.                                                       *)

\* purgeCRDFromCache: every version of the group kind goes.
purgeCRDFromCache(k) ==
  /\ lock = NoCaller
  /\ cache' = [g \in GVKs |-> IF g[1] = k THEN NoEntry ELSE cache[g]]

\* The handlers purge what GetObjectKind of the CRD object says, which is the
\* kind of the object itself and not the kind that it defines.
HandleEvent ==
  /\ events # << >>
  /\ events' = Tail(events)
  /\ purgeCRDFromCache(EventKind)
  /\ handled' = [handled EXCEPT ![Head(events)] = @ + 1]
  /\ UNCHANGED <<crd, served, running, lock, callerVars, returned>>

-----------------------------------------------------------------------------
(* ResolveSchema.                                                            *)

Call(c, g) ==
  /\ pc[c] = "idle"
  /\ calls[c] < MaxCalls
  /\ calls' = [calls EXCEPT ![c] = @ + 1]
  /\ pc' = [pc EXCEPT ![c] = "check"]
  /\ gvk' = [gvk EXCEPT ![c] = g]
  /\ floor' = [floor EXCEPT ![c] = returned[g]]
  /\ UNCHANGED <<environmentVars, running, cache, lock, result, returned,
                 handled>>

\* resolveSchemaFromCache, under the read lock.
resolveSchemaFromCache(c) ==
  /\ pc[c] = "check"
  /\ lock = NoCaller
  /\ IF cache[gvk[c]].cached
     THEN /\ pc' = [pc EXCEPT ![c] = "return"]
          /\ result' = [result EXCEPT ![c] = cache[gvk[c]]]
     ELSE /\ pc' = [pc EXCEPT ![c] = "lock"]
          /\ UNCHANGED result
  /\ UNCHANGED <<environmentVars, running, cache, lock, gvk, calls, floor,
                 returned, handled>>

\* Mutant of Lock: the request is made without the write lock.
Lock_Skipped(c) ==
  /\ pc[c] = "lock"
  /\ pc' = [pc EXCEPT ![c] = "fetch"]
  /\ UNCHANGED <<environmentVars, running, cache, lock, gvk, result, calls,
                 floor, returned, handled>>

\* The cache is not looked at again once the write lock is held.
Lock(c) ==
  /\ pc[c] = "lock"
  /\ lock = NoCaller
  /\ lock' = c
  /\ pc' = [pc EXCEPT ![c] = "fetch"]
  /\ UNCHANGED <<environmentVars, running, cache, gvk, result, calls, floor,
                 returned, handled>>

\* The discovery request: a kind that is not served is an error, and the
\* request itself may fail.
Fetch(c) ==
  /\ pc[c] = "fetch"
  /\ \E failed \in BOOLEAN :
       LET k == gvk[c][1] IN
       /\ served[k] = 0 => failed
       /\ result' = [result EXCEPT ![c] =
                       [cached |-> TRUE, failed |-> failed, gen |-> handled[k],
                        rev |-> IF failed THEN 0 ELSE served[k]]]
  /\ pc' = [pc EXCEPT ![c] = "store"]
  /\ UNCHANGED <<environmentVars, running, cache, lock, gvk, calls, floor,
                 returned, handled>>

\* Mutant of Store: the lock is kept when the request has failed.
Store_KeepsLock(c) ==
  /\ pc[c] = "store"
  /\ cache' = [cache EXCEPT ![gvk[c]] = result[c]]
  /\ lock' = IF result[c].failed THEN lock ELSE NoCaller
  /\ pc' = [pc EXCEPT ![c] = "return"]
  /\ UNCHANGED <<environmentVars, running, gvk, result, calls, floor, returned,
                 handled>>

\* The entry is stored, whatever it is, and the deferred Unlock runs.
Store(c) ==
  /\ pc[c] = "store"
  /\ cache' = [cache EXCEPT ![gvk[c]] = result[c]]
  /\ lock' = NoCaller
  /\ pc' = [pc EXCEPT ![c] = "return"]
  /\ UNCHANGED <<environmentVars, running, gvk, result, calls, floor, returned,
                 handled>>

Return(c) ==
  /\ pc[c] = "return"
  /\ pc' = [pc EXCEPT ![c] = "idle"]
  /\ returned' = [returned EXCEPT ![gvk[c]] =
                    IF result[c].rev > @ THEN result[c].rev ELSE @]
  /\ UNCHANGED <<environmentVars, running, cache, lock, gvk, result, calls,
                 floor, handled>>

ResolveSchema(c) ==
  \/ resolveSchemaFromCache(c)
  \/ Lock(c)
  \/ Fetch(c)
  \/ Store(c)
  \/ Return(c)

-----------------------------------------------------------------------------

\* With every call made, an idle resolver has nothing left to do.
Quiescent ==
  /\ \A c \in Callers : pc[c] = "idle" /\ calls[c] = MaxCalls
  /\ UNCHANGED vars

Next ==
  \/ \E k \in Kinds : CRDChange(k) \/ Publish(k)
  \/ Run
  \/ HandleEvent
  \/ \E c \in Callers : \/ \E g \in GVKs : Call(c, g)
                        \/ ResolveSchema(c)
  \/ Quiescent

Spec == Init /\ [][Next]_vars

\* Requests end and a sync.RWMutex starves nobody.
FairSpec ==
  /\ Spec
  /\ \A c \in Callers :
       /\ WF_vars(ResolveSchema(c))
       /\ SF_vars(resolveSchemaFromCache(c))
       /\ SF_vars(Lock(c))

-----------------------------------------------------------------------------
(* Properties.                                                               *)

\* A call that begins after another one has returned a schema does not return
\* an older schema for the same GVK: requests are made, and their results
\* stored, one at a time.
ReadsNeverGoBack ==
  \A c \in Callers :
    pc[c] = "return" /\ ~result[c].failed => result[c].rev >= floor[c]

\* Every call returns, however many callers miss the cache at once.
CallsReturn == \A c \in Callers : pc[c] = "check" ~> pc[c] = "idle"

\* resolver.go:23-24 "paired with a CRD informer that purges CRD GVs from cache
\* when they are updated": no entry is older than the last event of its kind
\* that a handler has seen.
PurgedWhenUpdated ==
  \A g \in GVKs : cache[g].cached => cache[g].gen = handled[g[1]]
=============================================================================
