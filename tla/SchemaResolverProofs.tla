------------------------ MODULE SchemaResolverProofs ------------------------
(***************************************************************************)
(* Proofs about the caching schema resolver: the write lock is held by     *)
(* exactly the caller that makes a request, and no caller is given a       *)
(* schema older than one that was returned before its call began.          *)
(***************************************************************************)
EXTENDS SchemaResolver, FiniteSetTheorems, TLAPS

-----------------------------------------------------------------------------
(* The inductive invariant *)

\* Discovery is never ahead of the CRDs, so what it serves only grows.
ServedBehind == \A k \in Kinds : served[k] <= crd[k]

\* Nothing that was stored, is on its way to a caller or has been returned is
\* newer than what discovery serves.
Bounded ==
  /\ \A g \in GVKs : returned[g] <= served[g[1]] /\ cache[g].rev <= served[g[1]]
  /\ \A c \in Callers :
       pc[c] \in {"store", "return"} => result[c].rev <= served[gvk[c][1]]

\* A schema e of g is as new as all that callers were given, or are about to
\* be given, of g.
Newest(e, g) ==
  ~e.failed => /\ returned[g] <= e.rev
               /\ \A d \in Callers :
                    pc[d] = "return" /\ gvk[d] = g => result[d].rev <= e.rev

\* It is so for the cache, and for what the holder of the lock will store:
\* the request was made with the lock held, so nobody has stored since.
CacheNewest == \A g \in GVKs : cache[g].cached => Newest(cache[g], g)
StoreNewest == \A c \in Callers : pc[c] = "store" => Newest(result[c], gvk[c])

\* A caller's floor is what had been returned when its call began.
FloorReturned ==
  \A c \in Callers : pc[c] # "idle" => floor[c] <= returned[gvk[c]]

Inv ==
  /\ TypeOK
  /\ ServedBehind
  /\ Bounded
  /\ CacheNewest
  /\ StoreNewest
  /\ FloorReturned
  /\ ReadsNeverGoBack

-----------------------------------------------------------------------------

USE DEF vars, environmentVars, callerVars

\* An empty cache satisfies the invariant.
LEMMA InitInv == Init => Inv
<1> SUFFICES ASSUME Init PROVE Inv
    OBVIOUS
<1> USE SchemaAssumption
<1>1. NoEntry \in Entry
    BY DEF NoEntry, Entry
<1>2. crd \in [Kinds -> 0..MaxRev]
    BY DEF Init
<1>3. TypeOK
  <2>1. /\ served \in [Kinds -> 0..MaxRev]
        /\ cache \in [GVKs -> Entry]
        /\ handled \in [Kinds -> Nat]
      BY <1>1, <1>2 DEF Init
  <2>4. events \in Seq(Kinds)
      BY DEF Init
  <2>5. running \in BOOLEAN
      BY DEF Init
  <2>2. /\ lock \in Callers \cup {NoCaller}
        /\ pc \in [Callers -> {"idle", "check", "lock", "fetch", "store", "return"}]
        /\ gvk \in [Callers -> GVKs]
        /\ \A c \in Callers : pc[c] \in {"fetch", "store"} <=> lock = c
      BY DEF Init
  <2>3. /\ result \in [Callers -> Entry]
        /\ calls \in [Callers -> 0..MaxCalls]
        /\ returned \in [GVKs -> 0..MaxRev]
        /\ floor \in [Callers -> 0..MaxRev]
      BY <1>1 DEF Init
  <2> QED
      BY <1>2, <2>1, <2>2, <2>3, <2>4, <2>5 DEF TypeOK
<1>4. ServedBehind /\ Bounded
    BY <1>2 DEF Init, ServedBehind, Bounded, NoEntry, GVKs
<1>5. CacheNewest /\ StoreNewest /\ FloorReturned /\ ReadsNeverGoBack
    BY DEF Init, CacheNewest, StoreNewest, FloorReturned, ReadsNeverGoBack, NoEntry
<1> QED
    BY <1>3, <1>4, <1>5 DEF Inv

\* CRDs change, and discovery and the informer follow.
LEMMA EnvironmentLemma ==
  ASSUME Inv, \/ \E k \in Kinds : CRDChange(k) \/ Publish(k)
              \/ Run
              \/ HandleEvent
  PROVE  Inv'
<1> USE SchemaAssumption
<1>1. TypeOK /\ ServedBehind /\ Bounded
    BY DEF Inv
<1>2. ASSUME NEW k \in Kinds, CRDChange(k) PROVE Inv'
  <2>1. TypeOK'
      BY <1>1, <1>2 DEF TypeOK, CRDChange
  <2>2. ServedBehind'
      BY <1>1, <1>2 DEF TypeOK, CRDChange, ServedBehind
  <2> QED
      BY <1>2, <2>1, <2>2 DEF Inv, CRDChange, Bounded, CacheNewest, StoreNewest,
        Newest, FloorReturned, ReadsNeverGoBack
<1>3. ASSUME NEW k \in Kinds, Publish(k) PROVE Inv'
  <2>1. TypeOK' /\ ServedBehind'
      BY <1>1, <1>3 DEF TypeOK, Publish, ServedBehind
  <2>2. \A j \in Kinds : served[j] <= served'[j]
      BY <1>1, <1>3 DEF TypeOK, Publish, ServedBehind
  <2>3. \A g \in GVKs, n \in Nat : n <= served[g[1]] => n <= served'[g[1]]
    <3>1. \A j \in Kinds : served[j] \in Nat /\ served'[j] \in Nat
        BY <1>1, <2>1 DEF TypeOK
    <3>2. \A g \in GVKs : g[1] \in Kinds
        BY DEF GVKs
    <3> QED
        BY <2>2, <3>1, <3>2
  <2>4. Bounded'
    <3>1. \A g \in GVKs : returned[g] \in Nat /\ cache[g].rev \in Nat
        BY <1>1 DEF TypeOK, Entry
    <3>2. \A c \in Callers : gvk[c] \in GVKs /\ result[c].rev \in Nat
        BY <1>1 DEF TypeOK, Entry
    <3> QED
        BY <1>1, <1>3, <2>3, <3>1, <3>2 DEF Publish, Bounded
  <2> QED
      BY <1>3, <2>1, <2>4 DEF Inv, Publish, CacheNewest, StoreNewest, Newest,
        FloorReturned, ReadsNeverGoBack
<1>4. CASE Run
  <2>1. events' \in Seq(Kinds)
    <3> DEFINE present == {j \in Kinds : crd[j] > 0}
    <3>1. Cardinality(present) \in Nat
        BY FS_Subset, FS_CardinalityType
    <3>2. PICK s \in [1..Cardinality(present) -> present] : events' = s
        BY <1>4 DEF Run
    <3>3. present \subseteq Kinds
        OBVIOUS
    <3> HIDE DEF present
    <3> QED
        BY <3>1, <3>2, <3>3
  <2>2. TypeOK'
      BY <1>1, <1>4, <2>1 DEF TypeOK, Run
  <2> QED
      BY <1>4, <2>2 DEF Inv, Run, ServedBehind, Bounded, CacheNewest, StoreNewest,
        Newest, FloorReturned, ReadsNeverGoBack
<1>5. CASE HandleEvent
  <2>1. cache' = cache
      BY <1>1, <1>5 DEF HandleEvent, purgeCRDFromCache, GVKs, TypeOK
  <2>2. Head(events) \in Kinds /\ Tail(events) \in Seq(Kinds)
      BY <1>1, <1>5 DEF TypeOK, HandleEvent
  <2>3. events' \in Seq(Kinds)
      BY <1>5, <2>2 DEF HandleEvent
  <2>5. handled' \in [Kinds -> Nat]
    <3> DEFINE h == Head(events)
    <3>1. h \in Kinds /\ handled' = [handled EXCEPT ![h] = @ + 1]
        BY <1>5, <2>2 DEF HandleEvent
    <3> HIDE DEF h
    <3> QED
        BY <1>1, <3>1 DEF TypeOK
  <2>4. TypeOK'
      BY <1>1, <1>5, <2>1, <2>3, <2>5 DEF TypeOK, HandleEvent
  <2> QED
      BY <1>5, <2>1, <2>4 DEF Inv, HandleEvent, ServedBehind, Bounded, CacheNewest,
        StoreNewest, Newest, FloorReturned, ReadsNeverGoBack
<1> QED
    BY <1>2, <1>3, <1>4, <1>5

\* A call of ResolveSchema begins.
LEMMA CallLemma ==
  ASSUME Inv, NEW c \in Callers, NEW g \in GVKs, Call(c, g)
  PROVE  Inv'
<1> USE SchemaAssumption
<1>1. TypeOK /\ ServedBehind /\ Bounded
    BY DEF Inv
<1>2. TypeOK'
    BY <1>1 DEF TypeOK, Call
<1>3. ServedBehind' /\ Bounded'
    BY <1>1 DEF TypeOK, ServedBehind, Bounded, Call
<1>4. CacheNewest' /\ StoreNewest'
    BY <1>1 DEF Inv, TypeOK, CacheNewest, StoreNewest, Newest, Call
<1>5. FloorReturned' /\ ReadsNeverGoBack'
    BY <1>1 DEF Inv, TypeOK, FloorReturned, ReadsNeverGoBack, Call
<1> QED
    BY <1>2, <1>3, <1>4, <1>5 DEF Inv

\* A call under way looks up, locks, fetches, stores or returns.
LEMMA ResolveLemma ==
  ASSUME Inv, NEW c \in Callers, ResolveSchema(c)
  PROVE  Inv'
<1> USE SchemaAssumption
<1>1. /\ TypeOK /\ ServedBehind /\ Bounded
      /\ CacheNewest /\ StoreNewest /\ FloorReturned /\ ReadsNeverGoBack
    BY DEF Inv
<1>2. ServedBehind'
    BY <1>1 DEF ServedBehind, ResolveSchema, resolveSchemaFromCache, Lock, Fetch, Store, Return
<1>3. CASE resolveSchemaFromCache(c)
  <2> DEFINE g == gvk[c]
  <2>1. g \in GVKs /\ cache[g] \in Entry
      BY <1>1 DEF TypeOK
  <2>2. UNCHANGED <<environmentVars, running, cache, lock, gvk, calls, floor, returned,
                    handled>>
      BY <1>3 DEF resolveSchemaFromCache
  <2>3. \A d \in Callers : pc[d] # "store"
      BY <1>1, <1>3 DEF TypeOK, resolveSchemaFromCache
  <2>4. CASE cache[g].cached
    <3>1. /\ pc' = [pc EXCEPT ![c] = "return"]
          /\ result' = [result EXCEPT ![c] = cache[g]]
        BY <1>3, <2>4 DEF resolveSchemaFromCache
    <3>2. Newest(cache[g], g) /\ floor[c] <= returned[g]
        BY <1>1, <1>3, <2>1, <2>4 DEF CacheNewest, FloorReturned, resolveSchemaFromCache
    <3>3. cache[g].rev \in Nat /\ returned[g] \in Nat /\ floor[c] \in Nat
        BY <1>1, <2>1 DEF TypeOK, Entry
    <3>4. /\ \A d \in Callers : d # c => pc'[d] = pc[d] /\ result'[d] = result[d]
          /\ pc'[c] = "return" /\ result'[c] = cache[g]
        BY <1>1, <3>1 DEF TypeOK
    <3>5. TypeOK'
        BY <1>1, <1>3, <2>1, <2>2, <3>1 DEF TypeOK, resolveSchemaFromCache
    <3>6. Bounded'
        BY <1>1, <2>1, <2>2, <3>4 DEF Bounded
    <3>7. CacheNewest'
        BY <1>1, <2>2, <3>3, <3>4 DEF CacheNewest, Newest
    <3>8. StoreNewest' /\ FloorReturned'
        BY <1>1, <1>3, <2>2, <2>3, <3>4 DEF StoreNewest, FloorReturned, resolveSchemaFromCache
    <3>9. ReadsNeverGoBack'
        BY <1>1, <2>2, <3>2, <3>3, <3>4 DEF ReadsNeverGoBack, Newest
    <3> QED
        BY <1>2, <3>5, <3>6, <3>7, <3>8, <3>9 DEF Inv
  <2>5. CASE ~cache[g].cached
    <3>1. pc' = [pc EXCEPT ![c] = "lock"] /\ result' = result
        BY <1>3, <2>5 DEF resolveSchemaFromCache
    <3>2. TypeOK'
        BY <1>1, <1>3, <2>2, <3>1 DEF TypeOK, resolveSchemaFromCache
    <3>3. Bounded' /\ CacheNewest' /\ StoreNewest' /\ FloorReturned' /\ ReadsNeverGoBack'
        BY <1>1, <1>3, <2>2, <3>1 DEF TypeOK, Bounded, CacheNewest, StoreNewest, Newest,
          FloorReturned, ReadsNeverGoBack, resolveSchemaFromCache
    <3> QED
        BY <1>2, <3>2, <3>3 DEF Inv
  <2> QED
      BY <2>4, <2>5
<1>4. CASE Lock(c)
  <2>1. TypeOK'
      BY <1>1, <1>4 DEF TypeOK, Lock
  <2>2. Bounded' /\ CacheNewest' /\ StoreNewest' /\ FloorReturned' /\ ReadsNeverGoBack'
      BY <1>1, <1>4 DEF TypeOK, Lock, Bounded, CacheNewest, StoreNewest, Newest,
        FloorReturned, ReadsNeverGoBack
  <2> QED
      BY <1>2, <2>1, <2>2 DEF Inv
<1>5. CASE Fetch(c)
  <2> DEFINE k == gvk[c][1]
  <2>1. k \in Kinds
      BY <1>1 DEF TypeOK, GVKs
  <2>2. PICK failed \in BOOLEAN :
          result' = [result EXCEPT ![c] =
                       [cached |-> TRUE, failed |-> failed, gen |-> handled[k],
                        rev |-> IF failed THEN 0 ELSE served[k]]]
      BY <1>5 DEF Fetch
  <2>3. /\ result'[c] \in Entry
        /\ result'[c].failed = failed
        /\ result'[c].rev = IF failed THEN 0 ELSE served[k]
      BY <1>1, <2>1, <2>2 DEF TypeOK, Entry
  <2>4. \A d \in Callers : d # c => result'[d] = result[d]
      BY <1>1, <2>2 DEF TypeOK
  <2>5. result' \in [Callers -> Entry]
      BY <1>1, <2>2, <2>3 DEF TypeOK
  <2>6. pc' = [pc EXCEPT ![c] = "store"] /\ UNCHANGED <<environmentVars, running, cache,
          lock, gvk, calls, floor, returned, handled>>
      BY <1>5 DEF Fetch
  <2>7. TypeOK'
      BY <1>1, <1>5, <2>5, <2>6 DEF TypeOK, Fetch
  <2>8. Bounded'
      BY <1>1, <2>1, <2>3, <2>4, <2>6 DEF TypeOK, Bounded
  <2>9. CacheNewest' /\ FloorReturned' /\ ReadsNeverGoBack'
      BY <1>1, <1>5, <2>4, <2>6 DEF TypeOK, Fetch, CacheNewest, Newest, FloorReturned,
        ReadsNeverGoBack
  <2>10. StoreNewest'
    <3>1. \A d \in Callers : pc'[d] = "store" => d = c
        BY <1>1, <1>5, <2>6 DEF TypeOK, Fetch
    <3>2. Newest(result[c], gvk[c])'
        BY <1>1, <2>3, <2>4, <2>6 DEF TypeOK, Bounded, Newest
    <3> QED
        BY <3>1, <3>2 DEF StoreNewest
  <2> QED
      BY <1>2, <2>7, <2>8, <2>9, <2>10 DEF Inv
<1>6. CASE Store(c)
  <2>1. TypeOK'
      BY <1>1, <1>6 DEF TypeOK, Store
  <2>2. Bounded'
      BY <1>1, <1>6 DEF TypeOK, Store, Bounded
  <2>3. CacheNewest'
      BY <1>1, <1>6 DEF TypeOK, Store, CacheNewest, StoreNewest, Newest, Entry
  <2>4. StoreNewest' /\ FloorReturned'
      BY <1>1, <1>6 DEF TypeOK, Store, StoreNewest, Newest, FloorReturned
  <2>5. ReadsNeverGoBack'
    <3>1. Newest(result[c], gvk[c]) /\ floor[c] <= returned[gvk[c]]
        BY <1>1, <1>6 DEF Store, StoreNewest, FloorReturned
    <3>2. result[c].rev \in Nat /\ returned[gvk[c]] \in Nat /\ floor[c] \in Nat
        BY <1>1 DEF TypeOK, Entry
    <3>3. \A d \in Callers : d # c => pc'[d] = pc[d]
        BY <1>1, <1>6 DEF TypeOK, Store
    <3> QED
        BY <1>1, <1>6, <3>1, <3>2, <3>3 DEF Store, Newest, ReadsNeverGoBack
  <2> QED
      BY <1>2, <2>1, <2>2, <2>3, <2>4, <2>5 DEF Inv
<1>7. CASE Return(c)
  <2>1. TypeOK'
      BY <1>1, <1>7 DEF TypeOK, Return, Entry
  <2>2. Bounded'
      BY <1>1, <1>7 DEF TypeOK, Return, Bounded, Entry
  <2>3. CacheNewest' /\ StoreNewest'
      BY <1>1, <1>7 DEF TypeOK, Return, CacheNewest, StoreNewest, Newest, Entry
  <2>4. FloorReturned'
      BY <1>1, <1>7 DEF TypeOK, Return, FloorReturned, Entry
  <2>5. ReadsNeverGoBack'
      BY <1>1, <1>7 DEF TypeOK, Return, ReadsNeverGoBack
  <2> QED
      BY <1>2, <2>1, <2>2, <2>3, <2>4, <2>5 DEF Inv
<1> QED
    BY <1>3, <1>4, <1>5, <1>6, <1>7 DEF ResolveSchema

\* A step of nobody.
LEMMA StutterLemma == ASSUME Inv, UNCHANGED vars PROVE Inv'
  BY DEF Inv, TypeOK, ServedBehind, Bounded, CacheNewest, StoreNewest, Newest,
    FloorReturned, ReadsNeverGoBack

-----------------------------------------------------------------------------
(* The theorems *)

\* Every reachable state satisfies the inductive invariant.
THEOREM Invariance == Spec => []Inv
<1>1. ASSUME Inv, [Next]_vars PROVE Inv'
    BY <1>1, EnvironmentLemma, CallLemma, ResolveLemma, StutterLemma DEF Next, Quiescent
<1> QED
    BY InitInv, <1>1, PTL DEF Spec

\* The types; and the caller that makes a request and stores its result is
\* the one that holds the write lock, whatever the number of callers
\* (resolver.go:75-91).
THEOREM TypeCorrect == Spec => []TypeOK
<1>1. Inv => TypeOK
    BY DEF Inv
<1> QED
    BY Invariance, <1>1, PTL

\* No call returns a schema older than one that had been returned, for the
\* same GVK, when the call began (resolver.go:66-91).
THEOREM SchemasNeverGoBack == Spec => []ReadsNeverGoBack
<1>1. Inv => ReadsNeverGoBack
    BY DEF Inv
<1> QED
    BY Invariance, <1>1, PTL

=============================================================================
