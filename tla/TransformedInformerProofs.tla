---------------------- MODULE TransformedInformerProofs ----------------------
(***************************************************************************)
(* Proofs about the policy informer over the transformed client, for any   *)
(* number of policies and changes and any objects that do not convert:     *)
(* a watch that has delivered everything leaves the cache as the API       *)
(* server has it, but for the changes that are known to be skipped.        *)
(***************************************************************************)
EXTENDS TransformedInformer, FiniteSetTheorems, WellFoundedInduction, TLAPS

-----------------------------------------------------------------------------
(* The inductive invariant *)

\* A change of k after p, which a watch that has got to p will deliver.
Coming(k, p) == \E i \in p + 1..Len(log) : log[i].key = k

\* The cache has what the change numbered p left of k, or will hear of k
\* again, or k is known to have been skipped.
Reflected(k, p) == k \in gap \/ store[k] = At(k, p) \/ Coming(k, p)

\* The synthetic events that are due are of the state the watch began with.
BurstOfPos ==
  pc = "watching" =>
    \A i \in 1..Len(burst) : burst[i].rv # 0 /\ burst[i].rv = At(burst[i].key, pos)

Due(k) == \E i \in 1..Len(burst) : burst[i].key = k

Watching ==
  pc = "watching" => /\ lastSync <= pos
                     /\ \A k \in Keys : Reflected(k, pos) \/ Due(k)

\* A watch can be resumed from lastSync.
Resumable ==
  pc = "watch" /\ lastSync # 0 => \A k \in Keys : Reflected(k, lastSync)

Inv ==
  /\ TypeOK
  /\ BurstOfPos
  /\ Watching
  /\ Resumable

-----------------------------------------------------------------------------
(* Lemmas about Max and At *)

\* What is not less than the others is the maximum.
LEMMA MaxIs ==
  ASSUME NEW S \in SUBSET Nat, NEW x \in S, \A y \in S : x >= y
  PROVE  Max(S) = x
<1>1. \A z \in S : (\A y \in S : z >= y) => z = x
    OBVIOUS
<1> QED
    BY <1>1 DEF Max

\* A set of numbers with a bound has a maximum.
LEMMA MaxLemma ==
  ASSUME NEW n \in Nat, NEW S \in SUBSET (1..n), S # {}
  PROVE  Max(S) \in S /\ \A y \in S : Max(S) >= y
<1> DEFINE T == {n - x : x \in S}
<1>1. T \subseteq Nat /\ T # {}
  <2>1. \A x \in S : n - x \in Nat
      OBVIOUS
  <2> QED
      BY <2>1
<1>2. PICK t \in T : \A u \in T : ~(<<u, t>> \in OpToRel(<, Nat))
    BY <1>1, NatLessThanWellFounded, WFMin
<1>3. \A u, v \in Nat : u < v => <<u, v>> \in OpToRel(<, Nat)
    BY DEF OpToRel
<1>4. \A u \in T : ~(u < t)
    BY <1>1, <1>2, <1>3
<1>5. PICK x \in S : t = n - x
    OBVIOUS
<1>6. \A y \in S : x >= y
  <2>1. ASSUME NEW y \in S PROVE x >= y
    <3>1. n - y \in T /\ x \in Nat /\ y \in Nat
        OBVIOUS
    <3>2. ~(n - y < n - x)
        BY <1>4, <1>5, <3>1
    <3> QED
        BY <3>1, <3>2
  <2> QED
      BY <2>1
<1>7. Max(S) = x
  <2>1. S \in SUBSET Nat
      OBVIOUS
  <2> QED
      BY <1>6, <2>1, MaxIs
<1> QED
    BY <1>6, <1>7

Changes(k, r) == {i \in 1..r : log[i].key = k}

\* At, in terms of the changes of a key.
LEMMA AtIs ==
  ASSUME NEW k, NEW r
  PROVE  At(k, r) = IF Changes(k, r) = {} THEN 0
                    ELSE IF log[Max(Changes(k, r))].type = "DELETED" THEN 0
                    ELSE Max(Changes(k, r))
  BY DEF At, Changes

\* What the API server held at r is a version of k, and the last one then.
LEMMA AtRange ==
  ASSUME NEW k, NEW r \in Nat
  PROVE  /\ At(k, r) \in 0..r
         /\ At(k, r) # 0 => /\ log[At(k, r)].key = k
                            /\ \A i \in At(k, r) + 1..r : log[i].key # k
<1>1. Changes(k, r) \subseteq 1..r
    BY DEF Changes
<1>2. CASE Changes(k, r) = {}
    BY <1>2, AtIs
<1>3. CASE Changes(k, r) # {}
  <2> DEFINE m == Max(Changes(k, r))
  <2>1. m \in Changes(k, r) /\ \A y \in Changes(k, r) : m >= y
      BY <1>1, <1>3, MaxLemma
  <2>2. m \in 1..r /\ log[m].key = k
      BY <2>1 DEF Changes
  <2>3. \A i \in m + 1..r : log[i].key # k
      BY <2>1, <2>2 DEF Changes
  <2>4. At(k, r) \in {0, m}
      BY <1>3, AtIs
  <2> HIDE DEF m
  <2> QED
      BY <2>2, <2>3, <2>4
<1> QED
    BY <1>2, <1>3

\* It stays what it is until k changes.
LEMMA AtSame ==
  ASSUME NEW k, NEW p \in Nat, NEW q \in Nat, p <= q,
         \A i \in p + 1..q : log[i].key # k
  PROVE  At(k, q) = At(k, p)
<1>1. Changes(k, q) = Changes(k, p)
    BY DEF Changes
<1> QED
    BY <1>1, AtIs

\* A change of k sets it.
LEMMA AtChange ==
  ASSUME NEW k, NEW r \in Nat \ {0}, log[r].key = k
  PROVE  At(k, r) = IF log[r].type = "DELETED" THEN 0 ELSE r
<1>1. r \in Changes(k, r) /\ Changes(k, r) \in SUBSET Nat
      /\ \A y \in Changes(k, r) : r >= y
    BY DEF Changes
<1>2. Max(Changes(k, r)) = r
    BY <1>1, MaxIs
<1> QED
    BY <1>1, <1>2, AtIs

\* Later changes do not touch it.
LEMMA AtAppend ==
  ASSUME log \in Seq(Event), NEW e, log' = Append(log, e), NEW k, NEW r \in 0..Len(log)
  PROVE  At(k, r)' = At(k, r)
<1>1. \A i \in 1..Len(log) : log'[i] = log[i]
    OBVIOUS
<1>2. Changes(k, r)' = Changes(k, r)
    BY <1>1 DEF Changes
<1>3. Changes(k, r) # {} => Max(Changes(k, r)) \in 1..Len(log)
  <2>1. Changes(k, r) \in SUBSET (1..r) /\ r \in Nat /\ r <= Len(log) /\ Len(log) \in Nat
      BY DEF Changes
  <2>2. Changes(k, r) # {} => Max(Changes(k, r)) \in Changes(k, r)
      BY <2>1, MaxLemma
  <2> QED
      BY <2>1, <2>2
<1>4. At(k, r)' = IF Changes(k, r)' = {} THEN 0
                  ELSE IF log'[Max(Changes(k, r)')].type = "DELETED" THEN 0
                  ELSE Max(Changes(k, r)')
    BY DEF At, Changes
<1> QED
    BY <1>1, <1>2, <1>3, <1>4, AtIs

-----------------------------------------------------------------------------
(* Every step keeps the invariant *)

USE DEF vars, serverVars, watchVars

\* The log is a sequence of changes.
LEMMA LenNat == ASSUME TypeOK PROVE Len(log) \in Nat /\ log \in Seq(Event)
  BY DEF TypeOK

\* A sequence over a set is one over any larger set.
LEMMA SeqMonotone ==
  ASSUME NEW A, NEW B, A \subseteq B, NEW s \in Seq(A)
  PROVE  s \in Seq(B)
  OBVIOUS

\* A synthetic event is of a policy and has a resource version.
LEMMA BurstTypes ==
  ASSUME TypeOK
  PROVE  /\ Len(burst) \in Nat
         /\ \A i \in 1..Len(burst) : burst[i].key \in Keys /\ burst[i].rv \in 1..Len(log)
<1> DEFINE E == [key : Keys, rv : 1..Len(log)]
<1>1. burst \in Seq(E) /\ \A x \in E : x.key \in Keys /\ x.rv \in 1..Len(log)
    BY DEF TypeOK
<1> HIDE DEF E
<1>2. \A i \in 1..Len(burst) : burst[i] \in E
    BY <1>1
<1> QED
    BY <1>1, <1>2

\* Before the first list.
LEMMA InitInv == Init => Inv
<1> SUFFICES ASSUME Init PROVE Inv
    OBVIOUS
<1>1. Len(log) = 0 /\ log \in Seq(Event)
    BY DEF Init
<1>2. burst \in Seq([key : Keys, rv : 1..Len(log)])
    BY DEF Init
<1>3. got \in BOOLEAN
    BY DEF Init
<1>4. store \in [Keys -> 0..Len(log)]
    BY <1>1 DEF Init
<1>5. /\ Len(log) <= MaxRV /\ compacted \in 0..Len(log) /\ lastSync \in 0..Len(log)
      /\ pos \in 0..Len(log)
    BY <1>1, InformerAssumption DEF Init
<1>6. TypeOK
    BY <1>1, <1>2, <1>3, <1>4, <1>5 DEF Init, TypeOK
<1> QED
    BY <1>6 DEF Init, Inv, BurstOfPos, Watching, Resumable

\* The API server changes a policy.
LEMMA ChangeLemma ==
  ASSUME Inv, NEW k \in Keys, NEW type \in {"ADDED", "MODIFIED", "DELETED"}, Change(k, type)
  PROVE  Inv'
<1>1. TypeOK /\ BurstOfPos /\ Watching /\ Resumable
    BY DEF Inv
<1> DEFINE e == [type |-> type, key |-> k]
<1>2. /\ log' = Append(log, e) /\ e \in Event /\ Len(log) < MaxRV
      /\ UNCHANGED <<compacted, pc, lastSync, watchVars, store, gap>>
    BY DEF Change, Event
<1> HIDE DEF e
<1>3. /\ Len(log) \in Nat /\ log \in Seq(Event) /\ MaxRV \in Nat
      /\ log' \in Seq(Event) /\ Len(log') = Len(log) + 1
      /\ \A i \in 1..Len(log) : log'[i] = log[i]
    BY <1>1, <1>2, LenNat, InformerAssumption
<1>4. TypeOK'
  <2>1. 0..Len(log) \subseteq 0..Len(log') /\ 1..Len(log) \subseteq 1..Len(log')
        /\ Len(log') <= MaxRV
      BY <1>2, <1>3
  <2>2. compacted' \in 0..Len(log') /\ lastSync' \in 0..Len(log') /\ pos' \in 0..Len(log')
        /\ store' \in [Keys -> 0..Len(log')]
      BY <1>1, <1>2, <2>1 DEF TypeOK
  <2>3. burst' \in Seq([key : Keys, rv : 1..Len(log')])
    <3>1. [key : Keys, rv : 1..Len(log)] \subseteq [key : Keys, rv : 1..Len(log')]
        BY <2>1
    <3>2. burst \in Seq([key : Keys, rv : 1..Len(log)]) /\ burst' = burst
        BY <1>1, <1>2 DEF TypeOK
    <3> QED
        BY <3>1, <3>2, SeqMonotone
  <2> QED
      BY <1>1, <1>2, <1>3, <2>1, <2>2, <2>3 DEF TypeOK
<1>5. \A j \in Keys, r \in 0..Len(log) : At(j, r)' = At(j, r)
    BY <1>2, <1>3, AtAppend
<1>6. ASSUME NEW j \in Keys, NEW r \in 0..Len(log), Reflected(j, r) PROVE Reflected(j, r)'
  <2>1. Coming(j, r) => Coming(j, r)'
      BY <1>3 DEF Coming
  <2> QED
      BY <1>2, <1>5, <1>6, <2>1 DEF Reflected
<1>7. pos \in 0..Len(log) /\ lastSync \in 0..Len(log)
      /\ \A i \in 1..Len(burst) : burst[i].key \in Keys
    BY <1>1, BurstTypes DEF TypeOK
<1>8. BurstOfPos'
    BY <1>1, <1>2, <1>5, <1>7 DEF BurstOfPos
<1>9. Watching'
    BY <1>1, <1>2, <1>6, <1>7 DEF Watching, Due
<1>10. Resumable'
    BY <1>1, <1>2, <1>6, <1>7 DEF Resumable
<1> QED
    BY <1>4, <1>8, <1>9, <1>10 DEF Inv

\* The three last parts of the invariant do not depend on got or compacted.
LEMMA FrameLemma ==
  ASSUME BurstOfPos, Watching, Resumable, UNCHANGED <<log, pc, lastSync, burst, pos, store, gap>>
  PROVE  BurstOfPos' /\ Watching' /\ Resumable'
<1>1. \A k, r : At(k, r)' = At(k, r)
    BY DEF At
<1>2. ASSUME NEW k, NEW r PROVE Reflected(k, r)' <=> Reflected(k, r)
    BY <1>1 DEF Reflected, Coming
<1>3. BurstOfPos'
  <2> SUFFICES ASSUME pc = "watching", NEW i \in 1..Len(burst)
               PROVE  burst[i].rv # 0 /\ burst[i].rv = At(burst[i].key, pos)'
      BY DEF BurstOfPos
  <2> QED
      BY <1>1 DEF BurstOfPos
<1>4. Watching'
    BY <1>2 DEF Watching, Due
<1>5. Resumable'
    BY <1>2 DEF Resumable
<1> QED
    BY <1>3, <1>4, <1>5

\* Steps after which neither a watch is open nor one is to be resumed.
LEMMA QuietLemma ==
  ASSUME Inv, Compact \/ List \/ ListFails \/ WatchExpired \/ UNCHANGED vars
  PROVE  Inv'
<1>1. TypeOK /\ BurstOfPos /\ Watching /\ Resumable /\ Len(log) \in Nat
    BY LenNat DEF Inv
<1>2. CASE Compact
  <2>1. compacted' \in 0..Len(log) /\ UNCHANGED <<log, pc, lastSync, watchVars, store, gap>>
      BY <1>1, <1>2 DEF Compact
  <2>2. TypeOK'
      BY <1>1, <2>1 DEF TypeOK
  <2>3. BurstOfPos' /\ Watching' /\ Resumable'
      BY <1>1, <2>1, FrameLemma
  <2> QED
      BY <2>2, <2>3 DEF Inv
<1>3. CASE List
  <2>1. PICK r \in lastSync..Len(log) :
          /\ store' = [k \in Keys |-> At(k, r)]
          /\ lastSync' = 0
          /\ gap' = {}
      BY <1>3 DEF List, ListedVersion
  <2>2. pc' = "watch" /\ UNCHANGED <<log, compacted, burst, pos, got>>
      BY <1>3 DEF List
  <2>3. r \in Nat /\ r <= Len(log)
      BY <1>1 DEF TypeOK
  <2>4. store' \in [Keys -> 0..Len(log)]
    <3>1. \A k \in Keys : At(k, r) \in 0..Len(log)
        BY <1>1, <2>3, AtRange
    <3> QED
        BY <2>1, <3>1
  <2>5. TypeOK'
      BY <1>1, <2>1, <2>2, <2>4 DEF TypeOK
  <2> QED
      BY <2>1, <2>2, <2>5 DEF Inv, BurstOfPos, Watching, Resumable
<1>4. CASE WatchExpired
  <2>1. pc' = "list" /\ UNCHANGED <<log, compacted, lastSync, burst, pos, got, store, gap>>
      BY <1>4 DEF WatchExpired
  <2>2. TypeOK'
      BY <1>1, <2>1 DEF TypeOK
  <2> QED
      BY <2>1, <2>2 DEF Inv, BurstOfPos, Watching, Resumable
<1>5. CASE ListFails \/ UNCHANGED vars
  <2>1. UNCHANGED vars
      BY <1>5 DEF ListFails
  <2>2. TypeOK'
      BY <1>1, <2>1 DEF TypeOK
  <2>3. BurstOfPos' /\ Watching' /\ Resumable'
      BY <1>1, <2>1, FrameLemma
  <2> QED
      BY <2>2, <2>3 DEF Inv
<1> QED
    BY <1>2, <1>3, <1>4, <1>5

\* The reflector opens a watch, from the current state or from lastSync.
LEMMA WatchLemma == ASSUME Inv, Watch PROVE Inv'
<1>1. TypeOK /\ Resumable /\ Len(log) \in Nat
    BY LenNat DEF Inv
<1>2. /\ pc = "watch" /\ pc' = "watching" /\ got' \in BOOLEAN
      /\ UNCHANGED <<log, compacted, lastSync, store>>
    BY DEF Watch
<1>3. \A k, r : At(k, r)' = At(k, r)
    BY <1>2 DEF At
<1>4. Resumable'
    BY <1>2 DEF Resumable
<1>5. CASE lastSync = 0
  <2> DEFINE present == {k \in Keys : Now(k) # 0}
  <2>1. PICK s \in [1..Cardinality(present) -> present] :
          /\ {s[i] : i \in DOMAIN s} = present
          /\ burst' = [i \in DOMAIN s |-> [key |-> s[i], rv |-> Now(s[i])]]
      BY <1>5 DEF Watch
  <2>2. pos' = Len(log) /\ gap' = gap \cup {k \in Keys : store[k] # 0 /\ Now(k) = 0}
      BY <1>5 DEF Watch
  <2>3. Cardinality(present) \in Nat
      BY InformerAssumption, FS_Subset, FS_CardinalityType
  <2>4. \A k \in present : Now(k) \in 1..Len(log) /\ k \in Keys
      BY <1>1, AtRange DEF Now
  <2> DEFINE n == Cardinality(present)
             E == [key : Keys, rv : 1..Len(log)]
  <2>5. /\ burst' \in [1..n -> E]
        /\ \A i \in 1..n : burst'[i].key = s[i] /\ burst'[i].rv = Now(s[i])
    <3>1. \A i \in 1..n : s[i] \in present
        OBVIOUS
    <3> HIDE DEF present
    <3>2. \A i \in 1..n : [key |-> s[i], rv |-> Now(s[i])] \in E
        BY <2>4, <3>1
    <3> QED
        BY <2>1, <3>2
  <2>6. burst' \in Seq(E) /\ Len(burst') = n
    <3> HIDE DEF n, E
    <3>1. n \in Nat
        BY <2>3 DEF n
    <3> QED
        BY <2>5, <3>1
  <2>7. TypeOK'
    <3>1. pos' \in 0..Len(log) /\ gap' \in SUBSET Keys
        BY <1>1, <2>2 DEF TypeOK
    <3> QED
        BY <1>1, <1>2, <2>6, <3>1 DEF TypeOK
  <2>8. BurstOfPos'
    <3> SUFFICES ASSUME NEW i \in 1..n
                 PROVE  burst'[i].rv # 0 /\ burst'[i].rv = At(burst[i].key, pos)'
        BY <2>6 DEF BurstOfPos
    <3>1. s[i] \in present
        OBVIOUS
    <3>2. Now(s[i]) # 0 /\ s[i] \in Keys
        BY <3>1
    <3>3. burst'[i].key = s[i] /\ burst'[i].rv = Now(s[i])
        BY <2>5
    <3>4. Now(s[i]) = At(s[i], Len(log))
        BY DEF Now
    <3> HIDE DEF present, n
    <3> QED
        BY <1>3, <2>2, <3>2, <3>3, <3>4
  <2>9. Watching'
    <3>1. lastSync' <= pos'
        BY <1>1, <1>2, <2>2 DEF TypeOK
    <3>2. ASSUME NEW k \in Keys PROVE Reflected(k, pos)' \/ Due(k)'
      <4>1. CASE Now(k) # 0
        <5>1. k \in present
            BY <4>1
        <5>2. PICK i \in 1..n : s[i] = k
            BY <2>1, <5>1
        <5> QED
            BY <2>5, <2>6, <5>2 DEF Due
      <4>2. CASE Now(k) = 0
        <5>1. k \in gap' \/ store'[k] = 0
            BY <1>2, <2>2, <4>2
        <5>2. At(k, pos)' = 0
            BY <1>3, <2>2, <4>2 DEF Now
        <5> QED
            BY <5>1, <5>2 DEF Reflected
      <4> QED
          BY <4>1, <4>2
    <3> QED
        BY <3>1, <3>2 DEF Watching
  <2> QED
      BY <1>4, <2>7, <2>8, <2>9 DEF Inv
<1>6. CASE lastSync # 0
  <2>1. burst' = << >> /\ pos' = lastSync /\ gap' = gap
      BY <1>6 DEF Watch
  <2>2. TypeOK'
    <3>1. burst' \in Seq([key : Keys, rv : 1..Len(log)])
        BY <2>1
    <3> QED
        BY <1>1, <1>2, <2>1, <3>1 DEF TypeOK
  <2>3. Len(burst') = 0
      BY <2>1
  <2>4. BurstOfPos'
      BY <2>3 DEF BurstOfPos
  <2>5. Watching'
    <3>1. \A k \in Keys : Reflected(k, lastSync)
        BY <1>1, <1>2, <1>6 DEF Resumable
    <3>2. ASSUME NEW k \in Keys PROVE Reflected(k, pos)'
      <4>1. At(k, pos)' = At(k, lastSync)
          BY <1>3, <2>1
      <4> QED
          BY <1>2, <2>1, <3>1, <4>1 DEF Reflected, Coming
    <3>3. lastSync' <= pos'
        BY <1>1, <1>2, <2>1 DEF TypeOK
    <3> QED
        BY <3>2, <3>3 DEF Watching
  <2> QED
      BY <1>4, <2>2, <2>4, <2>5 DEF Inv
<1> QED
    BY <1>5, <1>6

\* What the three handlers of events have in common.
LEMMA HandleTypes ==
  ASSUME TypeOK, NEW k \in Keys, NEW rv \in 1..Len(log), NEW object \in 0..Len(log),
         NEW content, Handle(k, rv, content, object)
  PROVE  /\ store' \in [Keys -> 0..Len(log)]
         /\ lastSync' \in {lastSync, rv}
         /\ gap' \in SUBSET Keys
         /\ got' \in BOOLEAN
         /\ k \in gap' \/ store'[k] = object
         /\ \A j \in Keys \ {k} : store'[j] = store[j] /\ (j \in gap => j \in gap')
<1>1. store \in [Keys -> 0..Len(log)] /\ gap \in SUBSET Keys
    BY DEF TypeOK
<1>2. got \in BOOLEAN
    BY DEF TypeOK
<1>3. CASE Kept(content)
    BY <1>1, <1>3 DEF Handle
<1>4. CASE ~Kept(content)
  <2>1. gap' = gap \cup {k} /\ store' = store /\ lastSync' = lastSync /\ got' = got
      BY <1>4 DEF Handle
  <2> QED
      BY <1>1, <1>2, <2>1
<1> QED
    BY <1>3, <1>4

\* An event of the initial burst is handled.
LEMMA SyntheticLemma == ASSUME Inv, HandleSynthetic PROVE Inv'
<1>1. TypeOK /\ BurstOfPos /\ Watching /\ Len(log) \in Nat /\ Len(burst) \in Nat
    BY LenNat, BurstTypes DEF Inv
<1> DEFINE k == Head(burst).key
           rv == Head(burst).rv
           E == [key : Keys, rv : 1..Len(log)]
<1>2. /\ pc = "watching" /\ burst # << >> /\ Handle(k, rv, rv, rv) /\ burst' = Tail(burst)
      /\ UNCHANGED <<log, compacted, pc, pos>>
    BY DEF HandleSynthetic
<1>3. burst \in Seq(E)
    BY <1>1 DEF TypeOK
<1>4. /\ Head(burst) = burst[1] /\ 1 \in 1..Len(burst)
      /\ burst' \in Seq(E) /\ Len(burst') = Len(burst) - 1
      /\ \A i \in 1..Len(burst') : burst'[i] = burst[i + 1] /\ i + 1 \in 1..Len(burst)
  <2> HIDE DEF E
  <2> QED
      BY <1>2, <1>3
<1>5. \A i \in 1..Len(burst) : burst[i].key \in Keys /\ burst[i].rv \in 1..Len(log)
    BY <1>1, BurstTypes
<1>6. \A i \in 1..Len(burst) : burst[i].rv # 0 /\ burst[i].rv = At(burst[i].key, pos)
    BY <1>1, <1>2 DEF BurstOfPos
<1>7. k \in Keys /\ rv \in 1..Len(log) /\ rv \in 0..Len(log) /\ rv = At(k, pos)
    BY <1>1, <1>4, <1>5, <1>6
<1> HIDE DEF k, rv
<1>8. /\ store' \in [Keys -> 0..Len(log)] /\ lastSync' \in {lastSync, rv}
      /\ gap' \in SUBSET Keys /\ got' \in BOOLEAN
      /\ k \in gap' \/ store'[k] = rv
      /\ \A j \in Keys \ {k} : store'[j] = store[j] /\ (j \in gap => j \in gap')
    BY <1>1, <1>2, <1>7, HandleTypes
<1>9. pos \in 0..Len(log) /\ lastSync \in 0..Len(log) /\ lastSync <= pos
    BY <1>1, <1>2 DEF TypeOK, Watching
<1>10. rv <= pos
  <2>1. At(k, pos) \in 0..pos
      BY <1>9, AtRange
  <2> QED
      BY <1>7, <1>9, <2>1
<1>11. TypeOK'
  <2>1. lastSync' \in 0..Len(log)
      BY <1>7, <1>8, <1>9
  <2>2. burst' \in Seq([key : Keys, rv : 1..Len(log)])
      BY <1>4
  <2> QED
      BY <1>1, <1>2, <1>8, <2>1, <2>2 DEF TypeOK
<1> HIDE DEF E
<1>12. \A j, r : At(j, r)' = At(j, r)
    BY <1>2 DEF At
<1>13. BurstOfPos'
  <2> SUFFICES ASSUME NEW i \in 1..Len(burst')
               PROVE  burst'[i].rv # 0 /\ burst'[i].rv = At(burst[i].key, pos)'
      BY DEF BurstOfPos
  <2>1. burst'[i] = burst[i + 1] /\ i + 1 \in 1..Len(burst)
      BY <1>4
  <2>2. burst[i + 1].rv # 0 /\ burst[i + 1].rv = At(burst[i + 1].key, pos)
      BY <1>6, <2>1
  <2>3. At(burst[i].key, pos)' = At(burst[i + 1].key, pos)
      BY <1>2, <1>12, <2>1
  <2> QED
      BY <2>1, <2>2, <2>3
<1>14. Watching'
  <2>1. lastSync' <= pos'
      BY <1>2, <1>8, <1>9, <1>10
  <2>2. ASSUME NEW j \in Keys PROVE Reflected(j, pos)' \/ Due(j)'
    <3>1. At(j, pos)' = At(j, pos) /\ (Coming(j, pos) => Coming(j, pos)')
      <4>1. At(j, pos)' = At(j, pos)
          BY <1>2, <1>12
      <4>2. Coming(j, pos) => Coming(j, pos)'
          BY <1>2 DEF Coming
      <4> QED
          BY <4>1, <4>2
    <3>2. CASE j = k
        BY <1>7, <1>8, <3>1, <3>2 DEF Reflected
    <3>3. CASE j # k /\ Reflected(j, pos)
        BY <1>8, <3>1, <3>3 DEF Reflected
    <3>4. CASE j # k /\ Due(j)
      <4>1. PICK i \in 1..Len(burst) : burst[i].key = j
          BY <3>4 DEF Due
      <4>2. i # 1
          BY <1>4, <3>4, <4>1 DEF k
      <4>3. i - 1 \in 1..Len(burst') /\ (i - 1) + 1 = i
          BY <1>1, <1>4, <4>2
      <4>4. burst'[i - 1] = burst[i]
          BY <1>4, <4>3
      <4> QED
          BY <4>1, <4>3, <4>4 DEF Due
    <3> QED
        BY <1>1, <1>2, <3>2, <3>3, <3>4 DEF Watching
  <2> QED
      BY <2>1, <2>2 DEF Watching
<1>15. Resumable'
    BY <1>2 DEF Resumable
<1> QED
    BY <1>11, <1>13, <1>14, <1>15 DEF Inv

\* The event of a change is handled.
LEMMA HandleChangeLemma == ASSUME Inv, HandleChange PROVE Inv'
<1>1. TypeOK /\ Watching /\ Len(log) \in Nat
    BY LenNat DEF Inv
<1> DEFINE r == pos + 1
           k == log[r].key
           object == IF log[r].type = "DELETED" THEN 0 ELSE r
           content == IF log[r].type = "DELETED" THEN At(k, pos) ELSE r
<1>2. /\ pc = "watching" /\ burst = << >> /\ pos < Len(log)
      /\ Handle(k, r, content, object)
      /\ pos' = r /\ UNCHANGED <<log, compacted, pc, burst>>
    BY DEF HandleChange
<1>3. pos \in 0..Len(log) /\ lastSync \in 0..Len(log) /\ lastSync <= pos
    BY <1>1, <1>2 DEF TypeOK, Watching
<1>4. r \in 1..Len(log) /\ r \in Nat \ {0} /\ r = pos + 1
    BY <1>1, <1>2, <1>3
<1>5. k \in Keys
  <2>1. log \in Seq(Event) /\ \A e \in Event : e.key \in Keys
      BY <1>1 DEF TypeOK, Event
  <2> HIDE DEF r
  <2>2. log[r] \in Event
      BY <1>4, <2>1
  <2> QED
      BY <2>1, <2>2
<1>6. object = At(k, r)
  <2> HIDE DEF r
  <2> QED
      BY <1>4, AtChange
<1>7. object \in 0..Len(log)
    BY <1>1, <1>4
<1> HIDE DEF r, k, object, content
<1>8. /\ store' \in [Keys -> 0..Len(log)] /\ lastSync' \in {lastSync, r}
      /\ gap' \in SUBSET Keys /\ got' \in BOOLEAN
      /\ k \in gap' \/ store'[k] = object
      /\ \A j \in Keys \ {k} : store'[j] = store[j] /\ (j \in gap => j \in gap')
    BY <1>1, <1>2, <1>4, <1>5, <1>7, HandleTypes
<1>9. TypeOK'
  <2>1. lastSync' \in 0..Len(log) /\ pos' \in 0..Len(log)
      BY <1>2, <1>3, <1>4, <1>8
  <2> QED
      BY <1>1, <1>2, <1>8, <2>1 DEF TypeOK
<1>10. Len(burst) = 0 /\ Len(burst') = 0
    BY <1>2
<1>11. BurstOfPos'
    BY <1>10 DEF BurstOfPos
<1>12. Watching'
  <2>1. lastSync' <= pos'
      BY <1>2, <1>3, <1>4, <1>8
  <2>2. ASSUME NEW j \in Keys PROVE Reflected(j, pos)'
    <3>1. Reflected(j, pos)
        BY <1>1, <1>2, <1>10 DEF Watching, Due
    <3>2. At(j, pos)' = At(j, r)
        BY <1>2 DEF At
    <3>3. CASE j = k
        BY <1>6, <1>8, <3>2, <3>3 DEF Reflected
    <3>4. CASE j # k
      <4>1. log[r].key # j
          BY <3>4 DEF k
      <4>2. At(j, r) = At(j, pos)
        <5>1. \A i \in pos + 1..r : log[i].key # j
            BY <1>3, <1>4, <4>1
        <5> QED
            BY <1>3, <1>4, <5>1, AtSame
      <4>3. Coming(j, pos) => Coming(j, pos)'
        <5> SUFFICES ASSUME NEW i \in pos + 1..Len(log), log[i].key = j
                     PROVE  Coming(j, pos)'
            BY DEF Coming
        <5>1. i # r
            BY <4>1
        <5>2. i \in r + 1..Len(log)
            BY <1>3, <1>4, <5>1
        <5> QED
            BY <1>2, <5>2 DEF Coming
      <4> QED
          BY <1>8, <3>1, <3>2, <3>4, <4>2, <4>3 DEF Reflected
    <3> QED
        BY <3>3, <3>4
  <2> QED
      BY <2>1, <2>2 DEF Watching
<1>13. Resumable'
    BY <1>2 DEF Resumable
<1> QED
    BY <1>9, <1>11, <1>12, <1>13 DEF Inv

\* A bookmark is handled.
LEMMA BookmarkLemma == ASSUME Inv, HandleBookmark PROVE Inv'
<1>1. TypeOK /\ BurstOfPos /\ Watching /\ Len(log) \in Nat
    BY LenNat DEF Inv
<1>2. /\ pc = "watching" /\ lastSync' = pos /\ got' = TRUE
      /\ UNCHANGED <<log, compacted, pc, burst, pos, store, gap>>
    BY DEF HandleBookmark
<1>3. TypeOK'
    BY <1>1, <1>2 DEF TypeOK
<1>4. \A k, r : At(k, r)' = At(k, r)
    BY <1>2 DEF At
<1>5. BurstOfPos'
  <2> SUFFICES ASSUME NEW i \in 1..Len(burst)
               PROVE  burst[i].rv # 0 /\ burst[i].rv = At(burst[i].key, pos)'
      BY <1>2 DEF BurstOfPos
  <2> QED
      BY <1>1, <1>2, <1>4 DEF BurstOfPos
<1>6. Watching'
  <2>1. lastSync' <= pos'
      BY <1>1, <1>2 DEF TypeOK
  <2>2. ASSUME NEW k \in Keys PROVE Reflected(k, pos)' \/ Due(k)'
    <3>1. Reflected(k, pos) \/ Due(k)
        BY <1>1, <1>2 DEF Watching
    <3>2. At(k, pos)' = At(k, pos)
        BY <1>2, <1>4
    <3> QED
        BY <1>2, <3>1, <3>2 DEF Reflected, Coming, Due
  <2> QED
      BY <2>1, <2>2 DEF Watching
<1>7. Resumable'
    BY <1>2 DEF Resumable
<1> QED
    BY <1>3, <1>5, <1>6, <1>7 DEF Inv

\* What a watch at pos has left in the cache, a watch from lastSync resumes: a
\* key that changed in between is delivered again.
LEMMA ClosesLemma ==
  ASSUME Inv, NEW next \in {"list", "watch"}, WatchCloses(next)
  PROVE  Inv'
<1>1. TypeOK /\ BurstOfPos /\ Watching /\ Len(log) \in Nat /\ Len(burst) \in Nat
    BY LenNat, BurstTypes DEF Inv
<1> DEFINE skipped == {burst[i].key : i \in {j \in 1..Len(burst) :
                         /\ burst[j].rv <= lastSync
                         /\ store[burst[j].key] # burst[j].rv}}
<1>2. /\ pc = "watching" /\ pc' = next /\ burst' = << >> /\ gap' = gap \cup skipped
      /\ UNCHANGED <<log, compacted, lastSync, pos, got, store>>
    BY DEF WatchCloses
<1>3. \A i \in 1..Len(burst) : burst[i].key \in Keys /\ burst[i].rv \in 1..Len(log)
    BY <1>1, BurstTypes
<1>4. \A i \in 1..Len(burst) :
        burst[i].rv <= lastSync => \/ burst[i].key \in skipped
                                   \/ store[burst[i].key] = burst[i].rv
    OBVIOUS
<1>5. skipped \in SUBSET Keys
    BY <1>3
<1> HIDE DEF skipped
<1>6. TypeOK'
  <2>1. burst' \in Seq([key : Keys, rv : 1..Len(log)])
      BY <1>2
  <2>2. gap' \in SUBSET Keys
      BY <1>1, <1>2, <1>5 DEF TypeOK
  <2> QED
      BY <1>1, <1>2, <2>1, <2>2 DEF TypeOK
<1>7. BurstOfPos' /\ Watching'
    BY <1>2 DEF BurstOfPos, Watching
<1>8. lastSync \in Nat /\ pos \in Nat /\ lastSync <= pos /\ pos <= Len(log)
    BY <1>1, <1>2 DEF TypeOK, Watching
<1>9. ASSUME NEW k \in Keys PROVE Reflected(k, lastSync)'
  <2>1. At(k, lastSync)' = At(k, lastSync)
      BY <1>2 DEF At
  <2>2. SUFFICES k \in gap' \/ store[k] = At(k, lastSync) \/ Coming(k, lastSync)
    <3>1. Coming(k, lastSync) => Coming(k, lastSync)'
        BY <1>2 DEF Coming
    <3> QED
        BY <1>2, <2>1, <3>1 DEF Reflected
  <2>3. SUFFICES ASSUME ~Coming(k, lastSync)
                 PROVE  k \in gap' \/ store[k] = At(k, lastSync)
      OBVIOUS
  <2>4. \A i \in lastSync + 1..pos : log[i].key # k
      BY <1>1, <1>8, <2>3 DEF Coming
  <2>5. At(k, pos) = At(k, lastSync)
      BY <1>8, <2>4, AtSame
  <2>6. ~Coming(k, pos)
      BY <1>1, <1>8, <2>3 DEF Coming
  <2>7. CASE Reflected(k, pos)
      BY <1>2, <2>5, <2>6, <2>7 DEF Reflected
  <2>8. CASE Due(k)
    <3>1. PICK i \in 1..Len(burst) : burst[i].key = k
        BY <2>8 DEF Due
    <3>2. burst[i].rv = At(k, lastSync)
        BY <1>1, <1>2, <2>5, <3>1 DEF BurstOfPos
    <3>3. burst[i].rv <= lastSync
      <4>1. At(k, lastSync) \in 0..lastSync
          BY <1>8, AtRange
      <4> QED
          BY <1>8, <3>2, <4>1
    <3> QED
        BY <1>2, <1>4, <3>1, <3>2, <3>3
  <2> QED
      BY <1>1, <1>2, <2>7, <2>8 DEF Watching
<1>10. Resumable'
    BY <1>9 DEF Resumable
<1> QED
    BY <1>6, <1>7, <1>10 DEF Inv

-----------------------------------------------------------------------------
(* Theorems *)

\* The inductive invariant holds of the policy informer, whatever the API server
\* changes and however often the reflector has to watch or list again.
THEOREM Invariance == Spec => []Inv
<1>1. Inv /\ [Next]_vars => Inv'
  <2> SUFFICES ASSUME Inv, [Next]_vars PROVE Inv'
      OBVIOUS
  <2>1. CASE \E k \in Keys, type \in {"ADDED", "MODIFIED", "DELETED"} : Change(k, type)
      BY <2>1, ChangeLemma
  <2>2. CASE Compact \/ List \/ ListFails \/ WatchExpired \/ UNCHANGED vars
      BY <2>2, QuietLemma
  <2>3. CASE Watch
      BY <2>3, WatchLemma
  <2>4. CASE HandleSynthetic
      BY <2>4, SyntheticLemma
  <2>5. CASE HandleChange
      BY <2>5, HandleChangeLemma
  <2>6. CASE HandleBookmark
      BY <2>6, BookmarkLemma
  <2>7. CASE \E next \in {"list", "watch"} : WatchCloses(next)
      BY <2>7, ClosesLemma
  <2> QED
      BY <2>1, <2>2, <2>3, <2>4, <2>5, <2>6, <2>7 DEF Next, Reflect
<1> QED
    BY InitInv, <1>1, PTL DEF Spec

\* TypeOK: log, cache and watch hold what the reflector and the API server put
\* there, and no resource version is one the server has not given out.
THEOREM TypeCorrect == Spec => []TypeOK
<1>1. Inv => TypeOK
    BY DEF Inv
<1> QED
    BY Invariance, <1>1, PTL

\* CaughtUpIsCurrent: whatever lists, watches, bookmarks and reconnections came
\* before, a watch that has delivered everything leaves the cache as the API
\* server has it, but for what is known to have been skipped.
THEOREM CaughtUpCacheIsCurrent == Spec => []CaughtUpIsCurrent
<1>1. Inv => CaughtUpIsCurrent
  <2> SUFFICES ASSUME Inv, CaughtUp, NEW k \in Keys
               PROVE  store[k] = Now(k) \/ k \in gap
      BY DEF CaughtUpIsCurrent
  <2>1. pc = "watching" /\ pos = Len(log) /\ Len(burst) = 0 /\ Len(log) \in Nat
      BY LenNat DEF CaughtUp, Inv
  <2>2. Reflected(k, pos)
      BY <2>1 DEF Inv, Watching, Due
  <2>3. ~Coming(k, pos)
      BY <2>1 DEF Coming
  <2> QED
      BY <2>1, <2>2, <2>3 DEF Reflected, Now
<1> QED
    BY Invariance, <1>1, PTL

=============================================================================
