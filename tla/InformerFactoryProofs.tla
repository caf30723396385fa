------------------------ MODULE InformerFactoryProofs ------------------------
(***************************************************************************)
(* Proofs about the shared informer factory, for any number of callers and *)
(* stop channels: Shutdown waits for every informer, an informer that was  *)
(* started runs in exactly one goroutine, and WaitForCacheSync waits only  *)
(* for informers that a goroutine fills until its channel is closed.       *)
(***************************************************************************)
EXTENDS InformerFactory, FiniteSetTheorems, TLAPS

-----------------------------------------------------------------------------
(* The inductive invariant *)

\* The types whose informer has a goroutine that has not returned.
AliveTypes == {t \in Types : \E g \in Alive : g.informer = <<t, 1>>}

\* The goroutines are those of the started types, one for each.
StartedOnce ==
  /\ \A g \in goroutines : g.informer[1] \in startedInformers
  /\ \A t \in startedInformers : \E g \in goroutines : g.informer = <<t, 1>>
  /\ \A g, h \in goroutines : g.informer = h.informer => g = h

\* The wait group counts the informers that have not returned.
Counted == wg = Cardinality(AliveTypes)

\* Shutdown forbids further starts before it waits, and a call that has
\* returned has seen the counter at zero.
Down ==
  /\ \A c \in Callers : call[c].op = "Shutdown" => shuttingDown
  /\ shutdownReturned => shuttingDown /\ Alive = {}

\* A caller waits for informers that have a goroutine, and a goroutine returns
\* only when its channel is closed.
Awaited ==
  /\ \A c \in Callers : \A i \in call[c].left : \E g \in goroutines : g.informer = i
  /\ \A g \in goroutines : g.state = "returned" => g.stop \in closed

Inv ==
  /\ TypeOK
  /\ StartedOnce
  /\ Counted
  /\ Down
  /\ Awaited

-----------------------------------------------------------------------------
(* Lemmas *)

USE DEF vars, factoryVars, worldVars

CallRecord ==
  [op : {"idle", "Shutdown", "WaitForCacheSync"}, stop : Stops \cup {None},
   left : SUBSET Informer]

\* The factory has finitely many types of informers.
LEMMA TypesFinite ==
  /\ IsFiniteSet(Types)
  /\ \A T \in SUBSET Types : IsFiniteSet(T) /\ Cardinality(T) \in Nat
<1>1. IsFiniteSet({"policies"}) /\ IsFiniteSet({"policies"} \cup {"bindings"})
    BY FS_Singleton, FS_AddElement
<1>2. Types = {"policies"} \cup {"bindings"}
    BY DEF Types
<1> QED
    BY <1>1, <1>2, FS_Subset, FS_CardinalityType

\* What is known of an informer's record.
LEMMA InformerForm ==
  ASSUME TypeOK
  PROVE  /\ \A t \in Requested : Shared(t) = <<t, 1>> /\ Shared(t) \in Informer
         /\ startedInformers \subseteq Requested
         /\ \A g \in goroutines :
              g.informer[1] \in Types /\ g.informer = <<g.informer[1], 1>>
<1>1. \A t \in Requested : t \in Types /\ informers[t] = 1
    BY DEF TypeOK, Requested
<1>2. \A i \in Informer : i[1] \in Types /\ i = <<i[1], 1>>
    BY DEF Informer
<1>3. \A g \in goroutines : g.informer \in Informer
    BY DEF TypeOK, Goroutine
<1>4. startedInformers \subseteq Requested
    BY DEF TypeOK, Requested
<1> QED
    BY <1>1, <1>2, <1>3, <1>4 DEF Shared, Informer

\* No type is counted only if no goroutine is left.
LEMMA NoneAlive == ASSUME TypeOK, AliveTypes = {} PROVE Alive = {}
  BY InformerForm DEF AliveTypes, Alive

\* A new factory satisfies the invariant.
LEMMA InitInv == Init => Inv
<1> SUFFICES ASSUME Init PROVE Inv
    OBVIOUS
<1> USE DEF Init, NewSharedInformerFactory
<1>1. call \in [Callers -> CallRecord]
    BY DEF Idle, CallRecord
<1>2. TypeOK
  <2>1. shuttingDown \in BOOLEAN /\ shutdownReturned \in BOOLEAN
      OBVIOUS
  <2>2. informers \in [Types -> 0..1] /\ wg \in Nat
      OBVIOUS
  <2> QED
      BY <1>1, <2>1, <2>2 DEF TypeOK, CallRecord
<1>3. AliveTypes = {}
    BY DEF AliveTypes, Alive
<1>4. Counted
    BY <1>3, FS_EmptySet DEF Counted
<1>5. StartedOnce /\ Down /\ Awaited
    BY DEF StartedOnce, Down, Awaited, Idle
<1> QED
    BY <1>2, <1>4, <1>5 DEF Inv

\* InformerFor (factory.go:171-190).
LEMMA InformerForLemma ==
  ASSUME Inv, NEW t \in Types, InformerFor(t)
  PROVE  Inv'
<1>1. TypeOK
    BY DEF Inv
<1>2. informers' \in [Types -> 0..1] /\ informers'[t] = 1
    BY <1>1 DEF TypeOK, InformerFor
<1>3. \A u \in Types : informers[u] # 0 => informers'[u] # 0
    BY <1>1 DEF TypeOK, InformerFor
<1>4. handles' \subseteq Informer
    BY <1>1, <1>2 DEF TypeOK, InformerFor, Informer
<1>5. startedInformers' \subseteq {u \in Types : informers'[u] # 0}
    BY <1>1, <1>3 DEF TypeOK, InformerFor
<1>6. TypeOK'
    BY <1>1, <1>2, <1>4, <1>5 DEF TypeOK, InformerFor
<1>7. StartedOnce' /\ Counted' /\ Down' /\ Awaited'
    BY DEF Inv, InformerFor, StartedOnce, Counted, AliveTypes, Alive, Down, Awaited
<1> QED
    BY <1>6, <1>7 DEF Inv

\* Start (factory.go:115-137).
LEMMA StartLemma ==
  ASSUME Inv, NEW s \in Stops, Start(s)
  PROVE  Inv'
<1> DEFINE types == Requested \ startedInformers
           New(t) == [informer |-> Shared(t), stop |-> s, state |-> "spawned"]
<1>1. TypeOK /\ StartedOnce /\ Counted /\ Down /\ Awaited
    BY DEF Inv
<1>2. /\ ~shuttingDown
      /\ goroutines' = goroutines \cup {New(t) : t \in types}
      /\ wg' = wg + Cardinality(types)
      /\ startedInformers' = startedInformers \cup types
      /\ UNCHANGED <<informers, shuttingDown, closed, synced, handles, call,
                     shutdownReturned>>
    BY DEF Start, Spawn
<1>3. types \subseteq Types /\ Requested \subseteq Types
    BY DEF Requested
<1>4. \A t \in types : New(t) \in Goroutine /\ New(t).informer = <<t, 1>>
                       /\ New(t).state = "spawned"
    BY <1>1, InformerForm DEF Goroutine
<1>5. \A g \in goroutines : g.informer[1] \notin types
    BY <1>1 DEF StartedOnce
<1> HIDE DEF New
<1>6. TypeOK'
  <2>1. goroutines' \subseteq Goroutine
      BY <1>1, <1>2, <1>4 DEF TypeOK
  <2>2. wg' \in Nat
      BY <1>1, <1>2, <1>3, TypesFinite DEF TypeOK
  <2>3. startedInformers' \subseteq {t \in Types : informers'[t] # 0}
      BY <1>1, <1>2 DEF TypeOK, Requested
  <2> QED
      BY <1>1, <1>2, <2>1, <2>2, <2>3 DEF TypeOK
<1>7. StartedOnce'
  <2>1. \A g \in goroutines' : g.informer[1] \in startedInformers'
      BY <1>1, <1>2, <1>4 DEF StartedOnce
  <2>2. \A t \in startedInformers' : \E g \in goroutines' : g.informer = <<t, 1>>
      BY <1>1, <1>2, <1>4 DEF StartedOnce
  <2>3. \A g, h \in goroutines' : g.informer = h.informer => g = h
    <3> SUFFICES ASSUME NEW g \in goroutines', NEW h \in goroutines',
                        g.informer = h.informer
                 PROVE  g = h
        OBVIOUS
    <3>1. CASE g \in goroutines
        BY <1>1, <1>2, <1>4, <1>5, <3>1 DEF StartedOnce
    <3>2. CASE g \notin goroutines
      <4>1. PICK t \in types : g = New(t)
          BY <1>2, <3>2
      <4>2. h \notin goroutines
          BY <1>4, <1>5, <4>1
      <4>3. PICK u \in types : h = New(u)
          BY <1>2, <4>2
      <4>4. t = u
          BY <1>4, <4>1, <4>3
      <4> QED
          BY <4>1, <4>3, <4>4
    <3> QED
        BY <3>1, <3>2
  <2> QED
      BY <2>1, <2>2, <2>3 DEF StartedOnce
<1>8. Counted'
  <2>1. AliveTypes' = AliveTypes \cup types
    <3>1. ASSUME NEW t \in AliveTypes' PROVE t \in AliveTypes \cup types
        BY <1>2, <1>4, <3>1 DEF AliveTypes, Alive
    <3>2. ASSUME NEW t \in AliveTypes \cup types PROVE t \in AliveTypes'
        BY <1>2, <1>3, <1>4, <3>2 DEF AliveTypes, Alive
    <3> QED
        BY <3>1, <3>2
  <2>2. AliveTypes \cap types = {}
      BY <1>5 DEF AliveTypes, Alive
  <2>3. AliveTypes \subseteq Types
      BY DEF AliveTypes
  <2>4. Cardinality(AliveTypes \cup types) =
          Cardinality(AliveTypes) + Cardinality(types) - Cardinality(AliveTypes \cap types)
      BY <1>3, <2>3, TypesFinite, FS_Union
  <2> HIDE DEF types
  <2> QED
      BY <1>1, <1>2, <1>3, <2>1, <2>2, <2>3, <2>4, TypesFinite, FS_EmptySet DEF Counted
<1>9. Down'
    BY <1>1, <1>2 DEF Down
<1>10. Awaited'
  <2>1. \A g \in goroutines' : g.state = "returned" => g.stop \in closed'
      BY <1>1, <1>2, <1>4 DEF Awaited
  <2>2. \A d \in Callers : \A i \in call'[d].left : \E g \in goroutines' : g.informer = i
      BY <1>1, <1>2 DEF Awaited
  <2> QED
      BY <2>1, <2>2 DEF Awaited
<1> QED
    BY <1>6, <1>7, <1>8, <1>9, <1>10 DEF Inv

\* A goroutine that changes its state stays the only one of its informer.
LEMMA BecomeLemma ==
  ASSUME TypeOK, StartedOnce, NEW g \in goroutines,
         NEW st \in {"running", "returned"}, Become(g, st),
         UNCHANGED startedInformers
  PROVE  /\ goroutines' \subseteq Goroutine
         /\ StartedOnce'
         /\ \A x \in goroutines : \E y \in goroutines' : y.informer = x.informer
         /\ \A y \in goroutines' : \/ y \in goroutines
                                   \/ y.stop = g.stop /\ y.state = st
         /\ AliveTypes' = IF st = "returned" THEN AliveTypes \ {g.informer[1]}
                          ELSE {t \in Types : t \in AliveTypes \/ t = g.informer[1]}
<1> DEFINE h == [g EXCEPT !.state = st]
<1>1. /\ h \in Goroutine
      /\ h.informer = g.informer
      /\ h.stop = g.stop
      /\ h.state = st
    BY DEF TypeOK, Goroutine
<1>2. goroutines' = (goroutines \ {g}) \cup {h}
    BY DEF Become
<1> HIDE DEF h
<1>3. goroutines' \subseteq Goroutine
    BY <1>1, <1>2 DEF TypeOK
<1>4. StartedOnce'
    BY <1>1, <1>2 DEF StartedOnce
<1>9. \A x \in goroutines : \E y \in goroutines' : y.informer = x.informer
    BY <1>1, <1>2
<1>10. \A y \in goroutines' : y \in goroutines \/ (y.stop = g.stop /\ y.state = st)
    BY <1>1, <1>2
<1>5. g.informer = <<g.informer[1], 1>> /\ g.informer[1] \in Types
    BY InformerForm
<1>6. \A x \in goroutines : x.informer = g.informer => x = g
    BY DEF StartedOnce
<1>7. CASE st = "returned"
  <2>1. Alive' = Alive \ {g}
      BY <1>1, <1>2, <1>6, <1>7 DEF Alive
  <2>2. ASSUME NEW t \in Types
        PROVE  t \in AliveTypes' <=> t \in AliveTypes /\ t # g.informer[1]
      BY <1>5, <1>6, <2>1 DEF AliveTypes, Alive
  <2>3. AliveTypes \subseteq Types /\ AliveTypes' \subseteq Types
      BY DEF AliveTypes
  <2> QED
      BY <1>3, <1>4, <1>9, <1>10, <1>7, <2>2, <2>3
<1>8. CASE st = "running"
  <2>1. Alive' = (Alive \ {g}) \cup {h}
      BY <1>1, <1>2, <1>8 DEF Alive
  <2>2. ASSUME NEW t \in Types
        PROVE  t \in AliveTypes' <=> t \in AliveTypes \/ t = g.informer[1]
      BY <1>1, <1>5, <1>6, <2>1 DEF AliveTypes
  <2>3. AliveTypes' \subseteq Types
      BY DEF AliveTypes
  <2> QED
      BY <1>3, <1>4, <1>9, <1>10, <1>8, <2>2, <2>3
<1> QED
    BY <1>7, <1>8

\* The goroutine of an informer ends and is no longer counted.
LEMMA ReturnLemma ==
  ASSUME Inv, NEW g \in goroutines, g.state \in {"spawned", "running"},
         g.stop \in closed, Return(g)
  PROVE  Inv'
<1>1. TypeOK /\ StartedOnce /\ Counted /\ Down /\ Awaited
    BY DEF Inv
<1>2. /\ Become(g, "returned") /\ wg' = wg - 1
      /\ UNCHANGED <<informers, startedInformers, shuttingDown, closed, synced, handles,
                     call, shutdownReturned>>
    BY DEF Return
<1>3. /\ goroutines' \subseteq Goroutine
      /\ StartedOnce'
      /\ \A x \in goroutines : \E y \in goroutines' : y.informer = x.informer
      /\ \A y \in goroutines' : y \in goroutines \/ (y.stop = g.stop /\ y.state = "returned")
      /\ AliveTypes' = AliveTypes \ {g.informer[1]}
    BY <1>1, <1>2, BecomeLemma
<1>4. g \in Alive /\ g.informer[1] \in AliveTypes
    BY <1>1, InformerForm DEF Alive, AliveTypes
<1>5. Counted' /\ wg' \in Nat
  <2>1. AliveTypes \subseteq Types /\ AliveTypes \ {g.informer[1]} \subseteq Types
      BY DEF AliveTypes
  <2>2. Cardinality(AliveTypes \ {g.informer[1]}) = Cardinality(AliveTypes) - 1
      BY <1>4, <2>1, TypesFinite, FS_RemoveElement
  <2> QED
      BY <1>1, <1>2, <1>3, <2>1, <2>2, TypesFinite DEF Counted
<1>6. TypeOK'
    BY <1>1, <1>2, <1>3, <1>5 DEF TypeOK
<1>7. Down'
    BY <1>1, <1>2, <1>4 DEF Down
<1>8. Awaited'
    BY <1>1, <1>2, <1>3 DEF Awaited
<1> QED
    BY <1>3, <1>5, <1>6, <1>7, <1>8 DEF Inv

\* The steps of an informer's goroutine.
LEMMA GoroutineLemma ==
  ASSUME Inv, NEW g \in goroutines, Run(g) \/ RunEnds(g) \/ ListArrives(g)
  PROVE  Inv'
<1>1. TypeOK /\ StartedOnce /\ Counted /\ Down /\ Awaited
    BY DEF Inv
<1>2. CASE Run(g) /\ g.stop \notin closed
  <2>1. /\ g.state = "spawned" /\ Become(g, "running")
        /\ UNCHANGED <<factoryVars, closed, synced, handles, call, shutdownReturned>>
      BY <1>2 DEF Run
  <2>2. /\ goroutines' \subseteq Goroutine
        /\ StartedOnce'
        /\ \A x \in goroutines : \E y \in goroutines' : y.informer = x.informer
        /\ \A y \in goroutines' : y \in goroutines \/ (y.stop = g.stop /\ y.state = "running")
        /\ AliveTypes' = {t \in Types : t \in AliveTypes \/ t = g.informer[1]}
      BY <1>1, <2>1, BecomeLemma
  <2>3. g \in Alive /\ g.informer[1] \in AliveTypes
      BY <1>1, <2>1, InformerForm DEF Alive, AliveTypes
  <2>4. AliveTypes' = AliveTypes
      BY <2>2, <2>3 DEF AliveTypes
  <2>5. TypeOK'
      BY <1>1, <2>1, <2>2 DEF TypeOK
  <2>6. Counted' /\ Down'
      BY <1>1, <2>1, <2>3, <2>4 DEF Counted, Down
  <2>7. Awaited'
      BY <1>1, <2>1, <2>2 DEF Awaited
  <2> QED
      BY <2>2, <2>5, <2>6, <2>7 DEF Inv
<1>3. CASE Run(g) /\ g.stop \in closed
    BY <1>3, ReturnLemma DEF Run
<1>4. CASE RunEnds(g)
    BY <1>4, ReturnLemma DEF RunEnds
<1>5. CASE ListArrives(g)
  <2>1. g.informer \in Informer
      BY <1>1 DEF TypeOK, Goroutine
  <2>2. TypeOK'
      BY <1>1, <1>5, <2>1 DEF TypeOK, ListArrives
  <2>3. StartedOnce' /\ Counted' /\ Down'
      BY <1>1, <1>5 DEF StartedOnce, Counted, AliveTypes, Alive, Down, ListArrives
  <2>4. Awaited'
      BY <1>1, <1>5 DEF Awaited, ListArrives
  <2> QED
      BY <2>2, <2>3, <2>4 DEF Inv
<1> QED
    BY <1>2, <1>3, <1>4, <1>5

\* A stop channel is closed.
LEMMA CloseLemma == ASSUME Inv, NEW s \in Stops, Close(s) PROVE Inv'
<1>1. TypeOK'
    BY DEF Inv, TypeOK, Close
<1>2. StartedOnce' /\ Counted' /\ Down' /\ Awaited'
    BY DEF Inv, StartedOnce, Counted, AliveTypes, Alive, Down, Awaited, Close
<1> QED
    BY <1>1, <1>2 DEF Inv

\* What a step that only moves the call of one caller has to show.
LEMMA CallMoves ==
  ASSUME Inv, NEW c \in Callers, NEW r \in CallRecord,
         call' = [call EXCEPT ![c] = r],
         UNCHANGED <<factoryVars, worldVars, handles, shutdownReturned>>,
         r.op = "Shutdown" => shuttingDown,
         \A i \in r.left : \E g \in goroutines : g.informer = i
  PROVE  Inv'
<1>1. TypeOK /\ StartedOnce /\ Counted /\ Down /\ Awaited
    BY DEF Inv
<1>2. call \in [Callers -> CallRecord]
    BY <1>1 DEF TypeOK, CallRecord
<1>3. call' \in [Callers -> CallRecord] /\ call'[c] = r
      /\ \A d \in Callers : d # c => call'[d] = call[d]
    BY <1>2
<1>4. TypeOK'
    BY <1>1, <1>3 DEF TypeOK, CallRecord
<1>5. StartedOnce' /\ Counted'
    BY <1>1 DEF StartedOnce, Counted, AliveTypes, Alive
<1>6. Down'
    BY <1>1, <1>3 DEF Down, Alive
<1>7. Awaited'
    BY <1>1, <1>3 DEF Awaited
<1> QED
    BY <1>4, <1>5, <1>6, <1>7 DEF Inv

\* Shutdown, before and after its wait (factory.go:139-146).
LEMMA ShutdownLemma ==
  ASSUME Inv, NEW c \in Callers, Shutdown(c) \/ ShutdownReturn(c)
  PROVE  Inv'
<1>1. TypeOK /\ StartedOnce /\ Counted /\ Down /\ Awaited
    BY DEF Inv
<1>2. call \in [Callers -> CallRecord]
    BY <1>1 DEF TypeOK, CallRecord
<1>3. /\ Idle \in CallRecord /\ Idle.op = "idle" /\ Idle.left = {}
      /\ [Idle EXCEPT !.op = "Shutdown"] \in CallRecord
      /\ [Idle EXCEPT !.op = "Shutdown"].left = {}
    BY DEF Idle, CallRecord
<1>4. CASE Shutdown(c)
  <2>1. /\ shuttingDown'
        /\ shuttingDown' \in BOOLEAN
        /\ call' = [call EXCEPT ![c] = [Idle EXCEPT !.op = "Shutdown"]]
        /\ UNCHANGED <<informers, startedInformers, wg, worldVars, handles, shutdownReturned>>
      BY <1>4 DEF Shutdown
  <2>2. /\ call' \in [Callers -> CallRecord] /\ call'[c].left = {}
        /\ \A d \in Callers : d # c => call'[d] = call[d]
      BY <1>2, <1>3, <2>1
  <2>3. TypeOK'
      BY <1>1, <2>1, <2>2 DEF TypeOK, CallRecord
  <2>4. StartedOnce' /\ Counted' /\ Down'
      BY <1>1, <2>1 DEF StartedOnce, Counted, AliveTypes, Alive, Down
  <2>5. Awaited'
      BY <1>1, <2>1, <2>2 DEF Awaited
  <2> QED
      BY <2>3, <2>4, <2>5 DEF Inv
<1>5. CASE ShutdownReturn(c)
  <2>1. /\ wg = 0 /\ shutdownReturned' \in BOOLEAN
        /\ call' = [call EXCEPT ![c] = Idle]
        /\ UNCHANGED <<factoryVars, worldVars, handles>>
      BY <1>5 DEF ShutdownReturn
  <2>2. call' \in [Callers -> CallRecord] /\ call'[c] = Idle
        /\ \A d \in Callers : d # c => call'[d] = call[d]
      BY <1>2, <1>3, <2>1
  <2>3. TypeOK'
      BY <1>1, <2>1, <2>2 DEF TypeOK, CallRecord
  <2>4. Alive = {}
    <3>1. AliveTypes \subseteq Types
        BY DEF AliveTypes
    <3>2. AliveTypes = {}
        BY <1>1, <2>1, <3>1, TypesFinite, FS_EmptySet DEF Counted
    <3> QED
        BY <1>1, <3>2, NoneAlive
  <2>5. shuttingDown
      BY <1>1, <1>5 DEF Down, ShutdownReturn
  <2>6. StartedOnce' /\ Counted'
      BY <1>1, <2>1 DEF StartedOnce, Counted, AliveTypes, Alive
  <2>7. Down'
      BY <1>1, <1>3, <2>1, <2>2, <2>4, <2>5 DEF Down, Alive
  <2>8. Awaited'
      BY <1>1, <1>3, <2>1, <2>2 DEF Awaited
  <2> QED
      BY <2>3, <2>6, <2>7, <2>8 DEF Inv
<1> QED
    BY <1>4, <1>5

\* WaitForCacheSync (factory.go:148-169).
LEMMA WaitLemma ==
  ASSUME Inv, NEW c \in Callers,
         \/ \E s \in Stops : WaitForCacheSync(c, s)
         \/ \E i \in call[c].left : CacheSynced(c, i) \/ CacheStopped(c, i)
         \/ WaitReturn(c)
  PROVE  Inv'
<1>1. TypeOK /\ StartedOnce /\ Down /\ Awaited
    BY DEF Inv
<1>2. call \in [Callers -> CallRecord] /\ call[c] \in CallRecord
    BY <1>1 DEF TypeOK, CallRecord
<1>3. /\ call[c].op = "Shutdown" => shuttingDown
      /\ \A i \in call[c].left : \E g \in goroutines : g.informer = i
    BY <1>1 DEF Down, Awaited
<1>4. ASSUME NEW s \in Stops, WaitForCacheSync(c, s) PROVE Inv'
  <2> DEFINE r == [Idle EXCEPT !.op = "WaitForCacheSync", !.stop = s,
                               !.left = {Shared(t) : t \in startedInformers}]
  <2>1. {Shared(t) : t \in startedInformers} \subseteq Informer
      BY <1>1, InformerForm
  <2>4. \A i \in {Shared(t) : t \in startedInformers} :
          \E g \in goroutines : g.informer = i
      BY <1>1, InformerForm DEF StartedOnce
  <2>2. /\ r \in CallRecord /\ r.op = "WaitForCacheSync"
        /\ r.left = {Shared(t) : t \in startedInformers}
      BY <2>1 DEF Idle, CallRecord
  <2>3. call' = [call EXCEPT ![c] = r]
        /\ UNCHANGED <<factoryVars, worldVars, handles, shutdownReturned>>
      BY <1>4 DEF WaitForCacheSync
  <2> HIDE DEF r
  <2> QED
      BY <2>2, <2>3, <2>4, CallMoves
<1>5. ASSUME NEW i \in call[c].left, CacheSynced(c, i) PROVE Inv'
  <2> DEFINE r == [call[c] EXCEPT !.left = @ \ {i}]
  <2>2. r \in CallRecord /\ r.op = call[c].op /\ r.left = call[c].left \ {i}
      BY <1>2 DEF CallRecord
  <2>3. call' = [call EXCEPT ![c] = r]
        /\ UNCHANGED <<factoryVars, worldVars, handles, shutdownReturned>>
      BY <1>2, <1>5 DEF CacheSynced
  <2> HIDE DEF r
  <2> QED
      BY <1>3, <2>2, <2>3, CallMoves
<1>6. ASSUME NEW i \in call[c].left, CacheStopped(c, i) PROVE Inv'
  <2> DEFINE r == [call[c] EXCEPT !.left = @ \ {i}]
  <2>2. r \in CallRecord /\ r.op = call[c].op /\ r.left = call[c].left \ {i}
      BY <1>2 DEF CallRecord
  <2>3. call' = [call EXCEPT ![c] = r]
        /\ UNCHANGED <<factoryVars, worldVars, handles, shutdownReturned>>
      BY <1>2, <1>6 DEF CacheStopped
  <2> HIDE DEF r
  <2> QED
      BY <1>3, <2>2, <2>3, CallMoves
<1>7. ASSUME WaitReturn(c) PROVE Inv'
  <2> DEFINE r == [call[c] EXCEPT !.op = "idle"]
  <2>1. r \in CallRecord /\ r.op = "idle" /\ r.left = call[c].left
      BY <1>2 DEF CallRecord
  <2>2. call' = [call EXCEPT ![c] = r]
        /\ UNCHANGED <<factoryVars, worldVars, handles, shutdownReturned>>
      BY <1>2, <1>7 DEF WaitReturn
  <2> HIDE DEF r
  <2> QED
      BY <1>3, <2>1, <2>2, CallMoves
<1> QED
    BY <1>4, <1>5, <1>6, <1>7

\* A step of nobody.
LEMMA StutterLemma == ASSUME Inv, UNCHANGED vars PROVE Inv'
  BY DEF Inv, TypeOK, StartedOnce, Counted, AliveTypes, Alive, Down, Awaited

-----------------------------------------------------------------------------
(* The theorems *)

\* Every reachable state satisfies the inductive invariant.
THEOREM Invariance == Spec => []Inv
<1>1. ASSUME Inv, ForResource PROVE Inv'
    BY <1>1, InformerForLemma DEF ForResource, Policies, Bindings, Types
<1>2. ASSUME Inv, [Next]_vars PROVE Inv'
    BY <1>1, <1>2, StartLemma, CloseLemma, GoroutineLemma, ShutdownLemma, WaitLemma,
      StutterLemma DEF Next, GoroutineSteps, WaitSteps
<1> QED
    BY InitInv, <1>2, PTL DEF Spec

\* The types of the factory's state, for any number of callers and channels.
THEOREM TypeCorrect == Spec => []TypeOK
<1>1. Inv => TypeOK
    BY DEF Inv
<1> QED
    BY Invariance, <1>1, PTL

\* After any call of Shutdown has returned no informer runs or is started
\* again (factory.go:223-232).
THEOREM ShutdownIsComplete == Spec => []ShutdownWaits
<1>1. Inv => ShutdownWaits
    BY DEF Inv, Down, ShutdownWaits
<1> QED
    BY Invariance, <1>1, PTL

\* Every informer that a caller holds of a started type runs in exactly one
\* goroutine (factory.go:47-49, 123-135).
THEOREM StartedInformersRunOnce == Spec => []HandlesServed
<1>1. ASSUME Inv, NEW i \in handles, i[1] \in startedInformers
      PROVE  Cardinality({g \in goroutines : g.informer = i}) = 1
  <2>1. i = <<i[1], 1>>
      BY <1>1 DEF Inv, TypeOK, Informer
  <2>2. PICK g \in goroutines : g.informer = i
      BY <1>1, <2>1 DEF Inv, StartedOnce
  <2>3. {h \in goroutines : h.informer = i} = {g}
      BY <1>1, <2>2 DEF Inv, StartedOnce
  <2> QED
      BY <2>3, FS_Singleton
<1>2. Inv => HandlesServed
    BY <1>1 DEF HandlesServed
<1> QED
    BY Invariance, <1>2, PTL

\* A caller of WaitForCacheSync waits only for informers that a goroutine
\* fills, or did until its channel was closed (factory.go:148-169).
THEOREM AwaitedAreServed == Spec => []AwaitedIsServed
<1>1. Inv => AwaitedIsServed
    BY DEF Inv, Awaited, AwaitedIsServed, Alive
<1> QED
    BY Invariance, <1>1, PTL

=============================================================================
