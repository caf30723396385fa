--------------------------- MODULE InformerFactory ---------------------------
(***************************************************************************)
(* The generated shared informer factory of                                *)
(* pkg/generated/informers/externalversions: components ask it for         *)
(* informers and listers, Start runs the informers it has handed out, each *)
(* in a goroutine, WaitForCacheSync and Shutdown wait for them.  Every     *)
(* section under the factory's lock is one action.                         *)
(***************************************************************************)
EXTENDS Naturals, FiniteSets

CONSTANTS Callers,  \* goroutines that use the factory
          Stops,    \* stop channels
          None      \* no stop channel

ASSUME FactoryAssumption ==
  /\ IsFiniteSet(Callers) /\ IsFiniteSet(Stops)
  /\ None \notin Stops

VARIABLES
  informers,         \* informers[t]: which informer of type t is shared, 0 for none
  startedInformers,  \* the types whose informer has been started
  shuttingDown,
  wg,                \* the counter of the wait group
  goroutines,        \* the goroutines that Start has begun
  closed,            \* the stop channels that are closed
  synced,            \* informers whose cache holds the initial list
  handles,           \* history: informers handed out to callers
  call,              \* call[c]: what caller c is doing, or has done last
  shutdownReturned   \* history: some call of Shutdown has returned

factoryVars == <<informers, startedInformers, shuttingDown, wg>>
worldVars == <<goroutines, closed, synced>>
vars == <<factoryVars, worldVars, handles, call, shutdownReturned>>

Types == {"policies", "bindings"}

\* An informer is named by its type and the number it has among those that
\* the factory has made of the type.
Informer == Types \X {1}

Goroutine ==
  [informer : Informer, stop : Stops, state : {"spawned", "running", "returned"}]

Idle == [op |-> "idle", stop |-> None, left |-> {}]

TypeOK ==
  /\ informers \in [Types -> 0..1]
  /\ startedInformers \subseteq {t \in Types : informers[t] # 0}
  /\ shuttingDown \in BOOLEAN
  /\ wg \in Nat
  /\ goroutines \subseteq Goroutine
  /\ closed \subseteq Stops
  /\ synced \subseteq Informer
  /\ handles \subseteq Informer
  /\ call \in [Callers -> [op : {"idle", "Shutdown", "WaitForCacheSync"},
                           stop : Stops \cup {None}, left : SUBSET Informer]]
  /\ shutdownReturned \in BOOLEAN

NewSharedInformerFactory ==
  /\ informers = [t \in Types |-> 0]
  /\ startedInformers = {}
  /\ shuttingDown = FALSE
  /\ wg = 0

Init ==
  /\ NewSharedInformerFactory
  /\ goroutines = {} /\ closed = {} /\ synced = {}
  /\ handles = {}
  /\ call = [c \in Callers |-> Idle]
  /\ shutdownReturned = FALSE

Shared(t) == <<t, informers[t]>>

-----------------------------------------------------------------------------
(* Handing out informers *)

InformerFor(t) ==
  /\ informers' = IF informers[t] = 0 THEN [informers EXCEPT ![t] = 1] ELSE informers
  /\ handles' = handles \cup {<<t, informers'[t]>>}
  /\ UNCHANGED <<startedInformers, shuttingDown, wg, worldVars, call, shutdownReturned>>

\* Informer() and Lister() of both types, and ForResource, which delegates to
\* them (an unknown resource is an error and changes nothing).
Policies == InformerFor("policies")
Bindings == InformerFor("bindings")
ForResource == Policies \/ Bindings

-----------------------------------------------------------------------------
(* Starting them *)

\* Mutant of Spawn: the goroutines are not added to the wait group.
Spawn_NotCounted(s, types) ==
  /\ goroutines' = goroutines \cup
       {[informer |-> Shared(t), stop |-> s, state |-> "spawned"] : t \in types}
  /\ wg' = wg
  /\ startedInformers' = startedInformers \cup types

Spawn(s, types) ==
  /\ goroutines' = goroutines \cup
       {[informer |-> Shared(t), stop |-> s, state |-> "spawned"] : t \in types}
  /\ wg' = wg + Cardinality(types)
  /\ startedInformers' = startedInformers \cup types

Requested == {t \in Types : informers[t] # 0}

\* Mutant of Start: it starts informers during a shutdown too.
Start_WhileShuttingDown(s) ==
  /\ Spawn(s, Requested \ startedInformers)
  /\ UNCHANGED <<informers, shuttingDown, closed, synced, handles, call, shutdownReturned>>

\* Mutant of Start: it does not look at startedInformers.
Start_Again(s) ==
  /\ ~shuttingDown
  /\ Spawn(s, {t \in Requested : \A g \in goroutines :
                 ~(g.informer = Shared(t) /\ g.stop = s)})
  /\ UNCHANGED <<informers, shuttingDown, closed, synced, handles, call, shutdownReturned>>

Start(s) ==
  /\ ~shuttingDown
  /\ Spawn(s, Requested \ startedInformers)
  /\ UNCHANGED <<informers, shuttingDown, closed, synced, handles, call, shutdownReturned>>

Become(g, state) ==
  goroutines' = (goroutines \ {g}) \cup {[g EXCEPT !.state = state]}

\* Mutant of Return: an informer that finds its channel closed skips wg.Done.
Return_NotDone(g) ==
  /\ Become(g, "returned")
  /\ wg' = IF g.state = "spawned" THEN wg ELSE wg - 1
  /\ UNCHANGED <<informers, startedInformers, shuttingDown, closed, synced, handles,
                 call, shutdownReturned>>

Return(g) ==
  /\ Become(g, "returned")
  /\ wg' = wg - 1
  /\ UNCHANGED <<informers, startedInformers, shuttingDown, closed, synced, handles,
                 call, shutdownReturned>>

\* informer.Run: on a closed channel it returns before it has listed
\* anything; otherwise it runs until the channel is closed.
Run(g) ==
  /\ g.state = "spawned"
  /\ IF g.stop \in closed
       THEN Return(g)
       ELSE /\ Become(g, "running")
            /\ UNCHANGED <<factoryVars, closed, synced, handles, call, shutdownReturned>>

RunEnds(g) ==
  /\ g.state = "running"
  /\ g.stop \in closed
  /\ Return(g)

\* The initial list is in the cache; one that was under way when the channel
\* was closed may still arrive.
ListArrives(g) ==
  /\ g.state = "running"
  /\ g.informer \notin synced
  /\ synced' = synced \cup {g.informer}
  /\ UNCHANGED <<factoryVars, goroutines, closed, handles, call, shutdownReturned>>

Close(s) ==
  /\ s \notin closed
  /\ closed' = closed \cup {s}
  /\ UNCHANGED <<factoryVars, goroutines, synced, handles, call, shutdownReturned>>

-----------------------------------------------------------------------------
(* Waiting for them *)

Shutdown(c) ==
  /\ call[c].op = "idle"
  /\ shuttingDown' = TRUE
  /\ call' = [call EXCEPT ![c] = [Idle EXCEPT !.op = "Shutdown"]]
  /\ UNCHANGED <<informers, startedInformers, wg, worldVars, handles, shutdownReturned>>

ShutdownReturn(c) ==
  /\ call[c].op = "Shutdown"
  /\ wg = 0
  /\ call' = [call EXCEPT ![c] = Idle]
  /\ shutdownReturned' = TRUE
  /\ UNCHANGED <<factoryVars, worldVars, handles>>

\* Mutant of WaitForCacheSync: it waits for informers that nobody started.
WaitForCacheSync_All(c, s) ==
  /\ call[c].op = "idle"
  /\ call' = [call EXCEPT ![c] = [Idle EXCEPT !.op = "WaitForCacheSync", !.stop = s,
                                              !.left = {Shared(t) : t \in Requested}]]
  /\ UNCHANGED <<factoryVars, worldVars, handles, shutdownReturned>>

WaitForCacheSync(c, s) ==
  /\ call[c].op = "idle"
  /\ call' = [call EXCEPT ![c] = [Idle EXCEPT !.op = "WaitForCacheSync", !.stop = s,
                                              !.left = {Shared(t) : t \in startedInformers}]]
  /\ UNCHANGED <<factoryVars, worldVars, handles, shutdownReturned>>

\* cache.WaitForCacheSync polls HasSynced of one informer; it is done with it
\* when the cache has synced, or when the caller's channel is closed.
CacheSynced(c, i) ==
  /\ i \in synced
  /\ call' = [call EXCEPT ![c].left = @ \ {i}]
  /\ UNCHANGED <<factoryVars, worldVars, handles, shutdownReturned>>

CacheStopped(c, i) ==
  /\ call[c].stop \in closed
  /\ call' = [call EXCEPT ![c].left = @ \ {i}]
  /\ UNCHANGED <<factoryVars, worldVars, handles, shutdownReturned>>

WaitReturn(c) ==
  /\ call[c].op = "WaitForCacheSync"
  /\ call[c].left = {}
  /\ call' = [call EXCEPT ![c].op = "idle"]
  /\ UNCHANGED <<factoryVars, worldVars, handles, shutdownReturned>>

-----------------------------------------------------------------------------

WaitSteps(c) ==
  \/ ShutdownReturn(c)
  \/ \E i \in call[c].left : CacheSynced(c, i) \/ CacheStopped(c, i)
  \/ WaitReturn(c)

GoroutineSteps == \E g \in goroutines : Run(g) \/ RunEnds(g)

Next ==
  \/ ForResource
  \/ \E s \in Stops : Start(s) \/ Close(s)
  \/ GoroutineSteps
  \/ \E g \in goroutines : ListArrives(g)
  \/ \E c \in Callers : \/ Shutdown(c)
                        \/ \E s \in Stops : WaitForCacheSync(c, s)
                        \/ WaitSteps(c)

\* Goroutines that can go on do; nothing makes a channel be closed or the API
\* server answer.
Fairness == WF_vars(GoroutineSteps) /\ \A c \in Callers : WF_vars(WaitSteps(c))

Spec == Init /\ [][Next]_vars /\ Fairness

-----------------------------------------------------------------------------
(* Properties *)

Alive == {g \in goroutines : g.state # "returned"}

\* Once any of several concurrent calls of Shutdown has returned, no informer
\* of the factory runs, and none starts again, whoever calls Start when
\* (factory.go:223-232).
ShutdownWaits == shutdownReturned => Alive = {}

\* Start, called many times with different channels and between requests for
\* informers, runs every informer or lister that a caller holds of a started
\* type in exactly one goroutine: no cache is filled twice, and nobody reads
\* one that nothing fills (factory.go:47-49, 123-135).
HandlesServed ==
  \A i \in handles : i[1] \in startedInformers =>
    Cardinality({g \in goroutines : g.informer = i}) = 1

\* Whatever WaitForCacheSync still waits for, from the copy it made of the
\* informers before it let go of the lock, is being filled by a goroutine, or
\* has been until somebody closed the channel it was started with: while the
\* channels are open, nobody waits for a cache that nothing fills, however
\* Start, Shutdown and the waiting callers interleave (factory.go:148-169).
AwaitedIsServed ==
  \A c \in Callers : \A i \in call[c].left :
    \E g \in goroutines : g.informer = i /\ (g \in Alive \/ g.stop \in closed)

\* A Shutdown returns once the channels of the running informers are closed,
\* before the call or during it (factory.go:227-229).
ShutdownReturns ==
  \A c \in Callers :
    (call[c].op = "Shutdown" /\ \A g \in Alive : g.stop \in closed) ~> call[c].op = "idle"

\* WaitForCacheSync returns when the informers that were started have synced
\* or its channel is closed; informers requested since and not started do not
\* hold it up.
WaitReturns ==
  \A c \in Callers :
    (/\ call[c].op = "WaitForCacheSync"
     /\ call[c].stop \in closed \/ \A t \in startedInformers : Shared(t) \in synced)
      ~> call[c].op = "idle"

=============================================================================
