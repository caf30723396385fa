------------------------- MODULE WebhookServerProofs -------------------------
(***************************************************************************)
(* The safety properties of WebhookServer for every number of validators,  *)
(* every set of requests and every sequence of policies.                   *)
(***************************************************************************)
EXTENDS WebhookServer, FiniteSetTheorems, TLAPS

\* An UNCHANGED is about the variables, not about their tuples.
USE DEF mainVars, listenVars, runVars, evalVars, requestVars, otherThanEval,
        otherThanRequests

-----------------------------------------------------------------------------
(* The inductive invariant *)

Stopped(v) == phase[v] \in {"stopped", "done"}
Remaining == {v \in Validators : phase[v] # "done"}

\* The wait group counts the goroutines of main that have not left it.
GroupCount ==
    waitGroup = Cardinality(Remaining) + (IF run = "done" THEN 0 ELSE 1)

\* What has happened when Run, an evaluator and main are where they are.
Stages ==
    /\ run # "waiting" => srvClosed
    /\ exited => waitGroup = 0
    /\ \A v \in Validators : phase[v] = "done" => refresher[v] = "stopped"

\* What is published was complete, and stays published; a stopped evaluator
\* does not sync again.
Published ==
    \A v \in Validators :
        /\ synced[v] \/ refresher[v] = "looping" => known[v] > Partial
        /\ definitions[v] # NoDefs => definitions[v] > Partial
        /\ Stopped(v) => ~synced[v]

\* Where a handler can be: it asks an evaluator only about other resources
\* than policies, and has an answer only when it is done.
Position(r) ==
    /\ pc[r] = "idle" => index[r] = 1
    /\ pc[r] \in {"poll", "check", "load"} => index[r] <= N /\ ~request[r].policy
    /\ answer[r] # "none" => pc[r] = "done"
    /\ answer[r] = "allowed" => index[r] > N
    /\ request[r].policy => answer[r] # "forbidden"
    /\ pc[r] = "load" => definitions[index[r]] > Partial

\* Every validator the loop has passed has judged the request.
Judged(r) ==
    ~request[r].policy =>
        \A v \in Validators :
            v < index[r] => used[r][v] > Partial /\ used[r][v] \notin Denying

\* A late request does not get past the evaluator that had stopped.
Held(r) ==
    late[r] /\ ~request[r].policy =>
        \E v \in Validators :
            /\ Stopped(v) /\ index[r] <= v
            /\ index[r] = v => pc[r] \notin {"check", "load"}

Inv ==
    /\ TypeOK /\ GroupCount /\ Stages /\ Published
    /\ \A r \in Requests : Position(r) /\ Judged(r) /\ Held(r)

-----------------------------------------------------------------------------
(* Lemmas *)

\* The goroutines that have not left the wait group can be counted.
LEMMA RemainingFinite ==
  ASSUME NEW S \in SUBSET Validators
  PROVE  /\ IsFiniteSet(S)
         /\ Cardinality(S) \in 0..N
<1>1. N \in Nat /\ IsFiniteSet(Validators) /\ Cardinality(Validators) = N
  BY ServerConstants, FS_Interval DEF Validators
<1>2. IsFiniteSet(S) /\ Cardinality(S) <= N
  BY <1>1, FS_Subset
<1>3. Cardinality(S) \in Nat
  BY <1>2, FS_CardinalityType
<1> QED
  BY <1>1, <1>2, <1>3

\* A step that leaves the handlers alone, unpublishes nothing and restarts no
\* evaluator keeps what is known of the handlers.
LEMMA HandlersKept ==
  ASSUME Inv, UNCHANGED requestVars,
         \A v \in Validators : /\ definitions[v] > Partial => definitions'[v] > Partial
                               /\ Stopped(v) => Stopped(v)',
         NEW r \in Requests
  PROVE  Position(r)' /\ Judged(r)' /\ Held(r)'
<1>1. Position(r) /\ Judged(r) /\ Held(r)
  BY DEF Inv
<1>2. pc[r] = "load" => index[r] \in Validators
  BY <1>1, ServerConstants DEF Inv, TypeOK, HandlerTypeOK, Position, Validators
<1>3. Position(r)'
  BY <1>1, <1>2 DEF Position
<1>4. Judged(r)'
  BY <1>1 DEF Judged
<1>5. Held(r)'
  BY <1>1 DEF Held
<1> QED
  BY <1>3, <1>4, <1>5

\* The initial state.
LEMMA InitInv == Init => Inv
<1> SUFFICES ASSUME Init PROVE Inv
  OBVIOUS
<1> USE ServerConstants DEF Init
<1>1. TypeOK
  <2>1. ProcessTypeOK
    <3>1. waitGroup \in 0..(N + 1)
      OBVIOUS
    <3> QED
      BY <3>1, Zenon DEF ProcessTypeOK
  <2>2. EvaluatorTypeOK
    BY DEF EvaluatorTypeOK, NoDefs, Partial
  <2>3. HandlerTypeOK
    BY DEF HandlerTypeOK, NoDefs, Partial, Answers
  <2> QED
    BY <2>1, <2>2, <2>3 DEF TypeOK
<1>2. Remaining = Validators
  BY DEF Remaining
<1>3. GroupCount
  BY <1>2, FS_Interval DEF GroupCount, Validators
<1>4. Stages /\ Published
  BY DEF Stages, Published, Stopped
<1>5. \A r \in Requests : Position(r) /\ Judged(r) /\ Held(r)
  BY DEF Position, Judged, Held, Validators
<1> QED
  BY <1>1, <1>3, <1>4, <1>5 DEF Inv

\* Steps of main, of the server goroutine and of webhook.Run.
LEMMA ProcessLemma ==
  ASSUME Inv, ~exited, Signal \/ MainExit \/ ListenStep \/ RunnerStep
  PROVE  Inv'
<1> USE ServerConstants
<1> USE DEF ListenStep, RunnerStep, Signal, MainExit, ListenAndServe, ListenReturns,
            ListenCancel, RunClose, RunReturn, RunDone, LeaveGroup
<1>1. UNCHANGED <<evalVars, requestVars>>
  OBVIOUS
<1>2. \A r \in Requests : Position(r)' /\ Judged(r)' /\ Held(r)'
  BY <1>1, HandlersKept DEF Stopped
<1>3. Remaining' = Remaining /\ Cardinality(Remaining) \in 0..N
  <2>1. Remaining' = Remaining
    BY <1>1 DEF Remaining
  <2> QED
    BY <2>1, RemainingFinite DEF Remaining
<1>4. GroupCount'
  <2>1. CASE RunDone
    BY <2>1, <1>3 DEF Inv, GroupCount
  <2>2. CASE ~RunDone
    <3>1. waitGroup' = waitGroup /\ (run' = "done" <=> run = "done")
      BY <2>2
    <3> QED
      BY <3>1, <1>3 DEF Inv, GroupCount
  <2> QED
    BY <2>1, <2>2
<1>5. TypeOK'
  <2>1. waitGroup' \in 0..(N + 1)
    BY <1>3, <1>4 DEF GroupCount
  <2>2. ProcessTypeOK'
    <3>1. /\ signalled' \in BOOLEAN /\ serverCancelled' \in BOOLEAN
          /\ exited' \in BOOLEAN
      BY DEF Inv, TypeOK, ProcessTypeOK
    <3>2. forkCancelled' \in BOOLEAN /\ srvClosed' \in BOOLEAN
      BY DEF Inv, TypeOK, ProcessTypeOK
    <3>3. /\ listener' \in {"starting", "serving", "returned", "done"}
          /\ serverError' \in {"none", "listen", "ErrServerClosed"}
      BY DEF Inv, TypeOK, ProcessTypeOK
    <3>4. /\ run' \in {"waiting", "closed", "returned", "done"}
          /\ runErr' \in {"none", "canceled", "listen", "ErrServerClosed"}
      BY DEF Inv, TypeOK, ProcessTypeOK
    <3> QED
      BY <2>1, <3>1, <3>2, <3>3, <3>4, Zenon DEF ProcessTypeOK
  <2>3. EvaluatorTypeOK'
    BY <1>1 DEF Inv, TypeOK, EvaluatorTypeOK
  <2>4. connected' \in [Requests -> BOOLEAN]
    BY DEF Inv, TypeOK, HandlerTypeOK
  <2>5. HandlerTypeOK'
    BY <1>1, <2>4 DEF Inv, TypeOK, HandlerTypeOK
  <2> QED
    BY <2>2, <2>3, <2>5 DEF TypeOK
<1>6. Stages' /\ Published'
  BY <1>1 DEF Inv, Stages, Published, Stopped
<1> QED
  BY <1>2, <1>4, <1>5, <1>6 DEF Inv

\* Steps of an evaluator, and changes of the policies at the API server.
LEMMA EvaluatorLemma ==
  ASSUME Inv, ~exited,
         PolicyChange \/ \E v \in Validators : EvaluatorStep(v)
  PROVE  Inv'
<1> USE ServerConstants
<1> USE DEF EvaluatorStep, EvaluatorStop, PolicyChange, InitialSync, Reconcile,
            RefresherReady, refreshPolicies, EvaluatorCancel, ControllersStop,
            RefresherStop, EvaluatorDone, LeaveGroup
<1>1. /\ UNCHANGED <<signalled, exited, listenVars, srvClosed, runVars>>
      /\ UNCHANGED <<requestVars, connected>>
  OBVIOUS
<1>2. EvaluatorTypeOK'
  <2>1. CASE PolicyChange
    BY <2>1 DEF Inv, TypeOK, EvaluatorTypeOK
  <2>2. ASSUME NEW v \in Validators, EvaluatorStep(v)
        PROVE  EvaluatorTypeOK'
    <3>1. phase' \in [Validators -> {"running", "stopping", "stopped", "done"}]
      BY <2>2 DEF Inv, TypeOK, EvaluatorTypeOK
    <3>2. synced' \in [Validators -> BOOLEAN]
      BY <2>2 DEF Inv, TypeOK, EvaluatorTypeOK
    <3>3. known' \in [Validators -> Partial..MaxPolicies]
      BY <2>2 DEF Inv, TypeOK, EvaluatorTypeOK, Partial
    <3>4. definitions' \in [Validators -> NoDefs..MaxPolicies]
      BY <2>2 DEF Inv, TypeOK, EvaluatorTypeOK, Partial, NoDefs
    <3>5. refresher' \in [Validators -> {"waiting", "looping", "stopped"}]
      BY <2>2 DEF Inv, TypeOK, EvaluatorTypeOK
    <3>6. policies' \in 1..MaxPolicies
      BY <2>2 DEF Inv, TypeOK, EvaluatorTypeOK
    <3> QED
      BY <3>1, <3>2, <3>3, <3>4, <3>5, <3>6 DEF EvaluatorTypeOK
  <2> QED
    BY <2>1, <2>2
<1>3. Published'
  <2>1. CASE PolicyChange
    BY <2>1 DEF Inv, Published, Stopped
  <2>2. ASSUME NEW v \in Validators, EvaluatorStep(v)
        PROVE  Published'
    BY <2>2 DEF Inv, TypeOK, EvaluatorTypeOK, Published, Stopped, Partial, NoDefs
  <2> QED
    BY <2>1, <2>2
<1>4. GroupCount'
  <2>1. CASE \E v \in Validators : EvaluatorDone(v)
    <3>1. PICK v \in Validators : EvaluatorDone(v)
      BY <2>1
    <3>2. v \in Remaining /\ Remaining' = Remaining \ {v}
      BY <3>1 DEF Inv, TypeOK, EvaluatorTypeOK, Remaining
    <3>3. /\ IsFiniteSet(Remaining)
          /\ Cardinality(Remaining) \in 0..N
      BY RemainingFinite DEF Remaining
    <3>4. Cardinality(Remaining') = Cardinality(Remaining) - 1
      BY <3>2, <3>3, FS_RemoveElement
    <3>5. waitGroup' = waitGroup - 1 /\ run' = run
      BY <3>1
    <3> QED
      BY <3>3, <3>4, <3>5 DEF Inv, GroupCount
  <2>2. CASE ~ \E v \in Validators : EvaluatorDone(v)
    <3>1. UNCHANGED <<waitGroup, run>>
      BY <2>2
    <3>2. Remaining' = Remaining
      BY <2>2 DEF Inv, TypeOK, EvaluatorTypeOK, Remaining
    <3> QED
      BY <3>1, <3>2 DEF Inv, GroupCount
  <2> QED
    BY <2>1, <2>2
<1>5. Stages'
  <2>1. \A v \in Validators : phase'[v] = "done" => refresher'[v] = "stopped"
    BY DEF Inv, TypeOK, EvaluatorTypeOK, Stages
  <2> QED
    BY <1>1, <2>1 DEF Inv, Stages
<1>6. TypeOK'
  <2>1. waitGroup' \in 0..(N + 1)
    BY <1>4, RemainingFinite DEF GroupCount, Remaining
  <2>2. serverCancelled' \in BOOLEAN
    BY DEF Inv, TypeOK, ProcessTypeOK
  <2>3. ProcessTypeOK'
    <3>1. /\ signalled' = signalled /\ exited' = exited /\ listener' = listener
          /\ serverError' = serverError /\ forkCancelled' = forkCancelled
          /\ srvClosed' = srvClosed /\ run' = run /\ runErr' = runErr
      BY <1>1
    <3>2. ProcessTypeOK
      BY DEF Inv, TypeOK
    <3> HIDE DEF EvaluatorStep, PolicyChange
    <3> QED
      BY <2>1, <2>2, <3>1, <3>2, Zenon DEF ProcessTypeOK
  <2>4. HandlerTypeOK'
    BY <1>1 DEF Inv, TypeOK, HandlerTypeOK
  <2> QED
    BY <1>2, <2>3, <2>4 DEF TypeOK
<1>7. \A v \in Validators : /\ definitions[v] > Partial => definitions'[v] > Partial
                            /\ Stopped(v) => Stopped(v)'
  <2>1. \A v \in Validators : definitions[v] > Partial => definitions'[v] > Partial
    BY DEF Inv, TypeOK, EvaluatorTypeOK, Published, Partial, NoDefs
  <2>2. \A v \in Validators : Stopped(v) => Stopped(v)'
    BY DEF Inv, TypeOK, EvaluatorTypeOK, Stopped
  <2> QED
    BY <2>1, <2>2
<1>8. \A r \in Requests : Position(r)' /\ Judged(r)' /\ Held(r)'
  BY <1>1, <1>7, HandlersKept
<1> QED
  BY <1>3, <1>4, <1>5, <1>6, <1>8 DEF Inv

\* Steps of a handler.
LEMMA HandlerLemma ==
  ASSUME Inv, ~exited, NEW r \in Requests, Arrive(r) \/ RequestStep(r)
  PROVE  Inv'
<1> USE ServerConstants
<1> USE DEF RequestStep, Arrive, HandleWebhookValidate, Validate, PollReady,
            PollTimeout, EvaluatorCheck, Evaluate, Respond, Goto, NextValidator,
            isPolicyResource
<1>1. UNCHANGED otherThanRequests
  BY DEF Bodies
<1>2. /\ TypeOK
      /\ Position(r) /\ Judged(r) /\ Held(r)
      /\ index[r] \in 1..(N + 1)
      /\ index[r] \in Validators <=> index[r] <= N
  BY DEF Inv, TypeOK, HandlerTypeOK, Validators
<1>3. /\ ProcessTypeOK' /\ EvaluatorTypeOK'
      /\ GroupCount' /\ Stages' /\ Published'
  <2>1. ProcessTypeOK'
    BY <1>1, <1>2 DEF TypeOK, ProcessTypeOK
  <2>2. EvaluatorTypeOK'
    BY <1>1, <1>2 DEF TypeOK, EvaluatorTypeOK
  <2>3. GroupCount' /\ Stages' /\ Published'
    BY <1>1 DEF Inv, GroupCount, Remaining, Stages, Published, Stopped
  <2> QED
    BY <2>1, <2>2, <2>3
<1>4. HandlerTypeOK'
  <2> USE DEF TypeOK, HandlerTypeOK
  <2>1. pc' \in [Requests -> {"idle", "parse", "validate", "poll", "check",
                              "load", "respond", "done"}]
    BY <1>2
  <2>2. request' \in [Requests -> [policy : BOOLEAN]]
    <3>1. request' = request \/ \E p \in BOOLEAN : request' = [request EXCEPT ![r] = [policy |-> p]]
      BY DEF Bodies
    <3> QED
      BY <1>2, <3>1
  <2>3. index' \in [Requests -> 1..(N + 1)]
    BY <1>2 DEF Position
  <2>4. answer' \in [Requests -> Answers]
    BY <1>2 DEF Answers, Bodies
  <2>5. connected' \in [Requests -> BOOLEAN]
    BY <1>2
  <2>6. used' \in [Requests -> [Validators -> NoDefs..MaxPolicies]]
    <3>1. CASE Evaluate(r)
      <4>1. definitions[index[r]] \in NoDefs..MaxPolicies
        BY <1>2, <3>1 DEF Position, EvaluatorTypeOK
      <4> DEFINE row == [used[r] EXCEPT ![index[r]] = definitions[index[r]]]
      <4>2. row \in [Validators -> NoDefs..MaxPolicies]
        BY <1>2, <4>1
      <4>3. used' = used \/ used' = [used EXCEPT ![r] = row]
        BY <3>1
      <4> HIDE DEF row
      <4> QED
        BY <1>2, <4>2, <4>3
    <3>2. CASE ~Evaluate(r)
      <4>1. used' = used
        BY <3>2 DEF Bodies
      <4> QED
        BY <1>2, <4>1
    <3> QED
      BY <3>1, <3>2
  <2>7. late' \in [Requests -> BOOLEAN]
    BY <1>2
  <2> QED
    BY <2>1, <2>2, <2>3, <2>4, <2>5, <2>6, <2>7
<1>5. ASSUME NEW q \in Requests, q # r
      PROVE  Position(q)' /\ Judged(q)' /\ Held(q)'
  <2>1. /\ pc'[q] = pc[q] /\ request'[q] = request[q] /\ index'[q] = index[q]
        /\ answer'[q] = answer[q] /\ used'[q] = used[q] /\ late'[q] = late[q]
    BY <1>2, <1>5 DEF TypeOK, HandlerTypeOK
  <2>2. Position(q) /\ Judged(q) /\ Held(q)
    BY DEF Inv
  <2> QED
    BY <1>1, <2>1, <2>2 DEF Position, Judged, Held, Stopped
<1>6. Position(r)'
  <2> USE DEF Position, TypeOK, HandlerTypeOK
  <2>1. CASE Arrive(r)
    BY <1>2, <2>1
  <2>2. CASE HandleWebhookValidate(r)
    BY <1>2, <2>2
  <2>3. CASE Validate(r)
    BY <1>2, <2>3
  <2>4. CASE PollReady(r)
    BY <1>2, <2>4
  <2>5. CASE PollTimeout(r)
    BY <1>2, <2>5
  <2>6. CASE EvaluatorCheck(r)
    BY <1>2, <2>6 DEF Inv, Published, HasSynced
  <2>7. CASE Evaluate(r)
    BY <1>2, <2>7
  <2> QED
    BY <2>1, <2>2, <2>3, <2>4, <2>5, <2>6, <2>7
<1>7. Judged(r)'
  <2>1. CASE Evaluate(r)
    <3>1. index[r] \in Validators /\ definitions[index[r]] > Partial
      BY <1>2, <2>1 DEF Position
    <3>2. CASE definitions[index[r]] \in Denying
      BY <1>2, <2>1, <3>2 DEF Judged, TypeOK, HandlerTypeOK
    <3>3. CASE definitions[index[r]] \notin Denying
      <4>1. /\ request' = request
            /\ index'[r] = index[r] + 1
            /\ used'[r][index[r]] = definitions[index[r]]
            /\ \A v \in Validators : v # index[r] => used'[r][v] = used[r][v]
        BY <1>2, <2>1, <3>1, <3>3 DEF TypeOK, HandlerTypeOK
      <4> QED
        BY <1>2, <3>1, <3>3, <4>1 DEF Judged, Validators
    <3> QED
      BY <3>2, <3>3
  <2>2. CASE Arrive(r)
    BY <1>2, <2>2 DEF Judged, Position, Validators
  <2>3. CASE ~Evaluate(r) /\ ~Arrive(r)
    <3>1. /\ request' = request /\ used' = used
          /\ request[r].policy \/ index' = index
      BY <2>3 DEF Bodies
    <3> QED
      BY <1>2, <3>1 DEF Judged
  <2> QED
    BY <2>1, <2>2, <2>3
<1>8. Held(r)'
  <2> USE DEF Held, Stopped, TypeOK, HandlerTypeOK
  <2>1. CASE Arrive(r)
    BY <1>2, <2>1 DEF Position, Validators
  <2>2. CASE HandleWebhookValidate(r)
    BY <1>2, <2>2
  <2>3. CASE Validate(r)
    BY <1>2, <2>3
  <2>4. CASE PollReady(r)
    BY <1>2, <2>4 DEF Inv, Published, HasSynced
  <2>5. CASE PollTimeout(r)
    BY <1>2, <2>5
  <2>6. CASE EvaluatorCheck(r)
    BY <1>2, <2>6
  <2>7. CASE Evaluate(r)
    <3>1. SUFFICES ASSUME late[r], ~request[r].policy
                   PROVE  Held(r)'
      BY <1>2, <2>7
    <3>2. PICK v \in Validators : /\ Stopped(v) /\ index[r] <= v
                                  /\ index[r] = v => pc[r] \notin {"check", "load"}
      BY <1>2, <3>1
    <3>3. index[r] < v
      BY <1>2, <2>7, <3>2 DEF Validators
    <3>4. index'[r] <= v /\ pc'[r] \notin {"check", "load"}
      BY <1>2, <2>7, <3>2, <3>3 DEF Validators
    <3> QED
      BY <1>1, <3>2, <3>4
  <2> QED
    BY <2>1, <2>2, <2>3, <2>4, <2>5, <2>6, <2>7
<1> QED
  BY <1>3, <1>4, <1>5, <1>6, <1>7, <1>8 DEF Inv, TypeOK

-----------------------------------------------------------------------------
(* Theorems *)

\* The inductive invariant holds in every reachable state of the process.
THEOREM Invariance == Spec => []Inv
<1>1. Inv /\ [Next]_vars => Inv'
  <2> SUFFICES ASSUME Inv, [Next]_vars PROVE Inv'
    OBVIOUS
  <2>1. CASE ~exited /\ ProcessStep
    BY <2>1, ProcessLemma, EvaluatorLemma, HandlerLemma DEF ProcessStep
  <2>2. CASE UNCHANGED vars
    BY <2>2 DEF vars, Inv, TypeOK, ProcessTypeOK, EvaluatorTypeOK, HandlerTypeOK,
                GroupCount, Remaining, Stages, Published, Stopped, Position,
                Judged, Held
  <2> QED
    BY <2>1, <2>2 DEF Next, Terminated
<1> QED
  BY <1>1, InitInv, PTL DEF Spec

\* Every variable of the process keeps its type; the wait group never goes
\* below zero or above the goroutines of main.
THEOREM TypeCorrect == Spec => []TypeOK
BY Invariance, PTL DEF Inv

\* No request about another resource than a policy is allowed unless every
\* validator has judged it by a published snapshot, for any number of them.
THEOREM AllowedOnlyIfJudged == Spec => []FailClosed
<1>1. Inv => FailClosed
  <2> SUFFICES ASSUME Inv, NEW r \in Requests, answer[r] = "allowed",
                      ~request[r].policy, NEW v \in Validators
               PROVE  used[r][v] > Partial /\ used[r][v] \notin Denying
    BY DEF FailClosed
  <2>1. index[r] > N /\ index[r] \in 1..(N + 1)
    BY DEF Inv, Position, TypeOK, HandlerTypeOK
  <2>2. v < index[r]
    BY <2>1, ServerConstants DEF Validators
  <2> QED
    BY <2>2 DEF Inv, Judged
<1> QED
  BY Invariance, <1>1, PTL

\* An evaluator never loads a snapshot that is missing or incomplete, although
\* it asked for readiness in an earlier step.
THEOREM SnapshotIsPublished == Spec => []SnapshotPublished
<1>1. Inv => SnapshotPublished
  BY DEF Inv, Position, SnapshotPublished
<1> QED
  BY Invariance, <1>1, PTL

\* No evaluator, in whatever state, keeps a policy from being written.
THEOREM PoliciesAreExempt == Spec => []PoliciesExempt
<1>1. Inv => PoliciesExempt
  BY DEF Inv, Position, PoliciesExempt
<1> QED
  BY Invariance, <1>1, PTL

\* A request that arrives once an evaluator has stopped is never allowed.
THEOREM LateRequestsNotAllowed == Spec => []NoAllowAfterStop
<1>1. Inv => NoAllowAfterStop
  <2> SUFFICES ASSUME Inv, NEW r \in Requests, late[r], ~request[r].policy,
                      answer[r] = "allowed"
               PROVE  FALSE
    BY DEF NoAllowAfterStop
  <2>1. index[r] > N /\ index[r] \in 1..(N + 1)
    BY DEF Inv, Position, TypeOK, HandlerTypeOK
  <2>2. \E v \in Validators : index[r] <= v
    BY DEF Inv, Held
  <2> QED
    BY <2>1, <2>2, ServerConstants DEF Validators
<1> QED
  BY Invariance, <1>1, PTL

\* When main returns the server is closed and no goroutine of an evaluator is
\* left: the wait group has counted them all.
THEOREM ExitIsClean == Spec => []CleanExit
<1>1. Inv => CleanExit
  <2> SUFFICES ASSUME Inv, exited
               PROVE  /\ srvClosed /\ run = "done"
                      /\ \A v \in Validators : /\ phase[v] = "done"
                                               /\ refresher[v] = "stopped"
    BY DEF CleanExit
  <2>1. /\ IsFiniteSet(Remaining)
        /\ Cardinality(Remaining) \in 0..N
    BY RemainingFinite DEF Remaining
  <2>2. Cardinality(Remaining) = 0 /\ run = "done"
    BY <2>1, ServerConstants DEF Inv, GroupCount, Stages
  <2>3. Remaining = {}
    BY <2>1, <2>2, FS_EmptySet
  <2>4. srvClosed
    BY <2>2 DEF Inv, Stages
  <2> QED
    BY <2>2, <2>3, <2>4 DEF Inv, Stages, Remaining
<1> QED
  BY Invariance, <1>1, PTL

=============================================================================
