---------------------------- MODULE WebhookServer ----------------------------
(***************************************************************************)
(* The polyfill's process: main (cmd/cel-admission-polyfill/main.go) runs  *)
(* the validators' evaluators and the HTTP server (pkg/webhook/server.go)  *)
(* in goroutines tied together by contexts and a wait group; every request *)
(* is a handler goroutine that asks each validator (pkg/validator/multi.go)*)
(* in turn, and a validator is a celAdmissionPlugin (plugin.go) around the *)
(* vendored policy evaluator, which is modelled from how plugin.go uses    *)
(* it: a snapshot of policies that appears once the caches have synced and *)
(* is refreshed by a goroutine of its own.                                 *)
(***************************************************************************)
EXTENDS Integers, FiniteSets

CONSTANTS
    N,           \* validators given to NewMulti (main.go:123 gives one)
    Requests,    \* calls of the API server that may be in flight
    MaxPolicies, \* bound on the revisions of the cluster's policies
    Denying      \* revisions whose policies deny the requests considered

ASSUME ServerConstants ==
    /\ N \in Nat
    /\ MaxPolicies \in Nat \ {0}
    /\ Denying \subseteq 1..MaxPolicies
    /\ IsFiniteSet(Requests)

Validators == 1..N
NoDefs == -1              \* definitions.Load() == nil
Partial == 0              \* policy data built before the caches synced

(***************************************************************************)
(* A request: what its body is, and whether it is about a policy resource. *)
(***************************************************************************)
Bodies == {"malformed", "wrongKind", "unreadable", "valid"}
Answers == {"none", "allowed", "forbidden", "badRequest", "internalError"}

VARIABLES
    signalled, serverCancelled, waitGroup, exited,      \* main
    listener, serverError, forkCancelled, srvClosed,    \* server goroutine
    run, runErr,                                        \* webhook.Run
    phase, synced, known, definitions, refresher,       \* the evaluators
    policies,                                           \* the API server's
    pc, request, index, answer, connected,              \* the handlers
    used, late      \* history: snapshots used, evaluators gone on arrival

mainVars == <<signalled, serverCancelled, waitGroup, exited>>
listenVars == <<listener, serverError, forkCancelled>>
runVars == <<run, runErr>>
evalVars == <<phase, synced, known, definitions, refresher, policies>>
requestVars == <<pc, request, index, answer, used, late>>
vars == <<mainVars, listenVars, srvClosed, runVars, evalVars, requestVars,
          connected>>

ProcessTypeOK ==
    /\ signalled \in BOOLEAN /\ serverCancelled \in BOOLEAN
    /\ waitGroup \in 0..(N + 1) /\ exited \in BOOLEAN
    /\ listener \in {"starting", "serving", "returned", "done"}
    /\ serverError \in {"none", "listen", "ErrServerClosed"}
    /\ forkCancelled \in BOOLEAN /\ srvClosed \in BOOLEAN
    /\ run \in {"waiting", "closed", "returned", "done"}
    /\ runErr \in {"none", "canceled", "listen", "ErrServerClosed"}

EvaluatorTypeOK ==
    /\ phase \in [Validators -> {"running", "stopping", "stopped", "done"}]
    /\ synced \in [Validators -> BOOLEAN]
    /\ known \in [Validators -> Partial..MaxPolicies]
    /\ definitions \in [Validators -> NoDefs..MaxPolicies]
    /\ refresher \in [Validators -> {"waiting", "looping", "stopped"}]
    /\ policies \in 1..MaxPolicies

HandlerTypeOK ==
    /\ pc \in [Requests -> {"idle", "parse", "validate", "poll", "check",
                            "load", "respond", "done"}]
    /\ request \in [Requests -> [policy : BOOLEAN]]
    /\ index \in [Requests -> 1..(N + 1)]
    /\ answer \in [Requests -> Answers]
    /\ connected \in [Requests -> BOOLEAN]
    /\ used \in [Requests -> [Validators -> NoDefs..MaxPolicies]]
    /\ late \in [Requests -> BOOLEAN]

TypeOK == ProcessTypeOK /\ EvaluatorTypeOK /\ HandlerTypeOK

Init ==
    /\ signalled = FALSE /\ serverCancelled = FALSE
    /\ waitGroup = N + 1 /\ exited = FALSE
    /\ listener = "starting" /\ serverError = "none"
    /\ forkCancelled = FALSE /\ srvClosed = FALSE
    /\ run = "waiting" /\ runErr = "none"
    /\ phase = [v \in Validators |-> "running"]
    /\ synced = [v \in Validators |-> FALSE]
    /\ known = [v \in Validators |-> Partial]
    /\ definitions = [v \in Validators |-> NoDefs]
    /\ refresher = [v \in Validators |-> "waiting"]
    /\ policies = 1
    /\ pc = [r \in Requests |-> "idle"]
    /\ request = [r \in Requests |-> [policy |-> FALSE]]
    /\ index = [r \in Requests |-> 1]
    /\ answer = [r \in Requests |-> "none"]
    /\ connected = [r \in Requests |-> FALSE]
    /\ used = [r \in Requests |-> [v \in Validators |-> NoDefs]]
    /\ late = [r \in Requests |-> FALSE]

-----------------------------------------------------------------------------
(***************************************************************************)
(* Contexts: ctx (cancelled by a signal) > serverContext > fork.  A child  *)
(* is done as soon as its parent is.                                       *)
(***************************************************************************)
ServerDone == signalled \/ serverCancelled
ForkDone == ServerDone \/ forkCancelled

\* SIGINT or SIGTERM cancels the root context.
Signal ==
    /\ ~signalled
    /\ signalled' = TRUE
    /\ UNCHANGED <<serverCancelled, waitGroup, exited, listenVars, srvClosed,
                   runVars, evalVars, requestVars, connected>>

\* Mutant of LeaveGroup: the goroutine and its deferred function both leave.
LeaveGroup_Twice ==
    /\ serverCancelled' = TRUE
    /\ waitGroup' = waitGroup - 2
    /\ UNCHANGED <<signalled, exited>>

\* What each goroutine of main does last: serverCancel(); waitGroup.Done().
LeaveGroup ==
    /\ serverCancelled' = TRUE
    /\ waitGroup' = waitGroup - 1
    /\ UNCHANGED <<signalled, exited>>

\* waitGroup.Wait() returns and main ends, whatever else is running.
MainExit ==
    /\ waitGroup = 0
    /\ exited' = TRUE
    /\ connected' = [r \in Requests |-> FALSE]
    /\ UNCHANGED <<signalled, serverCancelled, waitGroup, listenVars,
                   srvClosed, runVars, evalVars, requestVars>>

-----------------------------------------------------------------------------
(***************************************************************************)
(* The goroutine around ListenAndServeTLS.  Files that cannot be read, an  *)
(* address that cannot be bound and a failing Accept are its own errors;   *)
(* after srv.Close it returns ErrServerClosed, even if it had not started. *)
(***************************************************************************)
ListenAndServe ==
    /\ listener = "starting" /\ ~srvClosed
    /\ listener' = "serving"
    /\ UNCHANGED <<mainVars, serverError, forkCancelled, srvClosed, runVars,
                   evalVars, requestVars, connected>>

ListenReturns(err) ==
    /\ listener \in {"starting", "serving"}
    /\ IF err = "ErrServerClosed"
       THEN srvClosed
       ELSE listener = "starting" \/ ~srvClosed
    /\ listener' = "returned"
    /\ serverError' = err
    /\ UNCHANGED <<mainVars, forkCancelled, srvClosed, runVars, evalVars,
                   requestVars, connected>>

\* Mutant of ListenCancel: the goroutine only logs the error.
ListenCancel_Forgotten ==
    /\ listener = "returned"
    /\ listener' = "done"
    /\ UNCHANGED <<mainVars, serverError, forkCancelled, srvClosed, runVars,
                   evalVars, requestVars, connected>>

ListenCancel ==
    /\ listener = "returned"
    /\ listener' = "done"
    /\ forkCancelled' = TRUE
    /\ UNCHANGED <<mainVars, serverError, srvClosed, runVars, evalVars,
                   requestVars, connected>>

\* webhook.Run: <-fork.Done(), then srv.Close(), which closes the listener and
\* every connection, the busy ones too.
RunClose ==
    /\ run = "waiting" /\ ForkDone
    /\ run' = "closed"
    /\ srvClosed' = TRUE
    /\ connected' = [r \in Requests |-> FALSE]
    /\ UNCHANGED <<mainVars, listenVars, runErr, evalVars, requestVars>>

\* err := fork.Err(), and serverError only when that is nil.
RunReturn ==
    /\ run = "closed"
    /\ run' = "returned"
    /\ runErr' = IF ForkDone THEN "canceled" ELSE serverError
    /\ UNCHANGED <<mainVars, listenVars, srvClosed, evalVars, requestVars,
                   connected>>

\* The deferred function of main's webhook goroutine.
RunDone ==
    /\ run = "returned"
    /\ run' = "done"
    /\ LeaveGroup
    /\ UNCHANGED <<listenVars, srvClosed, runErr, evalVars, requestVars,
                   connected>>

-----------------------------------------------------------------------------
(***************************************************************************)
(* The evaluator of validator v.  Its policy controller syncs with the API *)
(* server and follows it; a second goroutine waits for that sync and then  *)
(* publishes what the controller knows, every second.                      *)
(***************************************************************************)
HasSynced(v) == synced[v] /\ definitions[v] # NoDefs

otherThanEval == <<mainVars, listenVars, srvClosed, runVars, requestVars,
                   connected>>

PolicyChange ==
    /\ policies < MaxPolicies
    /\ policies' = policies + 1
    /\ UNCHANGED <<otherThanEval, phase, synced, known, definitions,
                   refresher>>

\* The policy controllers have handled the initial list.
InitialSync(v) ==
    /\ phase[v] \in {"running", "stopping"} /\ ~synced[v]
    /\ synced' = [synced EXCEPT ![v] = TRUE]
    /\ \E p \in 1..policies : known' = [known EXCEPT ![v] = p]
    /\ UNCHANGED <<otherThanEval, phase, definitions, refresher, policies>>

Reconcile(v) ==
    /\ phase[v] \in {"running", "stopping"} /\ synced[v]
    /\ \E p \in (known[v] + 1)..policies : known' = [known EXCEPT ![v] = p]
    /\ UNCHANGED <<otherThanEval, phase, synced, definitions, refresher,
                   policies>>

\* Mutant of RefresherReady: the refresh loop does not wait for the caches.
RefresherReady_AtOnce(v) ==
    /\ refresher[v] = "waiting"
    /\ refresher' = [refresher EXCEPT ![v] = "looping"]
    /\ UNCHANGED <<otherThanEval, phase, synced, known, definitions, policies>>

\* WaitForNamedCacheSync polls the controllers' HasSynced.
RefresherReady(v) ==
    /\ refresher[v] = "waiting" /\ synced[v]
    /\ refresher' = [refresher EXCEPT ![v] = "looping"]
    /\ UNCHANGED <<otherThanEval, phase, synced, known, definitions, policies>>

refreshPolicies(v) ==
    /\ refresher[v] = "looping"
    /\ definitions[v] # known[v]
    /\ definitions' = [definitions EXCEPT ![v] = known[v]]
    /\ UNCHANGED <<otherThanEval, phase, synced, known, refresher, policies>>

\* <-stopCh, then cancel().
EvaluatorCancel(v) ==
    /\ phase[v] = "running" /\ ServerDone
    /\ phase' = [phase EXCEPT ![v] = "stopping"]
    /\ UNCHANGED <<otherThanEval, synced, known, definitions, refresher,
                   policies>>

\* Mutant of ControllersStop: a stopped controller still says it is synced.
ControllersStop_StillSynced(v) ==
    /\ phase[v] = "stopping"
    /\ phase' = [phase EXCEPT ![v] = "stopped"]
    /\ UNCHANGED <<otherThanEval, synced, known, definitions, refresher,
                   policies>>

\* The controllers return; their deferred function makes HasSynced false.
ControllersStop(v) ==
    /\ phase[v] = "stopping"
    /\ phase' = [phase EXCEPT ![v] = "stopped"]
    /\ synced' = [synced EXCEPT ![v] = FALSE]
    /\ UNCHANGED <<otherThanEval, known, definitions, refresher, policies>>

RefresherStop(v) ==
    /\ phase[v] \in {"stopping", "stopped"} /\ refresher[v] # "stopped"
    /\ refresher' = [refresher EXCEPT ![v] = "stopped"]
    /\ UNCHANGED <<otherThanEval, phase, synced, known, definitions, policies>>

\* Mutant of EvaluatorDone: plugin.Run does not wait for its evaluator.
EvaluatorDone_NotWaited(v) ==
    /\ phase[v] = "stopping"
    /\ phase' = [phase EXCEPT ![v] = "done"]
    /\ LeaveGroup
    /\ UNCHANGED <<listenVars, srvClosed, runVars, requestVars, connected,
                   synced, known, definitions, refresher, policies>>

\* wg.Wait() returns, then Run, then main's goroutine leaves the group.
EvaluatorDone(v) ==
    /\ phase[v] = "stopped" /\ refresher[v] = "stopped"
    /\ phase' = [phase EXCEPT ![v] = "done"]
    /\ LeaveGroup
    /\ UNCHANGED <<listenVars, srvClosed, runVars, requestVars, connected,
                   synced, known, definitions, refresher, policies>>

-----------------------------------------------------------------------------
(***************************************************************************)
(* The handlers.  A handler takes no context of the server: it runs to its *)
(* end even when its connection is closed under it.                        *)
(***************************************************************************)
otherThanRequests == <<mainVars, listenVars, srvClosed, runVars, evalVars>>

\* The answer ends the handler; it reaches the caller if still connected.
Respond(r, a) ==
    /\ pc' = [pc EXCEPT ![r] = "done"]
    /\ answer' = [answer EXCEPT ![r] = IF connected[r] THEN a ELSE "none"]
    /\ connected' = [connected EXCEPT ![r] = FALSE]
    /\ UNCHANGED <<otherThanRequests, request, index, used, late>>

Goto(r, label) ==
    /\ pc' = [pc EXCEPT ![r] = label]
    /\ UNCHANGED <<otherThanRequests, request, index, answer, connected, used,
                   late>>

Arrive(r) ==
    /\ pc[r] = "idle" /\ listener = "serving" /\ ~srvClosed
    /\ \E p \in BOOLEAN : request' = [request EXCEPT ![r] = [policy |-> p]]
    /\ pc' = [pc EXCEPT ![r] = "parse"]
    /\ connected' = [connected EXCEPT ![r] = TRUE]
    /\ late' = [late EXCEPT ![r] =
                  \E v \in Validators : phase[v] \in {"stopped", "done"}]
    /\ UNCHANGED <<otherThanRequests, index, answer, used>>

\* multi.Handles: a celAdmissionPlugin handles every operation.
Handles == Validators # {}

\* parseRequest, then the decoding of the old and the new object, which is
\* skipped when no validator handles the operation.
HandleWebhookValidate(r) ==
    /\ pc[r] = "parse"
    /\ \E body \in Bodies :
          CASE body = "malformed" -> Respond(r, "badRequest")
            [] body = "wrongKind" /\ Handles -> Respond(r, "badRequest")
            [] body = "unreadable" /\ Handles -> Respond(r, "internalError")
            [] OTHER -> Goto(r, "validate")

\* Mutant of isPolicyResource: the group of the custom resources is not listed.
isPolicyResource_Never(r) == FALSE

isPolicyResource(r) == request[r].policy

\* Mutant of NextValidator: the loop ends with the first validator's result.
NextValidator_FirstOnly(r) ==
    /\ index' = [index EXCEPT ![r] = N + 1]
    /\ pc' = [pc EXCEPT ![r] = "validate"]

\* The validator the loop of multi.Validate is at returned no error.
NextValidator(r) ==
    /\ index' = [index EXCEPT ![r] = @ + 1]
    /\ pc' = [pc EXCEPT ![r] = "validate"]

\* multi.Validate and the first statement of plugin.Validate.
Validate(r) ==
    /\ pc[r] = "validate"
    /\ IF index[r] > N THEN Respond(r, "allowed")
       ELSE IF ~isPolicyResource(r) THEN Goto(r, "poll")
       ELSE /\ NextValidator(r)
            /\ UNCHANGED <<otherThanRequests, request, answer, connected, used,
                           late>>

\* PollImmediateWithContext: HasSynced is true at one of the checks, or false
\* at the last of them, a second later.
PollReady(r) ==
    /\ pc[r] = "poll" /\ HasSynced(index[r])
    /\ Goto(r, "check")

\* Mutant of PollTimeout: the poll has no deadline.
PollTimeout_NoDeadline(r) ==
    /\ pc[r] = "poll" /\ ~HasSynced(index[r])
    /\ Goto(r, "poll")

PollTimeout(r) ==
    /\ pc[r] = "poll" /\ ~HasSynced(index[r])
    /\ Respond(r, "forbidden")

\* evaluator.Validate checks again, on its own.
EvaluatorCheck(r) ==
    /\ pc[r] = "check"
    /\ IF HasSynced(index[r]) THEN Goto(r, "load")
       ELSE Respond(r, "forbidden")

\* definitions.Load(), and the verdict of the policies it returns.
Evaluate(r) ==
    LET v == index[r] IN
    /\ pc[r] = "load"
    /\ IF definitions[v] \in Denying
       THEN Respond(r, "forbidden")
       ELSE /\ used' = [used EXCEPT ![r][v] = definitions[v]]
            /\ NextValidator(r)
            /\ UNCHANGED <<otherThanRequests, request, answer, connected, late>>

-----------------------------------------------------------------------------
ListenStep ==
    \/ ListenAndServe
    \/ \E err \in {"listen", "ErrServerClosed"} : ListenReturns(err)
    \/ ListenCancel

RunnerStep == RunClose \/ RunReturn \/ RunDone

EvaluatorStop(v) ==
    EvaluatorCancel(v) \/ ControllersStop(v) \/ RefresherStop(v)
        \/ EvaluatorDone(v)

EvaluatorStep(v) ==
    \/ InitialSync(v) \/ Reconcile(v) \/ RefresherReady(v) \/ refreshPolicies(v)
    \/ EvaluatorStop(v)

RequestStep(r) ==
    \/ HandleWebhookValidate(r) \/ Validate(r) \/ PollReady(r) \/ PollTimeout(r)
    \/ EvaluatorCheck(r) \/ Evaluate(r)

ProcessStep ==
    \/ Signal \/ MainExit \/ ListenStep \/ RunnerStep \/ PolicyChange
    \/ \E v \in Validators : EvaluatorStep(v)
    \/ \E r \in Requests : Arrive(r) \/ RequestStep(r)

\* The process is gone: nothing of it moves any more.
Terminated == exited /\ UNCHANGED vars

Next == (~exited /\ ProcessStep) \/ Terminated

Spec == Init /\ [][Next]_vars

(***************************************************************************)
(* While some goroutine of the process can run, one of them does.  Nothing *)
(* is assumed of the API server (syncing, policies, requests), of signals, *)
(* nor that listening fails.                                               *)
(***************************************************************************)
Fairness ==
    WF_vars(/\ ~exited
            /\ \/ ListenAndServe \/ ListenReturns("ErrServerClosed") \/ ListenCancel
               \/ RunnerStep \/ MainExit
               \/ \E v \in Validators : EvaluatorStop(v)
               \/ \E r \in Requests : RequestStep(r))

FairSpec == Spec /\ Fairness

-----------------------------------------------------------------------------
(***************************************************************************)
(* Properties                                                              *)
(***************************************************************************)
(* FailClosed: a request that is not about a policy resource is allowed    *)
(* only if every validator of the list judged it by a snapshot that was    *)
(* published after the caches had synced and does not deny it -- through   *)
(* startup, refreshes and shutdown (server.go:232, plugin.go:87-93).       *)
FailClosed ==
    \A r \in Requests :
        answer[r] = "allowed" /\ ~request[r].policy =>
            \A v \in Validators : used[r][v] > Partial
                                    /\ used[r][v] \notin Denying

(* SnapshotPublished: when the evaluator loads its policies they are there *)
(* and complete, although HasSynced was asked earlier and may have changed *)
(* since (plugin.go:87 and 93; a nil value would panic in the evaluator).  *)
SnapshotPublished ==
    \A r \in Requests : pc[r] = "load" => definitions[index[r]] > Partial

(* PoliciesExempt: policies and bindings can be written whatever state the *)
(* evaluators are in, also before they synced and while they stop, so that *)
(* a bad policy can always be repaired (plugin.go:83-85).                  *)
PoliciesExempt ==
    \A r \in Requests : request[r].policy => answer[r] # "forbidden"

(* NoAllowAfterStop: a request that arrives when a validator's evaluator   *)
(* has stopped, in the window before srv.Close, is never allowed: its      *)
(* policies would no longer be followed (main.go:131-136, plugin.go:87).   *)
NoAllowAfterStop ==
    \A r \in Requests :
        late[r] /\ ~request[r].policy => answer[r] # "allowed"

(* CleanExit: main returns only when the server is closed and every        *)
(* evaluator's goroutines have stopped (main.go:161-163).                  *)
CleanExit ==
    exited => /\ srvClosed /\ run = "done"
              /\ \A v \in Validators : /\ phase[v] = "done"
                                       /\ refresher[v] = "stopped"

(* ProcessStops: a signal, a server that cannot listen or fails later, and *)
(* a cancelled server context all end the process: the goroutines signal   *)
(* to each other that it is time to wrap up (main.go:161-162).             *)
ProcessStops == <>[](signalled \/ serverError # "none" => exited)

(* RequestsEnd: the handler of every request ends, or the process does; no *)
(* handler waits forever for an evaluator to sync (plugin.go:87-91).       *)
RequestsEnd ==
    \A r \in Requests : <>[](pc[r] \in {"idle", "done"} \/ exited)
=============================================================================
