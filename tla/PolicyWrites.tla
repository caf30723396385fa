---------------------------- MODULE PolicyWrites ----------------------------
(***************************************************************************)
(* Everyone who writes a policy: clients of the native API, through the    *)
(* interceptor, and the policy controller of the admission plugin, which   *)
(* reads policies from its informer's cache and writes back the result of  *)
(* type checking with UpdateStatus of the TransformedClient.               *)
(***************************************************************************)
EXTENDS Interceptor

CONSTANTS ParamWords,   \* the lines that say the paramKind of a spec
          UnparsedWords \* those among them whose apiVersion does not parse

ASSUME ParamAssumption == UnparsedWords \subseteq ParamWords /\ ParamWords \subseteq Words

VARIABLES
  cache,   \* the policy in the informer's cache
  queued,  \* its key is in the work queue
  busy,    \* the definition whose status is to be reconciled, Nobody if none
  last,    \* spec of lastReconciledValue, NoSpec for nil
  cfgErr,  \* configurationError is set
  lost     \* history: the latest version, if its status update was lost

controllerVars == <<cache, queued, busy, last, cfgErr, lost>>
vars == <<proxyVars, controllerVars>>

Native == [rv : 0..MaxRV, apiVersion : {"", nativeVersion}, generation : 0..MaxRV,
           spec : Document, status : Status]

Nobody == Transformed(0, FALSE)

TypeOK ==
  /\ StoreTypeOK
  /\ InterceptorTypeOK
  /\ cache \in Native
  /\ queued \in BOOLEAN
  /\ busy \in Native
  /\ busy # Nobody => busy.spec # NoSpec
  /\ last \in Document
  /\ cfgErr \in BOOLEAN
  /\ lost \in 0..MaxRV

Init ==
  /\ log = <<>>
  /\ InterceptorInit
  /\ cache = Nobody /\ queued = FALSE /\ busy = Nobody
  /\ last = NoSpec /\ cfgErr = FALSE /\ lost = 0

-----------------------------------------------------------------------------

\* The informer's watch brings the next version, or a list a later one.
\* Every version differs in its resource version, so the handlers enqueue it.
Deliver ==
  \E rv \in cache.rv + 1..Len(log) :
    /\ cache' = Transformed(rv, rv # cache.rv + 1)
    /\ queued' = TRUE
    /\ lost' = 0
    /\ UNCHANGED <<proxyVars, busy, last, cfgErr>>

Says(spec, words) == \E i \in DOMAIN spec : spec[i].word \in words

\* Whether the paramKind is in error: its apiVersion does not parse, which
\* waiting does not mend, or RESTMapping, if it comes to that, finds no
\* resource for it (mapped is its answer).
Misconfigured(spec, mapped) ==
  Says(spec, ParamWords) /\ (Says(spec, UnparsedWords) \/ ~mapped)

\* reconcilePolicyDefinitionSpec returns the error only of RESTMapping.
SpecFails(definition, mapped) ==
  /\ definition.spec # last
  /\ Misconfigured(definition.spec, mapped) /\ ~Says(definition.spec, UnparsedWords)

\* Mutant of reconcilePolicyDefinitionSpec: the error of the last spec stays.
reconcilePolicyDefinitionSpec_ErrorKept(definition, mapped) ==
  /\ last' = definition.spec
  /\ cfgErr' = (cfgErr \/ (definition.spec # last /\ Misconfigured(definition.spec, mapped)))

\* A spec that was reconciled is not looked at again, even if it failed.
reconcilePolicyDefinitionSpec(definition, mapped) ==
  /\ last' = definition.spec
  /\ cfgErr' = IF definition.spec = last /\ last # NoSpec THEN cfgErr
               ELSE Misconfigured(definition.spec, mapped)

\* Mutant of Reconcile: the status of a deleted policy is reconciled too.
Reconcile_Deleted(mapped) ==
  /\ queued /\ busy = Nobody
  /\ reconcilePolicyDefinitionSpec(cache, mapped)
  /\ queued' = SpecFails(cache, mapped)
  /\ busy' = IF SpecFails(cache, mapped) THEN Nobody ELSE cache
  /\ UNCHANGED <<proxyVars, cache, lost>>

\* The worker takes the key and reads the definition from the cache.  If its
\* spec cannot be configured the key is put back; otherwise the status is
\* next, unless the policy is deleted or its status is up to date.
Reconcile(mapped) ==
  /\ queued /\ busy = Nobody
  /\ reconcilePolicyDefinitionSpec(cache, mapped)
  /\ queued' = SpecFails(cache, mapped)
  /\ busy' = IF /\ ~SpecFails(cache, mapped)
                /\ cache.spec # NoSpec
                /\ cache.status.observedGeneration < cache.generation
             THEN cache ELSE Nobody
  /\ UNCHANGED <<proxyVars, cache, lost>>

calculatePolicyStatus(definition) ==
  [definition EXCEPT !.status = [observedGeneration |-> definition.generation,
                                 checked |-> definition.spec]]

\* The request reaches the API server; its answer is not looked at, and
\* neither is an error.
UpdateStatusServed ==
  /\ busy # Nobody
  /\ Commit(TransformedUpdateStatus(calculatePolicyStatus(busy)))
  /\ busy' = Nobody
  /\ UNCHANGED <<interceptorVars, cache, queued, last, cfgErr, lost>>

UpdateStatusLost ==
  /\ busy # Nobody
  /\ lost' = IF busy.rv = Len(log) THEN busy.rv ELSE 0
  /\ busy' = Nobody
  /\ UNCHANGED <<proxyVars, cache, queued, last, cfgErr>>

Worker == (\E mapped \in BOOLEAN : Reconcile(mapped)) \/ UpdateStatusServed

Next ==
  \/ InterceptorNext /\ UNCHANGED controllerVars
  \/ Deliver
  \/ Worker
  \/ UpdateStatusLost

\* The informer follows the API server (what that takes is the subject of
\* TransformedInformer), and the worker works.
Fairness == InterceptorFairness /\ WF_vars(Deliver \/ Worker)

Spec == Init /\ [][Next]_vars /\ Fairness

-----------------------------------------------------------------------------
(* Properties *)

\* The status never claims a generation the policy has not reached, and one
\* that claims the current generation was computed from the current spec,
\* although it is written from a cached copy and generations start again when
\* a policy is deleted and created anew: warnings of an old spec, or of a
\* deleted policy of the same name, never pass for warnings of this one
\* (controller_reconcile.go:446-459).
StatusDescribesSpec ==
  /\ Current.status.observedGeneration <= Current.generation
  /\ Exists /\ Current.status.observedGeneration = Current.generation =>
       Current.status.checked = Current.spec

\* A policy is held misconfigured only for a paramKind of the spec that was
\* reconciled last: neither the spec that replaces a failing one nor a policy
\* that is created after a deletion inherits the error, though a repeated
\* reconcile of one spec leaves it as it is (controller_reconcile.go:204-250).
ConfigErrorOfSpec == cfgErr => Says(last, ParamWords)

\* Every version at the API server has a spec that some client wrote, whole,
\* with the native API version replaced wherever it was spelled out, however
\* often it was read and written back: whatever line stops the pump and
\* whoever hangs up, the interceptor stores nothing else.  Its clients read
\* the spec as it was written, unless that spelled out the API version of the
\* CRDs, which they read as the native one (interceptor main.go:62-84).
StoredAsSent ==
  \A i \in 1..Len(log) : log[i] # Absent =>
    \E b \in Bodies :
      /\ log[i].spec = [j \in DOMAIN b |-> ReplaceAll(b[j], native, crd)]
      /\ (\E j \in DOMAIN b : crd \in b[j].versions) \/ ModifyResponse(i) = b

\* The status catches up with the policy, through conflicts, redeliveries and
\* specs that fail to configure at first; the only way it does not is that
\* the status update of the current version was lost on the way, since the
\* error is swallowed (controller_reconcile.go:452-456).
StatusCatchesUp ==
  <>[](\/ ~Exists
       \/ Current.status.observedGeneration = Current.generation
       \/ lost = Len(log))

\* Every request but a watch is answered and leaves no goroutine behind,
\* though the API server reads from a pipe that only the pump closes, and may
\* answer before it has read it all (interceptor main.go:56-70).  The client
\* has to go on sending: the server has no read timeout.
RequestsFinish ==
  \A c \in Clients : []<>(req[c] = NoRequest \/ req[c].op = "Watch")

=============================================================================
