----------------------------- MODULE PolicyStore -----------------------------
(***************************************************************************)
(* One ValidatingAdmissionPolicy of the CRD group at the API server, and   *)
(* what the methods of the generated client and of the TransformedClient   *)
(* do to it.  The API server is external: it keeps every version, gives    *)
(* each one the number of its write as resource version, bumps the         *)
(* generation with the spec, and refuses a PUT that names another version  *)
(* than the current one.  The CRD has a status subresource, so a PUT of    *)
(* the policy leaves the status alone and a PUT of the status the spec.    *)
(***************************************************************************)
EXTENDS Naturals, Sequences

CONSTANTS Words,    \* what a line of a spec says, but for the API versions in it
          MaxWrites \* bound: requests of clients that write

ASSUME StoreAssumption == MaxWrites \in Nat

\* A spec is what the lines of its JSON document say.  A line may spell out
\* API versions, in a CEL expression or as that of the paramKind.
APIVersion == {"admissionregistration.k8s.io/v1alpha1", "admissionregistration.x-k8s.io/v1alpha1"}
Line == [word : Words, versions : SUBSET APIVersion]
Document == Seq(Line)
NoSpec == <<>>  \* the spec of no policy

\* A client's write is followed by at most one write of the status.
MaxRV == 2 * MaxWrites

VARIABLE log  \* the versions of the policy, Absent where it was deleted

\* ValidatingAdmissionPolicyStatus: the generation it describes, and the spec
\* that the type checker was given for it.
NoStatus == [observedGeneration |-> 0, checked |-> NoSpec]
Absent == [generation |-> 0, spec |-> NoSpec, status |-> NoStatus]

Status == [observedGeneration : 0..MaxRV, checked : Document]
Policy == [generation : 0..MaxRV, spec : Document, status : Status]

Version(rv) == IF rv = 0 THEN Absent ELSE log[rv]
Current == Version(Len(log))
Exists == Current # Absent

StoreTypeOK == log \in Seq(Policy) /\ Len(log) <= MaxRV

-----------------------------------------------------------------------------
(* The outcome of a request: its reply and the policy it leaves behind. *)

Ok(policy) == [reply |-> "ok", policy |-> policy]
Refused(why) == [reply |-> why, policy |-> Current]

WithSpec(spec) ==
  IF spec = Current.spec THEN Current
  ELSE [Current EXCEPT !.spec = spec, !.generation = @ + 1]

\* What a PUT at resource version rv meets.
IfCurrent(rv, policy) ==
  IF ~Exists THEN Refused("NotFound")
  ELSE IF rv # Len(log) THEN Refused("Conflict")
  ELSE Ok(policy)

Create(spec) ==
  IF Exists THEN Refused("AlreadyExists")
  ELSE Ok([Absent EXCEPT !.generation = 1, !.spec = spec])

Update(spec, rv) == IfCurrent(rv, WithSpec(spec))

\* Mutant of UpdateStatus: SubResource("status") is left out.
UpdateStatus_MainResource(object) == Update(object.spec, object.rv)

\* Mutant of UpdateStatus: the body carries no resource version and the
\* server accepts that.
UpdateStatus_Unconditional(object) ==
  IF Exists THEN Ok([Current EXCEPT !.status = object.status]) ELSE Refused("NotFound")

UpdateStatus(object) == IfCurrent(object.rv, [Current EXCEPT !.status = object.status])

Patch(spec) == IF Exists THEN Ok(WithSpec(spec)) ELSE Refused("NotFound")

Delete == IF Exists THEN Ok(Absent) ELSE Refused("NotFound")

DeleteCollection == Ok(Absent)

Get == IF Exists THEN Ok(Current) ELSE Refused("NotFound")

\* A request that changes nothing writes no new version.
Commit(outcome) ==
  log' = IF outcome.policy = Current THEN log ELSE Append(log, outcome.policy)

-----------------------------------------------------------------------------
(* Conversion between the CRD type and the native one keeps all fields and *)
(* renames the API version where there is one: items of a list have it,    *)
(* objects of a watch event do not.                                        *)

crdVersion == "admissionregistration.x-k8s.io/v1alpha1"
nativeVersion == "apiregistration.k8s.io/v1alpha1"

Renamed(object, apiVersion) ==
  [object EXCEPT !.apiVersion = IF @ = "" THEN "" ELSE apiVersion]

NativeToCRDPolicy(object) == Renamed(object, crdVersion)
CRDToNativePolicy(object) == Renamed(object, nativeVersion)

\* The policy as the informer's list or watch returns it at version rv.
Transformed(rv, listed) ==
  CRDToNativePolicy(
    [rv |-> rv, apiVersion |-> IF listed THEN crdVersion ELSE "",
     generation |-> Version(rv).generation, spec |-> Version(rv).spec,
     status |-> Version(rv).status])

\* UpdateStatus of the TransformedClient: From, the request, To of its answer.
TransformedUpdateStatus(native) == UpdateStatus(NativeToCRDPolicy(native))

=============================================================================
