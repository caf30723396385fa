-------------------------- MODULE PolicyEvaluator --------------------------
(***************************************************************************)
(* How one admission request is judged by the policies of a snapshot: the  *)
(* matching of definitions and bindings, the lookup of parameters, the     *)
(* validator of a binding, failurePolicy and validationActions.  Policies  *)
(* are chosen one field at a time, when the code reads the field; the      *)
(* results of CEL expressions are inputs.                                  *)
(***************************************************************************)
EXTENDS Sequences, FiniteSets, FiniteSetsExt

CONSTANTS
  Rules,         \* rules that policies are made of
  Constraints,   \* matchConstraints and matchResources of the policies
  MaxPolicies, MaxBindings, MaxValidations

-----------------------------------------------------------------------------
(* The API types.  A wildcard in a rule is the set of everything, a group  *)
(* and a subresource are part of the resource.                             *)

Names == {"a", "b"}
Resources == {"deployments", "namespaces", "nodes"}
Versions == {"v1", "v1beta1"}
Operations == {"CREATE", "UPDATE", "DELETE"}
ScopeType == {"Cluster", "Namespaced", "*"}
FailurePolicyType == {"Ignore", "Fail"}
MatchPolicyType == {"Exact", "Equivalent"}

NamedRuleWithOperations ==
  [resourceNames : SUBSET Names, operations : SUBSET Operations,
   apiVersions : SUBSET Versions, resources : SUBSET Resources, scope : ScopeType]

\* A selector is empty, asks for a label, or does not parse.
LabelSelector == {"empty", "labelled", "invalid"}

MatchResources ==
  [namespaceSelector : LabelSelector, objectSelector : LabelSelector,
   resourceRules : SUBSET Rules, excludeResourceRules : SUBSET Rules,
   matchPolicy : MatchPolicyType]

ValidationAction == {"Deny", "Warn", "Audit"}
ValidationActions == {A \in SUBSET ValidationAction : ~ {"Deny", "Warn"} \subseteq A}

Reason == {"Invalid", "Forbidden"}
None == "none"
NoMatchResources == [namespaceSelector |-> "nil"]

\* What a policy says that is not said by its constraints.
PolicySpec == [failurePolicy : FailurePolicyType, paramKind : BOOLEAN]

\* A validation is true, fails to evaluate, or is false for a reason.
Validation == {"TRUE", "ERROR"} \cup Reason

\* A filter that is "exhausted" ran out of its cost budget, or met an
\* internal error, and returns no results at all.
MatchConditions == (SUBSET {"TRUE", "FALSE", "ERROR"}) \cup {{"EXHAUSTED"}}
Evaluation ==
  [validations : UNION {[1..n -> Validation] : n \in 0..MaxValidations},
   exhausted : BOOLEAN,
   messages : {"evaluated", "exhausted"},
   auditAnnotations : {"evaluated", "error", "exhausted"}]

ASSUME EvaluatorAssumption ==
  /\ Rules \subseteq NamedRuleWithOperations /\ Constraints \subseteq MatchResources
  /\ MaxPolicies \in Nat /\ MaxBindings \in Nat /\ MaxValidations \in Nat

\* Requests: the namespace stands for its labels as the lister and then the
\* API server know them, "" for none; an object stands for its labels.
Attributes ==
  {a \in [resource : Resources, version : Versions, operation : Operations,
          name : Names \cup {""}, namespace : {"", "labelled", "plain", "missing"},
          object : {"labelled", "plain", "null"},
          oldObject : {"labelled", "plain", "null"}] :
     /\ a.resource = "nodes" => a.namespace = ""
     /\ a.namespace = "" =>
          a.resource = "nodes" \/ (a.resource = "namespaces" /\ a.operation = "CREATE")
     /\ a.version = "v1beta1" => a.resource = "deployments"
     /\ a.name = "" => a.operation = "CREATE"
     /\ (a.object = "null") = (a.operation = "DELETE")
     /\ (a.oldObject = "null") = (a.operation = "CREATE")}

VARIABLES
  pc,          \* where Validate is
  attr,        \* the request
  policies,    \* how many more policies the snapshot may hold
  bindings,    \* how many more bindings the policy may have
  definition,  \* the policy at hand
  deny,        \* the binding at hand has the action Deny
  denied,      \* the reason of the first of deniedDecisions, or None
  documented,  \* history: the verdict by the documentation of the types
  departures   \* history: how the code has departed from it before a denial

judgement == <<denied, documented, departures>>
vars == <<pc, attr, policies, bindings, definition, deny, judgement>>

TypeOK ==
  /\ pc \in {"idle", "definition", "binding", "param", "conditions", "validations"}
  /\ attr \in Attributes
  /\ policies \in 0..MaxPolicies
  /\ bindings \in 0..MaxBindings
  /\ definition \in PolicySpec
  /\ deny \in BOOLEAN
  /\ denied \in Reason \cup {None}
  /\ documented \in Reason \cup {None}
  /\ departures \subseteq {"strict", "lax"}

NoPolicy == [failurePolicy |-> "Fail", paramKind |-> FALSE]

Init ==
  /\ pc = "idle"
  /\ attr \in Attributes
  /\ policies = 0 /\ bindings = 0
  /\ definition = NoPolicy /\ deny = FALSE
  /\ denied = None /\ documented = None /\ departures = {}

-----------------------------------------------------------------------------
(* Matching *)

RuleMatches(r, a) ==
  LET clusterScoped == a.resource = "namespaces" \/ a.namespace = ""
  IN /\ r.scope \in {"*", IF clusterScoped THEN "Cluster" ELSE "Namespaced"}
     /\ a.operation \in r.operations
     /\ a.version \in r.apiVersions
     /\ a.resource \in r.resources

\* The registry that comes with the scheme is empty.
EquivalentResourcesFor(a) == {}

matchesResourceRules(rs, matchPolicy, a) ==
  \E r \in rs :
    /\ \/ RuleMatches(r, a)
       \/ /\ matchPolicy = "Equivalent"
          /\ \E v \in EquivalentResourcesFor(a) : RuleMatches(r, [a EXCEPT !.version = v])
    /\ r.resourceNames = {} \/ a.name \in r.resourceNames

GetNamespaceLabels(a) ==
  IF a.resource = "namespaces" /\ a.operation \in {"CREATE", "UPDATE"}
  THEN a.object ELSE a.namespace

YesOrNo(b) == IF b THEN "yes" ELSE "no"

MatchNamespaceSelector(selector, a) ==
  IF a.namespace = "" /\ a.resource # "namespaces" THEN "yes"
  ELSE CASE selector = "invalid" -> "error"
         [] selector = "empty" -> "yes"
         [] selector = "labelled" ->
              IF GetNamespaceLabels(a) = "missing" THEN "error"
              ELSE YesOrNo(GetNamespaceLabels(a) = "labelled")

MatchObjectSelector(selector, a) ==
  CASE selector = "invalid" -> "error"
    [] selector = "empty" -> "yes"
    [] selector = "labelled" -> YesOrNo("labelled" \in {a.object, a.oldObject})

\* Mutant of Matches: an error of a selector is returned at once.
Matches_ErrorsFirst(c, a) ==
  LET ns == MatchNamespaceSelector(c.namespaceSelector, a)
      obj == MatchObjectSelector(c.objectSelector, a)
  IN IF ns # "yes" THEN ns ELSE IF obj # "yes" THEN obj
     ELSE YesOrNo(/\ ~matchesResourceRules(c.excludeResourceRules, c.matchPolicy, a)
                  /\ \/ c.resourceRules = {}
                     \/ matchesResourceRules(c.resourceRules, c.matchPolicy, a))

\* Errors of the selectors come last, "now that we know this applies to this
\* request otherwise".
Matches(c, a) ==
  LET ns == MatchNamespaceSelector(c.namespaceSelector, a)
      obj == MatchObjectSelector(c.objectSelector, a)
  IN CASE \/ ns = "no" \/ obj = "no"
          \/ matchesResourceRules(c.excludeResourceRules, c.matchPolicy, a)
          \/ /\ c.resourceRules # {}
             /\ ~matchesResourceRules(c.resourceRules, c.matchPolicy, a) -> "no"
       [] OTHER -> IF "error" \in {ns, obj} THEN "error" ELSE "yes"

BindingMatches(c, a) == IF c = NoMatchResources THEN "yes" ELSE Matches(c, a)

-----------------------------------------------------------------------------
(* The validator of a binding *)

\* The decision for an error: none, or a denial without a reason of its own.
policyDecisionActionForError(f) == IF f = "Ignore" THEN None ELSE "Invalid"

\* What the match conditions make of the binding.
Match(conditions, f) ==
  CASE "FALSE" \in conditions -> "skip"
    [] "FALSE" \notin conditions /\ conditions \subseteq {"TRUE"} -> "evaluate"
    [] OTHER -> IF f = "Fail" THEN "error" ELSE "skip"

\* The decisions of the validator, None for each that admits, and whether an
\* audit annotation is an error (its type is checked when it is compiled).
ValidateResult(f, e) ==
  LET onError == policyDecisionActionForError(f)
      Decision(v) == CASE v = "ERROR" \/ e.messages = "exhausted" -> onError
                       [] v = "TRUE" /\ e.messages # "exhausted" -> None
                       [] v \in Reason /\ e.messages # "exhausted" -> v
  IN IF e.exhausted \/ e.auditAnnotations = "exhausted"
     THEN [decisions |-> <<onError>>, annotationError |-> FALSE]
     ELSE [decisions |-> [i \in DOMAIN e.validations |-> Decision(e.validations[i])],
           annotationError |-> e.auditAnnotations = "error" /\ f = "Fail"]

\* The first denial that a result adds to deniedDecisions, None if it adds
\* none.  Warnings and audit annotations do not reach the API server.
FirstDenial(result) ==
  LET denials == {i \in DOMAIN result.decisions : deny /\ result.decisions[i] # None}
  IN IF denials # {} THEN result.decisions[Min(denials)]
     ELSE IF result.annotationError THEN "Invalid" ELSE None

-----------------------------------------------------------------------------
(* What the documentation of the types says of failures *)

\* The verdict if the first failing validation decides.
FirstFailure(f, validations) ==
  LET failing == {i \in DOMAIN validations :
                    validations[i] \in IF f = "Fail" THEN Reason \cup {"ERROR"} ELSE Reason}
      first == validations[Min(failing)]
  IN IF failing = {} THEN None ELSE IF first = "ERROR" THEN "Invalid" ELSE first

\* A failure that is not a false validation: "validationActions define how
\* failures are enforced" if the failure policy is Fail, "otherwise the
\* failures are ignored" (types.go:175-176, 399-401).
DocumentedFailure(f, enforced) == IF f = "Fail" /\ enforced THEN "Invalid" ELSE None

\* A false validation "is always enforced according to these actions", and the
\* reason of the first to fail is given (types.go:397, 283-285).  A message
\* that cannot be evaluated is replaced by another (types.go:293-294), an
\* annotation that cannot be evaluated is a failure.
DocumentedVerdict(f, e) ==
  LET first == FirstFailure(f, e.validations)
  IN IF ~deny THEN None
     ELSE IF ~e.exhausted /\ (first # None \/ e.auditAnnotations = "evaluated") THEN first
     ELSE DocumentedFailure(f, TRUE)

\* Where the validator departs from that: when the budget ends with the
\* messages or the annotations, the failure policy decides, also on what is
\* false or true, and an annotation's error denies without Deny.
Departures(f, e) ==
  LET overBudget == deny /\ "exhausted" \in {e.messages, e.auditAnnotations}
      notEnforced == ~deny /\ e.auditAnnotations = "error"
  IN IF e.exhausted THEN {}
     ELSE {d \in {"strict", "lax"} :
             \/ d = "strict" /\ f = "Fail" /\ (overBudget \/ notEnforced)
             \/ d = "lax" /\ f = "Ignore" /\ overBudget}

-----------------------------------------------------------------------------
(* Validate *)

\* Mutant of Record: the last denial is the one that is reported.
Record_Last(denial, verdict, departure) ==
  /\ denied' = IF denial # None THEN denial ELSE denied
  /\ documented' = IF documented = None THEN verdict ELSE documented
  /\ departures' = IF denied = None THEN departures \cup departure ELSE departures

\* The first denial and the first documented one are kept.
Record(denial, verdict, departure) ==
  /\ denied' = IF denied = None THEN denial ELSE denied
  /\ documented' = IF documented = None THEN verdict ELSE documented
  /\ departures' = IF denied = None THEN departures \cup departure ELSE departures

Receive ==
  /\ pc = "idle"
  /\ pc' = "definition"
  /\ attr' \in Attributes
  /\ policies' = MaxPolicies
  /\ denied' = None /\ documented' = None /\ departures' = {}
  /\ UNCHANGED <<bindings, definition, deny>>

\* Mutant of addConfigError: a reason that is not given stays empty.
addConfigError_NoReason(f, enforced) ==
  Record(IF f = "Ignore" THEN None ELSE "", DocumentedFailure(f, enforced),
         IF f = "Fail" /\ ~enforced THEN {"strict"} ELSE {})

\* A misconfiguration is judged by the failure policy alone, also when no
\* binding enforces it; a denial without a reason is reported as Invalid.
addConfigError(f, enforced) ==
  Record(IF f = "Ignore" THEN None ELSE "Invalid", DocumentedFailure(f, enforced),
         IF f = "Fail" /\ ~enforced THEN {"strict"} ELSE {})

\* A definition is matched.  If that fails, or if it is misconfigured, its
\* bindings are not looked at: one that selects the request may say Deny.
NextDefinition ==
  /\ pc = "definition" /\ policies > 0
  /\ policies' = policies - 1
  /\ \E matches \in {Matches(c, attr) : c \in Constraints}, spec \in PolicySpec,
        configurationError, enforced \in BOOLEAN :
       LET failed == matches = "error" \/ (matches = "yes" /\ configurationError)
       IN /\ configurationError => spec.paramKind
          /\ IF failed
             THEN addConfigError(spec.failurePolicy, enforced)
             ELSE UNCHANGED judgement
          /\ IF matches = "yes" /\ ~failed
             THEN pc' = "binding" /\ definition' = spec /\ bindings' = MaxBindings
             ELSE UNCHANGED <<pc, definition, bindings>>
  /\ UNCHANGED <<attr, deny>>

NextBinding ==
  /\ pc = "binding" /\ bindings > 0
  /\ bindings' = bindings - 1
  /\ \E matches \in {BindingMatches(c, attr) : c \in Constraints \cup {NoMatchResources}},
        actions \in ValidationActions :
       /\ IF matches = "error"
          THEN addConfigError(definition.failurePolicy, "Deny" \in actions)
          ELSE UNCHANGED judgement
       /\ pc' = IF matches = "yes" THEN "param" ELSE "binding"
       /\ deny' = (matches = "yes" /\ "Deny" \in actions)
  /\ UNCHANGED <<attr, policies, definition>>

\* The parameter is looked up if the policy has a paramKind and the binding a
\* paramRef; its kind may be unknown, its informer not synced for a second, or
\* the object not there.
GetParam ==
  /\ pc = "param"
  /\ \E paramRef, usable \in BOOLEAN :
       LET failed == definition.paramKind /\ paramRef /\ ~usable
       IN /\ deny' = (deny /\ ~failed)
          /\ pc' = IF failed THEN "binding" ELSE "conditions"
          /\ IF failed THEN addConfigError(definition.failurePolicy, deny)
             ELSE UNCHANGED judgement
  /\ UNCHANGED <<attr, policies, bindings, definition>>

\* An error of a condition is enforced as the actions say (types.go:399-401;
\* types.go:203, which does not mention them, would reject the request).
CheckConditions ==
  /\ pc = "conditions"
  /\ \E conditions \in MatchConditions :
       LET m == Match(conditions, definition.failurePolicy)
       IN /\ pc' = IF m = "evaluate" THEN "validations" ELSE "binding"
          /\ IF m = "error"
             THEN LET d == IF deny THEN policyDecisionActionForError(definition.failurePolicy)
                           ELSE None
                  IN Record(d, DocumentedFailure(definition.failurePolicy, deny), {})
             ELSE UNCHANGED judgement
          /\ deny' = (deny /\ m = "evaluate")
  /\ UNCHANGED <<attr, policies, bindings, definition>>

Validate ==
  /\ pc = "validations"
  /\ \E e \in Evaluation :
       Record(FirstDenial(ValidateResult(definition.failurePolicy, e)),
              DocumentedVerdict(definition.failurePolicy, e),
              Departures(definition.failurePolicy, e))
  /\ pc' = "binding" /\ deny' = FALSE
  /\ UNCHANGED <<attr, policies, bindings, definition>>

EndOfBindings ==
  /\ pc = "binding"
  /\ pc' = "definition" /\ bindings' = 0 /\ definition' = NoPolicy /\ deny' = FALSE
  /\ UNCHANGED <<attr, policies, judgement>>

\* The response names the first of deniedDecisions, if there is one.
Respond ==
  /\ pc = "definition"
  /\ pc' = "idle" /\ policies' = 0
  /\ UNCHANGED <<attr, bindings, definition, deny, judgement>>

Next ==
  \/ Receive \/ NextDefinition \/ NextBinding \/ GetParam
  \/ CheckConditions \/ Validate \/ EndOfBindings \/ Respond

Spec == Init /\ [][Next]_vars

-----------------------------------------------------------------------------
(* Properties *)

\* What the documentation of MatchResources says of a request: it must match
\* all parts, and an error counts only if the other parts do match.
MatchPart(ns, obj, rules) ==
  CASE "no" \in {ns, obj, rules} -> "no"
    [] "no" \notin {ns, obj, rules} /\ "error" \in {ns, obj} -> "error"
    [] OTHER -> "yes"

DocumentedLabels(a) == IF a.resource = "namespaces" /\ a.object # "null" THEN a.object
                       ELSE a.namespace

Selected(selector, labels) ==
  CASE selector = "empty" -> "yes"
    [] selector = "invalid" \/ (selector = "labelled" /\ labels = {"missing"}) -> "error"
    [] OTHER -> YesOrNo("labelled" \in labels)

Covered(rs, a) ==
  \E r \in rs : /\ a.name \in r.resourceNames \/ r.resourceNames = {}
               /\ a.operation \in r.operations /\ a.resource \in r.resources
               /\ a.version \in r.apiVersions
               /\ \/ r.scope = "*"
                  \/ (r.scope = "Namespaced") = (a.resource = "deployments")

DocumentedMatch(c, a) ==
  MatchPart(IF a.resource = "nodes" THEN "yes"
            ELSE Selected(c.namespaceSelector, {DocumentedLabels(a)}),
            Selected(c.objectSelector, {a.object, a.oldObject}),
            YesOrNo(/\ c.resourceRules = {} \/ Covered(c.resourceRules, a)
                    /\ ~Covered(c.excludeResourceRules, a)))

\* A request matches exactly the policies that the documentation of
\* MatchResources names (types.go:451-543), whichever of the selectors, rules
\* and exclusions fails first or cannot be decided (matching.go:69-115).  With
\* the policy Equivalent this holds only where the rules list the version of
\* the request, since no equivalent resources are known (server.go:43).
MatchesAsDocumented ==
  pc = "idle" =>
    \A c \in MatchResources :
      \/ /\ c.matchPolicy = "Equivalent"
         /\ \E r \in c.resourceRules \cup c.excludeResourceRules :
              attr.version \notin r.apiVersions
      \/ Matches(c, attr) = DocumentedMatch(c, attr)

\* The verdict, and the reason it gives, is that of the first failure which
\* the documentation has enforced, over all policies, bindings and validations
\* of the snapshot: a false validation denies under either failure policy, an
\* error only under Fail, neither in a binding without Deny, and what comes
\* later changes neither the verdict nor its reason.  Where the code departs
\* from the documentation it stays on one side of it: a misconfiguration, an
\* annotation's error and an exhausted budget under Fail can only deny, as
\* Invalid, and an exhausted budget under Ignore can only lose a denial
\* (controller.go:196-426, validator.go:75-248).
VerdictAsDocumented ==
  \/ denied = documented
  \/ "strict" \in departures /\ denied = "Invalid"
  \/ "lax" \in departures /\ documented # None

-----------------------------------------------------------------------------
(* What the documentation says, and the code does not do                   *)

\* types.go:175 "When failurePolicy is set to Fail,
\* ValidatingAdmissionPolicyBinding validationActions define how failures are
\* enforced": no request is denied for a failure that no Deny enforces
\* (controller.go:196-235 denies for a misconfiguration whatever they say).
ActionsGovernFailures == denied # None => documented # None

=============================================================================
