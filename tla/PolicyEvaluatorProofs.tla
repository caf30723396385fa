------------------------ MODULE PolicyEvaluatorProofs ------------------------
(***************************************************************************)
(* Proofs about the judgement of a request, for any number of policies,    *)
(* bindings and validations and any rules: the verdict is the one that the *)
(* documentation of the API types gives, or departs from it in one of two  *)
(* ways, and a request matches exactly the constraints that the            *)
(* documentation says it matches.                                          *)
(***************************************************************************)
EXTENDS PolicyEvaluator, WellFoundedInduction, TLAPS

-----------------------------------------------------------------------------
(* The first failure *)

\* A set of numbers that is not empty has a least one.
LEMMA MinLemma ==
  ASSUME NEW S \in SUBSET Nat, S # {}
  PROVE  Min(S) \in S
<1>1. \E x \in S : \A y \in S : ~(<<y, x>> \in OpToRel(<, Nat))
    BY NatLessThanWellFounded, WFMin
<1>2. \A x, y \in Nat : y < x => <<y, x>> \in OpToRel(<, Nat)
    BY DEF OpToRel
<1>3. PICK x \in S : \A y \in S : ~(<<y, x>> \in OpToRel(<, Nat))
    BY <1>1
<1>4. \A y \in S : ~(y < x)
    BY <1>2, <1>3
<1>5. \A y \in S : x <= y
    BY <1>4
<1> QED
    BY <1>5 DEF Min

Verdicts == Reason \cup {None}

\* The validations of a policy are numbered from 1.
LEMMA ValidationsDomain ==
  ASSUME NEW e \in Evaluation
  PROVE  /\ DOMAIN e.validations \in SUBSET Nat
         /\ \A i \in DOMAIN e.validations : e.validations[i] \in Validation
<1>1. PICK n \in 0..MaxValidations : e.validations \in [1..n -> Validation]
    BY DEF Evaluation
<1> QED
    BY <1>1, EvaluatorAssumption

\* The validations that fail, and what is known of the first.
Failing(f, v) ==
  {i \in DOMAIN v : v[i] \in IF f = "Fail" THEN Reason \cup {"ERROR"} ELSE Reason}

\* The first failure, in terms of the validations that fail.
LEMMA FirstFailureIs ==
  ASSUME NEW f \in FailurePolicyType, NEW e \in Evaluation
  PROVE  LET v == e.validations IN
         /\ Failing(f, v) = {} => FirstFailure(f, v) = None
         /\ Failing(f, v) # {} =>
              /\ Min(Failing(f, v)) \in Failing(f, v)
              /\ FirstFailure(f, v) = IF v[Min(Failing(f, v))] = "ERROR" THEN "Invalid"
                                      ELSE v[Min(Failing(f, v))]
              /\ FirstFailure(f, v) \in Reason
<1> DEFINE v == e.validations
<1>1. Failing(f, v) \in SUBSET Nat
    BY ValidationsDomain DEF Failing
<1>2. Failing(f, v) # {} => Min(Failing(f, v)) \in Failing(f, v)
    BY <1>1, MinLemma
<1>3. FirstFailure(f, v) = IF Failing(f, v) = {} THEN None
                           ELSE IF v[Min(Failing(f, v))] = "ERROR" THEN "Invalid"
                           ELSE v[Min(Failing(f, v))]
    BY DEF FirstFailure, Failing
<1>4. \A i \in Failing(f, v) : v[i] \in Reason \cup {"ERROR"}
    BY DEF Failing
<1> HIDE DEF v
<1> QED
    BY <1>2, <1>3, <1>4 DEF v, Reason

\* A verdict is as documented, or departs from it on the side it may.
Justified(denial, verdict, departure) ==
  \/ denial = verdict
  \/ "strict" \in departure /\ denial = "Invalid"
  \/ "lax" \in departure /\ verdict # None

\* The first denial of the validator's result is the documented verdict, or a
\* departure that is recorded with it.
LEMMA FirstDenialJustified ==
  ASSUME NEW f \in FailurePolicyType, NEW e \in Evaluation, deny \in BOOLEAN
  PROVE  /\ Justified(FirstDenial(ValidateResult(f, e)), DocumentedVerdict(f, e),
                      Departures(f, e))
         /\ FirstDenial(ValidateResult(f, e)) \in Verdicts
         /\ DocumentedVerdict(f, e) \in Verdicts
<1> DEFINE v == e.validations
           onError == policyDecisionActionForError(f)
           failure == IF f = "Fail" THEN "Invalid" ELSE None
           first == FirstFailure(f, v)
           failing == Failing(f, v)
           result == ValidateResult(f, e)
           denials == {i \in DOMAIN result.decisions : deny /\ result.decisions[i] # None}
           overBudget == deny /\ "exhausted" \in {e.messages, e.auditAnnotations}
           notEnforced == ~deny /\ e.auditAnnotations = "error"
<1>1. onError = failure /\ failure \in Verdicts /\ None \in Verdicts
    BY DEF FailurePolicyType, policyDecisionActionForError, Verdicts, Reason
<1>2. DocumentedVerdict(f, e) =
        IF ~deny THEN None
        ELSE IF ~e.exhausted /\ (first # None \/ e.auditAnnotations = "evaluated") THEN first
        ELSE failure
    BY DEF DocumentedVerdict, DocumentedFailure
<1>3. FirstDenial(result) =
        IF denials # {} THEN result.decisions[Min(denials)]
        ELSE IF result.annotationError THEN "Invalid" ELSE None
    BY DEF FirstDenial
<1>4. e.exhausted \in BOOLEAN /\ e.messages \in {"evaluated", "exhausted"}
      /\ e.auditAnnotations \in {"evaluated", "error", "exhausted"}
    BY DEF Evaluation
<1>5. /\ failing = {} => first = None
      /\ failing # {} => /\ Min(failing) \in failing
                         /\ first = IF v[Min(failing)] = "ERROR" THEN "Invalid"
                                    ELSE v[Min(failing)]
                         /\ first \in Reason
    BY FirstFailureIs
<1>6. first \in Verdicts
    BY <1>5 DEF Verdicts
<1>7. /\ ~e.exhausted /\ f = "Fail" /\ (overBudget \/ notEnforced)
           => "strict" \in Departures(f, e)
      /\ ~e.exhausted /\ f = "Ignore" /\ overBudget => "lax" \in Departures(f, e)
    BY DEF Departures
<1>8. DocumentedVerdict(f, e) \in Verdicts
    BY <1>1, <1>2, <1>6
<1>9. f = "Fail" \/ f = "Ignore"
    BY DEF FailurePolicyType
<1>10. "Invalid" \in Verdicts /\ "Invalid" # None
    BY DEF Verdicts, Reason, None
<1> HIDE DEF onError, result, first, failing
<1>11. CASE e.exhausted \/ e.auditAnnotations = "exhausted"
  <2>1. result = [decisions |-> <<onError>>, annotationError |-> FALSE]
      BY <1>11 DEF result, ValidateResult, onError
  <2>2. /\ result.decisions = <<onError>> /\ ~result.annotationError
        /\ DOMAIN <<onError>> = {1} /\ <<onError>>[1] = onError
      BY <2>1
  <2>3. denials = IF deny /\ failure # None THEN {1} ELSE {}
      BY <1>1, <2>2
  <2>4. Min({1}) = 1
      BY MinLemma
  <2>5. FirstDenial(result) = IF deny THEN failure ELSE None
      BY <1>1, <1>3, <2>2, <2>3, <2>4
  <2>6. Justified(FirstDenial(result), DocumentedVerdict(f, e), Departures(f, e))
    <3>1. CASE ~deny \/ e.exhausted
        BY <1>2, <2>5, <3>1 DEF Justified
    <3>2. CASE deny /\ ~e.exhausted /\ f = "Fail"
        BY <1>7, <1>11, <2>5, <3>2 DEF Justified
    <3>3. CASE deny /\ ~e.exhausted /\ f = "Ignore"
      <4>1. "lax" \in Departures(f, e)
          BY <1>7, <1>11, <3>3
      <4>2. FirstDenial(result) = None
          BY <2>5, <3>3
      <4> QED
          BY <4>1, <4>2 DEF Justified
    <3> QED
        BY <1>4, <1>9, <3>1, <3>2, <3>3
  <2> QED
      BY <1>1, <1>8, <2>5, <2>6 DEF result
<1>12. CASE ~e.exhausted /\ e.auditAnnotations # "exhausted"
  <2> DEFINE Decision(x) == CASE x = "ERROR" \/ e.messages = "exhausted" -> onError
                              [] x = "TRUE" /\ e.messages # "exhausted" -> None
                              [] x \in Reason /\ e.messages # "exhausted" -> x
  <2>1. result = [decisions |-> [i \in DOMAIN v |-> Decision(v[i])],
                  annotationError |-> e.auditAnnotations = "error" /\ f = "Fail"]
      BY <1>12 DEF result, ValidateResult, onError
  <2>2. /\ result.decisions = [i \in DOMAIN v |-> Decision(v[i])]
        /\ DOMAIN result.decisions = DOMAIN v
        /\ result.annotationError = (e.auditAnnotations = "error" /\ f = "Fail")
      BY <2>1
  <2>3. \A i \in DOMAIN v : result.decisions[i] = Decision(v[i])
      BY <2>2
  <2>4. /\ denials \in SUBSET DOMAIN v /\ DOMAIN v \in SUBSET Nat
        /\ \A i \in DOMAIN v : v[i] \in Validation
      BY <2>2, ValidationsDomain
  <2>5. denials # {} => Min(denials) \in DOMAIN v
      BY <2>4, MinLemma
  <2>6. denials = {} => FirstDenial(result) = IF e.auditAnnotations = "error"
                                              THEN failure ELSE None
      BY <1>3, <2>2
  <2>7. CASE ~deny
    <3>1. denials = {}
        BY <2>7
    <3>2. FirstDenial(result) = IF e.auditAnnotations = "error" THEN failure ELSE None
        BY <2>6, <3>1
    <3>3. DocumentedVerdict(f, e) = None
        BY <1>2, <2>7
    <3>4. Justified(FirstDenial(result), DocumentedVerdict(f, e), Departures(f, e))
        BY <1>7, <1>12, <2>7, <3>2, <3>3 DEF Justified
    <3> QED
        BY <1>1, <1>8, <3>2, <3>4 DEF result
  <2>8. CASE deny /\ e.messages = "exhausted"
    <3>1. \A i \in DOMAIN v : result.decisions[i] = failure
        BY <1>1, <2>3, <2>8
    <3>2. denials # {} => FirstDenial(result) = failure
        BY <1>3, <2>5, <3>1
    <3>3. FirstDenial(result) \in {failure, None}
        BY <2>6, <3>2
    <3>4. CASE f = "Ignore"
      <4>1. FirstDenial(result) = None /\ "lax" \in Departures(f, e)
          BY <1>7, <1>12, <2>8, <3>3, <3>4
      <4> QED
          BY <1>1, <1>8, <4>1 DEF Justified, result
    <3>5. CASE f = "Fail" /\ FirstDenial(result) = "Invalid"
        BY <1>7, <1>8, <1>10, <1>12, <2>8, <3>5 DEF Justified, result
    <3>6. CASE f = "Fail" /\ FirstDenial(result) # "Invalid"
      <4>1. denials = {} /\ e.auditAnnotations # "error" /\ FirstDenial(result) = None
          BY <2>6, <3>2, <3>3, <3>6
      <4>2. DOMAIN v = {}
          BY <1>10, <2>2, <2>8, <3>1, <3>6, <4>1
      <4>3. first = None
          BY <1>5, <4>2 DEF failing, Failing
      <4>4. DocumentedVerdict(f, e) = None
          BY <1>2, <1>4, <1>12, <2>8, <4>1, <4>3
      <4> QED
          BY <1>1, <4>1, <4>4 DEF Justified, result
    <3> QED
        BY <1>9, <3>4, <3>5, <3>6
  <2>9. CASE deny /\ e.messages # "exhausted"
    <3>1. \A i \in DOMAIN v :
            result.decisions[i] = IF v[i] = "ERROR" THEN failure
                                  ELSE IF v[i] = "TRUE" THEN None ELSE v[i]
      <4>1. ASSUME NEW x \in Validation
            PROVE  Decision(x) = IF x = "ERROR" THEN failure
                                 ELSE IF x = "TRUE" THEN None ELSE x
          BY <1>1, <2>9 DEF Validation, Reason
      <4> QED
          BY <2>3, <2>4, <4>1
    <3>2. denials = failing
        BY <2>2, <2>4, <2>9, <3>1
          DEF failing, Failing, Validation, Reason, None, FailurePolicyType
    <3>3. failing # {} => FirstDenial(result) = first
      <4>1. SUFFICES ASSUME failing # {} PROVE FirstDenial(result) = first
          OBVIOUS
      <4>2. Min(failing) \in failing /\ Min(failing) \in DOMAIN v
          BY <1>5, <4>1 DEF failing, Failing
      <4>3. v[Min(failing)] \in IF f = "Fail" THEN Reason \cup {"ERROR"} ELSE Reason
          BY <4>2 DEF failing, Failing
      <4>4. FirstDenial(result) = result.decisions[Min(failing)]
          BY <1>3, <3>2, <4>1
      <4> HIDE DEF v, denials
      <4> QED
          BY <1>5, <3>1, <4>1, <4>2, <4>3, <4>4 DEF Reason
    <3>4. FirstDenial(result) = DocumentedVerdict(f, e)
      <4>1. CASE failing # {}
        <5>1. first # None
            BY <1>5, <4>1 DEF Reason, None
        <5> QED
            BY <1>2, <1>12, <2>9, <3>3, <4>1, <5>1
      <4>2. CASE failing = {}
        <5>1. first = None /\ FirstDenial(result) = IF e.auditAnnotations = "error"
                                                   THEN failure ELSE None
            BY <1>5, <2>6, <3>2, <4>2
        <5> QED
            BY <1>2, <1>4, <1>12, <2>9, <5>1
      <4> QED
          BY <4>1, <4>2
    <3> QED
        BY <1>8, <3>4 DEF Justified, result
  <2> QED
      BY <2>7, <2>8, <2>9
<1> QED
    BY <1>4, <1>11, <1>12

-----------------------------------------------------------------------------
(* The invariant: the verdict so far is justified *)

Inv == TypeOK /\ VerdictAsDocumented

USE DEF vars, judgement

\* A step that records a justified verdict, or none, keeps the invariant.
LEMMA StepLemma ==
  ASSUME Inv, NEW denial \in Verdicts, NEW verdict \in Verdicts,
         NEW departure \in SUBSET {"strict", "lax"}, Justified(denial, verdict, departure),
         Record(denial, verdict, departure) \/ UNCHANGED judgement,
         pc' \in {"idle", "definition", "binding", "param", "conditions", "validations"},
         attr' \in Attributes, policies' \in 0..MaxPolicies, bindings' \in 0..MaxBindings,
         definition' \in PolicySpec, deny' \in BOOLEAN
  PROVE  Inv'
<1>1. /\ denied \in Verdicts /\ documented \in Verdicts
      /\ departures \in SUBSET {"strict", "lax"}
      /\ VerdictAsDocumented
    BY DEF Inv, TypeOK, Verdicts
<1>2. /\ denied' \in Verdicts /\ documented' \in Verdicts
      /\ departures' \in SUBSET {"strict", "lax"}
    BY <1>1 DEF Record
<1>3. VerdictAsDocumented'
  <2>1. CASE Record(denial, verdict, departure)
    <3>1. CASE denied = None /\ documented = None
        BY <2>1, <3>1 DEF Record, Justified, VerdictAsDocumented
    <3>2. CASE denied = None /\ documented # None
        BY <1>1, <2>1, <3>2 DEF Record, VerdictAsDocumented, None
    <3>3. CASE denied # None
        BY <1>1, <2>1, <3>3 DEF Record, VerdictAsDocumented
    <3> QED
        BY <3>1, <3>2, <3>3
  <2>2. CASE UNCHANGED judgement
      BY <1>1, <2>2 DEF VerdictAsDocumented
  <2> QED
      BY <2>1, <2>2
<1> QED
    BY <1>2, <1>3 DEF Inv, TypeOK, Verdicts

\* Before the request is received.
LEMMA InitInv == Init => Inv
<1> SUFFICES ASSUME Init PROVE Inv
    OBVIOUS
<1>1. policies \in 0..MaxPolicies /\ bindings \in 0..MaxBindings
    BY EvaluatorAssumption DEF Init
<1>2. definition \in PolicySpec
    BY DEF Init, NoPolicy, PolicySpec, FailurePolicyType
<1>3. deny \in BOOLEAN
    BY DEF Init
<1>4. denied = None /\ documented = None /\ departures = {}
    BY DEF Init
<1>5. pc = "idle" /\ attr \in Attributes
    BY DEF Init
<1> QED
    BY <1>1, <1>2, <1>3, <1>4, <1>5 DEF Inv, TypeOK, VerdictAsDocumented

\* What a misconfiguration is recorded as is justified, enforced or not.
LEMMA ConfigErrorJustified ==
  ASSUME NEW f \in FailurePolicyType, NEW enforced \in BOOLEAN
  PROVE  LET denial == IF f = "Ignore" THEN None ELSE "Invalid"
             departure == IF f = "Fail" /\ ~enforced THEN {"strict"} ELSE {}
         IN /\ denial \in Verdicts
            /\ DocumentedFailure(f, enforced) \in Verdicts
            /\ departure \in SUBSET {"strict", "lax"}
            /\ Justified(denial, DocumentedFailure(f, enforced), departure)
            /\ addConfigError(f, enforced) =>
                 Record(denial, DocumentedFailure(f, enforced), departure)
  BY DEF FailurePolicyType, Verdicts, Reason, DocumentedFailure, Justified, addConfigError

\* A step that may record a misconfiguration keeps the invariant.
LEMMA ConfigErrorStep ==
  ASSUME Inv, NEW f \in FailurePolicyType, NEW enforced \in BOOLEAN,
         addConfigError(f, enforced) \/ UNCHANGED judgement,
         pc' \in {"idle", "definition", "binding", "param", "conditions", "validations"},
         attr' \in Attributes, policies' \in 0..MaxPolicies, bindings' \in 0..MaxBindings,
         definition' \in PolicySpec, deny' \in BOOLEAN
  PROVE  Inv'
  BY ConfigErrorJustified, StepLemma

\* The loop over the definitions.
LEMMA DefinitionLemma == ASSUME Inv, NextDefinition PROVE Inv'
<1>1. TypeOK
    BY DEF Inv
<1>2. PICK matches \in {Matches(c, attr) : c \in Constraints}, spec \in PolicySpec,
           configurationError \in BOOLEAN, enforced \in BOOLEAN :
        LET failed == matches = "error" \/ (matches = "yes" /\ configurationError)
        IN /\ IF failed THEN addConfigError(spec.failurePolicy, enforced)
              ELSE UNCHANGED judgement
           /\ IF matches = "yes" /\ ~failed
              THEN pc' = "binding" /\ definition' = spec /\ bindings' = MaxBindings
              ELSE UNCHANGED <<pc, definition, bindings>>
    BY DEF NextDefinition
<1>3. spec.failurePolicy \in FailurePolicyType
    BY DEF PolicySpec
<1>4. addConfigError(spec.failurePolicy, enforced) \/ UNCHANGED judgement
    BY <1>2
<1>5. /\ policies' \in 0..MaxPolicies /\ bindings' \in 0..MaxBindings
      /\ pc' \in {"idle", "definition", "binding", "param", "conditions", "validations"}
  <2>1. policies' \in 0..MaxPolicies
      BY <1>1, EvaluatorAssumption DEF TypeOK, NextDefinition
  <2>2. /\ bindings' \in {bindings, MaxBindings} /\ pc' \in {pc, "binding"}
      BY <1>2
  <2> QED
      BY <1>1, <2>1, <2>2, EvaluatorAssumption DEF TypeOK
<1>6. definition' \in PolicySpec
    BY <1>1, <1>2 DEF TypeOK
<1>7. attr' \in Attributes /\ deny' \in BOOLEAN
    BY <1>1 DEF TypeOK, NextDefinition
<1> QED
    BY <1>3, <1>4, <1>5, <1>6, <1>7, ConfigErrorStep

\* The loop over the bindings, and the parameter of one.
LEMMA BindingLemma ==
  ASSUME Inv, NextBinding \/ GetParam
  PROVE  Inv'
<1>1. TypeOK /\ definition.failurePolicy \in FailurePolicyType
    BY DEF Inv, TypeOK, PolicySpec
<1>2. deny \in BOOLEAN
    BY <1>1 DEF TypeOK
<1>3. \E enforced \in BOOLEAN :
        addConfigError(definition.failurePolicy, enforced) \/ UNCHANGED judgement
  <2>1. CASE NextBinding
    <3>1. PICK actions \in ValidationActions :
            \/ addConfigError(definition.failurePolicy, "Deny" \in actions)
            \/ UNCHANGED judgement
        BY <2>1 DEF NextBinding
    <3>2. ("Deny" \in actions) \in BOOLEAN
        OBVIOUS
    <3> QED
        BY <3>1, <3>2
  <2>2. CASE GetParam
    <3>1. addConfigError(definition.failurePolicy, deny) \/ UNCHANGED judgement
        BY <2>2 DEF GetParam
    <3> QED
        BY <1>2, <3>1
  <2> QED
      BY <2>1, <2>2
<1>4. /\ pc' \in {"idle", "definition", "binding", "param", "conditions", "validations"}
      /\ attr' \in Attributes /\ policies' \in 0..MaxPolicies
      /\ definition' \in PolicySpec
    BY <1>1 DEF TypeOK, NextBinding, GetParam
<1>5. bindings' \in 0..MaxBindings
    BY <1>1, EvaluatorAssumption DEF TypeOK, NextBinding, GetParam
<1>6. deny' \in BOOLEAN
  <2>1. CASE NextBinding
      BY <2>1 DEF NextBinding
  <2>2. CASE GetParam
      BY <2>2 DEF GetParam
  <2> QED
      BY <2>1, <2>2
<1> QED
    BY <1>1, <1>3, <1>4, <1>5, <1>6, ConfigErrorStep

\* The match conditions of a policy.
LEMMA ConditionsLemma == ASSUME Inv, CheckConditions PROVE Inv'
<1>1. TypeOK /\ definition.failurePolicy \in FailurePolicyType /\ deny \in BOOLEAN
    BY DEF Inv, TypeOK, PolicySpec
<1> DEFINE f == definition.failurePolicy
           d == IF deny THEN policyDecisionActionForError(f) ELSE None
           v == IF deny THEN "Invalid" ELSE None
<1>2. PICK conditions \in MatchConditions :
        /\ pc' = IF Match(conditions, f) = "evaluate" THEN "validations" ELSE "binding"
        /\ IF Match(conditions, f) = "error" THEN Record(d, DocumentedFailure(f, deny), {})
           ELSE UNCHANGED judgement
        /\ deny' = (deny /\ Match(conditions, f) = "evaluate")
    BY DEF CheckConditions
<1>3. Match(conditions, f) = "error" => f = "Fail"
    BY DEF Match
<1>4. f = "Fail" => d = v /\ DocumentedFailure(f, deny) = v
    BY <1>1 DEF policyDecisionActionForError, DocumentedFailure
<1>5. v \in Verdicts /\ Justified(v, v, {}) /\ {} \in SUBSET {"strict", "lax"}
    BY DEF Verdicts, Reason, Justified
<1> HIDE DEF v, d
<1>6. Record(v, v, {}) \/ UNCHANGED judgement
    BY <1>2, <1>3, <1>4
<1>7. deny' \in BOOLEAN
    BY <1>2
<1>8. /\ pc' \in {"idle", "definition", "binding", "param", "conditions", "validations"}
      /\ attr' \in Attributes /\ policies' \in 0..MaxPolicies
      /\ bindings' \in 0..MaxBindings /\ definition' \in PolicySpec
    BY <1>1, <1>2 DEF TypeOK, CheckConditions
<1> QED
    BY <1>5, <1>6, <1>7, <1>8, StepLemma

\* The validations of a policy, under one binding.
LEMMA ValidateLemma == ASSUME Inv, Validate PROVE Inv'
<1>1. TypeOK /\ definition.failurePolicy \in FailurePolicyType /\ deny \in BOOLEAN
    BY DEF Inv, TypeOK, PolicySpec
<1> DEFINE f == definition.failurePolicy
<1>2. PICK e \in Evaluation :
        Record(FirstDenial(ValidateResult(f, e)), DocumentedVerdict(f, e), Departures(f, e))
    BY DEF Validate
<1>3. /\ Justified(FirstDenial(ValidateResult(f, e)), DocumentedVerdict(f, e),
                   Departures(f, e))
      /\ FirstDenial(ValidateResult(f, e)) \in Verdicts
      /\ DocumentedVerdict(f, e) \in Verdicts
    BY <1>1, FirstDenialJustified
<1>4. Departures(f, e) \in SUBSET {"strict", "lax"}
    BY DEF Departures
<1>5. deny' \in BOOLEAN
    BY DEF Validate
<1>6. /\ pc' \in {"idle", "definition", "binding", "param", "conditions", "validations"}
      /\ attr' \in Attributes /\ policies' \in 0..MaxPolicies
      /\ bindings' \in 0..MaxBindings /\ definition' \in PolicySpec
    BY <1>1 DEF TypeOK, Validate
<1> QED
    BY <1>2, <1>3, <1>4, <1>5, <1>6, StepLemma

\* The request is received, the bindings of a policy end, the request is answered.
LEMMA LoopLemma ==
  ASSUME Inv, Receive \/ EndOfBindings \/ Respond \/ UNCHANGED vars
  PROVE  Inv'
<1>1. TypeOK
    BY DEF Inv
<1>2. NoPolicy \in PolicySpec
    BY DEF NoPolicy, PolicySpec, FailurePolicyType
<1>3. deny' \in BOOLEAN
  <2>1. deny \in BOOLEAN
      BY <1>1 DEF TypeOK
  <2>2. deny' = deny \/ deny' = FALSE
      BY DEF Receive, EndOfBindings, Respond
  <2> QED
      BY <2>1, <2>2
<1>4. policies' \in 0..MaxPolicies /\ bindings' \in 0..MaxBindings
    BY <1>1, EvaluatorAssumption DEF TypeOK, Receive, EndOfBindings, Respond
<1>5. /\ pc' \in {"idle", "definition", "binding", "param", "conditions", "validations"}
      /\ attr' \in Attributes /\ definition' \in PolicySpec
    BY <1>1, <1>2 DEF TypeOK, Receive, EndOfBindings, Respond
<1>6. CASE Receive
  <2>1. denied' = None /\ documented' = None /\ departures' = {}
      BY <1>6 DEF Receive
  <2> QED
      BY <1>3, <1>4, <1>5, <2>1 DEF Inv, TypeOK, VerdictAsDocumented
<1>7. CASE ~Receive
  <2>1. UNCHANGED judgement
      BY <1>7 DEF EndOfBindings, Respond
  <2>2. None \in Verdicts /\ Justified(None, None, {}) /\ {} \in SUBSET {"strict", "lax"}
      BY DEF Verdicts, Justified
  <2> QED
      BY <1>3, <1>4, <1>5, <2>1, <2>2, StepLemma
<1> QED
    BY <1>6, <1>7

-----------------------------------------------------------------------------
(* Matching *)

\* A request is for a cluster-scoped resource unless it is for deployments.
LEMMA AttributesFacts ==
  ASSUME NEW a \in Attributes
  PROVE  /\ a.resource \in Resources
         /\ a.object \in {"labelled", "plain", "null"}
         /\ a.oldObject \in {"labelled", "plain", "null"}
         /\ a.namespace \in {"", "labelled", "plain", "missing"}
         /\ (a.resource = "namespaces" \/ a.namespace = "") <=> a.resource # "deployments"
         /\ (a.namespace = "" /\ a.resource # "namespaces") <=> a.resource = "nodes"
         /\ a.object # "null" <=> a.operation \in {"CREATE", "UPDATE"}
  BY DEF Attributes, Resources, Operations

\* A list of rules matches when one of its rules covers the request.
LEMMA RulesMatch ==
  ASSUME NEW a \in Attributes, NEW rs \in SUBSET Rules, NEW matchPolicy
  PROVE  matchesResourceRules(rs, matchPolicy, a) <=> Covered(rs, a)
<1>1. ASSUME NEW r \in rs
      PROVE  RuleMatches(r, a) <=>
               /\ a.operation \in r.operations /\ a.resource \in r.resources
               /\ a.version \in r.apiVersions
               /\ \/ r.scope = "*"
                  \/ (r.scope = "Namespaced") = (a.resource = "deployments")
  <2>1. r.scope \in ScopeType
      BY EvaluatorAssumption DEF NamedRuleWithOperations
  <2>2. r.scope \in {"*", IF a.resource = "namespaces" \/ a.namespace = "" THEN "Cluster"
                          ELSE "Namespaced"}
        <=> \/ r.scope = "*"
            \/ (r.scope = "Namespaced") = (a.resource = "deployments")
      BY <2>1, AttributesFacts DEF ScopeType
  <2> QED
      BY <2>2 DEF RuleMatches
<1> QED
    BY <1>1 DEF matchesResourceRules, Covered, EquivalentResourcesFor

\* The namespace selector, with its error path.
LEMMA NamespaceSelected ==
  ASSUME NEW a \in Attributes, NEW selector \in LabelSelector
  PROVE  MatchNamespaceSelector(selector, a) =
           IF a.resource = "nodes" THEN "yes" ELSE Selected(selector, {DocumentedLabels(a)})
<1>1. GetNamespaceLabels(a) = DocumentedLabels(a)
    BY AttributesFacts DEF GetNamespaceLabels, DocumentedLabels
<1>2. CASE a.resource = "nodes"
    BY <1>2, AttributesFacts DEF MatchNamespaceSelector
<1>3. CASE a.resource # "nodes"
  <2>1. MatchNamespaceSelector(selector, a) =
          CASE selector = "invalid" -> "error"
            [] selector = "empty" -> "yes"
            [] selector = "labelled" ->
                 IF DocumentedLabels(a) = "missing" THEN "error"
                 ELSE YesOrNo(DocumentedLabels(a) = "labelled")
      BY <1>1, <1>3, AttributesFacts DEF MatchNamespaceSelector
  <2>2. CASE selector = "invalid"
      BY <1>3, <2>1, <2>2 DEF Selected
  <2>3. CASE selector = "empty"
      BY <1>3, <2>1, <2>3 DEF Selected
  <2>4. CASE selector = "labelled"
    <3>1. {DocumentedLabels(a)} = {"missing"} <=> DocumentedLabels(a) = "missing"
        OBVIOUS
    <3>2. "labelled" \in {DocumentedLabels(a)} <=> DocumentedLabels(a) = "labelled"
        OBVIOUS
    <3> QED
        BY <1>3, <2>1, <2>4, <3>1, <3>2 DEF Selected, YesOrNo
  <2> QED
      BY <2>2, <2>3, <2>4 DEF LabelSelector
<1> QED
    BY <1>2, <1>3

\* The object selector, on the old and the new object.
LEMMA ObjectSelected ==
  ASSUME NEW a \in Attributes, NEW selector \in LabelSelector
  PROVE  MatchObjectSelector(selector, a) = Selected(selector, {a.object, a.oldObject})
<1>1. {a.object, a.oldObject} # {"missing"}
    BY AttributesFacts
<1>2. CASE selector = "invalid"
    BY <1>2 DEF MatchObjectSelector, Selected
<1>3. CASE selector = "empty"
    BY <1>3 DEF MatchObjectSelector, Selected
<1>4. CASE selector = "labelled"
    BY <1>1, <1>4 DEF MatchObjectSelector, Selected, YesOrNo
<1> QED
    BY <1>2, <1>3, <1>4 DEF LabelSelector

\* The matcher decides every constraint as DocumentedMatch does, which is what
\* the documentation says but for resources that are equivalent to another.
LEMMA MatchLemma ==
  ASSUME NEW a \in Attributes, NEW c \in MatchResources
  PROVE  Matches(c, a) = DocumentedMatch(c, a)
<1> DEFINE ns == MatchNamespaceSelector(c.namespaceSelector, a)
           obj == MatchObjectSelector(c.objectSelector, a)
           excluded == Covered(c.excludeResourceRules, a)
           included == c.resourceRules = {} \/ Covered(c.resourceRules, a)
<1>1. /\ c.namespaceSelector \in LabelSelector /\ c.objectSelector \in LabelSelector
      /\ c.resourceRules \in SUBSET Rules /\ c.excludeResourceRules \in SUBSET Rules
    BY DEF MatchResources
<1>2. /\ matchesResourceRules(c.excludeResourceRules, c.matchPolicy, a) <=> excluded
      /\ matchesResourceRules(c.resourceRules, c.matchPolicy, a)
           <=> Covered(c.resourceRules, a)
    BY <1>1, RulesMatch
<1>3. DocumentedMatch(c, a) = MatchPart(ns, obj, YesOrNo(included /\ ~excluded))
    BY <1>1, NamespaceSelected, ObjectSelected DEF DocumentedMatch
<1>4. Matches(c, a) = CASE ns = "no" \/ obj = "no" \/ excluded \/ ~included -> "no"
                        [] OTHER -> IF "error" \in {ns, obj} THEN "error" ELSE "yes"
    BY <1>2 DEF Matches
<1> HIDE DEF ns, obj, excluded, included
<1>5. CASE included /\ ~excluded
  <2>1. YesOrNo(included /\ ~excluded) = "yes"
      BY <1>5 DEF YesOrNo
  <2> QED
      BY <1>3, <1>4, <1>5, <2>1 DEF MatchPart
<1>6. CASE ~(included /\ ~excluded)
  <2>1. YesOrNo(included /\ ~excluded) = "no"
      BY <1>6 DEF YesOrNo
  <2> QED
      BY <1>3, <1>4, <1>6, <2>1 DEF MatchPart
<1> QED
    BY <1>5, <1>6

-----------------------------------------------------------------------------
(* The theorems *)

\* Every reachable state satisfies the inductive invariant.
THEOREM Invariance == Spec => []Inv
<1>1. ASSUME Inv, [Next]_vars PROVE Inv'
    BY <1>1, DefinitionLemma, BindingLemma, ConditionsLemma, ValidateLemma, LoopLemma DEF Next
<1> QED
    BY InitInv, <1>1, PTL DEF Spec

\* The types, for any number of policies, bindings and validations.
THEOREM TypeCorrect == Spec => []TypeOK
<1>1. Inv => TypeOK
    BY DEF Inv
<1> QED
    BY Invariance, <1>1, PTL

\* The verdict on a request is that of the first failure which the
\* documentation has enforced by failure policies and validation actions, but
\* for the departures: those under Fail can only deny, as Invalid, those under
\* Ignore only lose a denial (controller.go:196-426, validator.go:75-248).
THEOREM VerdictsAreDocumented == Spec => []VerdictAsDocumented
<1>1. Inv => VerdictAsDocumented
    BY DEF Inv
<1> QED
    BY Invariance, <1>1, PTL

\* A request matches the constraints that the documentation of MatchResources
\* says it matches, whatever rules they are made of (matching.go:69-115).
THEOREM MatchesAreDocumented == Spec => []MatchesAsDocumented
<1>1. Inv => MatchesAsDocumented
    BY MatchLemma DEF Inv, TypeOK, MatchesAsDocumented
<1> QED
    BY Invariance, <1>1, PTL

=============================================================================
