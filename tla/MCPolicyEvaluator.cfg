\* Two policies of two bindings each, two validations in a policy.
CONSTANTS
  Rules <- MCRules
  Constraints <- MCConstraints
  MaxPolicies = 2
  MaxBindings = 2
  MaxValidations = 2
SPECIFICATION Spec
INVARIANTS TypeOK MatchesAsDocumented VerdictAsDocumented
