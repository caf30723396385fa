\* The smallest instance in which the code departs from what the documentation says of misconfigurations.
CONSTANTS
  Rules <- MCRules
  Constraints <- MCConstraints
  MaxPolicies = 1
  MaxBindings = 1
  MaxValidations = 1
SPECIFICATION Spec
INVARIANT ActionsGovernFailures
