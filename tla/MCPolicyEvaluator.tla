------------------------- MODULE MCPolicyEvaluator -------------------------
EXTENDS PolicyEvaluator

Rule(names, operations, versions, resources, scope) ==
  [resourceNames |-> names, operations |-> operations, apiVersions |-> versions,
   resources |-> resources, scope |-> scope]

MCRules ==
  {Rule({}, Operations, Versions, Resources, "*"),
   Rule({"a"}, {"CREATE", "UPDATE"}, {"v1"}, {"deployments", "nodes"}, "*"),
   Rule({}, {"DELETE"}, Versions, Resources, "Cluster"),
   Rule({}, Operations, Versions, Resources, "Namespaced")}

\* Every combination of selectors with no rule or one.
MCConstraints ==
  {c \in MatchResources :
     /\ Cardinality(c.resourceRules) <= 1
     /\ c.excludeResourceRules = {}
     /\ c.matchPolicy = "Exact"}
=============================================================================
