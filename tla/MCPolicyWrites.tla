--------------------------- MODULE MCPolicyWrites ---------------------------
EXTENDS PolicyWrites

Saying(word, versions) == [word |-> word, versions |-> versions]

\* An expression that names the native API version, a paramKind, a paramKind
\* that does not parse next to an expression that names both versions, and a
\* document with a line too long for the scanner.
MCBodies ==
  {<<Saying("plain", {native})>>,
   <<Saying("plain", {}), Saying("paramKind", {})>>,
   <<Saying("unparsed", APIVersion)>>,
   <<Saying("plain", {}), Saying("long", {})>>}

=============================================================================
