---------------------------- MODULE Capabilities ----------------------------
(***************************************************************************)
(* The capabilities a manifest grants its functions, and package consent:  *)
(* what all functions of an app may do together, and what a new version of *)
(* the manifest adds to it.  A function is the file its module is in and   *)
(* its capabilities; the data scopes of one function name each entity at   *)
(* most once, so that they are a function from entities to operations.     *)
(***************************************************************************)
EXTENDS FiniteSets

Capable(data, network, model) == [data |-> data, network |-> network, model |-> model]

\* What validation asks of a function's capabilities.
ValidCapabilities(caps, operations) ==
  \A e \in DOMAIN caps.data : e \in DOMAIN operations /\ caps.data[e] \subseteq operations[e]

Allows(caps, e, op) == e \in DOMAIN caps.data /\ op \in caps.data[e]

AllowsDomain(caps, host) == host \in caps.network

Union(functions) ==
  LET all == {functions[f].caps : f \in DOMAIN functions}
  IN [data |-> UNION {UNION {{e} \X caps.data[e] : e \in DOMAIN caps.data} : caps \in all},
      network |-> UNION {caps.network : caps \in all},
      model |-> \E caps \in all : caps.model]

\* A mutant: versions are compared entity by entity.
WidenedEntities(old, new) ==
  LET before == Union(old)
      after == Union(new)
  IN [data |-> {g \in after.data : \A b \in before.data : b[1] # g[1]},
      network |-> after.network \ before.network,
      model |-> after.model /\ ~before.model]

Widened(old, new) ==
  LET before == Union(old)
      after == Union(new)
  IN [data |-> after.data \ before.data,
      network |-> after.network \ before.network,
      model |-> after.model /\ ~before.model]

RequiresReconsent(delta) == delta.data # {} \/ delta.network # {} \/ delta.model
=============================================================================
