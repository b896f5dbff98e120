----------------------------- MODULE MCAgentRuns -----------------------------
(* AgentRuns on small instances. *)
EXTENDS AgentRuns, TLC

CONSTANTS c1, c2

NoClients == {}
OneClient == {c1}
TwoClients == {c1, c2}
ClientSymmetry == Permutations(Clients)
=============================================================================
