-------------------------- MODULE MCAgentLifecycle --------------------------
(***************************************************************************)
(* Small instances of AgentLifecycle.  Clients are interchangeable, so are *)
(* skills where a run has two.                                             *)
(***************************************************************************)
EXTENDS AgentLifecycle, TLC

CONSTANTS c1, c2, missing, upgrades

OneClient  == {c1}
TwoClients == {c1, c2}
OneSkill   == {missing}
TwoSkills  == {missing, upgrades}

Interchangeable == Permutations(Clients) \cup Permutations(Skills)
=============================================================================
