-------------------------- MODULE MCSnapshotHistory --------------------------
(* Two scopes and two policies: the default, and a longer one with an age limit. *)
EXTENDS SnapshotHistory

MCDefault == [keep |-> 2, age |-> 0]
MCPolicies == {MCDefault, [keep |-> 3, age |-> 1]}
=============================================================================
