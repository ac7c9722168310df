-------------------------- MODULE MCTeamMembership --------------------------
(***************************************************************************)
(* Small instances of TeamMembership: two devices, each of which may create *)
(* a team and join the other's.                                            *)
(***************************************************************************)
EXTENDS TeamMembership, TLC

CONSTANTS ann, bob          \* devices

TwoDevices == Permutations({ann, bob})
=============================================================================
