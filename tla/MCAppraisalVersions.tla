------------------------- MODULE MCAppraisalVersions -------------------------
(* Small instances of AppraisalVersions for TLC.                            *)
EXTENDS AppraisalVersions, TLC

CONSTANT Typed  \* the cap people type in; Supported is another one, or the same

MCSaved == [mix : Mix, cap : {Typed}]

Symmetry == Permutations(Client) \cup Permutations(Version) \cup Permutations(Mix)
=============================================================================
