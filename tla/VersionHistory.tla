---------------------------- MODULE VersionHistory ----------------------------
(***************************************************************************)
(* What the review workflow of an appraisal promises a reader of the        *)
(* history: versions are only ever added, one of them is current, each goes *)
(* through the review states by single decisions, and what was signed stays *)
(* signed.  Every step is atomic here; AppraisalVersions implements it with *)
(* reads, conditional writes and requests that overlap.                     *)
(***************************************************************************)
CONSTANTS
    Version,    \* identities of versions
    Inputs,     \* what a version can be signed with
    None        \* nothing

VARIABLES
    stage,      \* how far each version is in its review
    current,    \* the version the reports are about
    signed      \* the inputs an approval put its name to

vars == <<stage, current, signed>>

Stage == {"absent", "draft", "in_review", "changes_requested", "approved"}

Init ==
    /\ stage = [v \in Version |-> "absent"]
    /\ current = None
    /\ signed = [v \in Version |-> None]

\* A new version, a draft whatever it was branched or restored from, is current.
Add(v) ==
    /\ stage[v] = "absent"
    /\ stage' = [stage EXCEPT ![v] = "draft"]
    /\ current' = v
    /\ UNCHANGED signed

Submit(v) ==
    /\ stage[v] \in {"draft", "changes_requested"}
    /\ stage' = [stage EXCEPT ![v] = "in_review"]
    /\ UNCHANGED <<current, signed>>

\* An edit takes a version that is out for review off the reviewer's desk.
Withdraw(v) ==
    /\ v = current
    /\ stage[v] = "in_review"
    /\ stage' = [stage EXCEPT ![v] = "draft"]
    /\ UNCHANGED <<current, signed>>

Approve(v, u) ==
    /\ stage[v] = "in_review"
    /\ stage' = [stage EXCEPT ![v] = "approved"]
    /\ signed' = [signed EXCEPT ![v] = u]
    /\ UNCHANGED current

RequestChanges(v) ==
    /\ stage[v] = "in_review"
    /\ stage' = [stage EXCEPT ![v] = "changes_requested"]
    /\ UNCHANGED <<current, signed>>

Next ==
    \E v \in Version :
        \/ Add(v)
        \/ Submit(v)
        \/ Withdraw(v)
        \/ \E u \in Inputs : Approve(v, u)
        \/ RequestChanges(v)

Spec == Init /\ [][Next]_vars
=============================================================================
