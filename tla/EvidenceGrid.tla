----------------------------- MODULE EvidenceGrid -----------------------------
(***************************************************************************)
(* One row of figures that several people edit a column at a time: the      *)
(* adjustments of a comparable (Comparables.tsx) or the levers of a scheme   *)
(* option (Scenarios.tsx), over comparables.upsert and scenarios.upsert of   *)
(* routers/appraisal.ts.                                                    *)
(*                                                                         *)
(* Both screens lay what a person types over the row they fetched and send   *)
(* the overlay when a field loses the focus.  The comparables send one save  *)
(* after another and take an answered figure out of the overlay; the levers  *)
(* send at once and keep the overlay.                                       *)
(***************************************************************************)
EXTENDS Naturals, Sequences

CONSTANTS
    Person,      \* people with the screen open
    Column,      \* the columns of the row
    Value,       \* the figures they may type
    MaxTyped,    \* bound on figures typed
    MaxFailed    \* bound on saves that fail

VARIABLES
    kind,        \* which screen it is: "comparables" or "scenarios"
    row,         \* the stored row
    by,          \* who wrote each column last
    edits,       \* the overlay of each screen
    queue,       \* the saves each screen has under way, oldest first
    apply,       \* what the Apply button of each screen is doing
    typed,       \* the columns each person has typed in, and the figure
    count,       \* figures typed so far
    failed       \* saves that failed so far

vars == <<kind, row, by, edits, queue, apply, typed, count, failed>>

NoFigure == 0
NoOne == "nobody"
NoEdits == [c \in Column |-> NoFigure]
Rest == [at |-> "rest"]

Patched(r, patch) == [c \in Column |-> IF patch[c] = NoFigure THEN r[c] ELSE patch[c]]
Touches(patch) == {c \in Column : patch[c] # NoFigure}

Init ==
    /\ kind \in {"comparables", "scenarios"}
    /\ row = [c \in Column |-> 1] /\ by = [c \in Column |-> NoOne]
    /\ edits = [p \in Person |-> NoEdits] /\ queue = [p \in Person |-> <<>>]
    /\ apply = [p \in Person |-> Rest]
    /\ typed = [p \in Person |-> NoEdits] /\ count = 0 /\ failed = 0

\* A figure is typed: setAdj, setLever.  The fields are disabled while evidence is applied.
Type(p, c, v) ==
    /\ apply[p] = Rest /\ count < MaxTyped
    /\ edits' = [edits EXCEPT ![p][c] = v] /\ typed' = [typed EXCEPT ![p][c] = v]
    /\ count' = count + 1
    /\ UNCHANGED <<kind, row, by, queue, apply, failed>>

\* As if a save sent the row as the screen shows it.
WholeRow(p, overlay) == Patched(row, overlay)

\* What a save sends: the columns of the overlay and no others.
Patch(p, overlay) == overlay

Save(p, overlay) ==
    queue' = [queue EXCEPT ![p] = Append(@, [patch |-> Patch(p, overlay), at |-> "sent"])]

\* persist, when a field loses the focus.  Only the comparables wait for what is under way.
persist(p) ==
    /\ Touches(edits[p]) # {} /\ apply[p] = Rest
    /\ Len(queue[p]) < 2
    /\ Save(p, edits[p])
    /\ UNCHANGED <<kind, row, by, edits, apply, typed, count, failed>>

Without(s, i) == SubSeq(s, 1, i - 1) \o SubSeq(s, i + 1, Len(s))

\* The save the server may be at: the oldest, or any that has been sent.
Serves(p, i) == i \in DOMAIN queue[p] /\ (kind = "comparables" => i = 1)

\* upsert writes the columns it was given, by id.
upsert(p, i) ==
    /\ Serves(p, i) /\ queue[p][i].at = "sent"
    /\ row' = Patched(row, queue[p][i].patch)
    /\ by' = [c \in Column |-> IF c \in Touches(queue[p][i].patch) THEN p ELSE by[c]]
    /\ queue' = [queue EXCEPT ![p][i].at = "written"]
    /\ UNCHANGED <<kind, edits, apply, typed, count, failed>>

\* The answer: what was sent leaves the overlay of the comparables, if it is still there.
Remaining(overlay, patch) ==
    IF kind = "scenarios" THEN overlay
    ELSE [c \in Column |-> IF overlay[c] = patch[c] THEN NoFigure ELSE overlay[c]]

Answer(p, i) ==
    /\ Serves(p, i) /\ queue[p][i].at = "written"
    /\ edits' = [edits EXCEPT ![p] = Remaining(@, queue[p][i].patch)]
    /\ queue' = [queue EXCEPT ![p] = Without(@, i)]
    /\ UNCHANGED <<kind, row, by, apply, typed, count, failed>>

\* A save that fails leaves the overlay; one that Apply waits for ends it, unless it was older.
FailSave(p, i) ==
    /\ Serves(p, i) /\ failed < MaxFailed /\ failed' = failed + 1
    /\ queue' = [queue EXCEPT ![p] = Without(@, i)]
    /\ apply' = [apply EXCEPT ![p] = IF @.at = "flush" THEN Rest ELSE @]
    /\ UNCHANGED <<kind, row, by, edits, typed, count>>

-----------------------------------------------------------------------------
(* applyEvidence, of the comparables *)

\* The click: the edits of the last render go with it.
Click(p) ==
    /\ kind = "comparables" /\ apply[p] = Rest
    /\ apply' = [apply EXCEPT ![p] = [at |-> "wait", edits |-> edits[p]]]
    /\ UNCHANGED <<kind, row, by, edits, queue, typed, count, failed>>

\* What is under way is waited for, then every remaining edit is sent.
Flush(p) ==
    /\ apply[p].at = "wait" /\ queue[p] = <<>>
    /\ apply' = [apply EXCEPT ![p].at = "flush"]
    /\ IF Touches(apply[p].edits) = {} THEN UNCHANGED queue ELSE Save(p, apply[p].edits)
    /\ UNCHANGED <<kind, row, by, edits, typed, count, failed>>

\* As if the server were asked at the click.
AtOnce(p) == apply[p].at = "wait"

\* The server is asked when that save is answered.
Flushed(p) == apply[p].at = "flush" /\ queue[p] = <<>>

\* applyToAppraisal reads the evidence.
applyToAppraisal(p) ==
    /\ Flushed(p)
    /\ apply' = [apply EXCEPT ![p] = [at |-> "read", edits |-> @.edits, read |-> row, by |-> by]]
    /\ UNCHANGED <<kind, row, by, edits, queue, typed, count, failed>>

\* The caps are written (AppraisalVersions), or not.
Applied(p) ==
    /\ apply[p].at = "read" /\ apply' = [apply EXCEPT ![p] = Rest]
    /\ UNCHANGED <<kind, row, by, edits, queue, typed, count, failed>>

-----------------------------------------------------------------------------
Next == \E p \in Person :
    \/ \E c \in Column, v \in Value : Type(p, c, v)
    \/ persist(p) \/ Click(p) \/ Flush(p) \/ applyToAppraisal(p) \/ Applied(p)
    \/ \E i \in 1..2 : upsert(p, i) \/ Answer(p, i) \/ FailSave(p, i)

Spec == Init /\ [][Next]_vars

-----------------------------------------------------------------------------
(* Properties *)

\* Nobody writes a column in which they typed nothing, whoever saves first and
\* whatever they have on the screen: a colleague's adjustment there stays.
OthersColumnsKept == \A c \in Column : by[c] # NoOne => typed[by[c]][c] # NoFigure

\* The evidence that is applied holds every edit that was on the screen at the
\* click, unless a colleague wrote the column after it.
AppliesTheEdits == \A p \in Person : apply[p].at = "read" =>
    \A c \in Touches(apply[p].edits) : apply[p].by[c] \in {p, NoOne} => apply[p].read[c] = apply[p].edits[c]

EvidenceSound == OthersColumnsKept /\ AppliesTheEdits

-----------------------------------------------------------------------------
(* The inductive invariant.                                                 *)

Overlay == [Column -> Value \cup {NoFigure}]
Writer == [Column -> Person \cup {NoOne}]
Call == [patch : Overlay, at : {"sent", "written"}]
TypeOK ==
    /\ kind \in {"comparables", "scenarios"} /\ count \in Nat /\ failed \in Nat
    /\ row \in [Column -> Value \cup {1}] /\ by \in Writer
    /\ edits \in [Person -> Overlay] /\ typed \in [Person -> Overlay] /\ queue \in [Person -> Seq(Call)]
    /\ apply \in [Person -> {Rest} \cup [at : {"wait", "flush"}, edits : Overlay]
                              \cup [at : {"read"}, edits : Overlay, read : [Column -> Value \cup {1}], by : Writer]]

\* Nobody has on a screen, or under way, a column in which they typed nothing.
TypedIn(p, overlay) == Touches(overlay) \subseteq Touches(typed[p])
OwnColumns == \A p \in Person :
    /\ TypedIn(p, edits[p])
    /\ \A i \in DOMAIN queue[p] : TypedIn(p, queue[p][i].patch)
    /\ apply[p] # Rest => TypedIn(p, apply[p].edits)

\* While evidence is applied at most its own save is under way; once that is written, the row is as it was sent,
\* but for what a colleague has written since.
IsApplied(p) ==
    \A c \in Touches(apply[p].edits) : by[c] \in {p, NoOne} => row[c] = apply[p].edits[c]
FlushHolds == \A p \in Person : apply[p].at = "flush" =>
    \/ queue[p] = <<>> /\ IsApplied(p)
    \/ queue[p] = <<[patch |-> apply[p].edits, at |-> "sent"]>>
    \/ queue[p] = <<[patch |-> apply[p].edits, at |-> "written"]>> /\ IsApplied(p)

IInv == TypeOK /\ OthersColumnsKept /\ AppliesTheEdits /\ OwnColumns /\ FlushHolds

-----------------------------------------------------------------------------
(* Refuted *)

\* Refuted: a slow older request must not overwrite a newer edit (Comparables.tsx:154).  5, 7 and 5 typed
\* in turn: the answer to the first takes the third out of the overlay, and the second is written last.
LastTypedStays == kind = "comparables" => \A p \in Person, c \in Column :
    edits[p] = NoEdits /\ queue[p] = <<>> /\ by[c] = p => row[c] = typed[p][c]

\* Refuted: only the levers this person moved (Scenarios.tsx:93).  The overlay is never cleared: a lever
\* saved before goes again with the next one, over what a colleague has made of it since.
OnlyMoved == kind = "scenarios" => \A p \in Person : \A i \in DOMAIN queue[p] :
    queue[p][i].at = "sent" => \A c \in Touches(queue[p][i].patch) :
        by[c] \in {NoOne, p} \/ row[c] # queue[p][i].patch[c]

=============================================================================
