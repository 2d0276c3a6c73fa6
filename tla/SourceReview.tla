---------------------------- MODULE SourceReview ----------------------------
(***************************************************************************)
(* A person reviews what a language model read from the data room          *)
(* (routes/AutoAppraisal.tsx), while the model runs, answers come back and *)
(* others revise the documents (appraisal.ts extract, whatIf, save).       *)
(*                                                                         *)
(* The page holds one result object at a time (setRun); every answer makes *)
(* a new one, numbered here.  What the figures are is left out: what is    *)
(* asked is which result the person accepted, and which one is recorded.   *)
(***************************************************************************)
EXTENDS Integers, FiniteSets

CONSTANTS
    Doc,         \* readable documents of the deal
    MaxRun,      \* bound on result objects
    MaxTurn      \* bound on revisions of a document

VARIABLES
    superseded,  \* documents with a later revision
    turns,       \* revisions so far
    listed,      \* the superseded ones as the page's list shows them
    run,         \* the result on the page; NoRun when none
    made,        \* result objects so far
    draft,       \* corrections typed and not applied (reviewDirty)
    acceptedRun, \* the result the box was ticked for; 0 when none
    phase,       \* idle, loading or result
    ask,         \* a what-if under way
    pending,     \* the result a correction under way applies to; NoRun when none
    extraction,  \* an extraction under way
    saving,      \* a save under way
    records,     \* the source reviews recorded
    ticked       \* every result the person has accepted

vars == <<superseded, turns, listed, run, made, draft, acceptedRun, phase, ask, pending,
          extraction, saving, records, ticked>>
room == <<superseded, turns>>
server == <<superseded, turns, records>>
calls == <<ask, pending, extraction, saving>>

\* A result: its number, where it comes from, the documents the model read and those a person refers to.
NoRun == [n |-> 0, source |-> "none", read |-> {}, cited |-> {}]
Idle == [at |-> "idle", read |-> {}]
NoSave == [at |-> "idle", run |-> NoRun]

Init ==
    /\ superseded = {} /\ turns = 0 /\ listed = {}
    /\ run = NoRun /\ made = 0 /\ draft = FALSE /\ acceptedRun = 0 /\ phase = "idle"
    /\ ask = FALSE /\ pending = NoRun /\ extraction = Idle /\ saving = NoSave
    /\ records = {} /\ ticked = {}

-----------------------------------------------------------------------------
(* The data room                                                            *)

\* Another member files a revision over a document, or takes it back.
Revise ==
    /\ turns < MaxTurn /\ turns' = turns + 1
    /\ \E d \in Doc : superseded' = IF d \in superseded THEN superseded \ {d} ELSE superseded \cup {d}
    /\ UNCHANGED <<listed, run, made, draft, acceptedRun, phase, calls, records, ticked>>

\* The list is read again: by hand, on focus, or after an extraction.
Refresh ==
    /\ listed' = superseded
    /\ UNCHANGED <<server, run, made, draft, acceptedRun, phase, calls, ticked>>

-----------------------------------------------------------------------------
(* Getting a result                                                         *)

Busy == draft \/ ask \/ saving # NoSave \/ pending # NoRun

\* setRun with a new object.
Shows(r) == made < MaxRun /\ made' = made + 1 /\ run' = [r EXCEPT !.n = made + 1] /\ phase' = "result"

\* onGenerate: the model reads documents that the list says are current; notes alone read none.
onGenerate ==
    /\ ~Busy /\ phase # "loading"
    /\ \E chosen \in SUBSET (Doc \ listed) : extraction' = [at |-> "sent", read |-> chosen]
    /\ phase' = "loading"
    /\ UNCHANGED <<server, listed, run, made, draft, acceptedRun, ask, pending, saving, ticked>>

\* documentBlocks: a superseded one is skipped, and so is one whose bytes cannot be read.
\* Nothing readable among those chosen, or a model that does not answer in its time, is an error.
documentBlocks ==
    /\ extraction.at = "sent"
    /\ \/ \E used \in SUBSET (extraction.read \ superseded) :
            /\ extraction.read # {} => used # {}
            /\ extraction' = [at |-> "model", read |-> used]
       \/ extraction' = [extraction EXCEPT !.at = "failed"]
    /\ UNCHANGED <<server, listed, run, made, draft, acceptedRun, phase, ask, pending, saving, ticked>>

\* extract, after the model: every document it read is still as it was read, or there is no result.
extract ==
    /\ extraction.at = "model"
    /\ extraction' = [extraction EXCEPT !.at = IF extraction.read \cap superseded = {} THEN "done" ELSE "failed"]
    /\ UNCHANGED <<server, listed, run, made, draft, acceptedRun, phase, ask, pending, saving, ticked>>

Extracted ==
    /\ extraction.at = "done"
    /\ Shows([NoRun EXCEPT !.source = "ai", !.read = extraction.read])
    /\ extraction' = Idle
    /\ UNCHANGED <<server, listed, draft, acceptedRun, ask, pending, saving, ticked>>

NotExtracted ==
    /\ extraction.at = "failed"
    /\ phase' = IF run = NoRun THEN "idle" ELSE "result"
    /\ extraction' = Idle
    /\ UNCHANGED <<server, listed, run, made, draft, acceptedRun, ask, pending, saving, ticked>>

\* onRunManual: a result of the person's own figures.
onRunManual ==
    /\ ~Busy /\ phase # "loading"
    /\ Shows([NoRun EXCEPT !.source = "manual"])
    /\ UNCHANGED <<server, listed, draft, acceptedRun, calls, ticked>>

onReset ==
    /\ phase = "result" /\ ~Busy
    /\ run' = NoRun /\ phase' = "idle"
    /\ UNCHANGED <<server, listed, made, draft, acceptedRun, calls, ticked>>

-----------------------------------------------------------------------------
(* Working on it                                                            *)

\* onAsk waits for a correction, not for a save.
onAsk ==
    /\ phase = "result" /\ ~draft /\ pending = NoRun /\ ~ask
    /\ ask' = TRUE
    /\ UNCHANGED <<server, listed, run, made, draft, acceptedRun, phase, pending, extraction, saving, ticked>>

\* The answer replaces the figures, and drops the references a person gave for the former ones.
Asked ==
    /\ ask /\ ask' = FALSE
    /\ \/ /\ run # NoRun /\ Shows([run EXCEPT !.source = "whatif", !.cited = {}])
       \/ UNCHANGED <<run, made, phase>>
    /\ UNCHANGED <<server, listed, draft, acceptedRun, pending, extraction, saving, ticked>>

\* The fields of a review, which a manual result does not have.
Editable == phase = "result" /\ run.source # "manual" /\ pending = NoRun /\ ~ask /\ saving = NoSave

\* A figure is typed over, or put back.
Correct ==
    /\ Editable
    /\ draft' = ~draft /\ acceptedRun' = 0
    /\ UNCHANGED <<server, listed, run, made, phase, calls, ticked>>

setReference ==
    /\ Editable /\ ~draft
    /\ \E d \in Doc :
         /\ d \in run.cited \/ d \notin listed
         /\ Shows([run EXCEPT !.cited = IF d \in @ THEN @ \ {d} ELSE @ \cup {d}])
    /\ acceptedRun' = 0
    /\ UNCHANGED <<server, listed, draft, calls, ticked>>

applyReview ==
    /\ Editable /\ draft
    /\ pending' = run
    /\ UNCHANGED <<server, listed, run, made, draft, acceptedRun, phase, ask, extraction, saving, ticked>>

\* A correction shows in the result it was typed on, if that is still there; a bad figure is refused.
Applied ==
    /\ pending # NoRun /\ pending' = NoRun
    /\ \/ /\ acceptedRun' = 0
          /\ IF run = pending THEN Shows(pending) /\ draft' = FALSE ELSE UNCHANGED <<run, made, phase, draft>>
       \/ UNCHANGED <<run, made, phase, draft, acceptedRun>>
    /\ UNCHANGED <<server, listed, ask, extraction, saving, ticked>>

-----------------------------------------------------------------------------
(* Accepting and saving it                                                  *)

\* expectedSources: the documents read and those cited, at the version seen.
Sources(r) == r.read \cup r.cited
SourcesChanged(r) == Sources(r) \cap listed # {}

\* The box: ticked for this very object, or cleared.
Accept ==
    /\ phase = "result" /\ run.source # "manual" /\ ~SourcesChanged(run) /\ ~draft /\ pending = NoRun /\ ~ask
    /\ IF acceptedRun = run.n THEN acceptedRun' = 0 /\ UNCHANGED ticked
       ELSE acceptedRun' = run.n /\ ticked' = ticked \cup {run}
    /\ UNCHANGED <<server, listed, run, made, draft, phase, calls>>

\* As if it were enough that some result had been accepted.
AnyAccepted(r) == acceptedRun # 0 /\ ~SourcesChanged(r)

reviewAccepted(r) == acceptedRun = r.n /\ ~SourcesChanged(r)

onOpenFull ==
    /\ phase = "result" /\ saving = NoSave /\ pending = NoRun /\ ~ask
    /\ run.source # "manual" => reviewAccepted(run) /\ ~draft
    /\ saving' = [at |-> "sent", run |-> run]
    /\ UNCHANGED <<server, listed, run, made, draft, acceptedRun, phase, ask, pending, extraction, ticked>>

\* save reads the documents of the review: every one there, current and at the version expected,
SourcesHold(r) == Sources(r) \cap superseded = {}

CheckSources ==
    /\ saving.at = "sent"
    /\ saving' = IF saving.run.source = "manual" \/ SourcesHold(saving.run)
                 THEN [saving EXCEPT !.at = "checked"] ELSE NoSave
    /\ UNCHANGED <<server, listed, run, made, draft, acceptedRun, phase, ask, pending, extraction, ticked>>

\* and writes the version with its review in a later statement.
save ==
    /\ saving.at = "checked"
    /\ records' = IF saving.run.source = "manual" THEN records ELSE records \cup {saving.run}
    /\ saving' = [saving EXCEPT !.at = "done"]
    /\ UNCHANGED <<room, listed, run, made, draft, acceptedRun, phase, ask, pending, extraction, ticked>>

\* The page leaves for the editor; back on it, nothing of the result is left.
Leave ==
    /\ saving.at = "done"
    /\ saving' = NoSave /\ run' = NoRun /\ phase' = "idle" /\ draft' = FALSE /\ acceptedRun' = 0 /\ ask' = FALSE
    /\ listed' = superseded
    /\ UNCHANGED <<server, made, pending, extraction, ticked>>

\* A save that is refused, or whose answer is lost.
NotSaved ==
    /\ saving # NoSave /\ saving' = NoSave
    /\ UNCHANGED <<server, listed, run, made, draft, acceptedRun, phase, ask, pending, extraction, ticked>>

Next ==
    \/ Revise \/ Refresh
    \/ onGenerate \/ documentBlocks \/ extract \/ Extracted \/ NotExtracted \/ onRunManual \/ onReset
    \/ onAsk \/ Asked \/ Correct \/ setReference \/ applyReview \/ Applied
    \/ Accept \/ onOpenFull \/ CheckSources \/ save \/ Leave \/ NotSaved

Spec == Init /\ [][Next]_vars

-----------------------------------------------------------------------------
(* Properties                                                               *)

\* A review that is recorded is of the very result somebody accepted, sources and references included:
\* never of figures that a what-if, a correction or a second extraction has put in their place since.
AcceptedIsRecorded == records \subseteq ticked

Result == [n : 0..made, source : {"none", "ai", "manual", "whatif"}, read : SUBSET Doc, cited : SUBSET Doc]
TypeOK ==
    /\ made \in Nat /\ acceptedRun \in 0..made
    /\ run \in Result /\ pending \in Result
    /\ extraction \in [at : {"idle", "sent", "model", "done", "failed"}, read : SUBSET Doc]
    /\ saving \in [at : {"idle", "sent", "checked", "done"}, run : Result]

\* The page shows the result it holds, and what counts as accepted is what was ticked.
PageAgrees ==
    /\ run.n = 0 => run = NoRun
    /\ phase = "result" => run # NoRun
    /\ run.n # 0 /\ acceptedRun = run.n => run \in ticked

\* What is being saved was accepted when the save began.
SavesAccepted == saving.at # "idle" /\ saving.run.source # "manual" => saving.run \in ticked

IInv == TypeOK /\ PageAgrees /\ SavesAccepted /\ AcceptedIsRecorded

\* Refuted: a review is recorded of documents that are current.  One may be revised after save has read them.
RecordedIsCurrent == [][\A r \in records' \ records : Sources(r) \cap superseded = {}]_vars
=============================================================================
