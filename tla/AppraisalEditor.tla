-------------------------- MODULE AppraisalEditor --------------------------
(***************************************************************************)
(* The editor of one deal's appraisal in a browser                         *)
(* (routes/DevelopmentAppraisal.tsx), the query it shares with the rest of *)
(* the web application (App.tsx) and the screen that accepts an extraction *)
(* (AutoAppraisal.tsx), while others save the same appraisal.              *)
(*                                                                         *)
(* What the inputs are is a number: every edit makes an object of its own. *)
(* The server's side of a save is in AppraisalVersions; here it is a step. *)
(***************************************************************************)
EXTENDS Integers, FiniteSets

CONSTANTS
    MaxStamp,    \* bound on writes of the appraisal
    MaxTyped     \* bound on inputs typed or composed

VARIABLES
    row,         \* the current version on the server
    past,        \* the versions it replaced
    wrote,       \* the inputs written under each stamp
    stamps,      \* stamps given
    typed,       \* inputs made so far
    cache,       \* getCurrent as the query client holds it
    fetching,    \* the answer of a read under way
    ed,          \* the editor: what it is holding and showing
    req,         \* the one mutation the page has under way
    unsaved      \* the last edit that nobody has saved or agreed to lose; 0 when none

vars == <<row, past, wrote, stamps, typed, cache, fetching, ed, req, unsaved>>
server == <<row, past, wrote, stamps>>

\* A version: its id, stamp, inputs, and the inputs its recorded source review covers.
None == [id |-> 0, stamp |-> 0, inputs |-> 0, covers |-> 0]
Unread == [None EXCEPT !.id = -1]
Closed == [open |-> FALSE, loaded |-> FALSE, id |-> 0, stamp |-> 0, inputs |-> 0, dirty |-> FALSE]
NoReq == [kind |-> "none", at |-> "sent", sent |-> 0, held |-> 0, expects |-> 0, base |-> 0, res |-> None]

Init ==
    /\ row = None /\ past = {} /\ wrote = [s \in 1..MaxStamp |-> 0] /\ stamps = 0 /\ typed = 0
    /\ cache = Unread /\ fetching = Unread
    /\ ed = Closed /\ req = NoReq /\ unsaved = 0

\* The row after a write of these inputs: in place, or as a version of its own.
Write(inputs, fresh, covers) ==
    /\ stamps < MaxStamp
    /\ stamps' = stamps + 1
    /\ wrote' = [wrote EXCEPT ![stamps + 1] = inputs]
    /\ row' = [id |-> IF fresh \/ row.id = 0 THEN stamps + 1 ELSE row.id, stamp |-> stamps + 1,
               inputs |-> inputs, covers |-> covers]
    /\ past' = IF fresh /\ row.id # 0 THEN past \cup {row} ELSE past

\* Somebody else saves, in place or as a version, with a source review of its inputs or without.
OtherSave ==
    /\ typed < MaxTyped /\ typed' = typed + 1
    /\ \/ Write(typed + 1, FALSE, row.covers)
       \/ \E reviewed \in {0, typed + 1} : Write(typed + 1, TRUE, reviewed)
    /\ UNCHANGED <<cache, fetching, ed, req, unsaved>>

-----------------------------------------------------------------------------
(* The query                                                                *)

\* A read of getCurrent, on mount, on focus or after an invalidation.
Fetch ==
    /\ fetching = Unread
    /\ fetching' = row
    /\ UNCHANGED <<server, typed, cache, ed, req, unsaved>>

Fetched ==
    /\ fetching # Unread
    /\ cache' = fetching /\ fetching' = Unread
    /\ UNCHANGED <<server, typed, ed, req, unsaved>>

\* invalidate cancels the read under way; what is cached stays until the next one is back.
Invalidate == fetching' = Unread

-----------------------------------------------------------------------------
(* The editor                                                               *)

Open ==
    /\ ~ed.open /\ req = NoReq
    /\ ed' = [Closed EXCEPT !.open = TRUE]
    /\ UNCHANGED <<server, typed, cache, fetching, req, unsaved>>

\* The effect that loads what the query holds, once.
Load ==
    /\ ed.open /\ ~ed.loaded /\ cache # Unread
    /\ ed' = IF cache.id = 0 THEN [ed EXCEPT !.loaded = TRUE]
             ELSE [ed EXCEPT !.loaded = TRUE, !.id = cache.id, !.stamp = cache.stamp, !.inputs = cache.inputs]
    /\ UNCHANGED <<server, typed, cache, fetching, req, unsaved>>

\* set: a new object of inputs.
Edit ==
    /\ ed.loaded /\ typed < MaxTyped /\ typed' = typed + 1
    /\ ed' = [ed EXCEPT !.inputs = typed + 1, !.dirty = TRUE]
    /\ unsaved' = typed + 1
    /\ UNCHANGED <<server, cache, fetching, req>>

\* Leaving asks first when there is unsaved work.  A request already sent goes on as anybody's.
Leave ==
    /\ ed.open
    /\ ed' = Closed /\ req' = NoReq /\ unsaved' = 0
    /\ UNCHANGED <<server, typed, cache, fetching>>

\* As if a review were matched by the id of its version.
ById == ed.id # 0 /\ cache.id # ed.id

\* sourceReviewUnverified: the query is not the version the editor holds, if it holds one.
Unverified == ed.id # 0 /\ (cache.id # ed.id \/ cache.stamp # ed.stamp)

\* Mutations wait for one another.
Send(kind, inputs, expects, base) ==
    req' = [NoReq EXCEPT !.kind = kind, !.sent = inputs, !.held = ed.inputs, !.expects = expects, !.base = base]

save ==
    /\ ed.loaded /\ req = NoReq /\ ed.dirty
    /\ Send("save", ed.inputs, ed.stamp, 0)
    /\ UNCHANGED <<server, typed, cache, fetching, ed, unsaved>>

saveVersion ==
    /\ ed.loaded /\ req = NoReq
    /\ Send("version", ed.inputs, 0, 0)
    /\ UNCHANGED <<server, typed, cache, fetching, ed, unsaved>>

\* Asks first when there are unsaved edits.
restore ==
    /\ ed.loaded /\ req = NoReq
    /\ \E v \in past : Send("restore", v.inputs, 0, 0)
    /\ unsaved' = 0
    /\ UNCHANGED <<server, typed, cache, fetching, ed>>

\* A field allowance adds one cost to the inputs of the query.
saveFieldCost ==
    /\ ed.loaded /\ req = NoReq /\ cache.id > 0 /\ ~Unverified /\ ~ed.dirty
    /\ typed < MaxTyped /\ typed' = typed + 1
    /\ Send("cost", typed + 1, ed.stamp, cache.inputs)
    /\ UNCHANGED <<server, cache, fetching, ed, unsaved>>

\* AutoAppraisal accepts an extraction: a branch when its query holds an appraisal.
onOpenFull ==
    /\ ~ed.open /\ req = NoReq /\ cache # Unread
    /\ typed < MaxTyped /\ typed' = typed + 1
    /\ Send("accept", typed + 1, 0, cache.id)
    /\ UNCHANGED <<server, cache, fetching, ed, unsaved>>

\* What the server does with it: a version, an edit of the row whose stamp it carries, or a refusal.
Allowed ==
    CASE req.kind = "save" -> row.id = 0 \/ req.expects = row.stamp
      [] req.kind = "cost" -> row.id # 0 /\ req.expects = row.stamp /\ req.base = row.inputs
      [] req.kind = "accept" -> row.id = 0 \/ req.base > 0
      [] OTHER -> TRUE

Serve ==
    /\ req # NoReq /\ req.at = "sent"
    /\ IF Allowed
       THEN /\ Write(req.sent, req.kind # "save", CASE req.kind = "accept" -> req.sent
                                                    [] req.kind = "save" -> row.covers [] OTHER -> 0)
            /\ req' = [req EXCEPT !.at = "done", !.res = row']
       ELSE req' = NoReq /\ UNCHANGED server
    /\ UNCHANGED <<typed, cache, fetching, ed, unsaved>>

\* The answer is lost, or the request is refused for another reason.
Lose ==
    /\ req # NoReq
    /\ req' = NoReq
    /\ UNCHANGED <<server, typed, cache, fetching, ed, unsaved>>

\* onSuccess of save and saveVersion: what was edited since is still dirty.
EditedSince == ed.inputs # req.held
\* As if an answer cleared the mark whatever was typed since.
SavedAll(e) == [e EXCEPT !.dirty = FALSE]

Saved(e) == [e EXCEPT !.dirty = EditedSince]

\* onSuccess of restore, and of a field allowance, whose cost is put beside the other inputs held.
Restored(e) == IF EditedSince THEN [e EXCEPT !.dirty = TRUE] ELSE [e EXCEPT !.inputs = req.sent, !.dirty = FALSE]
Costed(e) == IF EditedSince THEN [e EXCEPT !.dirty = TRUE]
             ELSE [e EXCEPT !.inputs = IF ed.inputs = req.base THEN req.sent ELSE -1, !.dirty = FALSE]

Holds == [ed EXCEPT !.id = req.res.id, !.stamp = req.res.stamp]

Answer ==
    /\ req.at = "done" /\ ed.open
    /\ ed' = CASE req.kind = "restore" -> Restored(Holds) [] req.kind = "cost" -> Costed(Holds) [] OTHER -> Saved(Holds)
    /\ unsaved' = IF req.kind \in {"save", "version"} /\ unsaved = req.sent THEN 0 ELSE unsaved
    /\ req' = NoReq
    /\ Invalidate
    /\ UNCHANGED <<server, typed, cache>>

\* The extraction is saved, and the page goes on to the editor.
Accepted ==
    /\ req.at = "done" /\ ~ed.open
    /\ ed' = [Closed EXCEPT !.open = TRUE]
    /\ req' = NoReq
    /\ Invalidate
    /\ UNCHANGED <<server, typed, cache, unsaved>>

Next ==
    \/ OtherSave \/ Fetch \/ Fetched
    \/ Open \/ Load \/ Edit \/ Leave
    \/ save \/ saveVersion \/ restore \/ saveFieldCost \/ onOpenFull
    \/ Serve \/ Lose \/ Answer \/ Accepted

Spec == Init /\ [][Next]_vars

-----------------------------------------------------------------------------
(* Properties                                                               *)

\* An editor that says "Saved" shows what was written under the stamp it will send back.
SaysSaved == ed.open /\ ed.id # 0 /\ ~ed.dirty => ed.inputs = wrote[ed.stamp]

\* No edit goes without being saved, or without a word: not by an answer that comes after it.
EditsStand == unsaved # 0 => ed.inputs = unsaved /\ ed.dirty

\* When the screen says "Saved inputs match the recorded review."
MatchesReview == cache.id > 0 /\ cache.covers # 0 /\ cache.covers = cache.inputs /\ ~Unverified /\ ~ed.dirty

\* It is said of the inputs on the screen, of an editor that holds a version.
ReviewIsOfThese == ed.loaded /\ ed.id # 0 /\ MatchesReview => ed.inputs = cache.covers

\* What the editor tells the person in front of it is true of the appraisal it is holding.
EditorSound == SaysSaved /\ EditsStand /\ ReviewIsOfThese

-----------------------------------------------------------------------------
(* The inductive invariant.                                                 *)

Version == [id : Int, stamp : 0..stamps, inputs : 0..typed, covers : 0..typed]
Mutation == {"save", "version", "restore", "cost"}
TypeOK ==
    /\ stamps \in 0..MaxStamp /\ typed \in Nat /\ wrote \in [1..MaxStamp -> 0..typed] /\ unsaved \in 0..typed
    /\ row \in Version /\ past \subseteq Version /\ cache \in Version /\ fetching \in Version
    /\ ed \in [open : BOOLEAN, loaded : BOOLEAN, id : Nat, stamp : 0..stamps, inputs : 0..typed, dirty : BOOLEAN]
    /\ req \in [kind : Mutation \cup {"none", "accept"}, at : {"sent", "done"}, sent : 0..typed, held : 0..typed,
                expects : 0..stamps, base : Int, res : Version]

\* What is known of a version, on the server or of an answer, was written under its stamp.
Known(v) == v.id > 0 /\ v.stamp > 0 /\ v.inputs = wrote[v.stamp]
VersionsKnown ==
    /\ row = None \/ Known(row)
    /\ \A v \in past : Known(v)
    /\ \A v \in {cache, fetching} : v \in {None, Unread} \/ Known(v)

\* The editor holds a version under its stamp, or none, and has loaded before anything is edited or sent.
EditorHolds ==
    /\ ed.id = 0 <=> ed.stamp = 0
    /\ ~ed.open => ed = Closed
    /\ unsaved # 0 \/ req.kind \in Mutation => ed.loaded
    /\ req.kind = "accept" => ~ed.open

\* What a request was sent with is what the editor held; what was typed since is not.
RequestHolds ==
    /\ req.kind = "none" => req = NoReq
    /\ req.kind \in {"save", "version"} => req.held = req.sent
    /\ req.kind \in {"restore", "cost"} /\ unsaved # 0 => unsaved # req.held
    /\ req.kind = "cost" /\ req.expects # 0 => req.held = req.base
    /\ req.at = "done" => Known(req.res) /\ req.res.inputs = req.sent /\ (req.kind = "cost" => req.expects # 0)

IInv == TypeOK /\ VersionsKnown /\ EditorHolds /\ RequestHolds /\ SaysSaved /\ EditsStand

-----------------------------------------------------------------------------
(* Refuted *)

\* Refuted: source claims follow the editor's snapshot (appraisal-editor-version.spec.ts:235).  An editor
\* opened before there was an appraisal holds no version, and takes any review for one of its defaults.
ClaimsFollowEditor == ed.loaded /\ MatchesReview => ed.inputs = cache.covers

\* Refuted: the editor opens on what was accepted on the screen before.  It loads the query's older copy.
OpensOnAccepted == [][req.kind = "accept" /\ Accepted => cache = req.res]_vars
=============================================================================
