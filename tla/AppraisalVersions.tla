--------------------------- MODULE AppraisalVersions ---------------------------
(***************************************************************************)
(* The versions of one deal's appraisal (apps/api/src/routers/appraisal.ts) *)
(* and every procedure that writes them: save (first version, branch, field *)
(* allowance, in place), submitForReview, review, restore,                  *)
(* comparables.applyToAppraisal and draftNarrative.                         *)
(*                                                                          *)
(* A procedure is a request of a client.  Each database round trip is a     *)
(* step of its own, so that two requests interleave exactly where the code  *)
(* awaits; a $transaction is one step.  What a handler read stays in its    *)
(* locals (seen, seenId) until it writes.                                   *)
(***************************************************************************)
EXTENDS Integers, FiniteSets

CONSTANTS
    Client,     \* requests that can be in flight at once, one per client
    Version,    \* identities an Appraisal row can be given
    Mix,        \* accommodation schedules (and every other saved input)
    Cap,        \* unit caps, in GBP per square foot
    Saved,      \* the inputs people type in and save
    Supported,  \* the cap the deal's comparables support
    MayCrash,   \* whether a request can be lost between two steps
    MaxStamp,   \* bound on the updatedAt stamps, in milliseconds that matter
    None        \* SQL NULL

ASSUME ConstantsOK ==
    /\ Supported \in Cap
    /\ Saved \subseteq [mix : Mix, cap : Cap]
    /\ MayCrash \in BOOLEAN
    /\ MaxStamp \in Nat
    /\ None \notin Version
    /\ None \notin [mix : Mix, cap : Cap]

VARIABLES
    rows,       \* the Appraisal table, for one deal
    card,       \* the inputs whose headline figures are on the deal card
    latest,     \* the latest updatedAt any row carries
    announced,  \* the appraisal.approved events queued for each version
    opened,     \* what the person at a client has of a version on screen
    pc,         \* where a request is in its procedure
    seen,       \* the row the request read
    seenId,     \* its id
    work        \* the inputs the request is to write

\* History, read by no action: the inputs a version held when it was listed to a client.
VARIABLE listed

vars == <<rows, card, latest, announced, opened, listed, pc, seen, seenId, work>>

Units == [mix : Mix, cap : Cap]
Status == {"draft", "in_review", "approved", "changes_requested"}
Row == [made : BOOLEAN, current : BOOLEAN, units : Units \cup {None},
        cache : Units \cup {None}, narrative : BOOLEAN,
        status : Status, stamp : Nat, pin : Units \cup {None}]
Copy == [screen : {"none", "editor", "versions"}, id : Version \cup {None},
         stamp : Nat, units : Units \cup {None}, shown : Units \cup {None}]

NoRow == [made |-> FALSE, current |-> FALSE, units |-> None, cache |-> None,
          narrative |-> FALSE, status |-> "draft", stamp |-> 0, pin |-> None]
NoCopy == [screen |-> "none", id |-> None, stamp |-> 0, units |-> None, shown |-> None]

Step == {"idle", "first", "branch", "field", "inplace", "headline", "submit",
         "approve", "request_changes", "restore", "flip", "apply", "narrate"}

Made == {v \in Version : rows[v].made}
Current == {v \in Made : rows[v].current}

TypeOK ==
    /\ rows \in [Version -> Row]
    /\ card \in Units \cup {None}
    /\ latest \in Nat
    /\ announced \in [Version -> [times : Nat, hash : Units \cup {None}, gdv : Units \cup {None}]]
    /\ opened \in [Client -> Copy]
    /\ listed \in [Client -> Units \cup {None}]
    /\ pc \in [Client -> Step]
    /\ seen \in [Client -> Row]
    /\ seenId \in [Client -> Version \cup {None}]
    /\ work \in [Client -> Units \cup {None}]

Init ==
    /\ rows = [v \in Version |-> NoRow]
    /\ card = None
    /\ latest = 0
    /\ announced = [v \in Version |-> [times |-> 0, hash |-> None, gdv |-> None]]
    /\ opened = [c \in Client |-> NoCopy]
    /\ listed = [c \in Client |-> None]
    /\ pc = [c \in Client |-> "idle"]
    /\ seen = [c \in Client |-> NoRow]
    /\ seenId = [c \in Client |-> None]
    /\ work = [c \in Client |-> None]

(***************************************************************************)
(* Helpers.                                                                 *)
(***************************************************************************)

\* currentAppraisal: the row flagged current.  Only a deal without one yields None.
CurrentRead == IF Current = {} THEN {None} ELSE Current

\* As if the clock's own time were written and the clock could be set back.
LaterByClockAlone(t) == {t - 1, latest + 1}

(* Math.max(Date.now(), row.updatedAt + 1), the stamp a conditional writer   *)
(* gives a row: the clock has passed the row's stamp, or it has not (two     *)
(* writes within a millisecond, or a clock that was set back).               *)
Later(t) == {t + 1, latest + 1}

(* An unconditional write and a create take @updatedAt from the clock alone. *)
(* Two of them inside one millisecond share a stamp, which optimistic.ts     *)
(* accepts in so many words; the model starts where that window ends.        *)
Now == latest + 1

\* Every write advances the latest stamp to t, if t is later.
Stamped(t) ==
    /\ t <= MaxStamp
    /\ latest' = IF t > latest THEN t ELSE latest

\* The request ends: the response is sent, or it is refused and nothing is kept.
Done(c) ==
    /\ pc' = [pc EXCEPT ![c] = "idle"]
    /\ seen' = [seen EXCEPT ![c] = NoRow]
    /\ seenId' = [seenId EXCEPT ![c] = None]
    /\ work' = [work EXCEPT ![c] = None]

\* The request has read row r, whose id is v, and goes on to step s with inputs u.
Holding(c, s, v, r, u) ==
    /\ pc[c] = "idle"
    /\ pc' = [pc EXCEPT ![c] = s]
    /\ seen' = [seen EXCEPT ![c] = r]
    /\ seenId' = [seenId EXCEPT ![c] = v]
    /\ work' = [work EXCEPT ![c] = u]
    /\ UNCHANGED <<rows, card, latest, announced, opened, listed>>

\* Row v is written, and returned; the deal card is still to be synced.
Written(c, v) ==
    /\ pc' = [pc EXCEPT ![c] = "headline"]
    /\ seen' = [seen EXCEPT ![c] = rows'[v]]
    /\ seenId' = [seenId EXCEPT ![c] = v]
    /\ work' = [work EXCEPT ![c] = None]
    /\ UNCHANGED <<card, announced, opened, listed>>

\* TRPCError CONFLICT: the conditional write matched no row.
Conflict(c) ==
    /\ Done(c)
    /\ UNCHANGED <<rows, card, latest, announced, opened, listed>>

\* A new version: current, a draft, its cached result computed from its own inputs.
Fresh(u) == [made |-> TRUE, current |-> TRUE, units |-> u, cache |-> u,
             narrative |-> FALSE, status |-> "draft", stamp |-> Now, pin |-> None]

\* What the editor keeps of row r: its id, its stamp and its inputs.
EditorCopy(v, r) ==
    [screen |-> "editor", id |-> v, stamp |-> r.stamp, units |-> r.units, shown |-> None]

\* What the list keeps of it: its id, its stamp and its cached headline, and no inputs.
ListedCopy(v, r) ==
    [screen |-> "versions", id |-> v, stamp |-> r.stamp, units |-> None, shown |-> r.cache]

\* Client c has copy k on screen; u is what the history notes of it.
Opens(c, k, u) ==
    /\ opened' = [opened EXCEPT ![c] = k]
    /\ listed' = [listed EXCEPT ![c] = u]

(***************************************************************************)
(* getCurrent loads the editor; versions lists every version with its stamp *)
(* and the headline figures of its resultCache, beside the decide buttons.  *)
(***************************************************************************)
GetCurrent(c) ==
    /\ pc[c] = "idle"
    /\ \E v \in Current : Opens(c, EditorCopy(v, rows[v]), None)
    /\ UNCHANGED <<rows, card, latest, announced, pc, seen, seenId, work>>

Versions(c, v) ==
    /\ pc[c] = "idle"
    /\ v \in Made
    /\ Opens(c, ListedCopy(v, rows[v]), rows[v].units)
    /\ UNCHANGED <<rows, card, latest, announced, pc, seen, seenId, work>>

(***************************************************************************)
(* save.                                                                    *)
(***************************************************************************)
SaveFirstRead(c, u) ==
    /\ Current = {}
    /\ Holding(c, "first", None, NoRow, u)

\* asNewVersion, with or without the stamp a field allowance review demands
SaveBranchRead(c, u) ==
    \E v \in Current :
        \/ Holding(c, "branch", v, rows[v], u)
        \/ /\ opened[c].screen = "editor"
           /\ rows[v].stamp = opened[c].stamp
           /\ Holding(c, "field", v, rows[v], u)

\* assertNotApproved, then assertUnchanged against the stamp the person loaded
SaveInPlaceRead(c, u) ==
    \E v \in Current :
        /\ rows[v].status # "approved"
        /\ opened[c].screen = "editor"
        /\ rows[v].stamp = opened[c].stamp
        /\ Holding(c, "inplace", v, rows[v], u)

\* The first version re-reads inside a serialisable transaction.
SaveFirst(c) ==
    /\ pc[c] = "first"
    /\ \/ /\ Current = {}
          /\ Stamped(Now)
          /\ \E v \in Version \ Made :
                /\ rows' = [rows EXCEPT ![v] = Fresh(work[c])]
                /\ Written(c, v)
       \/ /\ Current # {}
          /\ Conflict(c)

\* As if the flip matched on the id alone.
FlipById(c) == rows[seenId[c]].made

\* As if a field allowance were an ordinary branch.
FlipWithoutStamp(c) == rows[seenId[c]].current

\* updateMany where id and isCurrent (and, for a field allowance, updatedAt)
StillCurrent(c) ==
    /\ rows[seenId[c]].current
    /\ pc[c] = "field" => rows[seenId[c]].stamp = opened[c].stamp

SaveBranch(c) ==
    /\ pc[c] \in {"branch", "field"}
    /\ \/ /\ StillCurrent(c)
          /\ Stamped(Now)
          /\ \E v \in Version \ Made :
                /\ rows' = [rows EXCEPT ![seenId[c]].current = FALSE,
                                        ![seenId[c]].stamp = Now,
                                        ![v] = Fresh(work[c])]
                /\ Written(c, v)
       \/ /\ ~StillCurrent(c)
          /\ Conflict(c)

\* As if the preflight assertUnchanged were the lock.
StillCurrentInState(c) ==
    /\ rows[seenId[c]].current
    /\ rows[seenId[c]].status = seen[c].status

\* As if assertNotApproved and assertUnchanged were both left to the read.
StillThere(c) == rows[seenId[c]].current

\* update where isCurrent, updatedAt is the stamp loaded, reviewStatus as read
StillAsOpened(c) ==
    /\ rows[seenId[c]].current
    /\ rows[seenId[c]].stamp = opened[c].stamp
    /\ rows[seenId[c]].status = seen[c].status

SaveInPlace(c) ==
    /\ pc[c] = "inplace"
    /\ \/ /\ StillAsOpened(c)
          /\ \E t \in Later(seen[c].stamp) :
                /\ Stamped(t)
                /\ rows' = [rows EXCEPT ![seenId[c]].units = work[c],
                                        ![seenId[c]].cache = work[c],
                                        ![seenId[c]].stamp = t,
                                        ![seenId[c]].status = IF seen[c].status = "in_review" THEN "draft" ELSE @]
          /\ Written(c, seenId[c])
       \/ /\ ~StillAsOpened(c)
          /\ Conflict(c)

(* syncDealHeadline, after the transaction and outside it; the response then *)
(* gives the editor the written row's id, stamp and inputs.                  *)
SyncDealHeadline(c) ==
    /\ pc[c] = "headline"
    /\ card' = seen[c].units
    /\ Opens(c, EditorCopy(seenId[c], seen[c]), None)
    /\ Done(c)
    /\ UNCHANGED <<rows, latest, announced>>

(***************************************************************************)
(* submitForReview and review.                                              *)
(***************************************************************************)
SubmitRead(c, v) ==
    /\ v \in Made
    /\ rows[v].status # "approved"
    /\ Holding(c, "submit", v, rows[v], None)

\* As if the write trusted the state read before the transaction.
AsRead(c) == rows[seenId[c]].made

\* As if the review state were the whole guard.
InSameState(c) == rows[seenId[c]].status = seen[c].status

\* where updatedAt and reviewStatus are still as read
AsSeen(c) ==
    /\ rows[seenId[c]].stamp = seen[c].stamp
    /\ rows[seenId[c]].status = seen[c].status

SubmitForReview(c) ==
    /\ pc[c] = "submit"
    /\ \/ /\ AsSeen(c)
          /\ \E t \in Later(seen[c].stamp) :
                /\ Stamped(t)
                /\ rows' = [rows EXCEPT ![seenId[c]].status = "in_review",
                                        ![seenId[c]].stamp = t]
          /\ Done(c)
          /\ UNCHANGED <<card, announced, opened, listed>>
       \/ /\ ~AsSeen(c)
          /\ Conflict(c)

\* The reviewer sends the version's id and the stamp from the same list.
ReviewRead(c, v) ==
    /\ v \in Made
    /\ rows[v].status = "in_review"
    /\ opened[c].screen = "versions" /\ opened[c].id = v
    /\ rows[v].stamp = opened[c].stamp
    /\ \E decision \in {"approve", "request_changes"} :
          Holding(c, decision, v, rows[v], None)

(* The status, the pin taken from the row as read, the audit row and the    *)
(* queued webhook commit together or not at all.  The payload's gdv is       *)
(* recomputed from the row as it is in the transaction.                      *)
Decide(c, v, t) ==
    \/ /\ pc[c] = "approve"
       /\ rows' = [rows EXCEPT ![v].status = "approved", ![v].stamp = t,
                               ![v].pin = seen[c].units]
       /\ announced' = [announced EXCEPT
              ![v] = [times |-> @.times + 1, hash |-> seen[c].units, gdv |-> rows[v].units]]
    \/ /\ pc[c] = "request_changes"
       /\ rows' = [rows EXCEPT ![v].status = "changes_requested", ![v].stamp = t]
       /\ UNCHANGED announced

Review(c) ==
    /\ pc[c] \in {"approve", "request_changes"}
    /\ \/ /\ AsSeen(c)
          /\ \E t \in Later(seen[c].stamp) : Stamped(t) /\ Decide(c, seenId[c], t)
          /\ Done(c)
          /\ UNCHANGED <<card, opened, listed>>
       \/ /\ ~AsSeen(c)
          /\ Conflict(c)

(***************************************************************************)
(* restore: the version and the current row are two reads; the flip and the *)
(* copy are one transaction.  The copy drops the review fields and keeps    *)
(* every other column, approvalPin and engineVersion included.              *)
(***************************************************************************)
RestoreRead(c, v) ==
    /\ v \in Made
    /\ Holding(c, "restore", v, rows[v], None)

RestoreReadCurrent(c) ==
    /\ pc[c] = "restore"
    /\ \E v \in CurrentRead : seenId' = [seenId EXCEPT ![c] = v]
    /\ pc' = [pc EXCEPT ![c] = "flip"]
    /\ UNCHANGED <<rows, card, latest, announced, opened, listed, seen, work>>

\* As if the review columns were copied along.
RestoredWithReview(c) == [seen[c] EXCEPT !.current = TRUE, !.stamp = Now]

RestoredCopy(c) == [Fresh(seen[c].units) EXCEPT !.cache = seen[c].cache,
                                                !.narrative = seen[c].narrative,
                                                !.pin = seen[c].pin]

Restore(c) ==
    /\ pc[c] = "flip"
    /\ \/ /\ seenId[c] # None => rows[seenId[c]].current
          /\ Stamped(Now)
          /\ \E v \in Version \ Made :
                /\ rows' = [w \in Version |->
                               IF w = v THEN RestoredCopy(c)
                               ELSE IF w = seenId[c]
                                    THEN [rows[w] EXCEPT !.current = FALSE, !.stamp = Now]
                                    ELSE rows[w]]
                /\ Written(c, v)
       \/ /\ seenId[c] # None
          /\ ~rows[seenId[c]].current
          /\ Conflict(c)

(***************************************************************************)
(* comparables.applyToAppraisal and draftNarrative: assertNotApproved on    *)
(* the row as read, then an update by id alone.                             *)
(***************************************************************************)
ApplyRead(c) ==
    \E v \in Current :
        /\ rows[v].status # "approved"
        /\ Holding(c, "apply", v, rows[v], [rows[v].units EXCEPT !.cap = Supported])

ApplyToAppraisal(c) ==
    /\ pc[c] = "apply"
    /\ Stamped(Now)
    /\ rows' = [rows EXCEPT ![seenId[c]].units = work[c],
                            ![seenId[c]].stamp = Now]
    /\ Done(c)
    /\ UNCHANGED <<card, announced, opened, listed>>

NarrativeRead(c) ==
    \E v \in Current :
        /\ rows[v].status # "approved"
        /\ Holding(c, "narrate", v, rows[v], None)

DraftNarrative(c) ==
    /\ pc[c] = "narrate"
    /\ Stamped(Now)
    /\ rows' = [rows EXCEPT ![seenId[c]].narrative = TRUE,
                            ![seenId[c]].stamp = Now]
    /\ Done(c)
    /\ UNCHANGED <<card, announced, opened, listed>>

(***************************************************************************)
(* The process dies between two round trips, or the connection drops.       *)
(***************************************************************************)
Crash(c) ==
    /\ MayCrash
    /\ pc[c] # "idle"
    /\ Done(c)
    /\ UNCHANGED <<rows, card, latest, announced, opened, listed>>

Save(c) ==
    \/ \E u \in Saved : SaveFirstRead(c, u) \/ SaveBranchRead(c, u) \/ SaveInPlaceRead(c, u)
    \/ SaveFirst(c)
    \/ SaveBranch(c)
    \/ SaveInPlace(c)
    \/ SyncDealHeadline(c)

ReviewCycle(c) ==
    \/ \E v \in Version : SubmitRead(c, v) \/ ReviewRead(c, v)
    \/ SubmitForReview(c)
    \/ Review(c)

RestoreVersion(c) ==
    \/ \E v \in Version : RestoreRead(c, v)
    \/ RestoreReadCurrent(c)
    \/ Restore(c)

WriteById(c) ==
    \/ ApplyRead(c) \/ ApplyToAppraisal(c)
    \/ NarrativeRead(c) \/ DraftNarrative(c)

Next ==
    \E c \in Client :
        \/ GetCurrent(c)
        \/ \E v \in Version : Versions(c, v)
        \/ Save(c)
        \/ ReviewCycle(c)
        \/ RestoreVersion(c)
        \/ WriteById(c)
        \/ Crash(c)

Spec == Init /\ [][Next]_vars

(***************************************************************************)
(* Properties.                                                              *)
(***************************************************************************)

(* A deal that has an appraisal has exactly one current version, whatever   *)
(* saves, branches and restores overlap (current-appraisal.ts: "isCurrent   *)
(* is true for exactly one row per deal").                                  *)
OneCurrent == Made # {} => \E v \in Version : Current = {v}

(* Every approval is announced once, and only approvals are: two reviewers  *)
(* deciding at once, or a decision racing a re-submission, never queue the  *)
(* event twice, and its hash and its gdv describe the same inputs.          *)
ApprovalAnnouncedOnce ==
    \A v \in Version :
        /\ announced[v].times = (IF rows[v].status = "approved" THEN 1 ELSE 0)
        /\ announced[v].hash = announced[v].gdv

(* An approved version never leaves approved: no submission, decision or    *)
(* edit that read the row earlier takes the signature back.                 *)
ApprovalIsFinal ==
    [][\A v \in Version : rows[v].status = "approved" => rows'[v].status = "approved"]_vars

(* An approval signs the version as it was when it was listed to its         *)
(* reviewer: whoever saved, decided, re-submitted or applied a cap between   *)
(* the list and the decision, an approval that goes through finds and pins   *)
(* the inputs the row held then.  The list itself shows no inputs, only a    *)
(* headline and the stamp the decision sends back; what that headline is     *)
(* worth is ReviewerShownWhatIsSigned, below.                                *)
SignedAsListed ==
    [][\A c \in Client, v \in Version :
          (pc[c] = "approve" /\ seenId[c] = v /\ rows'[v].status = "approved" /\ rows[v].status # "approved"
             /\ pc'[c] = "idle")
          => /\ rows[v].units = listed[c]
             /\ rows'[v].pin = listed[c]]_vars

(* An in-place save only ever replaces the inputs its author had on screen: *)
(* no save wipes another person's save, or a cap applied from comparables;  *)
(* and a field allowance version adds its cost to inputs as it read them.   *)
NoSaveLost ==
    [][\A c \in Client :
          pc'[c] = "headline" =>
            /\ pc[c] = "inplace" => rows[seenId[c]].units = opened[c].units
            /\ pc[c] = "field" => rows[seenId[c]].units = seen[c].units]_vars

(* The figures and the prose of an approved version are changed by nothing  *)
(* but the two updates by id: every conditional writer leaves them alone,   *)
(* whichever row it had read before the approval.                           *)
OnlyWritesByIdTouchApproved ==
    [][\A v \in Version :
          (rows[v].status = "approved"
             /\ (rows'[v].units # rows[v].units \/ rows'[v].narrative # rows[v].narrative))
          => \E c \in Client : pc[c] \in {"apply", "narrate"} /\ seenId[c] = v /\ pc'[c] = "idle"]_vars

(* The overlapping requests implement the history of VersionHistory: every  *)
(* step is one of its steps or changes nothing a reader of it sees.         *)
History == INSTANCE VersionHistory WITH
    Inputs <- Units,
    stage <- [v \in Version |-> IF rows[v].made THEN rows[v].status ELSE "absent"],
    current <- IF Current = {} THEN None ELSE CHOOSE v \in Version : v \in Current,
    signed <- [v \in Version |-> IF rows[v].status = "approved" THEN rows[v].pin ELSE None]

ImplementsHistory == History!Spec

(***************************************************************************)
(* What the repository says of this code and the code does not do.          *)
(***************************************************************************)

(* appraisal.ts:152-155: editing an approved version in place would change  *)
(* what somebody signed off without anyone signing off on the change.       *)
ApprovedImmutable ==
    [][\A v \in Version :
          rows[v].status = "approved" => rows'[v].units = rows[v].units]_vars

(* appraisal.ts:418-420: left in review it would be approved in a state      *)
(* nobody read.  The headline beside the approve button is the one signed.   *)
ReviewerShownWhatIsSigned ==
    [][\A c \in Client, v \in Version :
          (pc[c] = "approve" /\ seenId[c] = v /\ pc'[c] = "idle"
             /\ rows[v].status # "approved" /\ rows'[v].status = "approved")
          => rows[v].units = opened[c].shown]_vars

(* appraisal.ts:235: the engine that signed it is null for a draft.         *)
DraftHasNoPin == \A v \in Version : rows[v].status = "draft" => rows[v].pin = None

(* appraisal.ts:70-82: the deal card's headline figures are the current     *)
(* appraisal's, once every request has finished.                            *)
CardShowsCurrent ==
    (\A c \in Client : pc[c] = "idle") => \A v \in Current : card = rows[v].units

=============================================================================
