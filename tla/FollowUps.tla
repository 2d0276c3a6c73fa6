------------------------------ MODULE FollowUps ------------------------------
(***************************************************************************)
(* Follow-ups: tasks raised from saved observations of one inspection       *)
(* (routers/ops.ts, FieldFollowups.tsx), and the appraisal version that      *)
(* captures them (routers/appraisal.ts, save).                              *)
(*                                                                         *)
(* An answer may be lost while the server goes on with the request.  The    *)
(* screen then keeps what it sent, and sends it again unchanged.            *)
(***************************************************************************)
EXTENDS Naturals, FiniteSets

CONSTANTS
    Person, Call, NoCall,   \* people with a screen, requests in flight
    MaxSubmission,          \* bound on submissions
    MaxTask,                \* bound on tasks ever made
    MaxSave,                \* bound on versions of the inspection
    MaxSent                 \* bound on requests

VARIABLES
    inspection,  \* which version of the inspection is saved (its updatedAt)
    tasks,       \* the Task rows
    made,        \* how many there have been
    listed,      \* the tasks each screen has in its cache
    form,        \* what each person has open
    status,      \* the change of status each screen would send again
    waits,       \* the request each screen waits for
    sent,        \* requests so far
    call,        \* what each request is doing
    shown,       \* for each submission, the version of the inspection it was drafted from
    past         \* for each task ever made: its submission, the statuses asked of it, whether one was written

vars == <<inspection, tasks, made, listed, form, status, waits, sent, call, shown, past>>

Title == {"as observed", "reworded"}
Closed == [kind |-> "closed"]
NoChange == [id |-> 0]
Idle == [op |-> "idle"]
Submission == DOMAIN shown

Row(s, of) == [id |-> made + 1, from |-> s, title |-> "as observed", done |-> FALSE, evidence |-> of]
Of(s) == {t \in tasks : t.from = s}
With(id) == {t \in tasks : t.id = id}
Shows(t) == [title |-> t.title, done |-> t.done]

Init ==
    /\ inspection = 1 /\ tasks = {} /\ made = 0
    /\ listed = [p \in Person |-> {}]
    /\ form = [p \in Person |-> Closed] /\ status = [p \in Person |-> NoChange]
    /\ waits = [p \in Person |-> NoCall] /\ call = [c \in Call |-> Idle]
    /\ shown = <<>> /\ past = <<>> /\ sent = 0

-----------------------------------------------------------------------------
(* The screen *)

Free(p) == waits[p] = NoCall
Sends(p, c, request) ==
    /\ Free(p) /\ call[c] = Idle /\ sent < MaxSent /\ sent' = sent + 1
    /\ waits' = [waits EXCEPT ![p] = c]
    /\ call' = [call EXCEPT ![c] = request]

\* The inspection is saved again, from any desk.
SaveInspection ==
    /\ inspection < MaxSave /\ inspection' = inspection + 1
    /\ UNCHANGED <<sent, tasks, made, listed, form, status, waits, call, shown, past>>

\* The list of tasks is fetched again: after an answer, or by hand.
Refetch(p) ==
    /\ listed[p] # tasks /\ listed' = [listed EXCEPT ![p] = tasks]
    /\ UNCHANGED <<sent, inspection, tasks, made, form, status, waits, call, shown, past>>

\* Review follow-up: from the observation on the screen, which may be older than the one saved.
Draft(p, of) ==
    /\ form[p] = Closed /\ Free(p) /\ of <= inspection
    /\ form' = [form EXCEPT ![p] = [kind |-> "new", of |-> of, sent |-> 0]]
    /\ UNCHANGED <<sent, inspection, tasks, made, listed, status, waits, call, shown, past>>

\* Create: refused when an open task of the list has the title already.
Submit(p, c) ==
    LET f == form[p]
        s == Cardinality(Submission) + 1
    IN /\ f.kind = "new" /\ f.sent = 0 /\ s <= MaxSubmission
       /\ ~ \E t \in listed[p] : t.title = "as observed" /\ ~t.done
       /\ Sends(p, c, [op |-> "create", at |-> "replay", s |-> s, of |-> f.of])
       /\ form' = [form EXCEPT ![p].sent = s]
       /\ shown' = [i \in 1..s |-> IF i = s THEN f.of ELSE shown[i]]
       /\ UNCHANGED <<inspection, tasks, made, listed, status, past>>

\* Create once more, unchanged.
Resubmit(p, c) ==
    /\ form[p].kind = "new" /\ form[p].sent # 0
    /\ Sends(p, c, [op |-> "create", at |-> "replay", s |-> form[p].sent, of |-> form[p].of])
    /\ UNCHANGED <<inspection, tasks, made, listed, form, status, shown, past>>

Cancel(p) ==
    /\ form[p] # Closed /\ Free(p)
    /\ form' = [form EXCEPT ![p] = Closed]
    /\ UNCHANGED <<sent, inspection, tasks, made, listed, status, waits, call, shown, past>>

\* Edit follow-up: the snapshot the editor opened is what the write will expect.
Edit(p, t) ==
    /\ form[p] = Closed /\ Free(p)
    /\ form' = [form EXCEPT ![p] = [kind |-> "edit", id |-> t.id, expected |-> Shows(t)]]
    /\ UNCHANGED <<sent, inspection, tasks, made, listed, status, waits, call, shown, past>>

SubmitEdit(p, c, title) ==
    LET f == form[p]
    IN /\ f.kind = "edit"
       /\ ~ \E t \in listed[p] : t.id # f.id /\ t.title = title /\ ~t.done
       /\ Sends(p, c, [op |-> "update", id |-> f.id, expected |-> f.expected, title |-> title])
       /\ UNCHANGED <<inspection, tasks, made, listed, form, status, shown, past>>

\* Complete, Reopen: the target is the opposite of what is shown, decided once.
Toggle(p, c, t) ==
    /\ form[p] = Closed
    /\ Sends(p, c, [op |-> "toggle", at |-> "look", id |-> t.id, done |-> ~t.done])
    /\ status' = [status EXCEPT ![p] = [id |-> t.id, done |-> ~t.done]]
    /\ past' = [past EXCEPT ![t.id].wanted = @ \cup {~t.done}]
    /\ UNCHANGED <<inspection, tasks, made, listed, form, shown>>

\* Retry status change: toggle.variables, never a fresh target.
RetryStatus(p, c) ==
    LET v == status[p]
    IN /\ v # NoChange
       /\ Sends(p, c, [op |-> "toggle", at |-> "look", id |-> v.id, done |-> v.done])
       /\ UNCHANGED <<inspection, tasks, made, listed, form, status, shown, past>>

\* Delete, in the calendar.
Remove(p, c, t) ==
    /\ Sends(p, c, [op |-> "remove", at |-> "look", id |-> t.id])
    /\ UNCHANGED <<inspection, tasks, made, listed, form, status, shown, past>>

\* Save a named version with the follow-ups of the list.
Capture(p, c) ==
    /\ listed[p] # {}
    /\ Sends(p, c, [op |-> "save", at |-> "look", sent |-> listed[p]])
    /\ UNCHANGED <<inspection, tasks, made, listed, form, status, shown, past>>

\* The answer is lost, or the request never arrives; the server may go on with it.
LoseAnswer(p) ==
    /\ ~Free(p) /\ waits' = [waits EXCEPT ![p] = NoCall]
    /\ UNCHANGED <<sent, inspection, tasks, made, listed, form, status, call, shown, past>>

-----------------------------------------------------------------------------
(* The server *)

\* A request ends: a screen that waits for it has its answer, and on success
\* closes the form it came from and forgets the change it might repeat.
Ends(c, ok) ==
    LET for == {p \in Person : waits[p] = c}
    IN /\ call' = [call EXCEPT ![c] = Idle]
       /\ waits' = [p \in Person |-> IF p \in for THEN NoCall ELSE waits[p]]
       /\ form' = [p \in Person |->
                     IF p \in for /\ ok /\ call[c].op \in {"create", "update"} THEN Closed ELSE form[p]]
       /\ status' = [p \in Person |->
                     IF p \in for /\ ok /\ call[c].op = "toggle" THEN NoChange ELSE status[p]]

GoesOn(c, at) ==
    /\ call' = [call EXCEPT ![c].at = at] /\ UNCHANGED <<form, status, waits>>

\* A refusal (a member who has left, an account without the right), or the process ends.
Fail(c) ==
    /\ call[c] # Idle /\ Ends(c, FALSE)
    /\ UNCHANGED <<sent, inspection, tasks, made, listed, shown, past>>

\* create: a submission that was carried out before is answered with its task,
\* before anything that may have changed since is looked at.
Replay(c) ==
    /\ call[c].op = "create" /\ call[c].at \in {"replay", "winner"}
    /\ IF Of(call[c].s) # {} THEN Ends(c, TRUE)
       ELSE IF call[c].at = "winner" THEN Ends(c, FALSE) ELSE GoesOn(c, "source")
    /\ UNCHANGED <<sent, inspection, tasks, made, listed, shown, past>>

\* As if the observation were copied from whatever is saved.
AnyVersion(of) == TRUE

\* The observation must still be of the version the person reviewed.
StillSaved(of) == inspection = of

CheckSource(c) ==
    /\ call[c].op = "create" /\ call[c].at = "source"
    /\ IF StillSaved(call[c].of)
       THEN /\ call' = [call EXCEPT ![c] = [op |-> "create", at |-> "insert", s |-> call[c].s, of |-> inspection]]
            /\ UNCHANGED <<form, status, waits>>
       ELSE Ends(c, FALSE)
    /\ UNCHANGED <<sent, inspection, tasks, made, listed, shown, past>>

\* As if a submission had no unique key.
NoKey(s) == FALSE

\* The insert; the unique key of a submission answers with the winner.
Taken(s) == Of(s) # {}

Insert(c) ==
    LET s == call[c].s
    IN /\ call[c].op = "create" /\ call[c].at = "insert" /\ made < MaxTask
       /\ IF Taken(s)
          THEN GoesOn(c, "winner") /\ UNCHANGED <<tasks, made, past>>
          ELSE /\ Ends(c, TRUE)
               /\ tasks' = tasks \cup {Row(s, call[c].of)} /\ made' = made + 1
               /\ past' = [i \in 1..made' |->
                             IF i = made' THEN [from |-> s, wanted |-> {}, written |-> FALSE] ELSE past[i]]
       /\ UNCHANGED <<sent, inspection, listed, shown>>

\* update: one conditional write of what the editor opened.
Expected(t, c) == Shows(t) = call[c].expected

Update(c) ==
    /\ call[c].op = "update"
    /\ \/ \E t \in With(call[c].id) :
            /\ Expected(t, c)
            /\ tasks' = (tasks \ {t}) \cup {[t EXCEPT !.title = call[c].title]}
            /\ Ends(c, TRUE)
       \/ /\ \A t \in With(call[c].id) : ~Expected(t, c)
          /\ Ends(c, FALSE) /\ UNCHANGED tasks
    /\ UNCHANGED <<sent, inspection, made, listed, shown, past>>

\* toggle and remove look for the task first.
Look(c) ==
    /\ call[c].op \in {"toggle", "remove"} /\ call[c].at = "look"
    /\ IF With(call[c].id) = {} THEN Ends(c, FALSE) ELSE GoesOn(c, "write")
    /\ UNCHANGED <<sent, inspection, tasks, made, listed, shown, past>>

\* As a bare id is taken, from older clients: the opposite of what is there.
Opposite(t, c) == ~t.done

\* toggle: the status that was asked for.
Target(t, c) == call[c].done

WriteStatus(c) ==
    /\ call[c].op = "toggle" /\ call[c].at = "write"
    /\ \/ \E t \in With(call[c].id) :
            /\ tasks' = (tasks \ {t}) \cup {[t EXCEPT !.done = Target(t, c)]}
            /\ past' = [past EXCEPT ![t.id].written = TRUE]
            /\ Ends(c, TRUE)
       \/ With(call[c].id) = {} /\ Ends(c, FALSE) /\ UNCHANGED <<tasks, past>>
    /\ UNCHANGED <<sent, inspection, made, listed, shown>>

Delete(c) ==
    /\ call[c].op = "remove" /\ call[c].at = "write"
    /\ tasks' = tasks \ With(call[c].id)
    /\ Ends(c, With(call[c].id) # {})
    /\ UNCHANGED <<sent, inspection, made, listed, shown, past>>

\* As if it were enough that a follow-up still exists.
StillThere(c) == \A t \in call[c].sent : With(t.id) # {}

\* save: every follow-up sent must be as it was shown (fieldTaskVersion).
AsShown(c) == call[c].sent \subseteq tasks

CheckFollowUps(c) ==
    /\ call[c].op = "save" /\ call[c].at = "look"
    /\ IF AsShown(c)
       THEN /\ call' = [call EXCEPT ![c] = [op |-> "save", at |-> "write", sent |-> @.sent,
                                           read |-> UNION {With(t.id) : t \in @.sent}]]
            /\ UNCHANGED <<form, status, waits>>
       ELSE Ends(c, FALSE)
    /\ UNCHANGED <<sent, inspection, tasks, made, listed, shown, past>>

\* The version is written with them (AppraisalVersions).
SaveVersion(c) ==
    /\ call[c].op = "save" /\ call[c].at = "write" /\ Ends(c, TRUE)
    /\ UNCHANGED <<sent, inspection, tasks, made, listed, shown, past>>

-----------------------------------------------------------------------------
Acts(p) ==
    \/ Refetch(p) \/ Cancel(p) \/ LoseAnswer(p)
    \/ \E of \in 1..inspection : Draft(p, of)
    \/ \E t \in listed[p] : Edit(p, t)
    \/ \E c \in Call :
        \/ Submit(p, c) \/ Resubmit(p, c) \/ RetryStatus(p, c) \/ Capture(p, c)
        \/ \E title \in Title : SubmitEdit(p, c, title)
        \/ \E t \in listed[p] : Toggle(p, c, t) \/ Remove(p, c, t)

Serves(c) ==
    \/ Fail(c) \/ Replay(c) \/ CheckSource(c) \/ Insert(c) \/ Update(c)
    \/ Look(c) \/ WriteStatus(c) \/ Delete(c) \/ CheckFollowUps(c) \/ SaveVersion(c)

Next == SaveInspection \/ (\E p \in Person : Acts(p)) \/ (\E c \in Call : Serves(c))
Spec == Init /\ [][Next]_vars
-----------------------------------------------------------------------------
(* Properties *)

\* However often a submission is sent, and however late one of its requests is
\* carried out, it has one task.
OneTaskEach == \A s \in Submission : Cardinality(Of(s)) <= 1

\* The observation a task holds is of the version its author reviewed.
EvidenceWasReviewed == \A t \in tasks : t.evidence = shown[t.from]

\* A task is complete, or open again, only if somebody asked for just that.
StatusWasAsked == \A t \in tasks :
    IF t.done THEN TRUE \in past[t.id].wanted ELSE past[t.id].written => FALSE \in past[t.id].wanted

\* A version captures the follow-ups as they stood on the screen of whoever saved it.
CapturesWhatWasSeen == \A c \in Call : call[c].op = "save" /\ call[c].at = "write" => call[c].read = call[c].sent

FollowUpsSound == OneTaskEach /\ EvidenceWasReviewed /\ StatusWasAsked /\ CapturesWhatWasSeen

TaskRow == [id : 1..made, from : Submission, title : Title, done : BOOLEAN, evidence : Nat]
View == [title : Title, done : BOOLEAN]
Form == {Closed} \cup [kind : {"new"}, of : Nat, sent : {0} \cup Submission]
    \cup [kind : {"edit"}, id : 1..made, expected : View]
Request == {Idle}
    \cup [op : {"create"}, at : {"replay", "source", "insert", "winner"}, s : Submission, of : Nat]
    \cup [op : {"update"}, id : 1..made, expected : View, title : Title]
    \cup [op : {"toggle"}, at : {"look", "write"}, id : 1..made, done : BOOLEAN]
    \cup [op : {"remove"}, at : {"look", "write"}, id : 1..made]
    \cup [op : {"save"}, at : {"look"}, sent : SUBSET TaskRow]
    \cup [op : {"save"}, at : {"write"}, sent : SUBSET TaskRow, read : SUBSET TaskRow]
TypeOK ==
    /\ inspection \in Nat /\ made \in Nat /\ tasks \subseteq TaskRow
    /\ Cardinality(Submission) \in Nat /\ shown \in [1..Cardinality(Submission) -> Nat]
    /\ past \in [1..made -> [from : Submission, wanted : SUBSET BOOLEAN, written : BOOLEAN]]
    /\ listed \in [Person -> SUBSET TaskRow] /\ form \in [Person -> Form]
    /\ status \in [Person -> {NoChange} \cup [id : 1..made, done : BOOLEAN]]
    /\ call \in [Call -> Request]

\* A task is told by its identifier, and by the submission it came from.
NamesTell == \A t, u \in tasks : t.id = u.id \/ t.from = u.from => t = u

\* What screens and requests hold is what was sent and asked before.
Asked(v) == v.done \in past[v.id].wanted
FormHolds(f) == f.kind = "new" /\ f.sent # 0 => f.of = shown[f.sent]
CallHolds(k) ==
    /\ k.op = "create" => k.of = shown[k.s]
    /\ k.op = "toggle" => Asked(k)
    /\ k.op = "save" /\ k.at = "write" => k.read = k.sent
ScreensHold == \A p \in Person : FormHolds(form[p]) /\ (status[p] # NoChange => Asked(status[p]))
CallsHold == \A c \in Call : CallHolds(call[c])

IInv == TypeOK /\ NamesTell /\ ScreensHold /\ CallsHold /\ EvidenceWasReviewed /\ StatusWasAsked

-----------------------------------------------------------------------------
(* Refuted *)

\* Refuted: a submission sent again is answered with its original task
\* (FieldFollowups.tsx:91).  It is made anew when the task was removed meanwhile.
AnsweredWithOriginal == \A i, j \in DOMAIN past : past[i].from = past[j].from => i = j

\* Refuted: the snapshot an editor would replace is a task (the editor is open on a removed one).
EditorsAreOfTasks == \A p \in Person : form[p].kind = "edit" => With(form[p].id) # {}

=============================================================================
