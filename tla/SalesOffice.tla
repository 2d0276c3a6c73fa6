----------------------------- MODULE SalesOffice -----------------------------
(***************************************************************************)
(* A record of the sales office, a plot for sale or a flat to let, in the   *)
(* drawer of several agents (routers/sales.ts, SalesCrm.tsx).               *)
(*                                                                         *)
(* The drawer fills its form from the list, which is fetched again after    *)
(* every write, and stamps what it saves with the answer to its own last    *)
(* write.  Saves are checked against the stamp; advances are not.  Names,   *)
(* parties, the stalled flag and the like move as the agreed value does.    *)
(* deleteUnit is in Payments.                                              *)
(***************************************************************************)
EXTENDS Naturals, FiniteSets

CONSTANTS
    Agent,      \* people with the drawer open
    NoRecord,   \* where there is none
    Chosen,     \* the statuses chosen in the form
    MaxSent     \* bound on requests sent

VARIABLES
    kind,       \* "plot" or "let"
    row,        \* the stored record with its milestones, or NoRecord
    stamp,      \* updatedAt, counted in writes
    list,       \* the record as each screen last fetched it
    held,       \* heldStamp of each drawer, 0 when there is none
    call,       \* what each drawer has under way: a save, an advance, a removal
    sent        \* requests sent so far

vars == <<kind, row, stamp, list, held, call, sent>>

Sort == {"save", "advance", "remove"}
Rest == [at |-> "rest"]

\* What the figures may be: nothing agreed is 0.
Appraised == 10
Agreed == {20}
Arrears == {1}

-----------------------------------------------------------------------------
(* Statuses and deposits *)

Last == IF kind = "plot" THEN 7 ELSE 5

\* SALES_DEFS and LET_DEFS: the progress a status chosen in the form stands for.
Prog == IF kind = "plot"
    THEN [AVAILABLE |-> 0, RESERVED |-> 1, EXCHANGED |-> 5, COMPLETED |-> 6, HANDOVER |-> 7]
    ELSE [AVAILABLE |-> 0, APPLICATION |-> 2, REFERENCING |-> 3, SIGNED |-> 4, OCCUPIED |-> 5]

\* salesStatusForProg and tenancyStatusForProg: the last status reached.
Reached(prog, progress) == CHOOSE s \in DOMAIN prog :
    /\ prog[s] <= progress
    /\ \A t \in DOMAIN prog : prog[t] <= progress => prog[t] <= prog[s]
StatusForProg(progress) == Reached(Prog, progress)

\* depositsHeldAt: a fee at milestone 1 and a tenth of the basis at 5.
Fee == 1
Basis(agreed) == IF agreed = 0 THEN Appraised ELSE agreed
DepositsHeldAt(progress, agreed) ==
    (IF progress >= 1 THEN Fee ELSE 0) + (IF progress >= 5 THEN Basis(agreed) ELSE 0)

Larger(a, b) == IF a > b THEN a ELSE b
Smaller(a, b) == IF a < b THEN a ELSE b

-----------------------------------------------------------------------------
(* The drawer *)

Init ==
    /\ kind \in {"plot", "let"}
    /\ row = NoRecord /\ stamp = 0 /\ sent = 0
    /\ list = [a \in Agent |-> NoRecord]
    /\ held = [a \in Agent |-> 0]
    /\ call = [a \in Agent |-> [r \in Sort |-> Rest]]

\* The record is added, milestones before the progress done: the create of upsertUnit and upsertTenancy.
Create(a, status) ==
    /\ row = NoRecord /\ stamp = 0
    /\ stamp' = 1 /\ held' = [held EXCEPT ![a] = 1]
    /\ row' = [stamp |-> 1, progress |-> Prog[status], agreed |-> 0, arrears |-> 0,
               taken |-> Prog[status] > 0,
               done |-> IF kind = "plot" THEN Prog[status] ELSE 0, dated |-> {},
               deposit |-> IF kind = "plot" THEN DepositsHeldAt(Prog[status], 0) ELSE 0]
    /\ UNCHANGED <<kind, list, call, sent>>

\* The record as the list has it, as far as the form is filled from it.
Shown(r) == IF r = NoRecord THEN NoRecord
    ELSE [stamp |-> r.stamp, progress |-> r.progress, agreed |-> r.agreed, arrears |-> r.arrears]

\* The list arrives.  A record that is gone closes its drawer.
Fetch(a) ==
    /\ list[a] # Shown(row) /\ list' = [list EXCEPT ![a] = Shown(row)]
    /\ UNCHANGED <<kind, row, stamp, held, call, sent>>

\* openRow
Open(a) ==
    /\ list[a] # NoRecord /\ held[a] # list[a].stamp
    /\ held' = [held EXCEPT ![a] = list[a].stamp]
    /\ UNCHANGED <<kind, row, stamp, list, call, sent>>

\* As if the form did not load the arrears.
Blank(shown) == [shown EXCEPT !.arrears = 0]

\* What the form is filled with: the record as the list shows it.
Filled(shown) == shown

Send(a, r, c) ==
    /\ call[a][r] = Rest /\ sent < MaxSent
    /\ sent' = sent + 1 /\ call' = [call EXCEPT ![a][r] = c]
    /\ UNCHANGED <<kind, row, stamp, list, held>>

\* openEdit, one thing typed in the form, and saveDraft: field says what is typed.
saveDraft(a, field, value) ==
    /\ list[a] # NoRecord /\ held[a] # 0
    /\ LET f == Filled(list[a]) IN
       Send(a, "save", [at |-> "sent", stamp |-> held[a], form |-> [
           shown |-> list[a].stamp, typed |-> field,
           status |-> IF field = "status" THEN value ELSE StatusForProg(f.progress),
           agreed |-> IF field = "agreed" THEN value ELSE f.agreed,
           arrears |-> IF field = "arrears" THEN value ELSE f.arrears]])

Saves(a) ==
    \/ saveDraft(a, "name", 0)
    \/ \E s \in Chosen \cap DOMAIN Prog : saveDraft(a, "status", s)
    \/ \E v \in Agreed : saveDraft(a, "agreed", v)
    \/ kind = "let" /\ \E v \in Arrears : saveDraft(a, "arrears", v)

\* The two buttons beside Edit.
advanceSel(a) ==
    /\ list[a] # NoRecord /\ list[a].progress < Last
    /\ Send(a, "advance", [at |-> "sent"])

removeSel(a) == list[a] # NoRecord /\ kind = "let" /\ Send(a, "remove", [at |-> "sent"])

-----------------------------------------------------------------------------
(* The server *)

Moves(a, r, c) == call' = [call EXCEPT ![a][r] = c]
Ends(a, r) == Moves(a, r, Rest)

\* The record a request finds; one that is gone, or a write that no longer finds it, ends the request.
Finds(a, r, c) ==
    /\ call[a][r].at = "sent"
    /\ IF row = NoRecord THEN Ends(a, r) ELSE Moves(a, r, c)
    /\ UNCHANGED <<kind, row, stamp, list, held, sent>>

Gone(a, r, at) ==
    /\ call[a][r].at = at /\ row = NoRecord /\ Ends(a, r)
    /\ UNCHANGED <<kind, row, stamp, list, held, sent>>

Store(a, r, new) ==
    /\ stamp' = stamp + 1 /\ row' = [new EXCEPT !.stamp = stamp + 1]
    /\ Moves(a, r, [at |-> "answered", stamp |-> stamp + 1])
    /\ UNCHANGED <<kind, list, held, sent>>

\* As if the stamp were not looked at.
Unchecked(current, expected) == TRUE

\* assertUnchanged
Unchanged(current, expected) == current = expected

\* upsertUnit and upsertTenancy read the record and compare its stamp; a refusal keeps the form.
CheckSave(a) ==
    LET c == call[a]["save"] IN
    Finds(a, "save", IF row # NoRecord /\ Unchanged(row.stamp, c.stamp)
                     THEN [at |-> "read", form |-> c.form, stamp |-> c.stamp, found |-> row.stamp, taken |-> row.taken]
                     ELSE Rest)

\* As if the save took the deposit for the status it sends.
Redeposited(r, c) == [r EXCEPT
    !.progress = Prog[c.form.status], !.agreed = c.form.agreed, !.arrears = c.form.arrears,
    !.deposit = DepositsHeldAt(Prog[c.form.status], c.form.agreed)]

\* What a save writes into r: a plot keeps the reservation date it was read with, the milestones and the deposit.
Saved(r, c) == [r EXCEPT
    !.progress = Prog[c.form.status], !.agreed = c.form.agreed, !.arrears = c.form.arrears,
    !.taken = Prog[c.form.status] > 0 \/ (kind = "plot" /\ c.taken)]

WriteSave(a) ==
    /\ call[a]["save"].at = "read" /\ row # NoRecord
    /\ Store(a, "save", Saved(row, call[a]["save"]))

\* advanceMilestone and advanceTenancy read the record.
ReadAdvance(a) == Finds(a, "advance", [at |-> IF kind = "plot" THEN "mark" ELSE "write", read |-> row])

Onward(read) == Smaller(Last, read.progress + 1)

\* As if the milestones were done that were passed before.
DoneBefore(read) == read.progress

\* The milestones done: those before the new one.  Then the one left is dated.
Done(read) == Onward(read)

Mark(a) ==
    LET c == call[a]["advance"] IN
    /\ c.at = "mark"
    /\ row' = [row EXCEPT !.done = Larger(@, Done(c.read))]
    /\ Moves(a, "advance", [c EXCEPT !.at = "date"])
    /\ UNCHANGED <<kind, stamp, list, held, sent>>

Date(a) ==
    LET c == call[a]["advance"] IN
    /\ c.at = "date"
    /\ row' = [row EXCEPT !.dated = @ \cup {c.read.progress}]
    /\ Moves(a, "advance", [c EXCEPT !.at = "write"])
    /\ UNCHANGED <<kind, stamp, list, held, sent>>

WriteAdvance(a) ==
    LET c == call[a]["advance"] IN
    /\ c.at = "write" /\ row # NoRecord
    /\ Store(a, "advance", [row EXCEPT
           !.progress = Onward(c.read), !.agreed = Basis(c.read.agreed), !.taken = TRUE,
           !.deposit = IF kind = "plot" THEN DepositsHeldAt(Onward(c.read), c.read.agreed) ELSE @])

\* deleteTenancy: refused while arrears are recorded, else deleted by id.
ReadRemove(a) == Finds(a, "remove", IF row # NoRecord /\ row.arrears = 0 THEN [at |-> "read"] ELSE Rest)

Remove(a) ==
    /\ call[a]["remove"].at = "read" /\ row # NoRecord
    /\ row' = NoRecord /\ Ends(a, "remove")
    /\ UNCHANGED <<kind, stamp, list, held, sent>>

\* The answer moves the stamp of the drawer and, to a save, closes the form; the list comes later (Fetch).
Answer(a, r) ==
    /\ call[a][r].at = "answered" /\ Ends(a, r)
    /\ held' = [held EXCEPT ![a] = call[a][r].stamp]
    /\ UNCHANGED <<kind, row, stamp, list, sent>>

\* The server dies, or the answer is lost: the request has failed as far as the drawer knows.
Die(a, r) ==
    /\ call[a][r] # Rest /\ Ends(a, r)
    /\ UNCHANGED <<kind, row, stamp, list, held, sent>>

Next == \E a \in Agent :
    \/ \E s \in Chosen \cap DOMAIN Prog : Create(a, s)
    \/ Fetch(a) \/ Open(a) \/ Saves(a) \/ advanceSel(a) \/ removeSel(a)
    \/ CheckSave(a) \/ WriteSave(a) \/ Gone(a, "save", "read")
    \/ ReadAdvance(a) \/ Mark(a) \/ Date(a) \/ WriteAdvance(a)
    \/ ReadRemove(a) \/ Remove(a) \/ Gone(a, "advance", "write") \/ Gone(a, "remove", "read")
    \/ \E r \in Sort : Answer(a, r) \/ Die(a, r)

Spec == Init /\ [][Next]_vars

-----------------------------------------------------------------------------
(* Properties *)

\* A save that is let through, of a form as new as its stamp, keeps what was not typed, unless somebody
\* writes between the check and the save: a name corrected forgives no arrears and moves no deposit.
FormKeepsTheRest == \A a \in Agent : LET c == call[a]["save"] IN
    c.at = "read" /\ row # NoRecord =>
        (row.stamp = c.found /\ c.form.shown = c.stamp =>
            LET new == Saved(row, c) IN
            /\ c.form.typed # "agreed" => new.agreed = row.agreed
            /\ c.form.typed # "arrears" => new.arrears = row.arrears
            /\ c.form.typed # "status" => StatusForProg(new.progress) = StatusForProg(row.progress)
            /\ new.deposit = row.deposit)

\* No deposit is recorded before the milestone it falls due at is done, whoever advances or saves at once
\* and wherever an advance dies.
NothingHeldEarly == row # NoRecord /\ kind = "plot" =>
    (row.deposit > 0 => row.done >= 1) /\ (row.deposit > Fee => row.done >= 5)

\* A milestone with a date is done, but for the last, which is never done.
DatedIsDone == row # NoRecord => \A m \in row.dated : m < row.done \/ m = Last

SalesSound == FormKeepsTheRest /\ NothingHeldEarly /\ DatedIsDone

-----------------------------------------------------------------------------
(* The inductive invariant. *)

\* There is a record: nothing removes a plot here.
Stored == row # NoRecord \/ (kind = "plot" /\ stamp > 0)

Row == [stamp : Nat \ {0}, progress : Nat, agreed : Nat, arrears : Nat, taken : BOOLEAN,
        done : Nat, dated : SUBSET Nat, deposit : Nat]
ShownRow == [stamp : Nat \ {0}, progress : Nat, agreed : Nat, arrears : Nat]
Form == [shown : Nat \ {0}, typed : {"name", "status", "agreed", "arrears"}, status : DOMAIN Prog,
         agreed : Nat, arrears : Nat]

TypeOK ==
    /\ kind \in {"plot", "let"} /\ stamp \in Nat
    /\ call = [a \in Agent |-> [r \in Sort |-> call[a][r]]]
    /\ DOMAIN list = Agent

\* The stored record bears the last stamp, and holds nothing early.
RowHolds == Stored =>
    /\ row \in Row /\ row.stamp = stamp /\ row.progress <= Last
    /\ kind = "plot" => (row.deposit > 0 => row.done >= 1) /\ (row.deposit > Fee => row.done >= 5)
    /\ \A m \in row.dated : m < row.done \/ m = Last

\* A list with the stamp of the record has the record,
ListsHold == \A a \in Agent : list[a] # NoRecord =>
    /\ list[a] \in ShownRow /\ list[a].stamp <= stamp /\ list[a].progress <= Last
    /\ Stored /\ list[a].stamp = row.stamp =>
         list[a].progress = row.progress /\ list[a].agreed = row.agreed /\ list[a].arrears = row.arrears

\* and a form filled from it all but what was typed.
Tells(f) ==
    /\ f.typed # "agreed" => f.agreed = row.agreed
    /\ f.typed # "arrears" => f.arrears = row.arrears
    /\ f.typed # "status" => f.status = StatusForProg(row.progress)

SaveFits(c) == c.at \in {"sent", "read"} =>
    /\ c.form \in Form /\ c.form.shown <= stamp
    /\ Stored /\ c.form.shown = row.stamp => Tells(c.form)
    /\ c.at = "read" => c.found = c.stamp

\* The milestones are done before the advance that passes them writes; only a tenancy is removed.
AdvanceFits(c) == c.at \in {"mark", "date", "write"} =>
    /\ c = [at |-> c.at, read |-> c.read]
    /\ c.read \in Row /\ c.read.stamp <= stamp /\ c.read.progress <= Last
    /\ c.at # "write" => kind = "plot"
    /\ kind = "plot" /\ c.at # "mark" => row.done >= Onward(c.read)

Fits(r, c) ==
    /\ r = "save" => SaveFits(c)
    /\ r = "advance" => AdvanceFits(c)
    /\ r = "remove" /\ kind = "plot" => c.at = "rest"

CallsHold == \A a \in Agent, r \in Sort : Fits(r, call[a][r])

IInv == TypeOK /\ RowHolds /\ ListsHold /\ CallsHold

-----------------------------------------------------------------------------
(* Refuted *)

\* Refuted: the server refuses a save "built on a copy somebody else has already changed" (SalesCrm.tsx:98).
\* The stamp is of the drawer's last answer and the form of the list: Edit pressed after an advance, before
\* the list is fetched again, takes the advance back, or what a colleague wrote before it.
FormIsAsStamped == \A a \in Agent : LET c == call[a]["save"] IN c.at = "read" => c.form.shown = c.stamp

\* Refuted: the form keeps the milestone.  It sends the first of the status, so that correcting the buyer
\* of a plot at milestone 3 takes it back to 1.
StageKept == \A a \in Agent : LET c == call[a]["save"] IN
    c.at = "read" /\ row # NoRecord /\ c.form.shown = c.stamp /\ row.stamp = c.stamp /\ c.form.typed # "status"
        => Saved(row, c).progress = row.progress

\* Refuted: a tenancy with arrears is not deleted ("writes off the record of it", sales.ts:413).  They are
\* saved between the read and the delete.
NoDebtDeleted == \A a \in Agent : call[a]["remove"].at = "read" /\ row # NoRecord => row.arrears = 0

\* Refuted: an advance leaves an agreed value alone.  It writes the one it read.
AgreedStands == \A a \in Agent : LET c == call[a]["advance"] IN
    c.at = "write" /\ row # NoRecord => row.agreed = 0 \/ Basis(c.read.agreed) = row.agreed

\* Refuted: a reservation is dated once.  A save that read the plot before it was reserved takes the date away.
ReservationStands == \A a \in Agent : LET c == call[a]["save"] IN
    c.at = "read" /\ row # NoRecord /\ kind = "plot" => (row.taken => Saved(row, c).taken)
=============================================================================
