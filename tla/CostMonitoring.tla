--------------------------- MODULE CostMonitoring ---------------------------
(***************************************************************************)
(* The cost record of one deal (costRouter and photosRouter of             *)
(* routers/ops.ts, syncXero of xero.ts): packages, the contractors they    *)
(* are let to, timesheets, site photos, and the figures Xero brings in.    *)
(*                                                                         *)
(* No procedure here runs in a transaction and no row carries a stamp: each *)
(* reads, decides and writes by id, and any other request may run between. *)
(***************************************************************************)
EXTENDS Integers, FiniteSets

CONSTANTS
    Client,      \* requests in flight
    Package,     \* ids of package rows
    Contractor,  \* ids of contractor rows
    Nobody,      \* the null of a contractor id
    MaxBills,    \* bound on what suppliers ever invoiced
    MaxWeeks     \* bound on timesheet weeks logged

VARIABLES
    pkg,         \* package rows
    firm,        \* contractor rows
    photo,       \* the contractors the photos of the deal name, row by row
    ledger,      \* committed spend of the scheme in Xero
    linked,      \* whether Xero is connected, with a category, and mapped to the deal
    call,        \* the locals of each request
    entered,     \* committed of each package as last typed, or last read from the ledger
    overlapped,  \* two requests have been under way at once; until then:
    logged,      \* weeks people were told were logged
    dropped      \* packages with money on them whose contractor was deleted

vars == <<pkg, firm, photo, ledger, linked, call, entered, logged, dropped, overlapped>>

NoRow == [made |-> "none", budget |-> 0, committed |-> 0, by |-> Nobody]
NoFirm == [on |-> "none", weeks |-> 0]
Idle == [op |-> "none", pkg |-> CHOOSE p \in Package : TRUE, by |-> Nobody, seen |-> 0, patch |-> {}]

Init ==
    /\ pkg = [p \in Package |-> NoRow]
    /\ firm = [k \in Contractor |-> NoFirm]
    /\ photo = Nobody
    /\ ledger = 0 /\ linked = FALSE
    /\ call = [c \in Client |-> Idle]
    /\ entered = [p \in Package |-> 0]
    /\ logged = [k \in Contractor |-> 0]
    /\ dropped = {} /\ overlapped = FALSE

Held == {p \in Package : pkg[p].made # "none"}
Fresh == Package \ Held
OnRegister == {k \in Contractor : firm[k].on = "yes"}
Called(op) == [Idle EXCEPT !.op = op]

\* A request that has read what it goes by, and has yet to write.
Begin(c, locals) ==
    /\ call[c] = Idle
    /\ call' = [call EXCEPT ![c] = locals]
    /\ overlapped' = (overlapped \/ \E d \in Client : call[d] # Idle)
End(c) == call' = [call EXCEPT ![c] = Idle] /\ UNCHANGED overlapped
rows == <<pkg, firm, photo, entered, logged, dropped>>

-----------------------------------------------------------------------------
(* Packages                                                                 *)

\* createPlanFromAppraisal counts the packages of the deal; the plan is one row here.
CountPackages(c) ==
    /\ Held = {} /\ Begin(c, Called("plan"))
    /\ UNCHANGED <<rows, ledger, linked>>

createPlanFromAppraisal(c) ==
    /\ call[c].op = "plan"
    /\ \E p \in Fresh : pkg' = [pkg EXCEPT ![p] = [made |-> "plan", budget |-> 1, committed |-> 0, by |-> Nobody]]
    /\ End(c) /\ UNCHANGED <<firm, photo, entered, logged, dropped, ledger, linked>>

\* upsertPackage proves the package and the contractor it is given to be the firm's.
OwnsPackage(c) ==
    /\ \E p \in Held, s \in {{"by"}, {"committed"}}, k \in Contractor \cup {Nobody} :
         /\ k \in IF "by" \in s THEN OnRegister \cup {Nobody} ELSE {Nobody}
         /\ Begin(c, [op |-> "upsert", pkg |-> p, by |-> k, seen |-> 0, patch |-> s])
    /\ UNCHANGED <<rows, ledger, linked>>

\* As if the browser sent the whole row it holds.
PatchedWhole(row, k, s) == [row EXCEPT !.by = k, !.committed = IF "committed" \in s THEN 1 ELSE 0]

\* The update writes the fields it was sent; a contractor deleted since fails its foreign key.
Patched(row, k, s) ==
    [row EXCEPT !.by = IF "by" \in s THEN k ELSE @, !.committed = IF "committed" \in s THEN 1 ELSE @]

upsertPackage(c) ==
    LET p == call[c].pkg  k == call[c].by  s == call[c].patch IN
    /\ call[c].op = "upsert"
    /\ IF k \notin OnRegister \cup {Nobody} THEN UNCHANGED <<pkg, entered>>
       ELSE /\ pkg' = [pkg EXCEPT ![p] = Patched(@, k, s)]
            /\ entered' = [entered EXCEPT ![p] = IF "committed" \in s THEN 1 ELSE @]
    /\ End(c) /\ UNCHANGED <<firm, photo, logged, dropped, ledger, linked>>

-----------------------------------------------------------------------------
(* Contractors, timesheets and photos                                       *)

createContractor(k) ==
    /\ firm[k].on = "none" /\ firm' = [firm EXCEPT ![k].on = "yes"]
    /\ UNCHANGED <<pkg, photo, entered, logged, dropped, ledger, linked, call, overlapped>>

\* logTimesheetWeek appends to the list it read.
ReadWeeks(c) ==
    /\ \E k \in OnRegister :
         /\ firm[k].weeks < MaxWeeks
         /\ Begin(c, [Called("week") EXCEPT !.by = k, !.seen = firm[k].weeks])
    /\ UNCHANGED <<rows, ledger, linked>>

logTimesheetWeek(c) ==
    LET k == call[c].by IN
    /\ call[c].op = "week"
    /\ IF k \in OnRegister THEN /\ firm' = [firm EXCEPT ![k].weeks = call[c].seen + 1]
                          /\ logged' = [logged EXCEPT ![k] = IF overlapped THEN @ ELSE @ + 1]
       ELSE UNCHANGED <<firm, logged>>
    /\ End(c) /\ UNCHANGED <<pkg, photo, entered, dropped, ledger, linked>>

\* As if a deletion looked at nothing.
LiveUnseen(k) == {p \in Held : pkg[p].by = k /\ pkg[p].committed > MaxBills}

\* deleteContractor: refused while a package of theirs holds money,
Live(k) == {p \in Held : pkg[p].by = k /\ pkg[p].committed > 0}

MayRemove(c) ==
    /\ \E k \in OnRegister :
         /\ Live(k) = {}
         /\ Begin(c, [Called("remove") EXCEPT !.by = k])
    /\ UNCHANGED <<rows, ledger, linked>>

\* then the packages and the photos are detached,
Without(k) == [p \in Package |-> IF pkg[p].by = k THEN [pkg[p] EXCEPT !.by = Nobody] ELSE pkg[p]]

DetachPackages(c) ==
    LET k == call[c].by IN
    /\ call[c].op = "remove"
    /\ pkg' = Without(k) /\ dropped' = dropped \cup (IF overlapped THEN {} ELSE Live(k))
    /\ photo' = IF photo = k THEN Nobody ELSE photo
    /\ call' = [call EXCEPT ![c].op = "removing"]
    /\ UNCHANGED <<firm, entered, logged, ledger, linked, overlapped>>

\* and the row goes: what was given to them meanwhile is set null by its foreign key.
deleteContractor(c) ==
    LET k == call[c].by IN
    /\ call[c].op = "removing"
    /\ firm' = [firm EXCEPT ![k].on = "gone"]
    /\ pkg' = Without(k) /\ dropped' = dropped \cup (IF overlapped THEN {} ELSE Live(k))
    /\ photo' = IF photo = k THEN Nobody ELSE photo
    /\ End(c) /\ UNCHANGED <<entered, logged, ledger, linked>>

addPhoto(k) ==
    /\ k \in OnRegister /\ photo' = k
    /\ UNCHANGED <<pkg, firm, entered, logged, dropped, ledger, linked, call, overlapped>>

removePhoto ==
    /\ photo # Nobody /\ photo' = Nobody
    /\ UNCHANGED <<pkg, firm, entered, logged, dropped, ledger, linked, call, overlapped>>

-----------------------------------------------------------------------------
(* Xero                                                                     *)

\* A supplier's bill is approved in Xero.
Invoice ==
    /\ ledger < MaxBills /\ ledger' = ledger + 1
    /\ UNCHANGED <<rows, linked, call, overlapped>>

\* connect, setCategory and mapDeal; disconnect drops the map and the connection.
Link(on) ==
    /\ linked # on /\ linked' = on
    /\ UNCHANGED <<rows, ledger, call, overlapped>>

FetchBills(c) ==
    /\ linked /\ ledger > 0
    /\ Begin(c, [Called("sync") EXCEPT !.seen = ledger])
    /\ UNCHANGED <<rows, ledger, linked>>

\* The package of the option is looked up by its name,
FromXero == {p \in Held : pkg[p].made = "xero"}

FindPackage(c) ==
    /\ call[c].op = "sync"
    /\ call' = [call EXCEPT ![c].op = IF FromXero = {} THEN "import" ELSE "refresh",
                            ![c].pkg = IF FromXero = {} THEN @ ELSE CHOOSE p \in FromXero : TRUE]
    /\ UNCHANGED <<rows, ledger, linked, overlapped>>

\* and created, or given the figures of the ledger and nothing else.
Refreshed(row, n) == [row EXCEPT !.committed = n]

syncXero(c) ==
    LET p == call[c].pkg  n == call[c].seen IN
    /\ \/ /\ call[c].op = "refresh"
          /\ pkg' = [pkg EXCEPT ![p] = Refreshed(@, n)]
          /\ entered' = [entered EXCEPT ![p] = n]
       \/ /\ call[c].op = "import"
          /\ \E q \in Fresh :
               /\ pkg' = [pkg EXCEPT ![q] = [made |-> "xero", budget |-> 0, committed |-> n, by |-> Nobody]]
               /\ entered' = [entered EXCEPT ![q] = n]
    /\ End(c) /\ UNCHANGED <<firm, photo, logged, dropped, ledger, linked>>

Next ==
    \/ \E c \in Client :
         \/ CountPackages(c) \/ createPlanFromAppraisal(c) \/ OwnsPackage(c) \/ upsertPackage(c)
         \/ ReadWeeks(c) \/ logTimesheetWeek(c) \/ MayRemove(c) \/ DetachPackages(c) \/ deleteContractor(c)
         \/ FetchBills(c) \/ FindPackage(c) \/ syncXero(c)
    \/ \E k \in Contractor : createContractor(k) \/ addPhoto(k)
    \/ \E on \in BOOLEAN : Link(on)
    \/ removePhoto \/ Invoice

Spec == Init /\ [][Next]_vars

-----------------------------------------------------------------------------
(* Properties                                                               *)

\* One cost plan, and one package for what Xero brings in.
OnePlan == /\ Cardinality({p \in Held : pkg[p].made = "plan"}) <= 1
           /\ Cardinality(FromXero) <= 1

\* No package with money on it loses its contractor, and no logged week is gone.
RecordStands == dropped = {} /\ \A k \in Contractor : firm[k].weeks = logged[k]

\* Figures are those somebody entered or the ledger gave, whatever else was saved meanwhile,
\* nothing is let to a contractor who is gone, and requests that never overlap keep the whole
\* record: one plan, one imported package, every week, every contract.
CostRecordSound ==
    /\ \A p \in Held : pkg[p].committed = entered[p] /\ pkg[p].by \in OnRegister \cup {Nobody}
    /\ photo \in OnRegister \cup {Nobody}
    /\ ~overlapped => OnePlan /\ RecordStands
-----------------------------------------------------------------------------
(* The inductive invariant.                                                 *)

PackageRow == [made : {"none", "plan", "xero"}, budget : Nat, committed : Nat, by : Contractor \cup {Nobody}]
Op == {"none", "plan", "upsert", "week", "remove", "removing", "sync", "import", "refresh"}
Locals == [op : Op, pkg : Package \cup {Idle.pkg}, by : Contractor \cup {Nobody}, seen : Nat,
           patch : SUBSET {"by", "committed"}]

TypeOK ==
    /\ pkg \in [Package -> PackageRow]
    /\ firm \in [Contractor -> [on : {"none", "yes", "gone"}, weeks : Nat]]
    /\ photo \in Contractor \cup {Nobody}
    /\ ledger \in Nat /\ linked \in BOOLEAN
    /\ call \in [Client -> Locals]
    /\ entered \in [Package -> Nat] /\ logged \in [Contractor -> Nat]
    /\ dropped \subseteq Package /\ overlapped \in BOOLEAN

\* Figures are those entered and contracts those of contractors on the register; a row that is not
\* there yet has neither, and what is updated by its id is there.
FiguresHold ==
    /\ \A p \in Package : pkg[p].committed = entered[p] /\ pkg[p].by \in OnRegister \cup {Nobody}
    /\ \A p \in Fresh : pkg[p].committed = 0
    /\ photo \in OnRegister \cup {Nobody}
    /\ \A c \in Client : /\ call[c].op \in {"upsert", "refresh"} => call[c].pkg \in Held
                         /\ call[c].op \in {"week", "remove", "removing"} => call[c].by \in Contractor

\* Until requests overlap there is one at a time,
OneAtATime == \A c, d \in Client : call[c] # Idle /\ call[d] # Idle => c = d

\* and what it has read is still so when it writes.
ReadsStand == \A c \in Client :
    /\ call[c].op = "plan" => Held = {}
    /\ call[c].op = "import" => FromXero = {}
    /\ call[c].op = "week" => firm[call[c].by].weeks = call[c].seen
    /\ call[c].op \in {"remove", "removing"} => Live(call[c].by) = {}

EachMadeOnce == \A p, q \in Held : pkg[p].made = pkg[q].made => p = q

IInv ==
    /\ TypeOK
    /\ FiguresHold
    /\ ~overlapped => OneAtATime /\ ReadsStand /\ EachMadeOnce /\ RecordStands
=============================================================================
