------------------------------ MODULE ErrorLog ------------------------------
(***************************************************************************)
(* The log of faults: captureError of errors.ts, in several requests at     *)
(* once.  A fault is folded into the row of its workspace that names it, or  *)
(* gets a row, and then the oldest rows go that are too many.  Every call    *)
(* of the database is a step, and any of them may fail: a failure ends the   *)
(* capture and nothing else.  A fault is a path and a message, redacted and  *)
(* with the identifiers folded out of them.                                 *)
(***************************************************************************)
EXTENDS Naturals, FiniteSets

CONSTANTS
    Org,         \* workspaces
    Fault,       \* what can go wrong
    Request,     \* requests that can go wrong at once
    MAX_ROWS,    \* rows kept
    MaxOccurred, \* bound on faults that occur
    MaxFailed    \* bound on captures that fail on the way

VARIABLES
    rows,        \* the log: rows by identifier
    made,        \* rows made so far
    clock,       \* times are counted in writes
    capture,     \* the capture each request has under way
    occurred,    \* how often each fault has occurred in each workspace
    faults,      \* faults so far
    failed       \* captures that failed

vars == <<rows, made, clock, capture, occurred, faults, failed>>

LogRow == [org : Org, fault : Fault, count : Nat, last : Nat]
Capture ==
    [at : {"rest", "count"}] \cup [at : {"find", "create"}, org : Org, fault : Fault] \cup [at : {"fold"}, row : Nat]
    \cup [at : {"oldest"}, take : Nat] \cup [at : {"prune"}, rows : SUBSET Nat]

TypeOK ==
    /\ DOMAIN rows \subseteq 1..made /\ \A i \in DOMAIN rows : rows[i] \in LogRow
    /\ made \in Nat /\ clock \in Nat /\ failed \in Nat
    /\ capture \in [Request -> Capture]

Rest == [at |-> "rest"]
Minus(S) == [i \in DOMAIN rows \ S |-> rows[i]]

Init ==
    /\ rows = << >> /\ made = 0 /\ clock = 0 /\ faults = 0 /\ failed = 0
    /\ capture = [r \in Request |-> Rest]
    /\ occurred = [o \in Org |-> [f \in Fault |-> 0]]

\* A fault of the server or of a screen: trpcCapturePayload, httpCapturePayload, reportClientError.
Occur(r, o, f) ==
    /\ capture[r] = Rest /\ faults < MaxOccurred /\ faults' = faults + 1
    /\ capture' = [capture EXCEPT ![r] = [at |-> "find", org |-> o, fault |-> f]]
    /\ occurred' = [occurred EXCEPT ![o][f] = @ + 1]
    /\ UNCHANGED <<rows, made, clock, failed>>

Moves(r, c) == capture' = [capture EXCEPT ![r] = c]

\* As if one row served every workspace.
SameFault(i, c) == rows[i].fault = c.fault

\* The rows a capture may be folded into.
Folds(i, c) == rows[i].fault = c.fault /\ rows[i].org = c.org

Find(r) ==
    LET c == capture[r]
        same == {i \in DOMAIN rows : Folds(i, c)}
    IN  /\ c.at = "find"
        /\ IF same = {} THEN Moves(r, [c EXCEPT !.at = "create"])
           ELSE \E i \in same : Moves(r, [at |-> "fold", row |-> i])
        /\ UNCHANGED <<rows, made, clock, occurred, faults, failed>>

\* The count of the row goes up; a row that has been pruned since ends the capture.
Fold(r) ==
    LET i == capture[r].row IN
    /\ capture[r].at = "fold" /\ Moves(r, Rest)
    /\ IF i \in DOMAIN rows
       THEN clock' = clock + 1 /\ rows' = [rows EXCEPT ![i].count = @ + 1, ![i].last = clock + 1]
       ELSE UNCHANGED <<rows, clock>>
    /\ UNCHANGED <<made, occurred, faults, failed>>

Create(r) ==
    LET c == capture[r] IN
    /\ c.at = "create" /\ Moves(r, [at |-> "count"])
    /\ made' = made + 1 /\ clock' = clock + 1
    /\ rows' = [i \in DOMAIN rows \cup {made + 1} |-> IF i = made + 1
           THEN [org |-> c.org, fault |-> c.fault, count |-> 1, last |-> clock + 1] ELSE rows[i]]
    /\ UNCHANGED <<occurred, faults, failed>>

\* As if one row were left for the next fault.
OneOver(total) == total - MAX_ROWS - 1

\* How many rows are too many.
Excess(total) == total - MAX_ROWS

Count(r) ==
    LET total == Cardinality(DOMAIN rows) IN
    /\ capture[r].at = "count"
    /\ Moves(r, IF total > MAX_ROWS THEN [at |-> "oldest", take |-> Excess(total)] ELSE Rest)
    /\ UNCHANGED <<rows, made, clock, occurred, faults, failed>>

\* The n rows that occurred longest ago.
Oldest(n) == {i \in DOMAIN rows : Cardinality({j \in DOMAIN rows : rows[j].last < rows[i].last}) < n}

FindOldest(r) ==
    /\ capture[r].at = "oldest"
    /\ Moves(r, [at |-> "prune", rows |-> Oldest(capture[r].take)])
    /\ UNCHANGED <<rows, made, clock, occurred, faults, failed>>

Prune(r) ==
    /\ capture[r].at = "prune" /\ Moves(r, Rest)
    /\ rows' = Minus(capture[r].rows)
    /\ UNCHANGED <<made, clock, occurred, faults, failed>>

\* A call fails, or the process dies.
Fail(r) ==
    /\ capture[r] # Rest /\ failed < MaxFailed /\ failed' = failed + 1
    /\ Moves(r, Rest) /\ UNCHANGED <<rows, made, clock, occurred, faults>>

Next == \E r \in Request :
    \/ \E o \in Org, f \in Fault : Occur(r, o, f)
    \/ Find(r) \/ Fold(r) \/ Create(r) \/ Count(r) \/ FindOldest(r) \/ Prune(r) \/ Fail(r)

Spec == Init /\ [][Next]_vars

-----------------------------------------------------------------------------
(* Properties *)

\* The log is no longer than it may be once every capture has ended, but for a row of each that failed,
\* however many new faults are captured at once.
LogFits == (\A r \in Request : capture[r] = Rest) => Cardinality(DOMAIN rows) <= MAX_ROWS + failed

\* The sum of the first n counts of g.
Total(g, n) == LET sum[i \in 0..n] == IF i = 0 THEN 0 ELSE sum[i - 1] + g[i] IN sum[n]

\* What the log tells a workspace of a fault: the counts of its rows of it.
Own(i, o, f) == i \in DOMAIN rows /\ rows[i].org = o /\ rows[i].fault = f
Told(o, f) == Total([i \in 1..made |-> IF Own(i, o, f) THEN rows[i].count ELSE 0], made)

\* A workspace is told of nothing that did not happen there: its rows of a fault count its own occurrences.
CountsItsOwn == \A o \in Org, f \in Fault : Told(o, f) <= occurred[o][f]

\* Captures that have made a row and are still to count the rows, and those that have counted.
Counting == {r \in Request : capture[r].at = "count"}
Counted == {r \in Request : capture[r].at \in {"oldest", "prune"}}

\* A capture that has counted will leave no more than n rows, unless others make some.
Clears(r, n) ==
    IF capture[r].at = "oldest" THEN Cardinality(DOMAIN rows) <= capture[r].take + n
    ELSE Cardinality(DOMAIN rows \ capture[r].rows) <= n

\* Whichever captures fail yet, the log comes down to its bound, a row for each that failed or fails and one
\* for each that has still to count: it is there already, or another capture will clear the rest.
ComesDown ==
    \A F \in SUBSET Counted :
      LET n == MAX_ROWS + failed + Cardinality(Counting) + Cardinality(F) IN
      Cardinality(DOMAIN rows) <= n \/ \E r \in Counted \ F : Clears(r, n)

IInv == TypeOK /\ ComesDown

\* Captures that will yet count an occurrence of f in o: they look for its row, are to make it, or have found
\* one that is still there.
Owing(o, f) == {r \in Request :
    \/ capture[r].at \in {"find", "create"} /\ capture[r].org = o /\ capture[r].fault = f
    \/ capture[r].at = "fold" /\ Own(capture[r].row, o, f)}

\* No occurrence is counted twice: what is told and what is owed have all occurred, and nobody folds into a
\* row that is yet to be made.
CountsInv ==
    /\ TypeOK /\ occurred \in [Org -> [Fault -> Nat]]
    /\ \A r \in Request : capture[r].at = "fold" => capture[r].row \in 1..made
    /\ \A o \in Org, f \in Fault : Told(o, f) + Cardinality(Owing(o, f)) <= occurred[o][f]

-----------------------------------------------------------------------------
(* Refuted *)

\* Refuted: one row of a fault in a workspace ("folding repeats into one row", errors.ts:79).  Two first
\* captures find none.
OneRowEach == \A i, j \in DOMAIN rows : rows[i].org = rows[j].org /\ rows[i].fault = rows[j].fault => i = j

\* Refuted: what is pruned is older than what stays.  The oldest row may occur again before it is deleted.
OldestGoes == \A r \in Request : capture[r].at = "prune" =>
    \A i \in capture[r].rows \cap DOMAIN rows : \A j \in DOMAIN rows \ capture[r].rows : rows[i].last < rows[j].last

\* Refuted: a log that was full stays full.  Two captures that both count the rows of both delete in turn.
StaysFull == made >= MAX_ROWS => Cardinality(DOMAIN rows) >= MAX_ROWS
=============================================================================
