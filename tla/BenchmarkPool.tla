--------------------------- MODULE BenchmarkPool ---------------------------
(***************************************************************************)
(* What one workspace gives to the pool of ratios other firms read         *)
(* (benchmark-feed.ts), while its deals move (deals.ts setStage), versions *)
(* are approved and an admin consents or withdraws (benchmarks.ts).        *)
(*                                                                         *)
(* A feed is a few separate statements; so is moving a deal.  Only the     *)
(* switch itself and the withdrawal are one transaction.  A request may    *)
(* stop between two statements.                                            *)
(***************************************************************************)
EXTENDS Integers, Sequences

CONSTANTS
    Client,      \* requests in flight
    Deal,        \* deals that can be placed in a region
    MaxPeriod,   \* bound on quarters
    MaxPoint     \* bound on points filed

VARIABLES
    consent,     \* Organisation.contributesBenchmarks
    completed,   \* deals at the stage COMPLETED
    approved,    \* deals with an approved version
    period,      \* the quarter
    points,      \* the rows this workspace contributed
    filed,       \* points filed so far
    call         \* what each request is doing

vars == <<consent, completed, approved, period, points, filed, call>>

\* What is left to do: the feeds, of a metric of a deal, and perhaps a retraction.  "late": begun before
\* consent was last withdrawn.  "period": the quarter the feed under way reckons with.
Call(todo, at, late) == [todo |-> todo, at |-> at, late |-> late, period |-> 1]
Free == Call(<<>>, "idle", FALSE)
Feed(d, metric) == [do |-> metric, deal |-> d]
Retract(d) == [do |-> "retract", deal |-> d]
Both(d) == <<Feed(d, "ratios")>> \o (IF d \in completed THEN <<Feed(d, "outturn")>> ELSE <<>>)

\* The feeds of every deal, one deal after the other.
Book ==
    LET of[S \in SUBSET Deal] ==
          IF S = {} THEN <<>> ELSE LET d == CHOOSE d \in S : TRUE IN Both(d) \o of[S \ {d}]
    IN  of[Deal]

Init ==
    /\ consent = FALSE /\ completed = {} /\ approved = {} /\ period = 1
    /\ points = {} /\ filed = 0
    /\ call = [c \in Client |-> Free]

Begin(c, todo) == call[c] = Free /\ call' = [call EXCEPT ![c] = Call(todo, "start", FALSE)]
Doing(c) == Head(call[c].todo)

\* On to the next of a request's feeds, or it ends.
Done(c) ==
    call' = [call EXCEPT ![c] = IF Len(@.todo) = 1 THEN Free ELSE Call(Tail(@.todo), "start", @.late)]
At(c, at) == call' = [call EXCEPT ![c].at = at]

Quarter == period < MaxPeriod /\ period' = period + 1 /\ UNCHANGED <<consent, completed, approved, points, filed, call>>

-----------------------------------------------------------------------------
(* What makes a figure worth contributing                                   *)

\* review approves a version, for good, and feeds its ratios.
review(c) ==
    /\ \E d \in Deal : approved' = approved \cup {d} /\ Begin(c, <<Feed(d, "ratios")>>)
    /\ UNCHANGED <<consent, completed, period, points, filed>>

\* setStage reads the deal, writes the stage, feeds the out-turn of a deal now completed, and takes
\* back that of a deal that was.
setStage(c) ==
    /\ \E d \in Deal, to \in BOOLEAN :
         /\ completed' = IF to THEN completed \cup {d} ELSE completed \ {d}
         /\ IF to THEN Begin(c, <<Feed(d, "outturn")>>)
            ELSE IF d \in completed THEN Begin(c, <<Retract(d)>>) ELSE call[c] = Free /\ UNCHANGED call
    /\ UNCHANGED <<consent, approved, period, points, filed>>

\* contribute, by hand.
contribute(c) ==
    /\ consent
    /\ \E d \in approved : Begin(c, Both(d))
    /\ UNCHANGED <<consent, completed, approved, period, points, filed>>

-----------------------------------------------------------------------------
(* Consent                                                                  *)

\* As if the switch only stopped what is contributed from then on.
KeepsWhatWasGiven(on) == points

Given(on) == IF on THEN points ELSE {}

\* setContribution: the switch, what was given, and then the signed-off book (backfill).
setContribution(c) ==
    /\ call[c] = Free
    /\ \E on \in BOOLEAN :
         /\ consent' = on /\ points' = Given(on)
         /\ call' = [k \in Client |->
                       IF k = c THEN IF on THEN Call(Book, "start", FALSE) ELSE Free
                       ELSE IF on \/ call[k] = Free THEN call[k] ELSE [call[k] EXCEPT !.late = TRUE]]
    /\ UNCHANGED <<completed, approved, period, filed>>

-----------------------------------------------------------------------------
(* A feed                                                                   *)

\* consentsToBenchmarks, then latestApproved; what was approved may have nothing to make a ratio of.
ReadConsent(c) ==
    /\ call[c].at = "start" /\ Doing(c).do # "retract"
    /\ \/ consent /\ Doing(c).deal \in approved
          /\ call' = [call EXCEPT ![c].at = "delete", ![c].period = period]
       \/ Done(c)
    /\ UNCHANGED <<consent, completed, approved, period, points, filed>>

\* replacePoints: the deal's own points of the quarter go,
Delete(c) ==
    /\ call[c].at = "delete"
    /\ points' = {p \in points : ~(p.deal = Doing(c).deal /\ p.metric = Doing(c).do /\ p.period = call[c].period)}
    /\ At(c, "create")
    /\ UNCHANGED <<consent, completed, approved, period, filed>>

\* and new ones are written.
Create(c) ==
    /\ call[c].at = "create" /\ filed < MaxPoint
    /\ filed' = filed + 1
    /\ points' = points \cup {[id |-> filed + 1, deal |-> Doing(c).deal, metric |-> Doing(c).do, period |-> call[c].period,
                               late |-> call[c].late]}
    /\ Done(c)
    /\ UNCHANGED <<consent, completed, approved, period>>

retractOutturn(c) ==
    /\ call[c].at = "start" /\ Doing(c).do = "retract"
    /\ points' = {p \in points : ~(p.deal = Doing(c).deal /\ p.metric = "outturn")}
    /\ Done(c)
    /\ UNCHANGED <<consent, completed, approved, period, filed>>

Abort(c) ==
    /\ call[c] # Free
    /\ call' = [call EXCEPT ![c] = Free]
    /\ UNCHANGED <<consent, completed, approved, period, points, filed>>

Next ==
    \/ Quarter
    \/ \E c \in Client :
         \/ review(c) \/ setStage(c) \/ contribute(c) \/ setContribution(c)
         \/ ReadConsent(c) \/ Delete(c) \/ Create(c) \/ retractOutturn(c) \/ Abort(c)

Spec == Init /\ [][Next]_vars

-----------------------------------------------------------------------------
(* Properties                                                               *)

\* A firm that has withdrawn has nothing in the pool that was given before: what remains can only be of a
\* feed that was under way at the time.
WithdrawalReachesAll == ~consent => \A p \in points : p.late

TypeOK ==
    /\ consent \in BOOLEAN /\ filed \in Nat
    /\ call = [c \in Client |-> [todo |-> call[c].todo, at |-> call[c].at, late |-> call[c].late, period |-> call[c].period]]

\* Without consent, whoever is about to write began before it was withdrawn.
WritersAreLate == ~consent => \A c \in Client : call[c].at \in {"delete", "create"} => call[c].late

IInv == TypeOK /\ WithdrawalReachesAll /\ WritersAreLate

\* Refuted: consent is never withdrawn in the interface and not in the data (benchmarks.ts:221-227).
\* A feed that had read consent files its points after the withdrawal deleted them all.
WithdrawnIsGone == ~consent => points = {}

\* Refuted: a deal has one figure of a metric in a quarter.  Two feeds delete first and write then.
OnePerQuarter == \A p, q \in points : p.deal = q.deal /\ p.metric = q.metric /\ p.period = q.period => p = q

\* Refuted: no out-turn of a scheme that is not complete (benchmark-feed.ts:216-223), once nothing is under
\* way.  A request that stops after it has moved the deal back never takes the figure back, nor does the next.
OutturnOfComplete ==
    (\A c \in Client : call[c] = Free) => \A p \in points : p.metric = "outturn" => p.deal \in completed
=============================================================================
