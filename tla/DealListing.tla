----------------------------- MODULE DealListing -----------------------------
(***************************************************************************)
(* The list of deals an integrator pages through with an API key while deals *)
(* are added and move, keys are revoked and the plan changes: GET            *)
(* /api/v1/deals of public-api.ts, api-keys.ts and the keys of routers/org.ts. *)
(*                                                                         *)
(* A request is three reads: the key, the plan, the page.  An identifier is   *)
(* a number that no other deal has; a new deal may come anywhere among them,  *)
(* as processes mint them by clocks of their own.                           *)
(***************************************************************************)
EXTENDS Naturals, Sequences, FiniteSets

CONSTANTS
    MaxId,           \* identifiers are 1..MaxId
    Stage,           \* the stages of a deal
    Absent,          \* no deal, no cursor, no filter
    Key,             \* the keys that can be minted
    MAX_LIMIT, DEFAULT_LIMIT,
    MaxMoved         \* bound on changes of a deal's stage

VARIABLES
    deals,     \* the stage of each deal, Absent when there is none
    moved,     \* changes of stage so far
    keys,      \* what has become of each key: "none", "live" or "revoked"
    plan,      \* whether the plan has the API
    walk,      \* the integrator: key, filter, limit, cursor and the deals it was given
    steady,    \* the deals of its filter since the walk began
    request    \* the request under way

vars == <<deals, moved, keys, plan, walk, steady, request>>

Id == 1..MaxId
Rest == [at |-> "rest"]

Smaller(a, b) == IF a < b THEN a ELSE b
Larger(a, b) == IF a > b THEN a ELSE b

Fits(stage, filter) == stage # Absent /\ filter \in {Absent, stage}

Init ==
    /\ deals \in [Id -> Stage \cup {Absent}] /\ Cardinality({i \in Id : deals[i] # Absent}) = 3
    /\ moved = 0 /\ keys = [k \in Key |-> "none"] /\ plan \in BOOLEAN
    /\ walk = Rest /\ steady = {} /\ request = Rest

-----------------------------------------------------------------------------
(* The workspace *)

AddDeal(i, s) ==
    /\ deals[i] = Absent /\ deals' = [deals EXCEPT ![i] = s]
    /\ UNCHANGED <<moved, keys, plan, walk, steady, request>>

setStage(i, s) ==
    /\ deals[i] \notin {Absent, s} /\ moved < MaxMoved /\ moved' = moved + 1
    /\ deals' = [deals EXCEPT ![i] = s]
    /\ steady' = IF walk # Rest /\ ~Fits(s, walk.filter) THEN steady \ {i} ELSE steady
    /\ UNCHANGED <<keys, plan, walk, request>>

\* publicApiProcedure asks the plan.
createApiKey(k) ==
    /\ plan /\ keys[k] = "none" /\ keys' = [keys EXCEPT ![k] = "live"]
    /\ UNCHANGED <<deals, moved, plan, walk, steady, request>>

revokeApiKey(k) ==
    /\ keys[k] = "live" /\ keys' = [keys EXCEPT ![k] = "revoked"]
    /\ UNCHANGED <<deals, moved, plan, walk, steady, request>>

\* A subscription begins or ends (Subscriptions).
ChangePlan ==
    /\ plan' = ~plan /\ UNCHANGED <<deals, moved, keys, walk, steady, request>>

-----------------------------------------------------------------------------
(* The integrator *)

Begin(k, filter) ==
    /\ walk = Rest /\ keys[k] # "none"
    /\ walk' = [at |-> "walk", key |-> k, filter |-> filter, cursor |-> Absent, got |-> <<>>]
    /\ steady' = {i \in Id : Fits(deals[i], filter)}
    /\ UNCHANGED <<deals, moved, keys, plan, request>>

Limit(asked) == Smaller(MAX_LIMIT, Larger(1, IF asked = 0 THEN DEFAULT_LIMIT ELSE asked))

\* The next page is asked for, with any limit, 0 where none can be read.
Ask(limit) ==
    /\ walk.at = "walk" /\ request = Rest
    /\ request' = [at |-> "key", limit |-> Limit(limit)]
    /\ UNCHANGED <<deals, moved, keys, plan, walk, steady>>

Refuse ==
    /\ request' = Rest /\ walk' = Rest /\ steady' = {}
    /\ UNCHANGED <<deals, moved, keys, plan>>

\* principalFromApiKey
ReadKey ==
    /\ request.at = "key"
    /\ IF keys[walk.key] = "live"
       THEN request' = [request EXCEPT !.at = "plan"] /\ UNCHANGED <<deals, moved, keys, plan, walk, steady>>
       ELSE Refuse

\* The plan is asked on every request, as a key outlives it.
ReadPlan ==
    /\ request.at = "plan"
    /\ IF plan
       THEN request' = [request EXCEPT !.at = "page"] /\ UNCHANGED <<deals, moved, keys, plan, walk, steady>>
       ELSE Refuse

\* The first n of a set of identifiers, the highest first.
Highest(S, n) == {i \in S : Cardinality({j \in S : j > i}) < n}

Matching == {i \in Id : Fits(deals[i], walk.filter) /\ (walk.cursor # Absent => i < walk.cursor)}

Least(S) == CHOOSE i \in S : \A j \in S : i <= j

\* As if the cursor were the row that shows there is another page.
CursorBeyond(found, page) == IF found = page THEN Absent ELSE Least(found)

\* nextCursor: the last row of the page, when one more was found.
NextCursor(found, page) == IF found = page THEN Absent ELSE Least(page)

Answer ==
    /\ request.at = "page" /\ request' = Rest
    /\ LET found == Highest(Matching, request.limit + 1)
           page == Highest(found, request.limit)
           next == NextCursor(found, page)
       IN walk' = [walk EXCEPT !.at = IF next = Absent THEN "end" ELSE "walk", !.cursor = next,
                               !.got = Append(@, page)]
    /\ UNCHANGED <<deals, moved, keys, plan, steady>>

Done ==
    /\ walk.at = "end" /\ walk' = Rest /\ steady' = {}
    /\ UNCHANGED <<deals, moved, keys, plan, request>>

Next ==
    \/ \E i \in Id, s \in Stage : AddDeal(i, s) \/ setStage(i, s)
    \/ \E k \in Key : createApiKey(k) \/ revokeApiKey(k) \/ \E f \in Stage \cup {Absent} : Begin(k, f)
    \/ \E limit \in 0..(MAX_LIMIT + 1) : Ask(limit)
    \/ ChangePlan \/ ReadKey \/ ReadPlan \/ Answer \/ Done

Spec == Init /\ [][Next]_vars

-----------------------------------------------------------------------------
(* Properties *)

Given == UNION {walk.got[n] : n \in DOMAIN walk.got}

\* "A page cannot shift under you": no deal is given twice, and a walk that reaches its end has given every
\* deal that was there, and of its filter, all the time, whatever was added or moved between two pages.
WalkIsWhole == walk # Rest =>
    /\ \A n, m \in DOMAIN walk.got : n # m => walk.got[n] \cap walk.got[m] = {}
    /\ walk.at = "end" => steady \subseteq Given

-----------------------------------------------------------------------------
(* The inductive invariant.                                                 *)

Walk == [at : {"walk", "end"}, key : Key, filter : Stage \cup {Absent}, cursor : Id \cup {Absent}, got : Seq(SUBSET Id)]
TypeOK ==
    /\ deals \in [Id -> Stage \cup {Absent}] /\ moved \in Nat
    /\ walk \in {Rest} \cup Walk /\ steady \subseteq Id
    /\ request \in {Rest} \cup [at : {"key", "plan", "page"}, limit : Nat \ {0}]

\* A page is asked for while the walk goes on.
AskedInWalk == request # Rest => walk # Rest /\ walk.at = "walk"

\* What was given is beyond the cursor, no deal of it twice; what stayed in the filter is there, and was given if
\* it is beyond the cursor too.
SteadyFits == walk # Rest => \A i \in steady : Fits(deals[i], walk.filter)
GivenBeyond == walk # Rest =>
    /\ \A n, m \in DOMAIN walk.got : n # m => walk.got[n] \cap walk.got[m] = {}
    /\ walk.at = "walk" => \A n \in DOMAIN walk.got : \A i \in walk.got[n] : walk.cursor # Absent /\ i >= walk.cursor
    /\ walk.at = "walk" /\ walk.cursor # Absent => \A i \in steady : i >= walk.cursor => i \in Given
    /\ walk.at = "end" => steady \subseteq Given

IInv == TypeOK /\ AskedInWalk /\ SteadyFits /\ GivenBeyond

-----------------------------------------------------------------------------
(* Refuted *)

\* Refuted: what a walk of one stage gave is of that stage when it ends.  Each page is of its own moment.
GivenFits == walk # Rest /\ walk.at = "end" => \A i \in Given : Fits(deals[i], walk.filter)

\* Refuted: a revoked key shows nothing.  The page is read after the key.
RevokedShowsNothing == request.at = "page" => keys[walk.key] = "live"
=============================================================================
