----------------------------- MODULE Subscriptions -----------------------------
(***************************************************************************)
(* A workspace's subscription: the checkout, plan changes and cancellations *)
(* of routers/billing.ts, the reconciliation with Stripe that the callback  *)
(* and every one of them ends in (billing.ts, webhooks.ts), and the         *)
(* deletion of the workspace (routers/org.ts).                              *)
(*                                                                          *)
(* A caller is one request in flight, with a step for each call it awaits.  *)
(* Stripe is external: a completed checkout makes the subscription of the   *)
(* same number, a repeated idempotency key answers its first session and    *)
(* refuses other parameters, and deleting a customer ends what it holds.    *)
(***************************************************************************)
EXTENDS Integers, FiniteSets

CONSTANTS
    Caller,         \* requests that can be in flight at once
    Sessions,       \* bound on Checkout sessions ever created; ids 1..Sessions
    Manual,         \* subscriptions an operator makes in Stripe's dashboard
    Paid,           \* PLANS
    Trial, None,
    MaxChanges,     \* bound on what happens to subscriptions inside Stripe
    MaxEvents       \* bound on callbacks Stripe ever owes

Session == 1..Sessions
Sub == Session \cup Manual
Plan == Paid \cup {Trial}

ASSUME SubscriptionsAssumption ==
    /\ Sessions \in Nat \ {0} /\ MaxChanges \in Nat /\ MaxEvents \in Nat
    /\ IsFiniteSet(Manual) /\ Manual \cap Session = {}
    /\ Paid # {} /\ Trial \notin Paid
    /\ None \notin Sub \cup Plan

VARIABLES
    org,        \* the Organisation row: its customer and its mirror of Stripe
    customer,   \* the Stripe customer
    sessions,   \* Checkout sessions
    key,        \* the session of idempotency key apex-checkout-<org>-<previous>
    subs,       \* Stripe subscriptions
    events,     \* subscription events Stripe has still to have acknowledged
    proc,       \* the locals of each request
    changes,    \* changes made inside Stripe
    raised      \* events ever raised

stripe == <<customer, sessions, key, subs>>
bounds == <<changes, raised>>
vars == <<org, stripe, events, proc, bounds>>

Nonterminal == {"incomplete", "active", "past_due", "unpaid"}
Granting == {"active", "past_due"}

Mirror == [plan : Plan, sub : Sub \cup {None}, status : Nonterminal \cup {None}, cancelling : BOOLEAN]
Org == [there : BOOLEAN, customer : BOOLEAN, mirror : Mirror]
Checkout == [status : {"none", "open", "expired", "complete"}, plan : Paid]
Subscription == [status : Nonterminal \cup {"none", "canceled"}, plan : Paid \cup {None},
                 cancelling : BOOLEAN]
Change == [plan : Paid \cup {None}, cancelling : BOOLEAN]
Request == [at : {"idle", "live", "customer", "save", "open", "list", "recheck", "create",
                  "sole", "change", "read", "fetch", "commit",
                  "closing", "expire", "delete", "erase"},
            plan : Paid, previous : Session \cup {None}, change : Change, sub : Sub \cup {None},
            mirror : Mirror, next : Mirror, billed : BOOLEAN, callback : BOOLEAN]

TypeOK ==
    /\ org \in Org
    /\ customer \in {"none", "open", "deleted"}
    /\ sessions \in [Session -> Checkout]
    /\ key \in [Session \cup {None} -> Session \cup {None}]
    /\ subs \in [Sub -> Subscription]
    /\ events \in 0..MaxEvents
    /\ proc \in [Caller -> Request]
    /\ changes \in 0..MaxChanges
    /\ raised \in 0..MaxEvents

AnyPlan == CHOOSE p \in Paid : TRUE
Unsubscribed == [plan |-> Trial, sub |-> None, status |-> None, cancelling |-> FALSE]
Idle == [at |-> "idle", plan |-> AnyPlan, previous |-> None,
         change |-> [plan |-> None, cancelling |-> FALSE], sub |-> None,
         mirror |-> Unsubscribed, next |-> Unsubscribed, billed |-> FALSE, callback |-> FALSE]

Init ==
    /\ org = [there |-> TRUE, customer |-> FALSE, mirror |-> Unsubscribed]
    /\ customer = "none"
    /\ sessions = [s \in Session |-> [status |-> "none", plan |-> AnyPlan]]
    /\ key = [s \in Session \cup {None} |-> None]
    /\ subs = [s \in Sub |-> [status |-> "none", plan |-> None, cancelling |-> FALSE]]
    /\ events = 0
    /\ proc = [c \in Caller |-> Idle]
    /\ changes = 0 /\ raised = 0

At(c, step) == proc[c].at = step
Go(c, request) == proc' = [proc EXCEPT ![c] = request]
Step(c, step) == Go(c, [proc[c] EXCEPT !.at = step])
Finish(c) == Go(c, Idle)

\* liveSubscriptions: everything that is not over, whatever it grants.
Live == {s \in Sub : subs[s].status \in Nonterminal}

\* Stripe owes a callback for every change of a subscription.
Raise == raised' = raised + 1 /\ events' = events + 1
CanRaise == raised < MaxEvents

(***************************************************************************)
(* billing.checkout                                                         *)
(***************************************************************************)
StartCheckout(c, p) ==
    /\ At(c, "idle") /\ org.there
    /\ org.mirror.sub = None
    /\ Go(c, [Idle EXCEPT !.plan = p, !.at = IF org.customer THEN "live" ELSE "customer"])
    /\ UNCHANGED <<org, stripe, events, bounds>>

CheckLive(c) ==
    /\ At(c, "live")
    /\ IF Live = {} THEN Step(c, "open") ELSE Finish(c)
    /\ UNCHANGED <<org, stripe, events, bounds>>

\* POST /customers under apex-customer-<org>, then the row that remembers it.
CreateCustomer(c) ==
    /\ At(c, "customer")
    /\ customer' = IF customer = "none" THEN "open" ELSE customer
    /\ Step(c, "save")
    /\ UNCHANGED <<org, sessions, key, subs, events, bounds>>

SaveCustomer(c) ==
    /\ At(c, "save")
    /\ IF org.there THEN org' = [org EXCEPT !.customer = TRUE] /\ Step(c, "open")
       ELSE UNCHANGED org /\ Finish(c)
    /\ UNCHANGED <<stripe, events, bounds>>

AssertOpen(c) ==
    /\ At(c, "open")
    /\ IF customer = "open" THEN Step(c, "list") ELSE Finish(c)
    /\ UNCHANGED <<org, stripe, events, bounds>>

Created == {s \in Session : sessions[s].status # "none"}
Open == {s \in Session : sessions[s].status = "open"}
Newest(s) == s \in Created /\ \A t \in Created : t <= s

\* An unfinished checkout is answered or refused; otherwise the newest names the key.
ListSessions(c) ==
    /\ At(c, "list")
    /\ IF Open # {} THEN Finish(c)
       ELSE \/ Created = {} /\ Go(c, [proc[c] EXCEPT !.at = "recheck", !.previous = None])
            \/ \E s \in Created :
                Newest(s) /\ Go(c, [proc[c] EXCEPT !.at = "recheck", !.previous = s])
    /\ UNCHANGED <<org, stripe, events, bounds>>

\* A completion can arrive between the first check and the list.
\* (RecheckNothing: as if the list were recent enough.)
RecheckNothing == TRUE
StillNone == Live = {}

Recheck(c) ==
    /\ At(c, "recheck")
    /\ IF StillNone THEN Step(c, "create") ELSE Finish(c)
    /\ UNCHANGED <<org, stripe, events, bounds>>

\* The idempotency key of the POST.  (OwnKey: as if every POST had a key of its own.)
OwnKey(c) == {}
Keyed(c) == {s \in Session : key[proc[c].previous] = s}

CreateSession(c) ==
    /\ At(c, "create")
    /\ IF Keyed(c) = {} /\ customer = "open" /\ Created # Session
       THEN \E s \in Session \ Created :
            /\ \A t \in Session \ Created : s <= t
            /\ sessions' = [sessions EXCEPT ![s] = [status |-> "open", plan |-> proc[c].plan]]
            /\ key' = [key EXCEPT ![proc[c].previous] = s]
       ELSE UNCHANGED <<sessions, key>>
    /\ Finish(c)
    /\ UNCHANGED <<org, customer, subs, events, bounds>>

(***************************************************************************)
(* changePlan, cancelPlan and resumePlan: the one live subscription is      *)
(* changed at Stripe, then the workspace is reconciled.                     *)
(***************************************************************************)
StartChange(c, change) ==
    /\ At(c, "idle") /\ org.there /\ org.customer
    /\ Go(c, [Idle EXCEPT !.at = "sole", !.change = change])
    /\ UNCHANGED <<org, stripe, events, bounds>>

ChangePlan(c) == \E p \in Paid : StartChange(c, [plan |-> p, cancelling |-> FALSE])
CancelPlan(c) == StartChange(c, [plan |-> None, cancelling |-> TRUE])
ResumePlan(c) == StartChange(c, [plan |-> None, cancelling |-> FALSE])

\* A subscription already on the plan keeps its price, and with no cancellation to
\* withdraw nothing is sent.
SoleSubscription(c) ==
    /\ At(c, "sole")
    /\ IF Cardinality(Live) # 1 THEN Finish(c)
       ELSE \E s \in Live :
            LET already == proc[c].change.plan # None /\ subs[s].plan = proc[c].change.plan IN
            Go(c, [proc[c] EXCEPT !.at = IF already /\ ~subs[s].cancelling THEN "read" ELSE "change",
                                  !.sub = s, !.change.plan = IF already THEN None ELSE @])
    /\ UNCHANGED <<org, stripe, events, bounds>>

\* Stripe refuses a change to a subscription that is over.
ChangeSubscription(c) ==
    LET s == proc[c].sub
        new == [subs[s] EXCEPT !.cancelling = proc[c].change.cancelling,
                  !.plan = IF proc[c].change.plan = None THEN @ ELSE proc[c].change.plan] IN
    /\ At(c, "change")
    /\ IF s \notin Live THEN Finish(c) /\ UNCHANGED <<subs, events, bounds>>
       ELSE IF new = subs[s] THEN Step(c, "read") /\ UNCHANGED <<subs, events, bounds>>
       ELSE /\ CanRaise /\ Raise
            /\ subs' = [subs EXCEPT ![s] = new]
            /\ Step(c, "read") /\ UNCHANGED changes
    /\ UNCHANGED <<org, customer, sessions, key>>

(***************************************************************************)
(* reconcileSubscription, from billing.sync, the callback or a change.      *)
(***************************************************************************)
Sync(c) ==
    /\ At(c, "idle") /\ org.there
    /\ Go(c, [Idle EXCEPT !.at = "read"])
    /\ UNCHANGED <<org, stripe, events, bounds>>

Callbacks == {c \in Caller : proc[c].callback}

\* An event of a customer no workspace remembers is acknowledged and dropped.
Callback(c) ==
    /\ At(c, "idle") /\ Cardinality(Callbacks) < events
    /\ IF org.there /\ org.customer
       THEN /\ Go(c, [Idle EXCEPT !.at = "read", !.callback = TRUE])
            /\ UNCHANGED events
       ELSE events' = events - 1 /\ UNCHANGED proc
    /\ UNCHANGED <<org, stripe, bounds>>

\* (AlwaysAcknowledged: as if every reconciliation answered a callback.)
AlwaysAcknowledged(c) == events' = events - 1
Answer(c) == events' = IF proc[c].callback THEN events - 1 ELSE events

ReadOrg(c) ==
    /\ At(c, "read")
    /\ IF org.there /\ org.customer
       THEN Go(c, [proc[c] EXCEPT !.at = "fetch", !.mirror = org.mirror]) /\ UNCHANGED events
       ELSE Finish(c) /\ Answer(c)
    /\ UNCHANGED <<org, stripe, bounds>>

\* (FirstOfSeveral: as if the first subscription listed were the plan, and one that
\* names none were the middle plan.)
FirstOfSeveral(mirror) ==
    IF Live = {} THEN Unsubscribed
    ELSE LET s == CHOOSE t \in Live : TRUE IN
         [plan |-> IF subs[s].status \notin Granting THEN Trial
                   ELSE IF subs[s].plan = None THEN AnyPlan ELSE subs[s].plan,
          sub |-> s, status |-> subs[s].status, cancelling |-> subs[s].cancelling]

\* What the workspace should show of the subscriptions there are: none is a trial,
\* one is its plan while it grants access, several leave everything alone.
Reflected(mirror) ==
    IF Cardinality(Live) > 1 THEN mirror
    ELSE IF Live = {} THEN Unsubscribed
    ELSE LET s == CHOOSE t \in Live : TRUE IN
         [plan |-> IF subs[s].status \notin Granting THEN Trial
                   ELSE IF subs[s].plan = None THEN mirror.plan ELSE subs[s].plan,
          sub |-> s, status |-> subs[s].status, cancelling |-> subs[s].cancelling]

FetchLive(c) ==
    /\ At(c, "fetch")
    /\ Go(c, [proc[c] EXCEPT !.at = "commit", !.next = Reflected(proc[c].mirror)])
    /\ UNCHANGED <<org, stripe, events, bounds>>

\* The update matches the row only as it was read.  (Overwritable: as if by id.)
Overwritable(c) == org.there
Unmoved(c) == org.there /\ org.mirror = proc[c].mirror

\* A commit that does not match throws; a callback that throws is not acknowledged.
Commit(c) ==
    /\ At(c, "commit")
    /\ IF Unmoved(c) THEN org' = [org EXCEPT !.mirror = proc[c].next] /\ Answer(c)
       ELSE UNCHANGED <<org, events>>
    /\ Finish(c)
    /\ UNCHANGED <<stripe, bounds>>

(***************************************************************************)
(* org.deleteWorkspace: stopWorkspaceBilling, then the erasure.             *)
(***************************************************************************)
DeleteWorkspace(c) ==
    /\ At(c, "idle") /\ org.there
    /\ Go(c, [Idle EXCEPT !.billed = org.customer, !.at = IF org.customer THEN "closing" ELSE "erase"])
    /\ UNCHANGED <<org, stripe, events, bounds>>

\* A customer an earlier attempt deleted is done with.
ReadCustomer(c) ==
    /\ At(c, "closing")
    /\ Step(c, IF customer = "deleted" THEN "erase" ELSE "expire")
    /\ UNCHANGED <<org, stripe, events, bounds>>

ExpireSessions(c) ==
    /\ At(c, "expire")
    /\ sessions' = [s \in Session |->
         IF s \in Open THEN [sessions[s] EXCEPT !.status = "expired"] ELSE sessions[s]]
    /\ Step(c, "delete")
    /\ UNCHANGED <<org, customer, key, subs, events, bounds>>

\* Stripe ends the customer's subscriptions and can make no other.
\* (ExpireOnly: as if closing the open checkouts stopped every future charge.)
ExpireOnly == UNCHANGED <<customer, subs, sessions>>
CloseCustomer ==
    /\ customer' = "deleted"
    /\ subs' = [s \in Sub |-> IF s \in Live THEN [subs[s] EXCEPT !.status = "canceled"] ELSE subs[s]]
    /\ sessions' = [s \in Session |->
         IF s \in Open THEN [sessions[s] EXCEPT !.status = "expired"] ELSE sessions[s]]

DeleteCustomer(c) ==
    /\ At(c, "delete")
    /\ CloseCustomer
    /\ Step(c, "erase")
    /\ UNCHANGED <<org, key, events, bounds>>

Erase(c) ==
    /\ At(c, "erase")
    /\ org' = [org EXCEPT !.there = FALSE]
    /\ Finish(c)
    /\ UNCHANGED <<stripe, events, bounds>>

\* Any awaited call can throw, or the process die.
Fail(c) ==
    /\ ~At(c, "idle")
    /\ Finish(c)
    /\ UNCHANGED <<org, stripe, events, bounds>>

(***************************************************************************)
(* Stripe and the customer at it.                                           *)
(***************************************************************************)
CompleteCheckout(s) ==
    /\ sessions[s].status = "open" /\ customer = "open" /\ CanRaise
    /\ sessions' = [sessions EXCEPT ![s].status = "complete"]
    /\ subs' = [subs EXCEPT ![s] = [status |-> "active", plan |-> sessions[s].plan, cancelling |-> FALSE]]
    /\ Raise
    /\ UNCHANGED <<org, customer, key, proc, changes>>

SessionExpires(s) ==
    /\ sessions[s].status = "open"
    /\ sessions' = [sessions EXCEPT ![s].status = "expired"]
    /\ UNCHANGED <<org, customer, key, subs, events, proc, bounds>>

\* Payments fail and recover, periods end, an operator cancels.
SubscriptionMoves(s) ==
    /\ changes < MaxChanges /\ CanRaise /\ s \in Live
    /\ \E status \in {"active", "past_due", "unpaid", "canceled"} \ {subs[s].status} :
        subs' = [subs EXCEPT ![s].status = status]
    /\ changes' = changes + 1 /\ Raise
    /\ UNCHANGED <<org, customer, sessions, key, proc>>

\* A subscription made by hand, against a price this server does not know.
MakeByHand(s) ==
    /\ s \in Manual /\ subs[s].status = "none" /\ customer = "open" /\ CanRaise
    /\ subs' = [subs EXCEPT ![s] = [status |-> "active", plan |-> None, cancelling |-> FALSE]]
    /\ Raise
    /\ UNCHANGED <<org, customer, sessions, key, proc, changes>>

Proceed(c) ==
    \/ CheckLive(c) \/ CreateCustomer(c) \/ SaveCustomer(c) \/ AssertOpen(c) \/ ListSessions(c)
    \/ Recheck(c) \/ CreateSession(c)
    \/ SoleSubscription(c) \/ ChangeSubscription(c)
    \/ ReadOrg(c) \/ FetchLive(c) \/ Commit(c)
    \/ ReadCustomer(c) \/ ExpireSessions(c) \/ DeleteCustomer(c) \/ Erase(c)

Arrive(c) ==
    \/ \E p \in Paid : StartCheckout(c, p)
    \/ ChangePlan(c) \/ CancelPlan(c) \/ ResumePlan(c) \/ Sync(c) \/ Callback(c)
    \/ DeleteWorkspace(c)

Next ==
    \/ \E c \in Caller : Arrive(c) \/ Proceed(c) \/ Fail(c)
    \/ \E s \in Session : CompleteCheckout(s) \/ SessionExpires(s)
    \/ \E s \in Sub : SubscriptionMoves(s) \/ MakeByHand(s)

Spec == Init /\ [][Next]_vars

-------------------------------------------------------------------------------
\* Stale tabs, double clicks and checkouts racing a completion: the checkouts of a
\* workspace never leave it with two subscriptions billing at once.
NeverBilledTwice == Cardinality(Live \cap Session) <= 1

\* A deletion that knew the workspace's customer erases the mapping only when
\* nothing can bill it again (stopWorkspaceBilling), retries included.
ClosedBeforeErasure ==
    \A c \in Caller : At(c, "erase") /\ proc[c].billed => customer = "deleted" /\ Live = {} /\ Open = {}

\* A workspace has paid features only after a checkout or a change of plan of its own
\* named a plan: no subscription made by hand hands out one nobody chose.
PaidFeaturesWereBought == org.mirror.plan # Trial => \E s \in Sub : subs[s].plan # None

(***************************************************************************)
(* What the repository says of this code and the code does not do.          *)
(***************************************************************************)

\* "A late response must not overwrite a newer committed plan" (reconcileSubscription):
\* with every event acknowledged and nothing in flight, the row is what Stripe says.
Quiet == events = 0 /\ \A c \in Caller : At(c, "idle")
MirrorIsCurrent ==
    Quiet /\ org.there /\ org.customer /\ customer = "open" => org.mirror = Reflected(org.mirror)

\* "Stop every future charge before erasing the only tenant/customer mapping": a
\* workspace that is gone is never billed.
ErasedIsNotBilled == ~org.there => Live = {}
===============================================================================
