------------------------------- MODULE Payments -------------------------------
(***************************************************************************)
(* A plot's payments: the buyer portal that keeps the schedule and takes    *)
(* the money (routers/portal.ts), the PaymentIntents it creates and settles *)
(* (payments.ts), Stripe's callback (webhooks.ts) and the sales office that *)
(* reprices, advances and deletes the plot (routers/sales.ts).              *)
(*                                                                          *)
(* A caller is one request in flight.  Each statement a request awaits is a *)
(* step of its own, so that a caller acts on what it read earlier.          *)
(* Stripe is external: its cards, cancellations, idempotency keys and the   *)
(* retries of its callback are the assumptions the code states about it.    *)
(***************************************************************************)
EXTENDS Integers

CONSTANTS
    Caller,         \* requests that can be in flight at once
    Payments,       \* bound on Payment rows ever created; ids 1..Payments
    Intents,        \* bound on PaymentIntents Stripe ever creates
    Kinds,          \* rows of depositSchedule; kinds 1..Kinds
    DueAt,          \* the milestone each kind falls due at
    Price,          \* agreedValue ?? appraisedValue
    Charge,         \* the amount of each kind at each price
    LastMilestone,  \* SALES_MILESTONES.length - 1
    MaxSaves,       \* bound on changes the sales office makes to the plot
    MaxFailures,    \* bound on requests that die or throw half way
    None

Id == 1..Payments
Intent == 1..Intents
Kind == 1..Kinds
Progress == 0..LastMilestone
Amount == {Charge[k][v] : k \in Kind, v \in Price}

ASSUME PaymentsAssumption ==
    /\ Payments \in Nat \ {0} /\ Intents \in Nat /\ Intents >= Payments
    /\ Kinds \in Nat \ {0}
    /\ LastMilestone \in Nat /\ MaxSaves \in Nat /\ MaxFailures \in Nat
    /\ DueAt \in [Kind -> Nat]
    /\ Price # {} /\ Charge \in [Kind -> [Price -> Nat]]
    /\ None \notin Id \cup Intent

VARIABLES
    live,       \* whether STRIPE_SECRET_KEY is set (else demo settlement)
    plot,       \* the Unit row and its buyer's login
    payments,   \* the Payment table
    receipts,   \* activity events written for each payment
    intents,    \* PaymentIntents at Stripe
    key,        \* what Stripe answers to idempotency key apex-intent-<id>
    events,     \* payment_intent.succeeded events not yet acknowledged
    proc,       \* the locals of each request
    saves,      \* changes made to the plot
    failures    \* requests that died

store == <<plot, payments, receipts>>
stripe == <<intents, key, events>>
bounds == <<saves, failures>>
vars == <<live, store, stripe, proc, bounds>>

Plot == [there : BOOLEAN, login : BOOLEAN, progress : Progress, price : Price]
Row == [status : {"none", "PENDING", "PAID", "deleted"}, kind : Kind, amount : Amount,
        paidAt : {"never", "milestone", "settled"}, intent : Intent \cup {None}]
StripeIntent == [status : {"none", "open", "canceled", "succeeded"},
                 payment : Id \cup {None}, amount : Amount]
Loaded == [id : Id, kind : Kind, amount : Amount, paid : BOOLEAN]
Request == [at : {"idle", "rows", "ensure", "get", "post", "store", "ask", "settle",
                  "receipt", "purge", "logins", "unit"},
            plot : Plot, loaded : SUBSET Loaded, row : Kind,
            payment : Id, intent : Intent \cup {None}, amount : Amount,
            event : Intent \cup {None}]

TypeOK ==
    /\ live \in BOOLEAN
    /\ plot \in Plot
    /\ payments \in [Id -> Row]
    /\ receipts \in [Id -> Nat]
    /\ intents \in [Intent -> StripeIntent]
    /\ key \in [Id -> Intent \cup {None}]
    /\ events \in SUBSET Intent
    /\ proc \in [Caller -> Request]
    /\ saves \in 0..MaxSaves
    /\ failures \in 0..MaxFailures

AnyPrice == CHOOSE v \in Price : TRUE
FirstPlot == [there |-> TRUE, login |-> TRUE, progress |-> 0, price |-> AnyPrice]
Idle == [at |-> "idle", plot |-> FirstPlot, loaded |-> {}, row |-> 1, payment |-> 1,
         intent |-> None, amount |-> Charge[1][AnyPrice], event |-> None]

Exists(p) == payments[p].status \in {"PENDING", "PAID"}
Rows == {p \in Id : Exists(p)}
Unused == {p \in Id : payments[p].status = "none"}
Closed == {p \in Id : payments[p].status \in {"PAID", "deleted"}}

Init ==
    /\ live \in BOOLEAN
    /\ plot = FirstPlot
    /\ payments = [p \in Id |-> [status |-> "none", kind |-> 1, paidAt |-> "never",
                                 amount |-> Charge[1][AnyPrice], intent |-> None]]
    /\ receipts = [p \in Id |-> 0]
    /\ intents = [i \in Intent |-> [status |-> "none", payment |-> None,
                                    amount |-> Charge[1][AnyPrice]]]
    /\ key = [p \in Id |-> None]
    /\ events = {}
    /\ proc = [c \in Caller |-> Idle]
    /\ saves = 0 /\ failures = 0

At(c, step) == proc[c].at = step
Go(c, request) == proc' = [proc EXCEPT ![c] = request]
Finish(c) == Go(c, Idle)

(***************************************************************************)
(* buyer.myUnit: a page load that keeps the payment rows in step with the   *)
(* plot.  The plot, then the rows, then each row of the schedule in turn.   *)
(***************************************************************************)
OpenPortal(c) ==
    /\ At(c, "idle") /\ plot.there /\ plot.login
    /\ Go(c, [Idle EXCEPT !.at = "rows", !.plot = plot])
    /\ UNCHANGED <<live, store, stripe, bounds>>

LoadPayments(c) ==
    /\ At(c, "rows")
    /\ Go(c, [proc[c] EXCEPT !.at = "ensure",
                !.loaded = {[id |-> p, kind |-> payments[p].kind, amount |-> payments[p].amount,
                             paid |-> payments[p].status = "PAID"] : p \in Rows}])
    /\ UNCHANGED <<live, store, stripe, bounds>>

Due(c) == proc[c].plot.progress >= DueAt[proc[c].row]
Owed(c) == Charge[proc[c].row][proc[c].plot.price]
Found(c) == {f \in proc[c].loaded : f.kind = proc[c].row}
NextRow(c) == IF proc[c].row = Kinds THEN Finish(c) ELSE Go(c, [proc[c] EXCEPT !.row = @ + 1])

\* A row of the schedule with no payment: one is created, settled if it is due.
\* A request that finds every id of the bound used goes no further.
CreatePayment(c) ==
    /\ Found(c) = {}
    /\ IF Unused = {} THEN UNCHANGED payments /\ Finish(c)
       ELSE /\ \E p \in Unused :
               /\ \A q \in Unused : p <= q
               /\ payments' = [payments EXCEPT ![p] =
                 [status |-> IF Due(c) THEN "PAID" ELSE "PENDING", kind |-> proc[c].row,
                  amount |-> Owed(c), paidAt |-> IF Due(c) THEN "milestone" ELSE "never",
                  intent |-> None]]
            /\ NextRow(c)

\* What the update writes: the amount, and the settlement when the plot is past it.
\* (FollowedWhole: as if the status were written whatever the plot's progress.)
FollowedWhole(c, row) ==
    [row EXCEPT !.amount = Owed(c), !.status = IF Due(c) THEN "PAID" ELSE "PENDING"]
Followed(c, row) ==
    IF Due(c) THEN [row EXCEPT !.amount = Owed(c), !.status = "PAID", !.paidAt = "milestone"]
    ELSE [row EXCEPT !.amount = Owed(c)]

\* A loaded row that is unpaid follows the plot.  Prisma's update throws if the row is gone.
FollowPlot(c, f) ==
    /\ ~f.paid /\ (Due(c) \/ f.amount # Owed(c))
    /\ IF ~Exists(f.id) THEN UNCHANGED payments /\ Finish(c)
       ELSE /\ payments' = [payments EXCEPT ![f.id] = Followed(c, @)]
            /\ NextRow(c)

LeaveRow(c, f) ==
    /\ f.paid \/ (~Due(c) /\ f.amount = Owed(c))
    /\ UNCHANGED payments /\ NextRow(c)

EnsureRow(c) ==
    /\ At(c, "ensure")
    /\ \/ CreatePayment(c)
       \/ \E f \in Found(c) : FollowPlot(c, f) \/ LeaveRow(c, f)
    /\ UNCHANGED <<live, plot, receipts, stripe, bounds>>

(***************************************************************************)
(* buyer.pay: intentFor with a card processor, settlement without one.      *)
(***************************************************************************)
Pay(c, p) ==
    /\ At(c, "idle") /\ plot.login
    /\ payments[p].status = "PENDING"
    /\ Go(c, [Idle EXCEPT !.payment = p, !.intent = payments[p].intent,
                !.amount = payments[p].amount,
                !.at = IF ~live THEN "settle"
                       ELSE IF payments[p].intent # None THEN "get" ELSE "post"])
    /\ UNCHANGED <<live, store, stripe, bounds>>

\* A stored intent is answered unless Stripe has cancelled it or cannot be read.
ReuseIntent(c) ==
    /\ At(c, "get")
    /\ intents[proc[c].intent].status # "canceled"
    /\ Finish(c)
    /\ UNCHANGED <<live, store, stripe, bounds>>

IntentUnusable(c) ==
    /\ At(c, "get")
    /\ Go(c, [proc[c] EXCEPT !.at = "post"])
    /\ UNCHANGED <<live, store, stripe, bounds>>

\* A key Stripe has seen answers with the first intent it made.
\* (NoKey: as if the POST carried no idempotency key.)
NoKey(p) == None
Answer(p) == key[p]

PostIntent(c) ==
    LET p == proc[c].payment IN
    /\ At(c, "post")
    /\ IF Answer(p) # None
       THEN /\ Go(c, [proc[c] EXCEPT !.at = "store", !.intent = Answer(p)])
            /\ UNCHANGED <<intents, key>>
       ELSE \E i \in Intent :
            /\ intents[i].status = "none"
            /\ \A j \in 1..(i - 1) : intents[j].status # "none"
            /\ intents' = [intents EXCEPT ![i] =
                 [status |-> "open", payment |-> p, amount |-> proc[c].amount]]
            /\ key' = [key EXCEPT ![p] = i]
            /\ Go(c, [proc[c] EXCEPT !.at = "store", !.intent = i])
    /\ UNCHANGED <<live, store, events, bounds>>

StoreIntent(c) ==
    LET p == proc[c].payment IN
    /\ At(c, "store")
    /\ payments' = IF Exists(p) THEN [payments EXCEPT ![p].intent = proc[c].intent] ELSE payments
    /\ Finish(c)
    /\ UNCHANGED <<live, plot, receipts, stripe, bounds>>

(***************************************************************************)
(* Settlement: buyer.confirmPayment, the webhook, and settlePayment.        *)
(***************************************************************************)
ConfirmPayment(c, p) ==
    /\ At(c, "idle") /\ plot.login /\ live
    /\ payments[p].status = "PENDING" /\ payments[p].intent # None
    /\ Go(c, [Idle EXCEPT !.at = "ask", !.payment = p, !.intent = payments[p].intent])
    /\ UNCHANGED <<live, store, stripe, bounds>>

\* Has Stripe taken the money?  (NotRefused: as if not having failed were enough.)
NotRefused(i) == intents[i].status # "canceled"
Succeeded(i) == intents[i].status = "succeeded"

AskStripe(c) ==
    /\ At(c, "ask")
    /\ IF Succeeded(proc[c].intent)
       THEN Go(c, [proc[c] EXCEPT !.at = "settle"])
       ELSE Finish(c)
    /\ UNCHANGED <<live, store, stripe, bounds>>

\* The events left to acknowledge while a request handles one of them.
\* (AckOnArrival: as if the callback were answered before it is handled.)
AckOnArrival(i) == events \ {i}
Unacknowledged(i) == events

\* POST /webhooks/stripe: the payment the intent's metadata names; an event about
\* a payment that is gone is acknowledged and has no effect.
DeliverEvent(c, i) ==
    LET p == intents[i].payment IN
    /\ At(c, "idle") /\ i \in events
    /\ IF Exists(p)
       THEN /\ Go(c, [Idle EXCEPT !.at = "settle", !.payment = p, !.event = i])
            /\ events' = Unacknowledged(i)
       ELSE /\ events' = events \ {i} /\ UNCHANGED proc
    /\ UNCHANGED <<live, store, intents, key, bounds>>

\* The compare-and-set: only a row that is still unpaid matches.
\* (SettleableById: as if it matched the row whatever its status.)
SettleableById(p) == Exists(p)
Settleable(p) == payments[p].status = "PENDING"

Settle(c) ==
    LET p == proc[c].payment IN
    /\ At(c, "settle")
    /\ IF Settleable(p)
       THEN /\ payments' = [payments EXCEPT ![p].status = "PAID", ![p].paidAt = "settled"]
            /\ Go(c, [proc[c] EXCEPT !.at = "receipt"])
            /\ UNCHANGED events
       ELSE /\ Finish(c) /\ events' = events \ {proc[c].event}
            /\ UNCHANGED payments
    /\ UNCHANGED <<live, plot, receipts, intents, key, bounds>>

\* The winner's receipt, unless the payment or the plot has gone meanwhile.
WriteReceipt(c) ==
    LET p == proc[c].payment IN
    /\ At(c, "receipt")
    /\ receipts' = IF Exists(p) /\ plot.there THEN [receipts EXCEPT ![p] = @ + 1] ELSE receipts
    /\ events' = events \ {proc[c].event}
    /\ Finish(c)
    /\ UNCHANGED <<live, plot, payments, intents, key, bounds>>

(***************************************************************************)
(* The sales office.                                                        *)
(***************************************************************************)
\* sales.upsertUnit of the plot: a new price, any milestone.
UpsertUnit ==
    /\ plot.there /\ saves < MaxSaves
    /\ \E v \in Price, n \in Progress : plot' = [plot EXCEPT !.price = v, !.progress = n]
    /\ saves' = saves + 1
    /\ UNCHANGED <<live, payments, receipts, stripe, proc, failures>>

\* The next milestone.  (Onwards: as if the last one had a next.)
Onwards(n) == n + 1
Advanced(n) == IF n < LastMilestone THEN n + 1 ELSE n

AdvanceMilestone ==
    /\ plot.there /\ saves < MaxSaves
    /\ plot' = [plot EXCEPT !.progress = Advanced(@)]
    /\ saves' = saves + 1
    /\ UNCHANGED <<live, payments, receipts, stripe, proc, failures>>

\* sales.deleteUnit refuses a plot with a settled payment, then deletes, one
\* statement at a time, its payments, its portal logins and the plot.
DeleteUnit(c) ==
    /\ At(c, "idle") /\ plot.there
    /\ \A p \in Id : payments[p].status # "PAID"
    /\ Go(c, [Idle EXCEPT !.at = "purge"])
    /\ UNCHANGED <<live, store, stripe, bounds>>

PurgePayments(c) ==
    /\ At(c, "purge")
    /\ payments' = [p \in Id |-> IF Exists(p) THEN [payments[p] EXCEPT !.status = "deleted"]
                                 ELSE payments[p]]
    /\ Go(c, [proc[c] EXCEPT !.at = "logins"])
    /\ UNCHANGED <<live, plot, receipts, stripe, bounds>>

PurgeLogins(c) ==
    /\ At(c, "logins")
    /\ plot' = [plot EXCEPT !.login = FALSE]
    /\ Go(c, [proc[c] EXCEPT !.at = "unit"])
    /\ UNCHANGED <<live, payments, receipts, stripe, bounds>>

PurgeUnit(c) ==
    /\ At(c, "unit")
    /\ plot' = [plot EXCEPT !.there = FALSE]
    /\ Finish(c)
    /\ UNCHANGED <<live, payments, receipts, stripe, bounds>>

(***************************************************************************)
(* The environment.                                                         *)
(***************************************************************************)
CardSucceeds(i) ==
    /\ intents[i].status = "open"
    /\ intents' = [intents EXCEPT ![i].status = "succeeded"]
    /\ events' = events \cup {i}
    /\ UNCHANGED <<live, store, key, proc, bounds>>

StripeCancels(i) ==
    /\ intents[i].status = "open"
    /\ intents' = [intents EXCEPT ![i].status = "canceled"]
    /\ UNCHANGED <<live, store, key, events, proc, bounds>>

\* A request dies with its process, or an await it makes throws.
Fail(c) ==
    /\ ~At(c, "idle") /\ failures < MaxFailures
    /\ failures' = failures + 1
    /\ Finish(c)
    /\ UNCHANGED <<live, store, stripe, saves>>

\* What a request in flight does next.
Proceed(c) ==
    \/ LoadPayments(c) \/ EnsureRow(c)
    \/ ReuseIntent(c) \/ IntentUnusable(c) \/ PostIntent(c) \/ StoreIntent(c)
    \/ AskStripe(c) \/ Settle(c) \/ WriteReceipt(c)
    \/ PurgePayments(c) \/ PurgeLogins(c) \/ PurgeUnit(c)

Arrive(c) ==
    \/ OpenPortal(c) \/ DeleteUnit(c)
    \/ \E p \in Id : Pay(c, p) \/ ConfirmPayment(c, p)
    \/ \E i \in Intent : DeliverEvent(c, i)

Next ==
    \/ \E c \in Caller : Arrive(c) \/ Proceed(c) \/ Fail(c)
    \/ UpsertUnit \/ AdvanceMilestone
    \/ \E i \in Intent : CardSucceeds(i) \/ StripeCancels(i)

Spec == Init /\ [][Next]_vars

(***************************************************************************)
(* A request in flight goes on, and Stripe resends an event for as long as  *)
(* it is not acknowledged: a server that keeps answering others will        *)
(* eventually take it.                                                      *)
(***************************************************************************)
FairSpec ==
    /\ Spec
    /\ \A c \in Caller : WF_vars(Proceed(c))
    /\ \A i \in Intent : SF_vars(\E c \in Caller : DeliverEvent(c, i))

-------------------------------------------------------------------------------
(***************************************************************************)
(* What holds.                                                              *)
(***************************************************************************)

\* However many times the buyer clicks, confirms or Stripe calls back, one payment
\* writes one receipt into the deal's trail (settlePayment's compare-and-set).
OneReceipt == \A p \in Id : receipts[p] <= 1

\* With a card processor, a payment is dated as settled only when Stripe took the
\* money for it: the browser's word is never enough.
SettledWasCharged ==
    \A p \in Id :
        live /\ payments[p].paidAt = "settled" =>
            \E i \in Intent : intents[i].payment = p /\ intents[i].status = "succeeded"

\* Callers racing with intentFor are answered one intent: no payment ever has two
\* that a card can be charged on.
OneIntentPerPayment ==
    \A i, j \in Intent :
        i # j /\ intents[i].status # "none" /\ intents[j].status # "none" =>
            intents[i].payment # intents[j].payment

\* Nothing takes a payment back: once PAID a row keeps that status for as long as
\* it exists, whatever a page load that read it unpaid still has to write.
PaidStays ==
    [][\A p \in Id : payments[p].status = "PAID" => payments'[p].status \in {"PAID", "deleted"}]_vars

\* Money Stripe took reaches the ledger, even if the browser never comes back and
\* the request that was recording it dies, unless the row itself is deleted.
ChargeReachesLedger ==
    \A i \in Intent :
        intents[i].status = "succeeded" ~> intents[i].payment \in Closed

(***************************************************************************)
(* What the code's comments say and its interleavings break.                *)
(***************************************************************************)

\* "Money that arrived is not deletable" (sales.deleteUnit): a settled payment is
\* never removed.
MoneyIsNotDeleted ==
    [][\A p \in Id : payments[p].status = "PAID" => payments'[p].status # "deleted"]_vars

\* "a settled payment is a receipt: the amount and the date are what happened"
\* (ensurePayments): neither changes once the row is PAID.
ReceiptNotRewritten ==
    [][\A p \in Id : payments[p].status = "PAID" =>
        <<payments'[p].amount, payments'[p].paidAt>> = <<payments[p].amount, payments[p].paidAt>>]_vars

\* The amount a settled row states is the amount Stripe charged for it.
StatedIsCharged ==
    \A p \in Id :
        live /\ payments[p].status = "PAID" /\ payments[p].paidAt = "settled" =>
            \E i \in Intent : intents[i].payment = p /\ intents[i].status = "succeeded"
                                /\ intents[i].amount = payments[p].amount

\* "Two intents for one deposit is a buyer charged twice" (intentFor): at most one
\* charge for each row of the schedule.
OneChargePerDeposit ==
    \A i, j \in Intent :
        i # j /\ intents[i].status = "succeeded" /\ intents[j].status = "succeeded" =>
            payments[intents[i].payment].kind # payments[intents[j].payment].kind

\* "a usable intent is reused; one Stripe has since cancelled is not, and falls
\* through to a fresh one" (intentFor): a POST never answers a cancelled intent.
FreshIntent ==
    [][\A c \in Caller : At(c, "post") /\ At(c, "store")' =>
        intents[proc'[c].intent].status # "canceled"]_vars
===============================================================================
