------------------------------- MODULE MoneyProofs -------------------------------
(***************************************************************************)
(* What holds of money.  Of the payments of buyers (Payments): settling     *)
(* once and only what was charged, for any number of requests, payments,    *)
(* intents, schedule rows and prices, and however many requests die half    *)
(* way.  Of the calculation engine (MCFigures): what its operators return   *)
(* for every sample, plan, book and ledger; what it returns for an          *)
(* appraisal is in ValuationProofs.                                         *)
(***************************************************************************)
EXTENDS Payments, MCFigures, FiniteSetTheorems, WellFoundedInduction, TLAPS

-----------------------------------------------------------------------------
(* Payments                                                                 *)

\* The receipt of a payment is unwritten, being written by one request, or written.
ReceiptOnce ==
    /\ \A p \in Id :
        /\ receipts[p] \in {0, 1}
        /\ receipts[p] = 1 => p \in Closed
    /\ \A c \in Caller : At(c, "receipt") => proc[c].payment \in Closed /\ receipts[proc[c].payment] = 0
    /\ \A c, d \in Caller :
        At(c, "receipt") /\ At(d, "receipt") /\ c # d => proc[c].payment # proc[d].payment

\* Every intent anyone holds is the one Stripe made for that payment.
Owned ==
    /\ \A i \in Intent : intents[i].status # "none" => intents[i].payment \in Id /\ key[intents[i].payment] = i
    /\ \A p \in Id : key[p] # None => intents[key[p]].status # "none" /\ intents[key[p]].payment = p
    /\ \A p \in Id : payments[p].intent # None => key[p] = payments[p].intent
    /\ \A c \in Caller : proc[c].at \in {"get", "store", "ask"} =>
        proc[c].intent # None /\ key[proc[c].payment] = proc[c].intent
    /\ \A i \in events : intents[i].status = "succeeded"

Taken(p) == key[p] # None /\ intents[key[p]].status = "succeeded"

\* Whoever is about to settle knows that the money was taken.
Charged ==
    /\ \A p \in Id : live /\ payments[p].paidAt = "settled" => Taken(p)
    /\ \A c \in Caller : live /\ At(c, "settle") => Taken(proc[c].payment)

IInv == TypeOK /\ ReceiptOnce /\ Owned /\ Charged

-------------------------------------------------------------------------------

LEMMA IdleTyped == Idle \in Request /\ FirstPlot \in Plot /\ Idle.at = "idle"
<1>1. AnyPrice \in Price
    BY PaymentsAssumption DEF AnyPrice
<1>2. 1 \in Id /\ 1 \in Kind /\ 0 \in Progress
    BY PaymentsAssumption DEF Id, Kind, Progress
<1>3. Charge[1][AnyPrice] \in Amount
    BY <1>1, <1>2 DEF Amount
<1>4. FirstPlot \in Plot
    BY <1>1, <1>2 DEF FirstPlot, Plot
<1>5. QED
    BY <1>2, <1>3, <1>4 DEF Idle, Request

LEMMA InitIInv == Init => IInv
<1>1. SUFFICES ASSUME Init PROVE IInv
    OBVIOUS
<1>2. 1 \in Kind /\ Charge[1][AnyPrice] \in Amount
    BY IdleTyped DEF Idle, Request
<1>3. TypeOK
    BY <1>1, <1>2, IdleTyped, PaymentsAssumption DEF Init, TypeOK, Row, StripeIntent
<1>4. ReceiptOnce
    BY <1>1, IdleTyped DEF Init, ReceiptOnce, At
<1>5. Owned /\ Charged
    BY <1>1, IdleTyped DEF Init, Owned, Charged, At
<1>6. QED
    BY <1>3, <1>4, <1>5 DEF IInv

(***************************************************************************)
(* Types.                                                                   *)
(***************************************************************************)

LEMMA GoTyped ==
    ASSUME TypeOK, NEW c \in Caller, NEW r \in Request, Go(c, r)
    PROVE  proc' \in [Caller -> Request]
BY DEF TypeOK, Go

LEMMA FinishTyped ==
    ASSUME TypeOK, NEW c \in Caller, Finish(c)
    PROVE  proc' \in [Caller -> Request]
BY GoTyped, IdleTyped DEF Finish

LEMMA Resumed ==
    ASSUME TypeOK, NEW c \in Caller
    PROVE  /\ proc[c] \in Request
           /\ \A step \in {"settle", "receipt", "post", "logins", "unit"} :
                [proc[c] EXCEPT !.at = step] \in Request
           /\ \A i \in Intent : [proc[c] EXCEPT !.at = "store", !.intent = i] \in Request
<1> DEFINE r == proc[c]
<1>1. r \in Request
    BY DEF TypeOK
<1>2. /\ \A step \in {"settle", "receipt", "post", "logins", "unit"} : [r EXCEPT !.at = step] \in Request
      /\ \A i \in Intent : [r EXCEPT !.at = "store", !.intent = i] \in Request
    <2> HIDE DEF r
    <2> QED BY <1>1 DEF Request
<1> QED BY <1>1, <1>2

LEMMA NextRowTyped ==
    ASSUME TypeOK, NEW c \in Caller, NextRow(c)
    PROVE  proc' \in [Caller -> Request]
<1> DEFINE r == proc[c]
<1>1. r \in Request
    BY DEF TypeOK
<1>2. CASE r.row = Kinds
    BY <1>2, FinishTyped DEF NextRow
<1>3. CASE r.row # Kinds
    <2>1. [r EXCEPT !.row = @ + 1] \in Request
        <3>1. r.row \in 1..Kinds /\ Kinds \in Nat
            BY <1>1, PaymentsAssumption DEF Request, Kind
        <3>2. r.row + 1 \in Kind
            BY <1>3, <3>1 DEF Kind
        <3> HIDE DEF r
        <3> QED BY <1>1, <3>2 DEF Request
    <2> QED BY <1>3, <2>1, GoTyped DEF NextRow
<1> QED BY <1>2, <1>3

LEMMA OwedTyped ==
    ASSUME TypeOK, NEW c \in Caller
    PROVE  Owed(c) \in Amount /\ proc[c].row \in Kind
BY DEF TypeOK, Request, Plot, Owed, Amount

LEMMA EnsureRowTyped ==
    ASSUME TypeOK, NEW c \in Caller, EnsureRow(c)
    PROVE  TypeOK'
<1>1. UNCHANGED <<live, plot, receipts, intents, key, events, saves, failures>>
    BY DEF EnsureRow, stripe, bounds
<1>2. payments' \in [Id -> Row] /\ proc' \in [Caller -> Request]
    <2>1. CASE CreatePayment(c)
        <3>1. CASE UNCHANGED payments /\ Finish(c)
            BY <3>1, FinishTyped DEF TypeOK
        <3>2. CASE Unused # {}
            <4>1. PICK p \in Unused : payments' = [payments EXCEPT ![p] =
                 [status |-> IF Due(c) THEN "PAID" ELSE "PENDING", kind |-> proc[c].row,
                  amount |-> Owed(c), paidAt |-> IF Due(c) THEN "milestone" ELSE "never",
                  intent |-> None]]
                BY <2>1, <3>2 DEF CreatePayment
            <4>2. [status |-> IF Due(c) THEN "PAID" ELSE "PENDING", kind |-> proc[c].row,
                   amount |-> Owed(c), paidAt |-> IF Due(c) THEN "milestone" ELSE "never",
                   intent |-> None] \in Row
                BY OwedTyped DEF Row
            <4>3. payments' \in [Id -> Row]
                BY <4>1, <4>2 DEF TypeOK
            <4>4. NextRow(c)
                BY <2>1, <3>2 DEF CreatePayment
            <4> QED BY <4>3, <4>4, NextRowTyped
        <3> QED BY <2>1, <3>1, <3>2 DEF CreatePayment
    <2>2. ASSUME NEW f \in Found(c), FollowPlot(c, f)
          PROVE  payments' \in [Id -> Row] /\ proc' \in [Caller -> Request]
        <3>1. f.id \in Id
            BY DEF Found, TypeOK, Request, Loaded
        <3>2. CASE UNCHANGED payments /\ Finish(c)
            BY <3>2, FinishTyped DEF TypeOK
        <3>3. CASE payments' = [payments EXCEPT ![f.id] = Followed(c, @)] /\ NextRow(c)
            <4> DEFINE row == payments[f.id]
            <4>1. row \in Row
                BY <3>1 DEF TypeOK
            <4>2. Followed(c, row) \in Row
                <5>1. Owed(c) \in Amount
                    BY OwedTyped
                <5> HIDE DEF row
                <5> QED BY <4>1, <5>1 DEF Followed, Row
            <4>3. payments' \in [Id -> Row]
                BY <3>1, <3>3, <4>2 DEF TypeOK
            <4> QED BY <3>3, <4>3, NextRowTyped
        <3> QED BY <2>2, <3>2, <3>3 DEF FollowPlot
    <2>3. ASSUME NEW f \in Found(c), LeaveRow(c, f)
          PROVE  payments' \in [Id -> Row] /\ proc' \in [Caller -> Request]
        BY <2>3, NextRowTyped DEF LeaveRow, TypeOK
    <2> QED BY <2>1, <2>2, <2>3 DEF EnsureRow
<1> QED BY <1>1, <1>2 DEF TypeOK

LEMMA PostIntentTyped ==
    ASSUME TypeOK, NEW c \in Caller, PostIntent(c)
    PROVE  TypeOK'
<1> DEFINE p == proc[c].payment
<1>1. UNCHANGED <<live, plot, payments, receipts, events, saves, failures>>
    BY DEF PostIntent, store, bounds
<1>2. p \in Id /\ proc[c].amount \in Amount /\ key[p] \in Intent \cup {None}
    BY DEF TypeOK, Request
<1>3. CASE key[p] # None
    <2>1. Go(c, [proc[c] EXCEPT !.at = "store", !.intent = key[p]]) /\ UNCHANGED <<intents, key>>
        BY <1>3 DEF PostIntent, Answer
    <2>2. [proc[c] EXCEPT !.at = "store", !.intent = key[p]] \in Request
        BY <1>2, <1>3, Resumed
    <2> QED BY <1>1, <2>1, <2>2, GoTyped DEF TypeOK
<1>4. CASE key[p] = None
    <2>1. PICK i \in Intent :
            /\ intents' = [intents EXCEPT ![i] =
                 [status |-> "open", payment |-> p, amount |-> proc[c].amount]]
            /\ key' = [key EXCEPT ![p] = i]
            /\ Go(c, [proc[c] EXCEPT !.at = "store", !.intent = i])
        BY <1>4 DEF PostIntent, Answer
    <2>2. [proc[c] EXCEPT !.at = "store", !.intent = i] \in Request
        BY Resumed
    <2>3. proc' \in [Caller -> Request]
        BY <2>1, <2>2, GoTyped
    <2>4. intents' \in [Intent -> StripeIntent]
        BY <1>2, <2>1 DEF TypeOK, StripeIntent
    <2>5. key' \in [Id -> Intent \cup {None}]
        BY <2>1 DEF TypeOK
    <2> QED BY <1>1, <2>3, <2>4, <2>5 DEF TypeOK
<1> QED BY <1>3, <1>4

\* What every other request step does to the types.
LEMMA StepTyped ==
    ASSUME TypeOK, NEW c \in Caller,
           LoadPayments(c) \/ ReuseIntent(c) \/ IntentUnusable(c) \/ StoreIntent(c)
             \/ AskStripe(c) \/ Settle(c) \/ WriteReceipt(c)
             \/ PurgePayments(c) \/ PurgeLogins(c) \/ PurgeUnit(c) \/ Fail(c)
    PROVE  TypeOK'
<1> DEFINE p == proc[c].payment
<1>1. p \in Id /\ proc[c].intent \in Intent \cup {None} /\ proc[c].event \in Intent \cup {None}
    BY DEF TypeOK, Request
<1>2. CASE LoadPayments(c)
    <2> DEFINE l == {[id |-> q, kind |-> payments[q].kind, amount |-> payments[q].amount,
                      paid |-> payments[q].status = "PAID"] : q \in Rows}
               r == proc[c]
    <2>1. l \in SUBSET Loaded
        <3>1. ASSUME NEW q \in Rows
              PROVE  [id |-> q, kind |-> payments[q].kind, amount |-> payments[q].amount,
                      paid |-> payments[q].status = "PAID"] \in Loaded
            <4>1. q \in Id
                BY DEF Rows
            <4>2. payments[q].kind \in Kind /\ payments[q].amount \in Amount
                BY <4>1 DEF TypeOK, Row
            <4>3. (payments[q].status = "PAID") \in BOOLEAN
                OBVIOUS
            <4> QED BY <4>1, <4>2, <4>3 DEF Loaded
        <3> QED BY <3>1
    <2>2. r \in Request
        BY DEF TypeOK
    <2>3. [r EXCEPT !.at = "ensure", !.loaded = l] \in Request
        <3> HIDE DEF r, l
        <3> QED BY <2>1, <2>2 DEF Request
    <2>4. proc' \in [Caller -> Request]
        BY <1>2, <2>3, GoTyped DEF LoadPayments
    <2> QED BY <1>2, <2>4 DEF LoadPayments, TypeOK, store, stripe, bounds
<1>3. CASE ReuseIntent(c)
    BY <1>3, FinishTyped DEF ReuseIntent, TypeOK, store, stripe, bounds
<1>4. CASE IntentUnusable(c)
    BY <1>4, Resumed, GoTyped DEF IntentUnusable, TypeOK, store, stripe, bounds
<1>5. CASE StoreIntent(c)
    <2> DEFINE row == payments[p]
    <2>1. row \in Row
        BY <1>1 DEF TypeOK
    <2>2. [row EXCEPT !.intent = proc[c].intent] \in Row
        <3> HIDE DEF row
        <3> QED BY <1>1, <2>1 DEF Row
    <2>3. payments' \in [Id -> Row]
        BY <1>1, <1>5, <2>2 DEF StoreIntent, TypeOK
    <2> QED BY <1>5, <2>3, FinishTyped DEF StoreIntent, TypeOK, stripe, bounds
<1>6. CASE AskStripe(c)
    BY <1>6, Resumed, GoTyped, FinishTyped DEF AskStripe, TypeOK, store, stripe, bounds
<1>7. CASE Settle(c)
    <2> DEFINE row == payments[p]
    <2>1. row \in Row
        BY <1>1 DEF TypeOK
    <2>2. [row EXCEPT !.status = "PAID", !.paidAt = "settled"] \in Row
        <3> HIDE DEF row
        <3> QED BY <2>1 DEF Row
    <2>3. payments' \in [Id -> Row]
        BY <1>1, <1>7, <2>2 DEF Settle, TypeOK
    <2>4. proc' \in [Caller -> Request]
        BY <1>7, Resumed, GoTyped, FinishTyped DEF Settle
    <2>5. events' \in SUBSET Intent
        BY <1>7 DEF Settle, TypeOK
    <2> QED BY <1>7, <2>3, <2>4, <2>5 DEF Settle, TypeOK, bounds
<1>8. CASE WriteReceipt(c)
    <2>1. receipts' \in [Id -> Nat]
        BY <1>1, <1>8 DEF WriteReceipt, TypeOK
    <2> QED BY <1>8, <2>1, FinishTyped DEF WriteReceipt, TypeOK, bounds
<1>9. CASE PurgePayments(c)
    <2>1. \A q \in Id : [payments[q] EXCEPT !.status = "deleted"] \in Row
        <3> TAKE q \in Id
        <3> DEFINE row == payments[q]
        <3>1. row \in Row
            BY DEF TypeOK
        <3> HIDE DEF row
        <3>2. [row EXCEPT !.status = "deleted"] \in Row
            BY <3>1 DEF Row
        <3> USE DEF row
        <3> QED BY <3>2
    <2>2. payments' \in [Id -> Row]
        BY <1>9, <2>1 DEF PurgePayments, TypeOK
    <2>3. proc' \in [Caller -> Request]
        BY <1>9, Resumed, GoTyped DEF PurgePayments
    <2> QED BY <1>9, <2>2, <2>3 DEF PurgePayments, TypeOK, stripe, bounds
<1>10. CASE PurgeLogins(c)
    <2>1. plot' \in Plot
        BY <1>10 DEF PurgeLogins, TypeOK, Plot
    <2>2. proc' \in [Caller -> Request]
        BY <1>10, Resumed, GoTyped DEF PurgeLogins
    <2> QED BY <1>10, <2>1, <2>2 DEF PurgeLogins, TypeOK, stripe, bounds
<1>11. CASE PurgeUnit(c)
    <2>1. plot' \in Plot
        BY <1>11 DEF PurgeUnit, TypeOK, Plot
    <2> QED BY <1>11, <2>1, FinishTyped DEF PurgeUnit, TypeOK, stripe, bounds
<1>12. CASE Fail(c)
    BY <1>12, FinishTyped, PaymentsAssumption DEF Fail, TypeOK, store, stripe
<1> QED BY <1>2, <1>3, <1>4, <1>5, <1>6, <1>7, <1>8, <1>9, <1>10, <1>11, <1>12

LEMMA ArriveTyped ==
    ASSUME TypeOK, Owned, NEW c \in Caller, Arrive(c)
    PROVE  TypeOK'
<1>1. CASE OpenPortal(c)
    <2>1. [Idle EXCEPT !.at = "rows", !.plot = plot] \in Request
        BY IdleTyped DEF Request, Idle, TypeOK
    <2> QED BY <1>1, <2>1, GoTyped DEF OpenPortal, TypeOK, store, stripe, bounds
<1>2. CASE DeleteUnit(c)
    <2>1. [Idle EXCEPT !.at = "purge"] \in Request
        BY IdleTyped DEF Request, Idle
    <2> QED BY <1>2, <2>1, GoTyped DEF DeleteUnit, TypeOK, store, stripe, bounds
<1>3. ASSUME NEW p \in Id, Pay(c, p) PROVE TypeOK'
    <2> DEFINE at == IF ~live THEN "settle" ELSE IF payments[p].intent # None THEN "get" ELSE "post"
    <2>1. payments[p].intent \in Intent \cup {None} /\ payments[p].amount \in Amount
        BY DEF TypeOK, Row
    <2>2. [Idle EXCEPT !.payment = p, !.intent = payments[p].intent,
                       !.amount = payments[p].amount, !.at = at] \in Request
        BY <2>1, IdleTyped DEF Request, Idle
    <2> QED BY <1>3, <2>2, GoTyped DEF Pay, TypeOK, store, stripe, bounds
<1>4. ASSUME NEW p \in Id, ConfirmPayment(c, p) PROVE TypeOK'
    <2>1. payments[p].intent \in Intent \cup {None}
        BY DEF TypeOK, Row
    <2>2. [Idle EXCEPT !.at = "ask", !.payment = p, !.intent = payments[p].intent] \in Request
        BY <2>1, IdleTyped DEF Request, Idle
    <2> QED BY <1>4, <2>2, GoTyped DEF ConfirmPayment, TypeOK, store, stripe, bounds
<1>5. ASSUME NEW i \in Intent, DeliverEvent(c, i) PROVE TypeOK'
    <2>1. intents[i].payment \in Id
        BY <1>5 DEF DeliverEvent, Owned
    <2>2. [Idle EXCEPT !.at = "settle", !.payment = intents[i].payment, !.event = i] \in Request
        BY <2>1, IdleTyped DEF Request, Idle
    <2>3. CASE Exists(intents[i].payment)
        BY <1>5, <2>2, <2>3, GoTyped DEF DeliverEvent, TypeOK, store, bounds, Unacknowledged
    <2>4. CASE ~Exists(intents[i].payment)
        BY <1>5, <2>4 DEF DeliverEvent, TypeOK, store, bounds
    <2> QED BY <2>3, <2>4
<1> QED BY <1>1, <1>2, <1>3, <1>4, <1>5 DEF Arrive

LEMMA Typing == TypeOK /\ Owned /\ [Next]_vars => TypeOK'
<1> SUFFICES ASSUME TypeOK, Owned, [Next]_vars PROVE TypeOK'
    OBVIOUS
<1>1. CASE UNCHANGED vars
    BY <1>1 DEF TypeOK, vars, store, stripe, bounds
<1>2. ASSUME NEW c \in Caller, Arrive(c) PROVE TypeOK'
    BY <1>2, ArriveTyped
<1>3. ASSUME NEW c \in Caller, Proceed(c) \/ Fail(c) PROVE TypeOK'
    BY <1>3, StepTyped, EnsureRowTyped, PostIntentTyped DEF Proceed
<1>4. CASE UpsertUnit
    <2>1. plot' \in Plot
        BY <1>4 DEF UpsertUnit, TypeOK, Plot
    <2> QED BY <1>4, <2>1, PaymentsAssumption DEF UpsertUnit, TypeOK, stripe
<1>5. CASE AdvanceMilestone
    <2>1. Advanced(plot.progress) \in Progress
        BY PaymentsAssumption DEF TypeOK, Plot, Advanced, Progress
    <2>2. plot' \in Plot
        BY <1>5, <2>1 DEF AdvanceMilestone, TypeOK, Plot
    <2> QED BY <1>5, <2>2, PaymentsAssumption DEF AdvanceMilestone, TypeOK, stripe
<1>6. ASSUME NEW i \in Intent, CardSucceeds(i) \/ StripeCancels(i) PROVE TypeOK'
    <2> DEFINE moved(s) == [intents EXCEPT ![i].status = s]
    <2>1. ASSUME NEW s \in {"canceled", "succeeded"} PROVE moved(s) \in [Intent -> StripeIntent]
        <3>1. intents[i] \in StripeIntent /\ intents \in [Intent -> StripeIntent]
            BY DEF TypeOK
        <3>2. [intents[i] EXCEPT !.status = s] \in StripeIntent
            BY <3>1 DEF StripeIntent
        <3> QED BY <3>1, <3>2
    <2>2. intents' \in [Intent -> StripeIntent]
        BY <1>6, <2>1 DEF CardSucceeds, StripeCancels
    <2> QED BY <1>6, <2>2 DEF CardSucceeds, StripeCancels, TypeOK, store, bounds
<1> QED BY <1>1, <1>2, <1>3, <1>4, <1>5, <1>6 DEF Next

-------------------------------------------------------------------------------
(***************************************************************************)
(* The invariant.                                                           *)
(***************************************************************************)

\* A step of one request that settles nothing and writes no receipt.
Harmless(c, r) ==
    /\ Go(c, r)
    /\ UNCHANGED <<live, receipts, intents, key>>
    /\ events' \subseteq events
    /\ \A p \in Id : p \in Closed => p \in Closed'
    /\ \A p \in Id : payments'[p].intent \in {payments[p].intent, None, key[p]}
    /\ \A p \in Id : payments'[p].paidAt = "settled" => payments[p].paidAt = "settled"
    /\ r.at # "receipt"
    /\ r.at \in {"get", "store", "ask"} => r.intent # None /\ key[r.payment] = r.intent
    /\ r.at = "settle" /\ live => Taken(r.payment)

LEMMA HarmlessPreserves ==
    ASSUME IInv, TypeOK', NEW c \in Caller, NEW r \in Request, Harmless(c, r)
    PROVE  IInv'
<1>1. proc \in [Caller -> Request] /\ proc' = [proc EXCEPT ![c] = r]
    BY DEF IInv, TypeOK, Harmless, Go
<1>2. proc'[c] = r /\ \A d \in Caller : d # c => proc'[d] = proc[d]
    BY <1>1
<1>3. UNCHANGED <<live, receipts, intents, key>>
    BY DEF Harmless
<1>4. ReceiptOnce'
    <2>1. \A p \in Id : receipts'[p] \in {0, 1} /\ (receipts'[p] = 1 => p \in Closed')
        BY <1>3 DEF IInv, ReceiptOnce, Harmless
    <2>2. \A d \in Caller : At(d, "receipt")' => d # c /\ At(d, "receipt") /\ proc'[d] = proc[d]
        BY <1>2 DEF At, Harmless
    <2>3. \A d \in Caller : proc[d].payment \in Id
        BY <1>1 DEF Request
    <2>4. \A d \in Caller : At(d, "receipt")' =>
              proc'[d].payment \in Closed' /\ receipts'[proc'[d].payment] = 0
        BY <1>3, <2>2, <2>3 DEF IInv, ReceiptOnce, Harmless
    <2>5. \A d, e \in Caller :
              At(d, "receipt")' /\ At(e, "receipt")' /\ d # e => proc'[d].payment # proc'[e].payment
        BY <2>2 DEF IInv, ReceiptOnce
    <2> QED BY <2>1, <2>4, <2>5 DEF ReceiptOnce
<1>5. Owned'
    <2>1. \A p \in Id : payments'[p].intent # None => key'[p] = payments'[p].intent
        BY <1>3 DEF IInv, Owned, Harmless
    <2>2. \A d \in Caller : proc'[d].at \in {"get", "store", "ask"} =>
              proc'[d].intent # None /\ key'[proc'[d].payment] = proc'[d].intent
        BY <1>2, <1>3 DEF IInv, Owned, Harmless
    <2>3. \A i \in events' : intents'[i].status = "succeeded"
        BY <1>3 DEF IInv, Owned, Harmless
    <2> QED BY <1>3, <2>1, <2>2, <2>3 DEF IInv, Owned
<1>6. Charged'
    <2>1. \A p : Taken(p)' <=> Taken(p)
        BY <1>3 DEF Taken
    <2>2. \A d \in Caller : live' /\ At(d, "settle")' => Taken(proc'[d].payment)
        BY <1>2, <1>3 DEF IInv, Charged, Harmless, At
    <2> QED BY <1>3, <2>1, <2>2 DEF IInv, Charged, Harmless
<1> QED BY <1>4, <1>5, <1>6 DEF IInv

LEMMA FinishHarmless ==
    ASSUME IInv, TypeOK', NEW c \in Caller, Finish(c),
           UNCHANGED <<live, receipts, intents, key>>, events' \subseteq events,
           \A p \in Id : p \in Closed => p \in Closed',
           \A p \in Id : payments'[p].intent \in {payments[p].intent, None, key[p]},
           \A p \in Id : payments'[p].paidAt = "settled" => payments[p].paidAt = "settled"
    PROVE  IInv'
BY HarmlessPreserves, IdleTyped DEF Finish, Harmless

\* The steps that only change the locals of their request.
LEMMA LocalPreserves ==
    ASSUME IInv, TypeOK', NEW c \in Caller, NEW r \in Request, Go(c, r),
           UNCHANGED <<live, store, intents, key>>, events' \subseteq events,
           r.at # "receipt",
           r.at \in {"get", "store", "ask"} => r.intent # None /\ key[r.payment] = r.intent,
           r.at = "settle" /\ live => Taken(r.payment)
    PROVE  IInv'
<1>1. Harmless(c, r)
    BY DEF Harmless, store, Closed
<1> QED BY <1>1, HarmlessPreserves

LEMMA ArrivePreserves ==
    ASSUME IInv, TypeOK', NEW c \in Caller, Arrive(c)
    PROVE  IInv'
<1> USE IdleTyped
<1>1. CASE OpenPortal(c)
    <2> DEFINE r == [Idle EXCEPT !.at = "rows", !.plot = plot]
    <2>1. r \in Request /\ r.at = "rows"
        BY DEF Request, Idle, IInv, TypeOK
    <2> QED BY <1>1, <2>1, LocalPreserves DEF OpenPortal, stripe
<1>2. CASE DeleteUnit(c)
    <2> DEFINE r == [Idle EXCEPT !.at = "purge"]
    <2>1. r \in Request /\ r.at = "purge"
        BY DEF Request, Idle
    <2> QED BY <1>2, <2>1, LocalPreserves DEF DeleteUnit, stripe
<1>3. ASSUME NEW p \in Id, Pay(c, p) PROVE IInv'
    <2> DEFINE at == IF ~live THEN "settle" ELSE IF payments[p].intent # None THEN "get" ELSE "post"
               r == [Idle EXCEPT !.payment = p, !.intent = payments[p].intent,
                                 !.amount = payments[p].amount, !.at = at]
    <2>1. payments[p].intent \in Intent \cup {None} /\ payments[p].amount \in Amount
        BY DEF IInv, TypeOK, Row
    <2>2. r \in Request /\ r.at = at /\ r.payment = p /\ r.intent = payments[p].intent
        BY <2>1 DEF Request, Idle
    <2>3. r.at \in {"get", "store", "ask"} => r.intent # None /\ key[r.payment] = r.intent
        BY <2>2 DEF IInv, Owned
    <2>4. r.at # "receipt" /\ (r.at = "settle" => ~live)
        BY <2>2
    <2>5. Go(c, r) /\ UNCHANGED <<live, store, intents, key, events>>
        BY <1>3 DEF Pay, stripe
    <2> HIDE DEF r
    <2> QED BY <2>2, <2>3, <2>4, <2>5, LocalPreserves
<1>4. ASSUME NEW p \in Id, ConfirmPayment(c, p) PROVE IInv'
    <2> DEFINE r == [Idle EXCEPT !.at = "ask", !.payment = p, !.intent = payments[p].intent]
    <2>1. payments[p].intent \in Intent \cup {None}
        BY DEF IInv, TypeOK, Row
    <2>2. r \in Request /\ r.at = "ask" /\ r.payment = p /\ r.intent = payments[p].intent
        BY <2>1 DEF Request, Idle
    <2>3. r.intent # None /\ key[r.payment] = r.intent
        BY <1>4, <2>2 DEF IInv, Owned, ConfirmPayment
    <2>4. Go(c, r) /\ UNCHANGED <<live, store, intents, key, events>>
        BY <1>4 DEF ConfirmPayment, stripe
    <2> HIDE DEF r
    <2> QED BY <2>2, <2>3, <2>4, LocalPreserves
<1>5. ASSUME NEW i \in Intent, DeliverEvent(c, i) PROVE IInv'
    <2> DEFINE p == intents[i].payment
               r == [Idle EXCEPT !.at = "settle", !.payment = p, !.event = i]
    <2>1. p \in Id /\ key[p] = i /\ intents[i].status = "succeeded"
        BY <1>5 DEF DeliverEvent, IInv, Owned
    <2>2. r \in Request /\ r.at = "settle" /\ r.payment = p
        BY <2>1 DEF Request, Idle
    <2>3. Taken(r.payment)
        BY <2>1, <2>2, PaymentsAssumption DEF Taken
    <2>4. UNCHANGED <<live, store, intents, key>>
        BY <1>5 DEF DeliverEvent
    <2>5. CASE Exists(p)
        <3>1. Go(c, r) /\ events' = events
            BY <1>5, <2>5 DEF DeliverEvent, Unacknowledged
        <3> HIDE DEF r
        <3> QED BY <2>2, <2>3, <2>4, <3>1, LocalPreserves
    <2>6. CASE ~Exists(p)
        <3>1. proc' = proc /\ events' \subseteq events
            BY <1>5, <2>6 DEF DeliverEvent
        <3> QED BY <2>4, <3>1 DEF IInv, ReceiptOnce, Owned, Charged, At, Taken, Closed, store
    <2> QED BY <2>5, <2>6
<1> QED BY <1>1, <1>2, <1>3, <1>4, <1>5 DEF Arrive

LEMMA EnsureRowPreserves ==
    ASSUME IInv, TypeOK', NEW c \in Caller, EnsureRow(c)
    PROVE  IInv'
<1> DEFINE Kept == /\ \A p \in Id : p \in Closed => p \in Closed'
                   /\ \A p \in Id : payments'[p].intent \in {payments[p].intent, None}
                   /\ \A p \in Id : payments'[p].paidAt = "settled" => payments[p].paidAt = "settled"
           Onward == Finish(c) \/ NextRow(c)
<1>0. payments \in [Id -> Row]
    BY DEF IInv, TypeOK
<1>2. Kept /\ Onward
    <2>1. CASE UNCHANGED payments /\ Onward
        BY <2>1 DEF Closed
    <2>2. CASE CreatePayment(c) /\ Unused # {}
        <3>1. PICK p \in Unused : payments' = [payments EXCEPT ![p] =
                 [status |-> IF Due(c) THEN "PAID" ELSE "PENDING", kind |-> proc[c].row,
                  amount |-> Owed(c), paidAt |-> IF Due(c) THEN "milestone" ELSE "never",
                  intent |-> None]]
            BY <2>2 DEF CreatePayment
        <3>2. p \in Id /\ p \notin Closed
            BY DEF Unused, Closed
        <3>3. Onward
            BY <2>2 DEF CreatePayment
        <3> QED BY <1>0, <3>1, <3>2, <3>3 DEF Closed
    <2>3. ASSUME NEW f \in Found(c), FollowPlot(c, f), Exists(f.id)
          PROVE  Kept /\ Onward
        <3>1. payments' = [payments EXCEPT ![f.id] = Followed(c, @)] /\ Onward
            BY <2>3 DEF FollowPlot
        <3>2. f.id \in Id
            BY DEF Found, IInv, TypeOK, Request, Loaded
        <3> DEFINE row == payments[f.id]
        <3>3. row \in Row
            BY <1>0, <3>2
        <3>4. /\ Followed(c, row).intent = row.intent
              /\ Followed(c, row).status \in {row.status, "PAID"}
              /\ Followed(c, row).paidAt \in {row.paidAt, "milestone"}
            <4> HIDE DEF row
            <4> QED BY <3>3 DEF Followed, Row
        <3>5. payments'[f.id] = Followed(c, row) /\ \A p \in Id : p # f.id => payments'[p] = payments[p]
            BY <1>0, <3>1, <3>2
        <3> QED BY <3>1, <3>4, <3>5 DEF Closed
    <2>4. ASSUME NEW f \in Found(c), LeaveRow(c, f) PROVE UNCHANGED payments /\ Onward
        BY <2>4 DEF LeaveRow
    <2> QED BY <2>1, <2>2, <2>3, <2>4 DEF EnsureRow, CreatePayment, FollowPlot
<1>3. UNCHANGED <<live, receipts, intents, key, events>>
    BY DEF EnsureRow, stripe
<1>4. CASE Finish(c)
    BY <1>2, <1>3, <1>4, FinishHarmless
<1>5. CASE NextRow(c) /\ ~Finish(c)
    <2> DEFINE r == [proc[c] EXCEPT !.row = @ + 1]
               old == proc[c]
    <2>1. Go(c, r)
        BY <1>5 DEF NextRow
    <2>2. old \in Request /\ old.at = "ensure"
        BY DEF IInv, TypeOK, EnsureRow, At
    <2>3. r.at = "ensure"
        <3>1. [old EXCEPT !.row = @ + 1].at = old.at
            <4> HIDE DEF old
            <4> QED BY <2>2 DEF Request
        <3> QED BY <2>2, <3>1
    <2>4. r \in Request
        <3>1. proc'[c] = r
            BY <2>1 DEF Go, IInv, TypeOK
        <3> QED BY <3>1 DEF TypeOK
    <2>5. Harmless(c, r)
        <3> HIDE DEF r
        <3> QED BY <1>2, <1>3, <2>1, <2>3 DEF Harmless
    <2> QED BY <2>4, <2>5, HarmlessPreserves
<1> QED BY <1>2, <1>4, <1>5

LEMMA PostIntentPreserves ==
    ASSUME IInv, TypeOK', NEW c \in Caller, PostIntent(c)
    PROVE  IInv'
<1> DEFINE p == proc[c].payment
           old == proc[c]
<1>0. p \in Id /\ old \in Request /\ proc \in [Caller -> Request] /\ None \notin Intent
    BY PaymentsAssumption DEF IInv, TypeOK, Request
<1>1. \A i \in Intent : /\ [old EXCEPT !.at = "store", !.intent = i] \in Request
                         /\ [old EXCEPT !.at = "store", !.intent = i].payment = p
                         /\ [old EXCEPT !.at = "store", !.intent = i].intent = i
                         /\ [old EXCEPT !.at = "store", !.intent = i].at = "store"
    <2>1. old.payment = p
        OBVIOUS
    <2> HIDE DEF old, p
    <2> QED BY <1>0, <2>1 DEF Request
<1>2. UNCHANGED <<live, store, events>>
    BY DEF PostIntent
<1>3. CASE key[p] # None
    <2> DEFINE r == [old EXCEPT !.at = "store", !.intent = key[p]]
    <2>1. key[p] \in Intent
        BY <1>0, <1>3 DEF IInv, TypeOK
    <2>2. Go(c, r) /\ UNCHANGED <<intents, key>>
        BY <1>3 DEF PostIntent, Answer
    <2>3. r \in Request /\ r.payment = p /\ r.intent = key[p] /\ r.at = "store"
        BY <1>1, <2>1
    <2> HIDE DEF r
    <2> QED BY <1>2, <1>3, <2>2, <2>3, LocalPreserves
<1>4. CASE key[p] = None
    <2>1. PICK i \in Intent :
            /\ intents[i].status = "none"
            /\ intents' = [intents EXCEPT ![i] =
                 [status |-> "open", payment |-> p, amount |-> proc[c].amount]]
            /\ key' = [key EXCEPT ![p] = i]
            /\ Go(c, [old EXCEPT !.at = "store", !.intent = i])
        BY <1>4 DEF PostIntent, Answer
    <2> DEFINE r == [old EXCEPT !.at = "store", !.intent = i]
    <2>2. r.payment = p /\ r.intent = i /\ r.at = "store"
        BY <1>1
    <2>3. proc'[c] = r /\ \A d \in Caller : d # c => proc'[d] = proc[d]
        BY <1>0, <2>1 DEF Go
    <2>4. /\ key'[p] = i /\ \A q \in Id : q # p => key'[q] = key[q]
          /\ intents'[i].status = "open" /\ intents'[i].payment = p
          /\ \A j \in Intent : j # i => intents'[j] = intents[j]
        BY <1>0, <2>1 DEF IInv, TypeOK
    <2>5. \A q \in Id : key[q] # i
        BY <1>0, <2>1 DEF IInv, Owned
    <2> HIDE DEF r, old, p
    <2>6. ReceiptOnce'
        BY <1>2, <2>2, <2>3 DEF IInv, ReceiptOnce, At, store, Closed
    <2>7. \A q \in Id : Taken(q) => Taken(q)'
        BY <1>4, <2>4, <2>5 DEF Taken, IInv, TypeOK
    <2>8. Charged'
        <3>1. \A d \in Caller : proc[d].payment \in Id
            BY <1>0 DEF Request
        <3> QED BY <1>2, <2>2, <2>3, <2>7, <3>1 DEF IInv, Charged, At, store
    <2>9. Owned'
        <3>1. \A j \in Intent : intents'[j].status # "none" =>
                  intents'[j].payment \in Id /\ key'[intents'[j].payment] = j
            BY <1>0, <1>4, <2>4 DEF IInv, Owned
        <3>2. \A q \in Id : key'[q] # None =>
                  intents'[key'[q]].status # "none" /\ intents'[key'[q]].payment = q
            BY <1>0, <2>4, <2>5 DEF IInv, Owned, TypeOK
        <3>3. \A q \in Id : payments'[q].intent # None => key'[q] = payments'[q].intent
            BY <1>2, <1>4, <2>4 DEF IInv, Owned, store
        <3>4. \A d \in Caller : proc'[d].at \in {"get", "store", "ask"} =>
                  proc'[d].intent # None /\ key'[proc'[d].payment] = proc'[d].intent
            <4>1. \A d \in Caller : proc[d].payment \in Id
                BY <1>0 DEF Request
            <4> QED BY <1>0, <1>4, <2>2, <2>3, <2>4, <4>1 DEF IInv, Owned
        <3>5. \A j \in events' : intents'[j].status = "succeeded"
            BY <1>2, <2>1, <2>4 DEF IInv, Owned, TypeOK
        <3> QED BY <3>1, <3>2, <3>3, <3>4, <3>5 DEF Owned
    <2> QED BY <2>6, <2>8, <2>9 DEF IInv
<1> QED BY <1>3, <1>4

LEMMA SettlePreserves ==
    ASSUME IInv, TypeOK', NEW c \in Caller, Settle(c)
    PROVE  IInv'
<1> DEFINE p == proc[c].payment
           old == proc[c]
           r == [old EXCEPT !.at = "receipt"]
<1>0. p \in Id /\ old \in Request /\ proc \in [Caller -> Request] /\ payments \in [Id -> Row]
    BY DEF IInv, TypeOK, Request
<1>1. UNCHANGED <<live, plot, receipts, intents, key>>
    BY DEF Settle
<1>2. CASE payments[p].status # "PENDING"
    BY <1>1, <1>2, FinishHarmless DEF Settle, Settleable, Closed
<1>3. CASE payments[p].status = "PENDING"
    <2>1. /\ payments' = [payments EXCEPT ![p].status = "PAID", ![p].paidAt = "settled"]
          /\ Go(c, r) /\ UNCHANGED events
        BY <1>3 DEF Settle, Settleable
    <2>2. r.at = "receipt" /\ r.payment = p
        <3>1. old.payment = p
            OBVIOUS
        <3> HIDE DEF old, p
        <3> QED BY <1>0, <3>1 DEF Request
    <2>3. proc'[c] = r /\ \A d \in Caller : d # c => proc'[d] = proc[d]
        BY <1>0, <2>1 DEF Go
    <2>4. /\ payments'[p].status = "PAID" /\ payments'[p].intent = payments[p].intent
          /\ \A q \in Id : q # p => payments'[q] = payments[q]
        BY <1>0, <2>1 DEF Row
    <2>5. p \notin Closed /\ Closed' = Closed \cup {p}
        BY <1>0, <1>3, <2>4 DEF Closed
    <2>6. receipts[p] = 0
        BY <1>0, <2>5 DEF IInv, ReceiptOnce
    <2>7. \A d \in Caller : At(d, "receipt") => proc[d].payment # p
        BY <2>5 DEF IInv, ReceiptOnce
    <2>8. live => Taken(p)
        BY DEF IInv, Charged, Settle
    <2> HIDE DEF r, old, p
    <2>9. ReceiptOnce'
        BY <1>1, <2>2, <2>3, <2>5, <2>6, <2>7 DEF IInv, ReceiptOnce, At
    <2>10. Owned'
        BY <1>0, <1>1, <2>1, <2>2, <2>3, <2>4 DEF IInv, Owned
    <2>11. Charged'
        <3>1. \A q : Taken(q)' <=> Taken(q)
            BY <1>1 DEF Taken
        <3> QED BY <1>1, <2>2, <2>3, <2>4, <2>8, <3>1 DEF IInv, Charged, At
    <2> QED BY <2>9, <2>10, <2>11 DEF IInv
<1> QED BY <1>2, <1>3

LEMMA WriteReceiptPreserves ==
    ASSUME IInv, TypeOK', NEW c \in Caller, WriteReceipt(c)
    PROVE  IInv'
<1> DEFINE p == proc[c].payment
<1>0. p \in Id /\ proc \in [Caller -> Request] /\ Idle.at = "idle"
    BY IdleTyped DEF IInv, TypeOK, Request
<1>1. UNCHANGED <<live, plot, payments, intents, key>> /\ events' \subseteq events
    BY DEF WriteReceipt
<1>2. proc'[c] = Idle /\ \A d \in Caller : d # c => proc'[d] = proc[d]
    BY <1>0 DEF WriteReceipt, Finish, Go
<1>3. p \in Closed /\ receipts[p] = 0
    BY DEF IInv, ReceiptOnce, WriteReceipt
<1>4. receipts'[p] \in {0, 1} /\ \A q \in Id : q # p => receipts'[q] = receipts[q]
    BY <1>0, <1>3 DEF WriteReceipt, IInv, TypeOK
<1>5. \A d \in Caller : d # c /\ At(d, "receipt") => proc[d].payment # p /\ proc[d].payment \in Id
    BY <1>0 DEF IInv, ReceiptOnce, WriteReceipt, Request
<1> HIDE DEF p
<1>6. Closed' = Closed
    BY <1>1 DEF Closed
<1>7. ReceiptOnce'
    BY <1>0, <1>2, <1>3, <1>4, <1>5, <1>6 DEF IInv, ReceiptOnce, At
<1>8. Owned'
    BY <1>0, <1>1, <1>2 DEF IInv, Owned
<1>9. Charged'
    BY <1>0, <1>1, <1>2 DEF IInv, Charged, At, Taken
<1> QED BY <1>7, <1>8, <1>9 DEF IInv

LEMMA StepPreserves ==
    ASSUME IInv, TypeOK', NEW c \in Caller,
           LoadPayments(c) \/ ReuseIntent(c) \/ IntentUnusable(c) \/ StoreIntent(c)
             \/ AskStripe(c) \/ PurgePayments(c) \/ PurgeLogins(c) \/ PurgeUnit(c) \/ Fail(c)
    PROVE  IInv'
<1> DEFINE old == proc[c]
           p == proc[c].payment
<1>0. old \in Request /\ payments \in [Id -> Row] /\ p \in Id
    BY DEF IInv, TypeOK, Request
<1>1. CASE LoadPayments(c)
    <2> DEFINE l == {[id |-> q, kind |-> payments[q].kind, amount |-> payments[q].amount,
                      paid |-> payments[q].status = "PAID"] : q \in Rows}
               r == [old EXCEPT !.at = "ensure", !.loaded = l]
    <2>1. Go(c, r) /\ UNCHANGED <<live, store, intents, key, events>>
        BY <1>1 DEF LoadPayments, stripe
    <2>2. r \in Request
        <3>1. proc'[c] = r
            BY <2>1 DEF Go, IInv, TypeOK
        <3> QED BY <3>1 DEF TypeOK
    <2>3. r.at = "ensure"
        <3> HIDE DEF old, l
        <3> QED BY <1>0 DEF Request
    <2> HIDE DEF r
    <2> QED BY <2>1, <2>2, <2>3, LocalPreserves
<1>2. CASE ReuseIntent(c)
    BY <1>2, FinishHarmless DEF ReuseIntent, store, stripe, Closed
<1>3. CASE IntentUnusable(c)
    <2> DEFINE r == [old EXCEPT !.at = "post"]
    <2>1. Go(c, r) /\ UNCHANGED <<live, store, intents, key, events>>
        BY <1>3 DEF IntentUnusable, stripe
    <2>2. r \in Request /\ r.at = "post"
        <3> HIDE DEF old
        <3> QED BY <1>0 DEF Request
    <2> HIDE DEF r
    <2> QED BY <2>1, <2>2, LocalPreserves
<1>4. CASE StoreIntent(c)
    <2>1. key[p] = proc[c].intent
        BY <1>4 DEF StoreIntent, At, IInv, Owned
    <2>2. \A q \in Id : /\ payments'[q].status = payments[q].status
                        /\ payments'[q].paidAt = payments[q].paidAt
                        /\ payments'[q].intent \in {payments[q].intent, key[q]}
        BY <1>0, <1>4, <2>1 DEF StoreIntent, Row
    <2> QED BY <1>4, <2>2, FinishHarmless DEF StoreIntent, stripe, Closed
<1>5. CASE AskStripe(c)
    <2>0. UNCHANGED <<live, store, intents, key, events>>
        BY <1>5 DEF AskStripe, stripe
    <2>1. CASE Finish(c)
        BY <2>0, <2>1, FinishHarmless DEF store, Closed
    <2>2. CASE Succeeded(proc[c].intent)
        <3> DEFINE r == [old EXCEPT !.at = "settle"]
        <3>1. Taken(p)
            BY <1>5, <2>2 DEF AskStripe, At, IInv, Owned, Taken, Succeeded
        <3>2. Go(c, r)
            BY <1>5, <2>2 DEF AskStripe
        <3>3. r \in Request /\ r.at = "settle" /\ r.payment = p
            <4>1. old.payment = p
                OBVIOUS
            <4> HIDE DEF old, p
            <4> QED BY <1>0, <4>1 DEF Request
        <3> HIDE DEF r
        <3> QED BY <2>0, <3>1, <3>2, <3>3, LocalPreserves
    <2> QED BY <1>5, <2>1, <2>2 DEF AskStripe
<1>6. CASE PurgePayments(c)
    <2> DEFINE r == [old EXCEPT !.at = "logins"]
    <2>1. r \in Request /\ r.at = "logins"
        <3> HIDE DEF old
        <3> QED BY <1>0 DEF Request
    <2>2. \A q \in Id : /\ payments'[q].status \in {payments[q].status, "deleted"}
                        /\ payments'[q].paidAt = payments[q].paidAt
                        /\ payments'[q].intent = payments[q].intent
        BY <1>0, <1>6 DEF PurgePayments, Row
    <2>3. Go(c, r) /\ UNCHANGED <<live, receipts, intents, key, events>>
        BY <1>6 DEF PurgePayments, stripe
    <2> HIDE DEF r
    <2>4. Harmless(c, r)
        BY <2>1, <2>2, <2>3 DEF Harmless, Closed
    <2> QED BY <2>1, <2>4, HarmlessPreserves
<1>7. CASE PurgeLogins(c)
    <2> DEFINE r == [old EXCEPT !.at = "unit"]
    <2>1. r \in Request /\ r.at = "unit"
        <3> HIDE DEF old
        <3> QED BY <1>0 DEF Request
    <2>2. Go(c, r) /\ UNCHANGED <<live, payments, receipts, intents, key, events>>
        BY <1>7 DEF PurgeLogins, stripe
    <2> HIDE DEF r
    <2>3. Harmless(c, r)
        BY <2>1, <2>2 DEF Harmless, Closed
    <2> QED BY <2>1, <2>3, HarmlessPreserves
<1>8. CASE PurgeUnit(c)
    BY <1>8, FinishHarmless DEF PurgeUnit, stripe, Closed
<1>9. CASE Fail(c)
    BY <1>9, FinishHarmless DEF Fail, store, stripe, Closed
<1> QED BY <1>1, <1>2, <1>3, <1>4, <1>5, <1>6, <1>7, <1>8, <1>9

LEMMA EnvironmentPreserves ==
    ASSUME IInv, TypeOK',
           UpsertUnit \/ AdvanceMilestone \/ \E i \in Intent : CardSucceeds(i) \/ StripeCancels(i)
    PROVE  IInv'
<1>1. CASE UpsertUnit \/ AdvanceMilestone
    <2>1. UNCHANGED <<live, payments, receipts, intents, key, events, proc>>
        BY <1>1 DEF UpsertUnit, AdvanceMilestone, stripe
    <2>2. ReceiptOnce'
        BY <2>1 DEF IInv, ReceiptOnce, At, Closed
    <2>3. Owned' /\ Charged'
        BY <2>1 DEF IInv, Owned, Charged, At, Taken
    <2> QED BY <2>2, <2>3 DEF IInv
<1>2. ASSUME NEW i \in Intent, CardSucceeds(i) \/ StripeCancels(i) PROVE IInv'
    <2>1. UNCHANGED <<live, payments, receipts, key, proc>>
        BY <1>2 DEF CardSucceeds, StripeCancels, store
    <2>2. /\ intents'[i].status \in {"succeeded", "canceled"} /\ intents'[i].payment = intents[i].payment
          /\ \A j \in Intent : j # i => intents'[j] = intents[j]
        BY <1>2 DEF CardSucceeds, StripeCancels, IInv, TypeOK, StripeIntent
    <2>3. intents[i].status = "open"
        BY <1>2 DEF CardSucceeds, StripeCancels
    <2>4. ReceiptOnce'
        BY <2>1 DEF IInv, ReceiptOnce, At, Closed
    <2>5. \A j \in events' : intents'[j].status = "succeeded"
        BY <1>2, <2>2, <2>3 DEF CardSucceeds, StripeCancels, IInv, Owned, TypeOK, StripeIntent
    <2>6. Owned'
        BY <2>1, <2>2, <2>3, <2>5 DEF IInv, Owned, TypeOK
    <2>7. \A q \in Id : Taken(q) => Taken(q)'
        BY <2>1, <2>2, <2>3 DEF Taken, IInv, TypeOK
    <2>8. Charged'
        <3>1. \A d \in Caller : proc[d].payment \in Id
            BY DEF IInv, TypeOK, Request
        <3> QED BY <2>1, <2>7, <3>1 DEF IInv, Charged, At
    <2> QED BY <2>4, <2>6, <2>8 DEF IInv
<1> QED BY <1>1, <1>2

LEMMA NextPreserves == IInv /\ [Next]_vars => IInv'
<1> SUFFICES ASSUME IInv, [Next]_vars PROVE IInv'
    OBVIOUS
<1>0. TypeOK'
    BY Typing DEF IInv
<1>1. CASE UNCHANGED vars
    BY <1>0, <1>1 DEF vars, store, stripe, bounds, IInv, ReceiptOnce, Owned, Charged, At, Taken, Closed
<1>2. ASSUME NEW c \in Caller, Arrive(c) PROVE IInv'
    BY <1>0, <1>2, ArrivePreserves
<1>3. ASSUME NEW c \in Caller, Proceed(c) \/ Fail(c) PROVE IInv'
    BY <1>0, <1>3, StepPreserves, EnsureRowPreserves, PostIntentPreserves, SettlePreserves,
       WriteReceiptPreserves DEF Proceed
<1>4. CASE UpsertUnit \/ AdvanceMilestone \/ \E i \in Intent : CardSucceeds(i) \/ StripeCancels(i)
    BY <1>0, <1>4, EnvironmentPreserves
<1> QED BY <1>1, <1>2, <1>3, <1>4 DEF Next

\* Every reachable state of the payment machine is typed and settles only what was
\* charged, each payment's receipt being unwritten, in one hand, or written.
THEOREM Invariant == Spec => []IInv
BY InitIInv, NextPreserves, PTL DEF Spec

\* However many requests settle a payment, it has at most one receipt.
THEOREM SettlesOnce == Spec => []OneReceipt
<1>1. IInv => OneReceipt
    BY DEF IInv, ReceiptOnce, OneReceipt
<1> QED BY <1>1, Invariant, PTL

\* With a card processor nothing is dated as settled that Stripe was not paid.
THEOREM SettlesTheCharged == Spec => []SettledWasCharged
<1>1. IInv => SettledWasCharged
    <2> SUFFICES ASSUME IInv, NEW p \in Id, live, payments[p].paidAt = "settled"
                 PROVE  \E i \in Intent : intents[i].payment = p /\ intents[i].status = "succeeded"
        BY DEF SettledWasCharged
    <2>1. Taken(p)
        BY DEF IInv, Charged
    <2>2. key[p] \in Intent
        BY <2>1 DEF IInv, TypeOK, Taken
    <2> QED BY <2>1, <2>2 DEF IInv, Owned, Taken
<1> QED BY <1>1, Invariant, PTL

\* No payment ever has two intents, for any number of racing pay calls.
THEOREM OneIntent == Spec => []OneIntentPerPayment
<1>1. IInv => OneIntentPerPayment
    BY DEF IInv, Owned, OneIntentPerPayment
<1> QED BY <1>1, Invariant, PTL

LEMMA ClosedStays == TypeOK /\ [Next]_vars => \A p \in Id : p \in Closed => p \in Closed'
<1> SUFFICES ASSUME TypeOK, [Next]_vars, NEW p \in Id, p \in Closed PROVE p \in Closed'
    OBVIOUS
<1>0. payments \in [Id -> Row] /\ payments[p].status \in {"PAID", "deleted"}
    BY DEF TypeOK, Closed
<1>1. CASE UNCHANGED payments
    BY <1>0, <1>1 DEF Closed
<1>2. ASSUME NEW c \in Caller, EnsureRow(c) PROVE p \in Closed'
    <2>1. CASE CreatePayment(c) /\ Unused # {}
        <3>1. PICK q \in Unused : payments' = [payments EXCEPT ![q] =
                 [status |-> IF Due(c) THEN "PAID" ELSE "PENDING", kind |-> proc[c].row,
                  amount |-> Owed(c), paidAt |-> IF Due(c) THEN "milestone" ELSE "never",
                  intent |-> None]]
            BY <2>1 DEF CreatePayment
        <3> QED BY <1>0, <3>1 DEF Unused, Closed
    <2>2. ASSUME NEW f \in Found(c), payments' = [payments EXCEPT ![f.id] = Followed(c, @)], p = f.id
          PROVE  p \in Closed'
        <3> DEFINE row == payments[p]
        <3>1. payments'[p] = Followed(c, row)
            BY <1>0, <2>2
        <3>2. Followed(c, row).status \in {row.status, "PAID"}
            <4>1. row \in Row
                BY <1>0
            <4> HIDE DEF row
            <4> QED BY <4>1 DEF Followed, Row
        <3> QED BY <1>0, <3>1, <3>2 DEF Closed
    <2>3. ASSUME NEW f \in Found(c), payments' = [payments EXCEPT ![f.id] = Followed(c, @)], p # f.id
          PROVE  p \in Closed'
        BY <1>0, <2>3 DEF Closed
    <2> QED BY <1>1, <1>2, <2>1, <2>2, <2>3 DEF EnsureRow, CreatePayment, FollowPlot, LeaveRow
<1>3. ASSUME NEW c \in Caller, StoreIntent(c) \/ Settle(c) \/ PurgePayments(c) PROVE p \in Closed'
    <2>1. proc[c].payment \in Id
        BY DEF TypeOK, Request
    <2> QED BY <1>0, <1>3, <2>1 DEF StoreIntent, Settle, PurgePayments, Row, Closed
<1> QED
    <2>1. CASE UNCHANGED vars
        BY <1>1, <2>1 DEF vars, store
    <2>2. ASSUME NEW c \in Caller, Arrive(c) \/ Fail(c) PROVE UNCHANGED payments
        BY <2>2 DEF Arrive, Fail, OpenPortal, DeleteUnit, Pay, ConfirmPayment, DeliverEvent, store
    <2>3. ASSUME NEW c \in Caller, Proceed(c)
          PROVE  \/ UNCHANGED payments \/ EnsureRow(c)
                 \/ StoreIntent(c) \/ Settle(c) \/ PurgePayments(c)
        BY <2>3 DEF Proceed, LoadPayments, ReuseIntent, IntentUnusable, PostIntent, AskStripe,
                    WriteReceipt, PurgeLogins, PurgeUnit, store
    <2>4. CASE UpsertUnit \/ AdvanceMilestone \/ \E i \in Intent : CardSucceeds(i) \/ StripeCancels(i)
        BY <1>1, <2>4 DEF UpsertUnit, AdvanceMilestone, CardSucceeds, StripeCancels, store
    <2> QED BY <1>1, <1>2, <1>3, <2>1, <2>2, <2>3, <2>4 DEF Next

\* A payment once settled is never owed again while it exists, whatever page loads
\* that read it unpaid have still to write.
THEOREM SettledStays == Spec => PaidStays
<1>1. IInv /\ [Next]_vars =>
        [\A p \in Id : payments[p].status = "PAID" => payments'[p].status \in {"PAID", "deleted"}]_vars
    BY ClosedStays DEF IInv, Closed
<1> QED BY <1>1, Invariant, PTL DEF Spec, PaidStays

-----------------------------------------------------------------------------
(***************************************************************************)
(* Sums.  What a recursive function computes cannot be proved with the      *)
(* induction theorems of the library, which take a predicate; but numbers   *)
(* are well-founded, so that what fails of some fails of a least one.       *)
(***************************************************************************)
LEMMA LeastOf ==
    ASSUME NEW T, T \subseteq Nat, T # {}
    PROVE  \E x \in T : \A y \in T : x <= y
<1>1. PICK x \in T : \A y \in T : ~(<<y, x>> \in OpToRel(<, Nat))
    BY NatLessThanWellFounded, WFMin
<1>2. \A y \in T : ~(y < x)
    BY <1>1 DEF OpToRel
<1> QED BY <1>2

\* What grows by no more, step by step, ends no higher.
LEMMA Compare ==
    ASSUME NEW M \in Nat, NEW f, NEW h, \A n \in 0..M : f[n] \in Int /\ h[n] \in Int, f[0] <= h[0],
           \A n \in 1..M : f[n] - f[n - 1] <= h[n] - h[n - 1]
    PROVE  \A n \in 0..M : f[n] <= h[n]
<1> DEFINE B == {n \in 0..M : ~(f[n] <= h[n])}
<1>1. ASSUME B # {} PROVE FALSE
    <2>1. B \subseteq Nat
        OBVIOUS
    <2>2. PICK m \in B : \A y \in B : m <= y
        <3> HIDE DEF B
        <3> QED BY <1>1, <2>1, LeastOf
    <2>3. m \in 1..M /\ m - 1 \in 0..M /\ m - 1 \notin B
        BY <2>2
    <2> QED BY <2>3
<1> QED BY <1>1

LEMMA Agree ==
    ASSUME NEW M \in Nat, NEW f, NEW h, \A n \in 0..M : f[n] \in Int /\ h[n] \in Int, f[0] = h[0],
           \A n \in 1..M : f[n] - f[n - 1] = h[n] - h[n - 1]
    PROVE  \A n \in 0..M : f[n] = h[n]
<1>1. f[0] <= h[0] /\ h[0] <= f[0]
    OBVIOUS
<1>2. \A n \in 1..M : f[n] - f[n - 1] <= h[n] - h[n - 1] /\ h[n] - h[n - 1] <= f[n] - f[n - 1]
    <2> SUFFICES ASSUME NEW n \in 1..M
                 PROVE  f[n] - f[n - 1] <= h[n] - h[n - 1] /\ h[n] - h[n - 1] <= f[n] - f[n - 1]
        OBVIOUS
    <2>1. n \in 0..M /\ n - 1 \in 0..M
        OBVIOUS
    <2> QED BY <2>1
<1>3. \A n \in 0..M : f[n] <= h[n]
    BY <1>1, <1>2, Compare
<1>4. \A n \in 0..M : h[n] <= f[n]
    BY <1>1, <1>2, Compare
<1> QED BY <1>3, <1>4

\* s adds up g: what the recursive functions of the modules are, if there is one.
IsSum(s, g, M) == s = [i \in 0..M |-> IF i = 0 THEN 0 ELSE s[i - 1] + g[i]]
Summed(g, n) == LET sum[i \in 0..n] == IF i = 0 THEN 0 ELSE sum[i - 1] + g[i] IN sum[n]

LEMMA SumExists ==
    ASSUME NEW M \in Nat, NEW g, \A n \in 1..M : g[n] \in Int
    PROVE  \E s \in [0..M -> Int] : IsSum(s, g, M)
<1> DEFINE B == {k \in 0..M : ~ \E s \in [0..k -> Int] : IsSum(s, g, k)}
<1>1. ASSUME B # {} PROVE FALSE
    <2>1. PICK m \in B : \A y \in B : m <= y
        <3>1. B \subseteq Nat
            OBVIOUS
        <3> HIDE DEF B
        <3> QED BY <1>1, <3>1, LeastOf
    <2>2. m # 0
        <3> DEFINE z == [n \in 0..0 |-> 0]
        <3>1. z \in [0..0 -> Int] /\ IsSum(z, g, 0)
            BY DEF IsSum
        <3> QED BY <3>1
    <2>3. m - 1 \in 0..M /\ m - 1 \notin B
        BY <2>1, <2>2
    <2>4. PICK s \in [0..m - 1 -> Int] : IsSum(s, g, m - 1)
        BY <2>3
    <2> DEFINE t == [n \in 0..m |-> IF n = m THEN s[m - 1] + g[m] ELSE s[n]]
    <2>5. t \in [0..m -> Int]
        BY <2>2, <2>4
    <2>6. IsSum(t, g, m)
        <3>1. ASSUME NEW n \in 0..m PROVE t[n] = IF n = 0 THEN 0 ELSE t[n - 1] + g[n]
            <4>1. CASE n = m
                BY <4>1, <2>2
            <4>2. CASE n # m
                BY <4>2, <2>2, <2>4 DEF IsSum
            <4> QED BY <4>1, <4>2
        <3> QED BY <3>1, Zenon DEF IsSum
    <2> QED BY <2>5, <2>6, <2>1
<1> QED BY <1>1

AddsUp(s, g, M) ==
    /\ s[0] = 0 /\ \A n \in 0..M : s[n] \in Int
    /\ \A n \in 1..M : s[n - 1] \in Int /\ s[n] = s[n - 1] + g[n]

\* So the sum is the last of a column that starts at nothing and goes up by each number.
LEMMA SumIs ==
    ASSUME NEW M \in Nat, NEW g, \A n \in 1..M : g[n] \in Int
    PROVE  \E s : AddsUp(s, g, M) /\ Summed(g, M) = s[M]
<1> DEFINE c == CHOOSE s : IsSum(s, g, M)
<1>1. PICK s \in [0..M -> Int] : IsSum(s, g, M)
    BY SumExists
<1>2. IsSum(c, g, M)
    BY <1>1, Zenon
<1>3. Summed(g, M) = c[M]
    BY Zenon DEF Summed, IsSum
<1> HIDE DEF c
<1>4. c[0] = 0 /\ (\A n \in 1..M : c[n] = c[n - 1] + g[n])
    BY <1>2 DEF IsSum
<1>5. c \in [0..M -> Int]
    <2> DEFINE B == {n \in 0..M : c[n] # s[n]}
    <2>1. ASSUME B # {} PROVE FALSE
        <3>1. B \subseteq Nat
            OBVIOUS
        <3>2. PICK m \in B : \A y \in B : m <= y
            <4> HIDE DEF B
            <4> QED BY <3>1, <2>1, LeastOf
        <3>3. m # 0
            BY <1>4, <1>1 DEF IsSum
        <3>4. m - 1 \in 0..M /\ m - 1 \notin B
            BY <3>2, <3>3
        <3> QED BY <3>3, <3>4, <1>4, <1>1 DEF IsSum
    <2>2. \A n \in 0..M : c[n] = s[n]
        BY <2>1
    <2> QED BY <2>2, <1>2 DEF IsSum
<1>6. \A n \in 1..M : n - 1 \in 0..M
    OBVIOUS
<1>7. AddsUp(c, g, M)
    BY <1>4, <1>5, <1>6 DEF AddsUp
<1> QED BY <1>3, <1>7

LEMMA SumMonotone ==
    ASSUME NEW M \in Nat, NEW g, NEW k, \A n \in 1..M : g[n] \in Int /\ k[n] \in Int /\ g[n] <= k[n]
    PROVE  Summed(g, M) \in Int /\ Summed(k, M) \in Int /\ Summed(g, M) <= Summed(k, M)
<1>1. PICK s : AddsUp(s, g, M) /\ Summed(g, M) = s[M]
    BY SumIs
<1>2. PICK t : AddsUp(t, k, M) /\ Summed(k, M) = t[M]
    BY SumIs
<1>3. \A n \in 1..M : s[n] - s[n - 1] <= t[n] - t[n - 1]
    BY <1>1, <1>2 DEF AddsUp
<1>4. \A n \in 0..M : s[n] \in Int /\ t[n] \in Int
    BY <1>1, <1>2 DEF AddsUp
<1>5. s[0] <= t[0]
    BY <1>1, <1>2 DEF AddsUp
<1>6. \A n \in 0..M : s[n] <= t[n]
    BY <1>3, <1>4, <1>5, Compare
<1> QED BY <1>1, <1>2, <1>4, <1>6

LEMMA SumNat ==
    ASSUME NEW M \in Nat, NEW g, \A n \in 1..M : g[n] \in Nat
    PROVE  Summed(g, M) \in Nat
<1>1. PICK s : AddsUp(s, g, M) /\ Summed(g, M) = s[M]
    BY SumIs
<1> DEFINE z == [n \in 0..M |-> 0]
<1>2. \A n \in 1..M : z[n] - z[n - 1] <= s[n] - s[n - 1]
    <2>1. \A n \in 1..M : z[n] = 0 /\ z[n - 1] = 0
        OBVIOUS
    <2> HIDE DEF z
    <2> QED BY <1>1, <2>1 DEF AddsUp
<1>3. \A n \in 0..M : z[n] \in Int /\ s[n] \in Int
    BY <1>1 DEF AddsUp
<1>4. z[0] <= s[0] /\ z[M] = 0
    BY <1>1 DEF AddsUp
<1> HIDE DEF z
<1>5. \A n \in 0..M : z[n] <= s[n]
    BY <1>2, <1>3, <1>4, Compare
<1> QED BY <1>1, <1>3, <1>4, <1>5

LEMMA SumSame ==
    ASSUME NEW M \in Nat, NEW g, NEW k, \A n \in 1..M : g[n] \in Int /\ k[n] = g[n]
    PROVE  Summed(k, M) = Summed(g, M)
<1>1. Summed(g, M) \in Int /\ Summed(k, M) \in Int /\ Summed(g, M) <= Summed(k, M)
    BY SumMonotone
<1>2. Summed(k, M) <= Summed(g, M)
    BY SumMonotone
<1> QED BY <1>1, <1>2

\* One number more.
LEMMA SumAppend ==
    ASSUME NEW M \in Nat, NEW g, NEW k, \A n \in 1..M : g[n] \in Int /\ k[n] = g[n], k[M + 1] \in Int
    PROVE  Summed(k, M + 1) = Summed(g, M) + k[M + 1]
<1>1. M + 1 \in Nat /\ \A n \in 1..M + 1 : k[n] \in Int
    OBVIOUS
<1>2. PICK t : AddsUp(t, k, M + 1) /\ Summed(k, M + 1) = t[M + 1]
    BY <1>1, SumIs
<1>3. PICK s : AddsUp(s, g, M) /\ Summed(g, M) = s[M]
    BY SumIs
<1>4. \A n \in 0..M : s[n] \in Int /\ t[n] \in Int
    BY <1>2, <1>3 DEF AddsUp
<1>5. \A n \in 1..M : s[n] - s[n - 1] = t[n] - t[n - 1]
    BY <1>2, <1>3 DEF AddsUp
<1>6. s[0] = t[0]
    BY <1>2, <1>3 DEF AddsUp
<1>7. \A n \in 0..M : s[n] = t[n]
    BY <1>4, <1>5, <1>6, Agree
<1>8. t[M + 1] = t[M] + k[M + 1]
    <2>1. M + 1 \in 1..M + 1 /\ M + 1 - 1 = M
        OBVIOUS
    <2> QED BY <1>2, <2>1 DEF AddsUp
<1> QED BY <1>2, <1>3, <1>7, <1>8

\* One number changed.
LEMMA SumChange ==
    ASSUME NEW M \in Nat, NEW g, NEW k, NEW i \in 1..M,
           \A n \in 1..M : g[n] \in Int /\ k[n] \in Int /\ (n # i => k[n] = g[n])
    PROVE  Summed(k, M) = Summed(g, M) + (k[i] - g[i])
<1>1. PICK s : AddsUp(s, g, M) /\ Summed(g, M) = s[M]
    BY SumIs
<1>2. PICK t : AddsUp(t, k, M) /\ Summed(k, M) = t[M]
    BY SumIs
<1> DEFINE u == [n \in 0..M |-> IF n < i THEN s[n] ELSE s[n] + (k[i] - g[i])]
<1>3. \A n \in 0..M : u[n] \in Int /\ t[n] \in Int
    BY <1>1, <1>2 DEF AddsUp
<1>4. u[0] = t[0]
    BY <1>1, <1>2 DEF AddsUp
<1>5. \A n \in 1..M : u[n] - u[n - 1] = t[n] - t[n - 1]
    <2> SUFFICES ASSUME NEW n \in 1..M PROVE u[n] - u[n - 1] = t[n] - t[n - 1]
        OBVIOUS
    <2>1. s[n] = s[n - 1] + g[n] /\ t[n] = t[n - 1] + k[n] /\ s[n - 1] \in Int /\ t[n - 1] \in Int
        BY <1>1, <1>2 DEF AddsUp
    <2>2. n \in 0..M /\ n - 1 \in 0..M /\ g[n] \in Int /\ k[n] \in Int /\ g[i] \in Int /\ k[i] \in Int
        OBVIOUS
    <2>3. CASE n < i
        <3>1. u[n] = s[n] /\ u[n - 1] = s[n - 1] /\ k[n] = g[n]
            BY <2>2, <2>3
        <3> HIDE DEF u
        <3> QED BY <2>1, <2>2, <3>1
    <2>4. CASE n = i
        <3>1. u[n] = s[n] + (k[i] - g[i]) /\ u[n - 1] = s[n - 1]
            BY <2>2, <2>4
        <3> HIDE DEF u
        <3> QED BY <2>1, <2>2, <2>4, <3>1
    <2>5. CASE n > i
        <3>1. u[n] = s[n] + (k[i] - g[i]) /\ u[n - 1] = s[n - 1] + (k[i] - g[i]) /\ k[n] = g[n]
            BY <2>2, <2>5
        <3> HIDE DEF u
        <3> QED BY <2>1, <2>2, <3>1
    <2> QED BY <2>3, <2>4, <2>5
<1>6. u[M] = s[M] + (k[i] - g[i])
    OBVIOUS
<1> HIDE DEF u
<1>7. \A n \in 0..M : u[n] = t[n]
    BY <1>3, <1>4, <1>5, Agree
<1> QED BY <1>1, <1>2, <1>6, <1>7

\* The first few, and the rest.
LEMMA SumSplit ==
    ASSUME NEW M \in Nat, NEW g, \A n \in 1..M : g[n] \in Int, NEW j \in 0..M,
           NEW k, \A n \in 1..(M - j) : k[n] = g[j + n]
    PROVE  /\ Summed(g, j) \in Int /\ Summed(k, M - j) \in Int
           /\ Summed(g, M) = Summed(g, j) + Summed(k, M - j)
<1>0. /\ j \in Nat /\ \A n \in 1..j : g[n] \in Int
      /\ M - j \in Nat /\ \A n \in 1..(M - j) : k[n] \in Int
    <2>1. \A n \in 1..(M - j) : j + n \in 1..M
        OBVIOUS
    <2>2. \A n \in 1..(M - j) : k[n] \in Int
        BY <2>1
    <2> QED BY <2>2
<1>1. PICK s : AddsUp(s, g, M) /\ Summed(g, M) = s[M]
    BY SumIs
<1>2. PICK p : AddsUp(p, g, j) /\ Summed(g, j) = p[j]
    BY <1>0, SumIs
<1>3. PICK q : AddsUp(q, k, M - j) /\ Summed(k, M - j) = q[M - j]
    BY <1>0, SumIs
<1> DEFINE u == [n \in 0..M |-> IF n <= j THEN p[n] ELSE p[j] + q[n - j]]
<1>4. p[j] \in Int /\ q[M - j] \in Int /\ q[0] = 0
    BY <1>0, <1>2, <1>3 DEF AddsUp
<1>5. \A n \in 0..M : u[n] \in Int /\ s[n] \in Int
    <2> SUFFICES ASSUME NEW n \in 0..M PROVE u[n] \in Int /\ s[n] \in Int
        OBVIOUS
    <2>1. CASE n <= j
        <3>1. n \in 0..j /\ u[n] = p[n]
            BY <2>1
        <3> HIDE DEF u
        <3> QED BY <3>1, <1>1, <1>2 DEF AddsUp
    <2>2. CASE ~(n <= j)
        <3>1. n - j \in 0..(M - j) /\ u[n] = p[j] + q[n - j]
            BY <2>2
        <3>2. q[n - j] \in Int
            BY <3>1, <1>3 DEF AddsUp
        <3> HIDE DEF u
        <3> QED BY <3>1, <3>2, <1>1, <1>4 DEF AddsUp
    <2> QED BY <2>1, <2>2
<1>6. u[0] = s[0]
    BY <1>1, <1>2 DEF AddsUp
<1>7. \A n \in 1..M : u[n] - u[n - 1] = s[n] - s[n - 1]
    <2> SUFFICES ASSUME NEW n \in 1..M PROVE u[n] - u[n - 1] = s[n] - s[n - 1]
        OBVIOUS
    <2>1. s[n] = s[n - 1] + g[n] /\ s[n - 1] \in Int /\ n \in 0..M /\ n - 1 \in 0..M /\ g[n] \in Int
        BY <1>1 DEF AddsUp
    <2>2. CASE n <= j
        <3>1. n \in 1..j /\ u[n] = p[n] /\ u[n - 1] = p[n - 1]
            BY <2>1, <2>2
        <3>2. p[n] = p[n - 1] + g[n] /\ p[n - 1] \in Int
            BY <3>1, <1>2 DEF AddsUp
        <3> HIDE DEF u
        <3> QED BY <3>1, <3>2, <2>1
    <2>3. CASE ~(n <= j)
        <3> DEFINE m == n - j
        <3>1. m \in 1..(M - j) /\ j + m = n /\ m - 1 = n - 1 - j
            BY <2>3
        <3>2. u[n] = p[j] + q[m] /\ u[n - 1] = p[j] + q[m - 1]
            <4>1. u[n] = p[j] + q[m]
                BY <2>1, <2>3
            <4>2. CASE n - 1 <= j
                <5>1. n - 1 = j /\ m - 1 = 0 /\ u[n - 1] = p[j]
                    BY <2>1, <2>3, <4>2
                <5> HIDE DEF u, m
                <5> QED BY <4>1, <5>1, <1>4
            <4>3. CASE ~(n - 1 <= j)
                <5>1. u[n - 1] = p[j] + q[n - 1 - j]
                    BY <2>1, <4>3
                <5> HIDE DEF u, m
                <5> QED BY <4>1, <5>1, <3>1
            <4> QED BY <4>2, <4>3
        <3>3. q[m] = q[m - 1] + k[m] /\ q[m - 1] \in Int /\ k[m] = g[j + m]
            <4> HIDE DEF m
            <4> QED BY <3>1, <1>3 DEF AddsUp
        <3> HIDE DEF u, m
        <3> QED BY <3>1, <3>2, <3>3, <2>1, <1>4
    <2> QED BY <2>2, <2>3
<1>8. u[M] = p[j] + q[M - j]
    BY <1>4
<1> HIDE DEF u
<1>9. \A n \in 0..M : u[n] = s[n]
    BY <1>5, <1>6, <1>7, Agree
<1> QED BY <1>1, <1>2, <1>3, <1>4, <1>8, <1>9

-----------------------------------------------------------------------------
(***************************************************************************)
(* A sum of DevelopmentFigures or PortfolioFigures is a fold of the library *)
(* over a set, a function somebody chose that takes one element after       *)
(* another: there is one, it takes them in any order, and over 1..n it is    *)
(* the sum that is added month by month, which can be reasoned about one    *)
(* month at a time.                                                         *)
(***************************************************************************)

Pick(s) == CHOOSE x \in s : TRUE
Fold(it, f, s) == IF s = {} THEN 0 ELSE f[Pick(s)] + it[s \ {Pick(s)}]
IsFold(it, f) == it = [s \in SUBSET DOMAIN f |-> Fold(it, f, s)]
Small(f, k) == {s \in SUBSET DOMAIN f : Cardinality(s) <= k}
FoldsUpTo(it, f, k) == it \in [Small(f, k) -> Int] /\ \A s \in Small(f, k) : it[s] = Fold(it, f, s)
AllFolds(it, f) == \A s \in SUBSET DOMAIN f : it[s] \in Int /\ it[s] = Fold(it, f, s)
Numbers(f) == IsFiniteSet(DOMAIN f) /\ \A x \in DOMAIN f : f[x] \in Int

LEMMA FoldOf == \A f : Dev!SumOver(f) = (CHOOSE it : IsFold(it, f))[DOMAIN f]
    BY Zenon DEF Dev!SumOver, Dev!MapThenSumSet, Dev!MapThenFoldSet, IsFold, Fold, Pick

LEMMA FoldSizes ==
    ASSUME NEW f, Numbers(f), NEW s, s \subseteq DOMAIN f
    PROVE  /\ Cardinality(s) \in Nat /\ Cardinality(s) <= Cardinality(DOMAIN f)
           /\ Cardinality(DOMAIN f) \in Nat
           /\ s # {} => Pick(s) \in s
           /\ \A x \in s : s \ {x} \subseteq DOMAIN f /\ Cardinality(s \ {x}) = Cardinality(s) - 1
<1>1. IsFiniteSet(DOMAIN f) /\ IsFiniteSet(s) /\ Cardinality(s) <= Cardinality(DOMAIN f)
    BY FS_Subset DEF Numbers
<1>2. Cardinality(s) \in Nat /\ Cardinality(DOMAIN f) \in Nat
    BY <1>1, FS_CardinalityType
<1>3. \A x \in s : Cardinality(s \ {x}) = Cardinality(s) - 1
    BY <1>1, FS_RemoveElement
<1>4. s # {} => Pick(s) \in s
    BY DEF Pick
<1> QED BY <1>1, <1>2, <1>3, <1>4

LEMMA FoldExists ==
    ASSUME NEW f, Numbers(f), NEW k \in Nat
    PROVE  \E it : FoldsUpTo(it, f, k)
<1> DEFINE B == {n \in Nat : ~ \E it : FoldsUpTo(it, f, n)}
<1>1. ASSUME B # {} PROVE FALSE
    <2>1. PICK m \in B : \A y \in B : m <= y
        <3>1. B \subseteq Nat
            OBVIOUS
        <3> HIDE DEF B
        <3> QED BY <1>1, <3>1, LeastOf
    <2>2. m # 0
        <3> DEFINE z == [s \in Small(f, 0) |-> 0]
        <3>1. \A s \in Small(f, 0) : s = {}
            <4> SUFFICES ASSUME NEW s \in Small(f, 0) PROVE s = {}
                OBVIOUS
            <4>1. IsFiniteSet(s) /\ Cardinality(s) \in Nat /\ Cardinality(s) <= 0
                BY FoldSizes, FS_Subset DEF Small, Numbers
            <4> QED BY <4>1, FS_EmptySet
        <3>2. FoldsUpTo(z, f, 0)
            BY <3>1 DEF FoldsUpTo, Fold
        <3> HIDE DEF z
        <3> QED BY <3>2, <2>1
    <2>3. m \in Nat /\ m - 1 \in Nat /\ m - 1 \notin B
        BY <2>1, <2>2
    <2>4. PICK it : FoldsUpTo(it, f, m - 1)
        BY <2>3
    <2> DEFINE t == [s \in Small(f, m) |-> Fold(it, f, s)]
    <2>5. ASSUME NEW s \in Small(f, m), s # {}
          PROVE  Pick(s) \in DOMAIN f /\ s \ {Pick(s)} \in Small(f, m - 1) /\ s \ {Pick(s)} \in Small(f, m)
        <3>1. s \subseteq DOMAIN f /\ Cardinality(s) <= m
            BY DEF Small
        <3>2. /\ Pick(s) \in s /\ Cardinality(s) \in Nat /\ s \ {Pick(s)} \subseteq DOMAIN f
              /\ Cardinality(s \ {Pick(s)}) = Cardinality(s) - 1
            BY <2>5, <3>1, FoldSizes
        <3>3. Cardinality(s \ {Pick(s)}) <= m - 1 /\ Cardinality(s \ {Pick(s)}) <= m
            BY <3>1, <3>2, <2>3
        <3> QED BY <3>1, <3>2, <3>3 DEF Small
    <2>6. t \in [Small(f, m) -> Int]
        <3>1. ASSUME NEW s \in Small(f, m) PROVE Fold(it, f, s) \in Int
            <4>1. CASE s = {}
                BY <4>1 DEF Fold
            <4>2. CASE s # {}
                <5>1. f[Pick(s)] \in Int /\ it[s \ {Pick(s)}] \in Int
                    BY <4>2, <2>4, <2>5 DEF Numbers, FoldsUpTo
                <5> QED BY <4>2, <5>1 DEF Fold
            <4> QED BY <4>1, <4>2
        <3> QED BY <3>1
    <2>7. ASSUME NEW s \in Small(f, m - 1) PROVE s \in Small(f, m) /\ t[s] = it[s]
        <3>1. s \in Small(f, m)
            <4>1. s \subseteq DOMAIN f /\ Cardinality(s) <= m - 1
                BY DEF Small
            <4>2. Cardinality(s) \in Nat
                BY <4>1, FoldSizes
            <4> QED BY <4>1, <4>2, <2>3 DEF Small
        <3>2. it[s] = Fold(it, f, s)
            BY <2>4 DEF FoldsUpTo
        <3> QED BY <3>1, <3>2
    <2>8. ASSUME NEW s \in Small(f, m) PROVE t[s] = Fold(t, f, s)
        <3>1. t[s] = Fold(it, f, s)
            OBVIOUS
        <3>2. s # {} => t[s \ {Pick(s)}] = it[s \ {Pick(s)}]
            BY <2>5, <2>7
        <3> HIDE DEF t
        <3> QED BY <3>1, <3>2 DEF Fold
    <2> HIDE DEF t
    <2>9. FoldsUpTo(t, f, m)
        BY <2>6, <2>8 DEF FoldsUpTo
    <2> QED BY <2>9, <2>1
<1> QED BY <1>1

\* A fold adds the numbers of every subset, and there is one.
LEMMA FoldThere ==
    ASSUME NEW f, Numbers(f)
    PROVE  \E it : IsFold(it, f) /\ AllFolds(it, f)
<1> DEFINE n == Cardinality(DOMAIN f)
<1>1. n \in Nat /\ Small(f, n) = SUBSET DOMAIN f
    BY FoldSizes DEF Small
<1>2. PICK it : FoldsUpTo(it, f, n)
    BY <1>1, FoldExists
<1>3. it \in [SUBSET DOMAIN f -> Int] /\ \A s \in SUBSET DOMAIN f : it[s] = Fold(it, f, s)
    BY <1>1, <1>2 DEF FoldsUpTo
<1>4. IsFold(it, f)
    BY <1>3 DEF IsFold
<1>5. AllFolds(it, f)
    BY <1>3 DEF AllFolds
<1> QED BY <1>4, <1>5

LEMMA FoldAdds ==
    ASSUME NEW f, Numbers(f), NEW c, IsFold(c, f)
    PROVE  AllFolds(c, f)
<1>1. PICK it : AllFolds(it, f)
    BY FoldThere
<1>3. \A s \in SUBSET DOMAIN f : it[s] \in Int /\ it[s] = Fold(it, f, s)
    BY <1>1 DEF AllFolds
<1>7. \A s \in SUBSET DOMAIN f : c[s] = Fold(c, f, s)
    BY DEF IsFold
<1> DEFINE B == {k \in Nat : \E s \in SUBSET DOMAIN f : Cardinality(s) = k /\ c[s] # it[s]}
<1>8. ASSUME B # {} PROVE FALSE
    <2>1. PICK m \in B : \A y \in B : m <= y
        <3>1. B \subseteq Nat
            OBVIOUS
        <3> HIDE DEF B
        <3> QED BY <1>8, <3>1, LeastOf
    <2>2. PICK s \in SUBSET DOMAIN f : Cardinality(s) = m /\ c[s] # it[s]
        BY <2>1
    <2>3. s # {}
        BY <2>2, <1>3, <1>7 DEF Fold
    <2>4. /\ s \ {Pick(s)} \in SUBSET DOMAIN f /\ Cardinality(s \ {Pick(s)}) = m - 1
          /\ Cardinality(s \ {Pick(s)}) \in Nat
        <3>1. Pick(s) \in s /\ s \subseteq DOMAIN f
            BY <2>3, FoldSizes
        <3>2. s \ {Pick(s)} \subseteq DOMAIN f /\ Cardinality(s \ {Pick(s)}) = m - 1
            BY <2>2, <3>1, FoldSizes
        <3> QED BY <3>2, FoldSizes
    <2>5. m - 1 \notin B /\ m - 1 \in Nat
        BY <2>1, <2>4
    <2>6. c[s \ {Pick(s)}] = it[s \ {Pick(s)}]
        BY <2>4, <2>5
    <2> QED BY <2>2, <2>3, <2>6, <1>3, <1>7 DEF Fold
<1>9. \A s \in SUBSET DOMAIN f : c[s] = it[s]
    BY <1>8, FoldSizes
<1>10. \A s \in SUBSET DOMAIN f : c[s] \in Int
    BY <1>9, <1>3
<1> QED BY <1>7, <1>10 DEF AllFolds

LEMMA FoldIs ==
    ASSUME NEW f, Numbers(f)
    PROVE  \E it : /\ Dev!SumOver(f) = it[DOMAIN f]
                   /\ AllFolds(it, f)
<1> DEFINE c == CHOOSE it : IsFold(it, f)
<1>1. IsFold(c, f)
    <2>1. \E it : IsFold(it, f)
        BY FoldThere
    <2> QED BY <2>1, Zenon
<1>2. Dev!SumOver(f) = c[DOMAIN f]
    BY FoldOf, Zenon
<1> HIDE DEF c
<1>3. AllFolds(c, f)
    BY <1>1, FoldAdds
<1> QED BY <1>2, <1>3

\* It does not matter in which order.
AnyOrder(it, f) == \A s \in SUBSET DOMAIN f : \A x \in s : it[s] = f[x] + it[s \ {x}]

LEMMA FoldTakes ==
    ASSUME NEW f, Numbers(f), NEW it,
           AllFolds(it, f)
    PROVE  AnyOrder(it, f)
<1> DEFINE B == {k \in Nat : \E s \in SUBSET DOMAIN f : Cardinality(s) = k /\ \E x \in s : it[s] # f[x] + it[s \ {x}]}
<1>1. ASSUME B # {} PROVE FALSE
    <2>1. PICK m \in B : \A y \in B : m <= y
        <3>1. B \subseteq Nat
            OBVIOUS
        <3> HIDE DEF B
        <3> QED BY <1>1, <3>1, LeastOf
    <2>2. PICK s \in SUBSET DOMAIN f : Cardinality(s) = m /\ \E x \in s : it[s] # f[x] + it[s \ {x}]
        BY <2>1
    <2>3. PICK x \in s : it[s] # f[x] + it[s \ {x}]
        BY <2>2
    <2> DEFINE p == Pick(s)
    <2>4. p \in s /\ it[s] = f[p] + it[s \ {p}] /\ p # x
        <3>1. s # {} /\ s \subseteq DOMAIN f
            BY <2>3
        <3>2. p \in s
            BY <3>1, FoldSizes
        <3>3. it[s] = f[p] + it[s \ {p}]
            BY <3>1 DEF Fold, AllFolds
        <3> QED BY <3>2, <3>3, <2>3
    <2> HIDE DEF p
    <2>5. ASSUME NEW w \in s
          PROVE  /\ s \ {w} \in SUBSET DOMAIN f /\ \A y \in s \ {w} : it[s \ {w}] = f[y] + it[(s \ {w}) \ {y}]
        <3>1. s \ {w} \subseteq DOMAIN f /\ Cardinality(s \ {w}) = m - 1
            BY <2>2, FoldSizes
        <3>2. Cardinality(s \ {w}) \in Nat
            BY <3>1, FoldSizes
        <3>3. m - 1 \in Nat /\ m - 1 \notin B
            BY <2>1, <3>1, <3>2
        <3>4. \A t \in SUBSET DOMAIN f : Cardinality(t) = m - 1 => \A y \in t : it[t] = f[y] + it[t \ {y}]
            BY <3>3
        <3> QED BY <3>1, <3>4, Zenon
    <2>6. it[s \ {p}] = f[x] + it[(s \ {p}) \ {x}] /\ it[s \ {x}] = f[p] + it[(s \ {x}) \ {p}]
        BY <2>4, <2>5
    <2>7. PICK v : v = it[(s \ {p}) \ {x}] /\ v = it[(s \ {x}) \ {p}]
        <3>1. (s \ {p}) \ {x} = (s \ {x}) \ {p}
            BY Zenon
        <3> QED BY <3>1, Zenon
    <2>8. f[x] \in Int /\ f[p] \in Int /\ v \in Int
        BY <2>4, <2>7 DEF Numbers, AllFolds
    <2> QED BY <2>3, <2>4, <2>6, <2>7, <2>8
<1>2. \A s \in SUBSET DOMAIN f : \A x \in s : it[s] = f[x] + it[s \ {x}]
    <2> SUFFICES ASSUME NEW s \in SUBSET DOMAIN f, NEW x \in s PROVE it[s] = f[x] + it[s \ {x}]
        OBVIOUS
    <2>1. Cardinality(s) \in Nat
        BY FoldSizes
    <2> QED BY <1>1, <2>1
<1> QED BY <1>2 DEF AnyOrder

\* What a fold over 1..n computes is the sum of the n numbers.
LEMMA FoldOfSeries ==
    ASSUME NEW n \in Nat, NEW f, Numbers(f), 1..n \subseteq DOMAIN f, NEW it, AllFolds(it, f)
    PROVE  it[1..n] = Summed(f, n)
<1>1. \A m \in 1..n : f[m] \in Int
    BY DEF Numbers
<1>3. AnyOrder(it, f)
    BY FoldTakes, Zenon
<1> DEFINE c == [m \in 0..n |-> it[1..m]]
<1>4. ASSUME NEW m \in 0..n PROVE 1..m \in SUBSET DOMAIN f /\ c[m] = it[1..m] /\ c[m] \in Int
    BY DEF AllFolds
<1>5. c[0] = 0
    <2>1. 1..0 = {} /\ 0 \in 0..n
        OBVIOUS
    <2>2. it[1..0] = 0
        BY <2>1 DEF Fold, AllFolds
    <2> QED BY <2>1, <2>2
<1>6. ASSUME NEW m \in 1..n PROVE c[m] - c[m - 1] = f[m] /\ c[m] = c[m - 1] + f[m]
    <2>1. m \in 0..n /\ m - 1 \in 0..n /\ m \in 1..m /\ (1..m) \ {m} = 1..(m - 1)
        OBVIOUS
    <2>2. it[1..m] = f[m] + it[1..(m - 1)]
        BY <1>3, <1>4, <2>1 DEF AnyOrder
    <2>3. c[m] = f[m] + c[m - 1] /\ c[m - 1] \in Int
        BY <1>4, <2>1, <2>2
    <2> HIDE DEF c
    <2> QED BY <1>1, <2>3
<1>7. PICK s : AddsUp(s, f, n) /\ Summed(f, n) = s[n]
    BY <1>1, SumIs
<1>8. \A m \in 0..n : c[m] \in Int /\ s[m] \in Int
    BY <1>4, <1>7 DEF AddsUp
<1>9. c[0] = s[0]
    BY <1>5, <1>7 DEF AddsUp
<1>10. c[n] = it[1..n]
    BY <1>4
<1> HIDE DEF c
<1>11. \A m \in 1..n : c[m] - c[m - 1] = s[m] - s[m - 1]
    BY <1>1, <1>6, <1>7 DEF AddsUp
<1>12. c[n] = s[n]
    <2>1. \A m \in 0..n : c[m] = s[m]
        BY <1>8, <1>9, <1>11, Agree, ZenonT(40)
    <2> QED BY <2>1
<1> QED BY <1>7, <1>10, <1>12

LEMMA FoldSums ==
    ASSUME NEW n \in Nat, NEW f, DOMAIN f = 1..n, \A m \in 1..n : f[m] \in Int
    PROVE  Dev!SumOver(f) = Summed(f, n)
<1>1. Numbers(f)
    BY FS_Interval DEF Numbers
<1>2. PICK it : /\ Dev!SumOver(f) = it[DOMAIN f]
                /\ AllFolds(it, f)
    BY <1>1, FoldIs
<1>3. it[1..n] = Summed(f, n)
    <2>1. AllFolds(it, f) /\ 1..n \subseteq DOMAIN f
        BY <1>2
    <2> QED BY <1>1, <2>1, FoldOfSeries, Zenon
<1> QED BY <1>2, <1>3

\* Two sums that start together and rise together are the same.
SameSteps(h, w, n) ==
    /\ \A m \in 0..n : h[m] \in Int /\ w[m] \in Int
    /\ h[0] = w[0] /\ \A m \in 1..n : h[m] - h[m - 1] = w[m] - w[m - 1]

LEMMA Matched == ASSUME NEW n \in Nat, NEW h, NEW w, SameSteps(h, w, n) PROVE \A m \in 0..n : h[m] = w[m]
    BY Agree DEF SameSteps

\* The same with a first number in month 0.
LEMMA FoldSumsFrom0 ==
    ASSUME NEW n \in Nat, NEW f, DOMAIN f = 0..n, \A m \in 0..n : f[m] \in Int
    PROVE  Dev!SumOver(f) = f[0] + Summed(f, n)
<1>1. Numbers(f)
    BY FS_Interval DEF Numbers
<1>2. PICK it : /\ Dev!SumOver(f) = it[DOMAIN f]
                /\ AllFolds(it, f)
    BY <1>1, FoldIs
<1>3. AnyOrder(it, f)
    <2>1. AllFolds(it, f)
        BY <1>2
    <2> QED BY <1>1, <2>1, FoldTakes, Zenon
<1>4. 1..n \subseteq DOMAIN f /\ DOMAIN f \in SUBSET DOMAIN f /\ 0 \in DOMAIN f /\ DOMAIN f \ {0} = 1..n
    OBVIOUS
<1>5. it[1..n] = Summed(f, n)
    <2>1. AllFolds(it, f)
        BY <1>2
    <2> QED BY <1>1, <1>4, <2>1, FoldOfSeries, Zenon
<1>6. it[DOMAIN f] = f[0] + it[DOMAIN f \ {0}]
    BY <1>3, <1>4, Zenon DEF AnyOrder
<1> QED BY <1>2, <1>4, <1>5, <1>6

LEMMA MaxOfTwo == \A x, y \in Int : Dev!Max({x, y}) = IF x >= y THEN x ELSE y
<1> SUFFICES ASSUME NEW x \in Int, NEW y \in Int PROVE Dev!Max({x, y}) = IF x >= y THEN x ELSE y
    OBVIOUS
<1> DEFINE P(z) == z \in {x, y} /\ \A w \in {x, y} : z >= w
           m == IF x >= y THEN x ELSE y
<1>1. P(m) /\ \A z : P(z) => z = m
    OBVIOUS
<1>2. Dev!Max({x, y}) = CHOOSE z \in {x, y} : \A w \in {x, y} : z >= w
    BY Zenon DEF Dev!Max
<1> HIDE DEF m
<1> QED BY <1>1, <1>2

LEMMA MinOfTwo == \A x, y \in Int : Dev!Min({x, y}) = IF x <= y THEN x ELSE y
<1> SUFFICES ASSUME NEW x \in Int, NEW y \in Int PROVE Dev!Min({x, y}) = IF x <= y THEN x ELSE y
    OBVIOUS
<1> DEFINE P(z) == z \in {x, y} /\ \A w \in {x, y} : z <= w
           m == IF x <= y THEN x ELSE y
<1>1. P(m) /\ \A z : P(z) => z = m
    OBVIOUS
<1>2. Dev!Min({x, y}) = CHOOSE z \in {x, y} : \A w \in {x, y} : z <= w
    BY Zenon DEF Dev!Min
<1> HIDE DEF m
<1> QED BY <1>1, <1>2

LEMMA PctNat == ASSUME NEW x \in Nat, NEW p \in Nat PROVE Dev!Pct(x, p) \in Nat
<1>1. PICK h \in Nat, l \in Nat : h = x \div 100 /\ l = x % 100
    OBVIOUS
<1>2. h * p \in Nat /\ l * p \in Nat
    OBVIOUS
<1>3. PICK t \in Nat : t = l * p
    BY <1>2
<1>4. t \div 100 \in Nat
    OBVIOUS
<1>5. Dev!Pct(x, p) = h * p + t \div 100
    BY <1>1, <1>3 DEF Dev!Pct, Dev!Ratio
<1> QED BY <1>2, <1>4, <1>5

LEMMA PctInt == ASSUME NEW x \in Int, NEW p \in Int PROVE Dev!Pct(x, p) \in Int
<1>1. PICK h \in Int, l \in Int : h = x \div 100 /\ l = x % 100
    OBVIOUS
<1>2. h * p \in Int /\ l * p \in Int
    OBVIOUS
<1>3. PICK t \in Int : t = l * p
    BY <1>2
<1>4. t \div 100 \in Int
    OBVIOUS
<1>5. Dev!Pct(x, p) = h * p + t \div 100
    BY <1>1, <1>3 DEF Dev!Pct, Dev!Ratio
<1> QED BY <1>2, <1>4, <1>5

-----------------------------------------------------------------------------
(***************************************************************************)
(* Sums of parts, of nothing and of ones, and the largest of finitely many  *)
(* numbers.                                                                 *)
(***************************************************************************)

LEMMA SumInt ==
    ASSUME NEW n \in Nat, NEW g, \A i \in 1..n : g[i] \in Int
    PROVE  Summed(g, n) \in Int
<1>1. PICK t : AddsUp(t, g, n) /\ Summed(g, n) = t[n]
    BY SumIs
<1>2. n \in 0..n
    OBVIOUS
<1> QED BY <1>1, <1>2 DEF AddsUp

\* How many they are.
LEMMA OnesAdd == ASSUME NEW n \in Nat, NEW g, \A i \in 1..n : g[i] = 1 PROVE Summed(g, n) = n
<1>1. PICK t : AddsUp(t, g, n) /\ Summed(g, n) = t[n]
    BY SumIs, SMTT(15), ZenonT(30)
<1> DEFINE h == [i \in 0..n |-> i]
<1>2. SameSteps(t, h, n)
    <2>1. \A i \in 0..n : t[i] \in Int /\ h[i] = i /\ h[i] \in Int
        BY <1>1 DEF AddsUp
    <2>2. t[0] = 0 /\ 0 \in 0..n
        BY <1>1 DEF AddsUp
    <2>3. \A i \in 1..n : t[i] = t[i - 1] + g[i] /\ i \in 0..n /\ i - 1 \in 0..n
        BY <1>1 DEF AddsUp
    <2> HIDE DEF h
    <2>4. ASSUME NEW i \in 1..n PROVE t[i] - t[i - 1] = h[i] - h[i - 1]
        <3>1. t[i] = t[i - 1] + 1 /\ t[i - 1] \in Int /\ h[i] = i /\ h[i - 1] = i - 1
            BY <2>1, <2>3
        <3> QED BY <3>1
    <2> QED BY <2>1, <2>2, <2>4 DEF SameSteps
<1>3. n \in 0..n /\ h[n] = n
    OBVIOUS
<1> HIDE DEF h
<1>4. t[n] = h[n]
    BY <1>2, <1>3, Matched
<1> QED BY <1>1, <1>3, <1>4

Numbers1(b, c, Q) == /\ b \in [1..c -> Q] /\ \A i, j \in 1..c : i # j => b[i] # b[j]
                     /\ \A k \in Q : \E i \in 1..c : b[i] = k
LEMMA Enumerated ==
    ASSUME NEW Q, IsFiniteSet(Q)
    PROVE  \E c \in Nat : \E b : Numbers1(b, c, Q)
<1>1. PICK c \in Nat : ExistsBijection(1..c, Q)
    BY FS_NatBijection
<1>2. PICK b : b \in Bijection(1..c, Q)
    BY <1>1 DEF ExistsBijection
<1>3. Numbers1(b, c, Q)
    BY <1>2 DEF Bijection, Injection, Surjection, IsInjective, Numbers1
<1> QED BY <1>3

LEMMA ZeroSum == ASSUME NEW n \in Nat, NEW g, \A i \in 1..n : g[i] = 0 PROVE Summed(g, n) = 0
<1>1. PICK t : AddsUp(t, g, n) /\ Summed(g, n) = t[n]
    BY SumIs
<1> DEFINE h == [i \in 0..n |-> 0]
<1>2. SameSteps(t, h, n)
    BY <1>1 DEF SameSteps, AddsUp
<1>3. n \in 0..n /\ h[n] = 0
    OBVIOUS
<1> HIDE DEF h
<1>4. t[n] = h[n]
    BY <1>2, <1>3, Matched
<1> QED BY <1>1, <1>3, <1>4

LEMMA ImageFinite == ASSUME NEW n \in Nat, NEW tag PROVE IsFiniteSet({tag[i] : i \in 1..n})
<1> DEFINE Q == {tag[i] : i \in 1..n}
           f == [i \in 1..n |-> tag[i]]
<1>1. f \in [1..n -> Q] /\ \A k \in Q : \E i \in 1..n : f[i] = k
    OBVIOUS
<1>2. f \in Surjection(1..n, Q)
    BY <1>1 DEF Surjection
<1>3. IsFiniteSet(1..n)
    BY FS_Interval
<1> HIDE DEF Q, f
<1> QED BY <1>2, <1>3, FS_Surjection DEF Q

\* The largest of finitely many numbers, and the smallest.
LEMMA TopOf ==
    ASSUME NEW n \in Nat \ {0}, NEW g, \A i \in 1..n : g[i] \in Int
    PROVE  \E k \in 1..n : \A i \in 1..n : g[i] <= g[k]
<1> DEFINE Top(m, k) == k \in 1..m /\ \A i \in 1..m : g[i] <= g[k]
           B == {m \in 1..n : ~ \E k : Top(m, k)}
<1>1. ASSUME B # {} PROVE FALSE
    <2>1. PICK m \in B : \A y \in B : m <= y
        <3>1. B \subseteq Nat
            OBVIOUS
        <3> HIDE DEF B
        <3> QED BY <1>1, <3>1, LeastOf
    <2>2. m \in 1..n /\ ~ \E k : Top(m, k)
        BY <2>1
    <2>3. CASE m = 1
        <3>1. Top(1, 1)
            OBVIOUS
        <3> QED BY <2>2, <2>3, <3>1
    <2>4. CASE m # 1
        <3>1. m - 1 \in 1..n /\ m - 1 \notin B
            <4>1. m - 1 \in 1..n
                BY <2>2, <2>4
            <4> HIDE DEF B
            <4> QED BY <2>1, <2>2, <4>1
        <3>2. PICK k : Top(m - 1, k)
            BY <3>1
        <3>3. g[k] \in Int /\ g[m] \in Int
            BY <2>2, <3>2
        <3>4. CASE g[m] <= g[k]
            <4>1. Top(m, k)
                BY <2>2, <3>2, <3>4
            <4> QED BY <2>2, <4>1
        <3>5. CASE g[k] < g[m]
            <4>1. ASSUME NEW i \in 1..m PROVE g[i] <= g[m]
                <5>1. CASE i = m
                    BY <3>3, <5>1
                <5>2. CASE i # m
                    <6>1. i \in 1..(m - 1) /\ i \in 1..n
                        BY <2>2, <5>2
                    <6>2. g[i] <= g[k] /\ g[i] \in Int
                        BY <3>2, <6>1
                    <6> QED BY <3>3, <3>5, <6>2
                <5> QED BY <5>1, <5>2
            <4>2. Top(m, m)
                BY <2>2, <4>1
            <4> QED BY <2>2, <4>2
        <3> QED BY <3>3, <3>4, <3>5
    <2> QED BY <2>3, <2>4
<1>2. n \in 1..n
    OBVIOUS
<1> QED BY <1>1, <1>2

LEMMA MaxIs ==
    ASSUME NEW S, IsFiniteSet(S), S # {}, \A x \in S : x \in Int
    PROVE  Pf!Max(S) \in S /\ \A y \in S : y <= Pf!Max(S)
<1>1a. PICK c \in Nat : \E b : Numbers1(b, c, S)
    BY Enumerated
<1>1. PICK b : Numbers1(b, c, S)
    BY <1>1a
<1>2. c \in Nat \ {0} /\ \A i \in 1..c : b[i] \in S /\ b[i] \in Int
    BY <1>1 DEF Numbers1
<1>3. PICK k \in 1..c : \A i \in 1..c : b[i] <= b[k]
    BY <1>2, TopOf
<1>4. b[k] \in S /\ \A y \in S : b[k] >= y
    BY <1>1, <1>2, <1>3 DEF Numbers1
<1>5. Pf!Max(S) = CHOOSE x \in S : \A y \in S : x >= y
    BY Zenon DEF Pf!Max
<1>6. Pf!Max(S) \in S /\ \A y \in S : Pf!Max(S) >= y
    BY <1>4, <1>5, Zenon
<1> QED BY <1>6

\* g is a list of m numbers put after another of n.
InParts(g, k, n, m) ==
    /\ \A i \in 1..(n + m) : g[i] \in Int
    /\ \A i \in 1..m : k[i] = g[n + i]
LEMMA SumParts ==
    ASSUME NEW n \in Nat, NEW m \in Nat, NEW g, NEW k, InParts(g, k, n, m)
    PROVE  Summed(g, n + m) = Summed(g, n) + Summed(k, m)
<1>1. PICK M \in Nat : M = n + m /\ n \in 0..M /\ m = M - n
    OBVIOUS
<1>2. \A i \in 1..M : g[i] \in Int
    BY <1>1 DEF InParts
<1>3. \A i \in 1..(M - n) : k[i] = g[n + i]
    BY <1>1 DEF InParts
<1>4. Summed(g, M) = Summed(g, n) + Summed(k, M - n)
    BY <1>1, <1>2, <1>3, SumSplit, SMTT(15), ZenonT(30)
<1> QED BY <1>1, <1>4

-----------------------------------------------------------------------------
(***************************************************************************)
(* The sample of a simulation: each run falls in one bin, and a percentile *)
(* lies at a run or between two.                                           *)
(***************************************************************************)

LEMMA DevCounts == \A S : Dev!Cardinality(S) = Cardinality(S)
    BY DEF Cardinality, Dev!Cardinality

\* Division, by what it is bounded by.
LEMMA DivBounds ==
    ASSUME NEW x \in Int, NEW d \in Nat \ {0}
    PROVE  /\ x \div d \in Int /\ d * (x \div d) <= x /\ x < d * (x \div d) + d
           /\ x >= 0 => x \div d >= 0
    OBVIOUS

Rising(s) == s \in Seq(Int) /\ \A i, j \in DOMAIN s : i <= j => s[i] <= s[j]

Binned(B, n, bins) == \A i \in 1..n : B[i] \in 0..(bins - 1)

\* How many of n are in each of so many bins adds up to n.
LEMMA BinsAdd ==
    ASSUME NEW n \in Nat, NEW bins \in Nat, NEW B, Binned(B, n, bins),
           NEW h, h = [b \in 1..bins |-> Cardinality({i \in 1..n : B[i] = b - 1})]
    PROVE  Dev!SumOver(h) = n
<1> USE DEF Binned
<1> DEFINE below(k) == {i \in 1..n : B[i] < k}
           c == [k \in 0..bins |-> Cardinality(below(k))]
<1>1. IsFiniteSet(1..n) /\ Cardinality(1..n) = n
    BY FS_Interval
<1>2. ASSUME NEW S \in SUBSET (1..n) PROVE IsFiniteSet(S) /\ Cardinality(S) \in Nat
    BY <1>1, FS_Subset, FS_CardinalityType
<1>3. ASSUME NEW k \in 0..bins PROVE c[k] = Cardinality(below(k)) /\ c[k] \in Int
    <2>1. below(k) \in SUBSET (1..n)
        OBVIOUS
    <2> HIDE DEF below
    <2> QED BY <1>2, <2>1
<1>4. DOMAIN h = 1..bins /\ \A b \in 1..bins : h[b] = Cardinality({i \in 1..n : B[i] = b - 1}) /\ h[b] \in Int
    <2>1. ASSUME NEW b \in 1..bins PROVE Cardinality({i \in 1..n : B[i] = b - 1}) \in Int
        BY <1>2
    <2> QED BY <2>1
<1>5. ASSUME NEW k \in 1..bins PROVE c[k] - c[k - 1] = h[k]
    <2> DEFINE S == below(k - 1)
               T == {i \in 1..n : B[i] = k - 1}
    <2>1. S \in SUBSET (1..n) /\ T \in SUBSET (1..n) /\ S \cap T = {} /\ below(k) = S \cup T
        <3>1. \A i \in 1..n : B[i] \in Int
            OBVIOUS
        <3>2. \A i \in 1..n : B[i] < k <=> (B[i] < k - 1 \/ B[i] = k - 1)
            BY <3>1
        <3>3. S \cap T = {}
            BY <3>1
        <3> QED BY <3>2, <3>3
    <2> HIDE DEF below, S, T
    <2>2. IsFiniteSet(S) /\ IsFiniteSet(T) /\ Cardinality(S) \in Nat /\ Cardinality(T) \in Nat
        BY <1>2, <2>1
    <2>3. Cardinality(S \cup T) = Cardinality(S) + Cardinality(T) - Cardinality(S \cap T)
        BY <2>2, FS_Union
    <2>4. Cardinality(S \cup T) = Cardinality(S) + Cardinality(T)
        <3>1. Cardinality(S \cap T) = 0
            BY <2>1, FS_EmptySet
        <3> QED BY <2>2, <2>3, <3>1
    <2>5. k \in 0..bins /\ k - 1 \in 0..bins
        OBVIOUS
    <2>6. c[k] = Cardinality(S \cup T) /\ c[k - 1] = Cardinality(S)
        BY <1>3, <2>1, <2>5 DEF S
    <2>7. h[k] = Cardinality(T)
        BY <1>4 DEF T
    <2> QED BY <2>2, <2>4, <2>6, <2>7
<1>6. c[0] = 0 /\ c[bins] = n
    <2>1. below(0) = {} /\ below(bins) = 1..n
        <3>1. \A i \in 1..n : ~(B[i] < 0) /\ B[i] < bins
            OBVIOUS
        <3> QED BY <3>1
    <2>2. 0 \in 0..bins /\ bins \in 0..bins
        OBVIOUS
    <2> HIDE DEF below
    <2> QED BY <1>1, <1>3, <2>1, <2>2, FS_EmptySet
<1> HIDE DEF c, below
<1>7. PICK w : AddsUp(w, h, bins) /\ Dev!SumOver(h) = w[bins]
    <2>1. PICK w : AddsUp(w, h, bins) /\ Summed(h, bins) = w[bins]
        BY <1>4, SumIs
    <2>2. Dev!SumOver(h) = Summed(h, bins)
        BY <1>4, FoldSums, Zenon
    <2> QED BY <2>1, <2>2
<1>8. \A k \in 0..bins : c[k] \in Int /\ w[k] \in Int
    BY <1>3, <1>7 DEF AddsUp
<1>9. c[0] = w[0]
    BY <1>6, <1>7 DEF AddsUp
<1>10. ASSUME NEW k \in 1..bins PROVE c[k] - c[k - 1] = w[k] - w[k - 1]
    <2>1. PICK x, y \in Int : x = w[k - 1] /\ y = h[k] /\ w[k] = w[k - 1] + h[k]
        BY <1>4, <1>7 DEF AddsUp
    <2>2. w[k] - w[k - 1] = y
        BY <2>1
    <2> QED BY <1>5, <2>1, <2>2
<1>11. bins \in 0..bins /\ c[bins] = w[bins]
    <2>1. \A k \in 0..bins : c[k] = w[k]
        BY <1>8, <1>9, <1>10, Agree, ZenonT(40)
    <2> QED BY <2>1
<1> QED BY <1>6, <1>7, <1>11

\* No run of a simulation is missing from its histogram.
LEMMA HistogramHolds ==
    ASSUME NEW sorted, Rising(sorted), sorted # <<>>, NEW bins \in Nat \ {0}
    PROVE  Dev!SumOver(Dev!binned(sorted, bins)) = Len(sorted)
<1> DEFINE n == Len(sorted)
           lo == sorted[1]
           range == sorted[n] - lo
           B == [i \in 1..n |-> Dev!Min({bins - 1, ((sorted[i] - lo) * bins) \div range})]
<1>1. n \in Nat \ {0} /\ DOMAIN sorted = 1..n /\ 1 \in 1..n /\ n \in 1..n /\ \A i \in 1..n : sorted[i] \in Int
    BY DEF Rising
<1>2. lo \in Int /\ range \in Int /\ range >= 0 /\ \A i \in 1..n : sorted[i] - lo >= 0
    BY <1>1, SMTT(15), ZenonT(30) DEF Rising
<1>3. CASE range = 0
    <2> DEFINE h == <<n>>
    <2>1. Dev!binned(sorted, bins) = h
        BY <1>3 DEF Dev!binned
    <2>2. DOMAIN h = 1..1 /\ h[1] = n /\ \A m \in 1..1 : h[m] \in Int
        BY <1>1
    <2> HIDE DEF n, h
    <2>3. Dev!SumOver(h) = Summed(h, 1)
        BY <2>2, FoldSums, Zenon
    <2>4. PICK w : AddsUp(w, h, 1) /\ Summed(h, 1) = w[1]
        BY <2>2, SumIs
    <2>5. w[1] = n
        <3>1. 1 \in 1..1 /\ 1 - 1 = 0
            OBVIOUS
        <3> QED BY <1>1, <2>2, <2>4, <3>1 DEF AddsUp
    <2> QED BY <2>1, <2>3, <2>4, <2>5 DEF n
<1>4. CASE range # 0
    <2> DEFINE h == [b \in 1..bins |-> Cardinality({i \in 1..n : B[i] = b - 1})]
    <2>1. Dev!binned(sorted, bins) = [b \in 1..bins |->
               Dev!Cardinality({i \in DOMAIN sorted : Dev!Min({bins - 1, ((sorted[i] - lo) * bins) \div range}) = b - 1})]
        <3> DEFINE H == [b \in 1..bins |->
               Dev!Cardinality({i \in DOMAIN sorted : Dev!Min({bins - 1, ((sorted[i] - lo) * bins) \div range}) = b - 1})]
        <3>1. Dev!binned(sorted, bins) = IF sorted = <<>> THEN <<>> ELSE IF range = 0 THEN <<n>> ELSE H
            BY DevCounts, Zenon DEF Dev!binned
        <3> HIDE DEF H, n, lo, range
        <3>2. Dev!binned(sorted, bins) = H
            BY <1>4, <3>1
        <3> QED BY <3>2, Zenon DEF H
    <2>2. Dev!binned(sorted, bins) = h
        <3> DEFINE M(i) == Dev!Min({bins - 1, ((sorted[i] - lo) * bins) \div range})
        <3>1. ASSUME NEW b PROVE {i \in DOMAIN sorted : M(i) = b - 1} = {i \in 1..n : B[i] = b - 1}
            <4>1. \A i \in 1..n : B[i] = M(i)
                BY Zenon
            <4> HIDE DEF B, M
            <4> QED BY <1>1, <4>1
        <3> HIDE DEF B
        <3> QED BY <2>1, <3>1, DevCounts, Zenon
    <2>3. ASSUME NEW i \in 1..n PROVE B[i] \in 0..(bins - 1)
        <3>1. PICK x \in Nat, d \in Nat \ {0} : x = (sorted[i] - lo) * bins /\ d = range
            <4>1. PICK y \in Nat : y = sorted[i] - lo
                BY <1>1, <1>2
            <4>2. y * bins \in Nat
                OBVIOUS
            <4> QED BY <1>2, <1>4, <4>1, <4>2
        <3>2. PICK q \in Nat : q = x \div d
            BY <3>1, DivBounds
        <3>3. Dev!Min({bins - 1, q}) = IF bins - 1 <= q THEN bins - 1 ELSE q
            BY MinOfTwo
        <3>4. B[i] = Dev!Min({bins - 1, q})
            BY <3>1, <3>2, Zenon
        <3> HIDE DEF B
        <3> QED BY <3>3, <3>4
    <2> HIDE DEF B, h
    <2>4. Dev!SumOver(h) = n
        <3>1. h = [b \in 1..bins |-> Cardinality({i \in 1..n : B[i] = b - 1})]
            BY DEF h
        <3>2. n \in Nat /\ bins \in Nat
            BY <1>1
        <3>3. Binned(B, n, bins)
            BY <2>3 DEF Binned
        <3> HIDE DEF n
        <3> QED BY <3>1, <3>2, <3>3, BinsAdd
    <2> QED BY <2>2, <2>4
<1> QED BY <1>3, <1>4

LEMMA MulMono == ASSUME NEW d \in Nat, NEW x \in Int, NEW y \in Int, x <= y PROVE d * x <= d * y /\ d * x \in Int /\ d * y \in Int
<1>1. PICK z \in Nat : z = y - x
    OBVIOUS
<1>2. d * z \in Nat /\ d * x \in Int
    OBVIOUS
<1>3. d * y = d * x + d * z
    BY <1>1
<1> QED BY <1>2, <1>3

\* Where the p-th percentile lies: at a run or between two.
Between(sorted, k, t) ==
    IF t = 0 THEN 100 * sorted[k + 1] ELSE 100 * sorted[k + 1] + (sorted[k + 2] - sorted[k + 1]) * t
Lies(sorted, p, k, t) ==
    /\ k \in 0..(Len(sorted) - 1) /\ t \in 0..99 /\ (Len(sorted) - 1) * p = 100 * k + t
    /\ t > 0 => k < Len(sorted) - 1
    /\ Dev!percentile(sorted, p) = Between(sorted, k, t)

\* A sample of n runs in order.
Runs(sorted, n) ==
    /\ n \in Nat \ {0} /\ n = Len(sorted) /\ DOMAIN sorted = 1..n /\ \A i \in 1..n : sorted[i] \in Int
    /\ \A i, j \in 1..n : i <= j => sorted[i] <= sorted[j]

LEMMA RunsOf == ASSUME NEW sorted, Rising(sorted), sorted # <<>> PROVE \E n : Runs(sorted, n)
<1>1. Len(sorted) \in Nat \ {0} /\ DOMAIN sorted = 1..Len(sorted) /\ \A i \in 1..Len(sorted) : sorted[i] \in Int
    BY DEF Rising
<1>2. \A i, j \in 1..Len(sorted) : i <= j => sorted[i] <= sorted[j]
    BY <1>1 DEF Rising
<1>3. Runs(sorted, Len(sorted))
    BY <1>1, <1>2 DEF Runs
<1> QED BY <1>3

LEMMA Hundreds ==
    ASSUME NEW pos \in Nat
    PROVE  \E k \in Nat, t \in 0..99 : k = pos \div 100 /\ t = pos % 100 /\ pos = 100 * k + t
<1>1. pos \div 100 \in Nat /\ pos % 100 \in 0..99 /\ pos = 100 * (pos \div 100) + (pos % 100)
    OBVIOUS
<1> QED BY <1>1

LEMMA PercentileLies ==
    ASSUME NEW sorted, Rising(sorted), sorted # <<>>, NEW p \in 0..100
    PROVE  \E k, t : Lies(sorted, p, k, t)
<1>0. PICK n : Runs(sorted, n)
    BY RunsOf
<1>1. n \in Nat \ {0} /\ n = Len(sorted) /\ DOMAIN sorted = 1..n /\ \A i \in 1..n : sorted[i] \in Int
    BY <1>0 DEF Runs
<1>2. PICK pos \in Nat : pos = (Len(sorted) - 1) * p /\ pos <= 100 * (n - 1)
    <2>1. n - 1 \in Nat /\ p <= 100
        BY <1>1
    <2>2. (n - 1) * p <= (n - 1) * 100 /\ (n - 1) * p \in Nat
        BY <2>1, MulMono
    <2> QED BY <1>1, <2>2
<1>3. PICK k \in Nat, t \in 0..99 : k = pos \div 100 /\ t = pos % 100 /\ pos = 100 * k + t
    BY Hundreds
<1>4. k <= n - 1 /\ (t > 0 => k < n - 1)
    <2>1. pos <= 100 * (n - 1) /\ pos = 100 * k + t /\ n \in Nat \ {0}
        BY <1>1, <1>2, <1>3
    <2> QED BY <2>1
<1>5. Dev!Ceiling(pos, 100) = IF t = 0 THEN k ELSE k + 1
    <2>1. (pos + 100 - 1) \div 100 = IF t = 0 THEN k ELSE k + 1
        BY <1>3
    <2> QED BY <2>1 DEF Dev!Ceiling
<1>10. k \in 0..(Len(sorted) - 1) /\ t \in 0..99 /\ (Len(sorted) - 1) * p = 100 * k + t /\ (t > 0 => k < Len(sorted) - 1)
    <2>1. k \in 0..(Len(sorted) - 1) /\ (t > 0 => k < Len(sorted) - 1)
        BY <1>1, <1>4
    <2> QED BY <1>2, <1>3, <2>1, Zenon
<1> DEFINE lo == sorted[k + 1]
           hi == sorted[Dev!Ceiling(pos, 100) + 1]
<1>6. Dev!percentile(sorted, p) = lo * 100 + (hi - lo) * t
    <2>1. Dev!percentile(sorted, p) = sorted[pos \div 100 + 1] * 100
             + (sorted[Dev!Ceiling(pos, 100) + 1] - sorted[pos \div 100 + 1]) * (pos % 100)
        BY <1>2, Zenon DEF Dev!percentile
    <2> QED BY <1>3, <2>1, Zenon
<1>7. lo \in Int
    BY <1>1, <1>3, <1>4
<1>8. CASE t = 0
    <2>1. hi = lo
        BY <1>5, <1>8
    <2> HIDE DEF lo, hi
    <2>2. Dev!percentile(sorted, p) = 100 * lo
        BY <1>6, <1>7, <1>8, <2>1
    <2>3. Dev!percentile(sorted, p) = Between(sorted, k, t)
        BY <1>8, <2>2 DEF Between, lo
    <2> QED BY <1>10, <2>3, Zenon DEF Lies
<1>9. CASE t # 0
    <2>1. hi = sorted[k + 2] /\ hi \in Int
        <3>1. Dev!Ceiling(pos, 100) + 1 = k + 2 /\ k + 2 \in 1..n
            <4>1. Dev!Ceiling(pos, 100) = k + 1 /\ t > 0
                BY <1>5, <1>9
            <4> QED BY <1>1, <1>4, <4>1
        <3> QED BY <1>1, <3>1
    <2> HIDE DEF lo, hi
    <2>2. Dev!percentile(sorted, p) = 100 * lo + (hi - lo) * t
        BY <1>6, <1>7, <2>1
    <2>3. Dev!percentile(sorted, p) = Between(sorted, k, t)
        BY <1>9, <2>1, <2>2 DEF Between, lo
    <2> QED BY <1>10, <2>3, Zenon DEF Lies
<1> QED BY <1>8, <1>9

LEMMA PercentilesOrdered ==
    ASSUME NEW sorted, Rising(sorted), sorted # <<>>, NEW p \in 0..100, NEW q \in 0..100, p <= q
    PROVE  Dev!percentile(sorted, p) <= Dev!percentile(sorted, q)
<1>0. PICK n : Runs(sorted, n)
    BY RunsOf
<1>1. n \in Nat \ {0} /\ n = Len(sorted) /\ DOMAIN sorted = 1..n /\ \A i \in 1..n : sorted[i] \in Int
    BY <1>0 DEF Runs
<1>2. PICK k, t : Lies(sorted, p, k, t)
    BY PercentileLies
<1>3. PICK l, u : Lies(sorted, q, l, u)
    BY PercentileLies
<1>4. /\ k \in 0..(n - 1) /\ l \in 0..(n - 1) /\ t \in 0..99 /\ u \in 0..99
      /\ (t > 0 => k < n - 1) /\ (u > 0 => l < n - 1)
    BY <1>1, <1>2, <1>3 DEF Lies
<1>9. Dev!percentile(sorted, p) = Between(sorted, k, t) /\ Dev!percentile(sorted, q) = Between(sorted, l, u)
    BY <1>2, <1>3 DEF Lies
<1>5. 100 * k + t <= 100 * l + u
    <2>1. n - 1 \in Nat
        BY <1>1
    <2>2. (n - 1) * p <= (n - 1) * q
        BY <2>1, MulMono, SMTT(15), ZenonT(30)
    <2>3. (n - 1) * p = 100 * k + t /\ (n - 1) * q = 100 * l + u
        BY <1>1, <1>2, <1>3, Zenon DEF Lies
    <2> QED BY <2>2, <2>3, Zenon
\* Between two runs, and no further than the next.
<1>6. ASSUME NEW j \in 0..(n - 1), NEW w \in 0..99, w > 0 => j < n - 1
      PROVE  /\ Between(sorted, j, w) \in Int /\ 100 * sorted[j + 1] <= Between(sorted, j, w)
             /\ j < n - 1 => Between(sorted, j, w) <= 100 * sorted[j + 2]
    <2>1. j + 1 \in 1..n /\ sorted[j + 1] \in Int
        BY <1>1
    <2>2. j < n - 1 => j + 2 \in 1..n /\ sorted[j + 2] \in Int /\ sorted[j + 1] <= sorted[j + 2]
        BY <1>0, <1>1, <2>1 DEF Runs
    <2>3. CASE w = 0
        BY <2>1, <2>2, <2>3 DEF Between
    <2>4. CASE w # 0
        <3>1. j < n - 1
            BY <1>6, <2>4
        <3>2. PICK x \in Int, d \in Nat : x = sorted[j + 1] /\ x + d = sorted[j + 2] /\ d = sorted[j + 2] - sorted[j + 1]
            BY <2>1, <2>2, <3>1
        <3>3. PICK y \in Int : y = d * w /\ 0 <= y /\ y <= d * 100
            <4>1. d * 0 <= d * w /\ d * w <= d * 100 /\ d * w \in Int
                BY MulMono
            <4> QED BY <4>1
        <3>4. Between(sorted, j, w) = 100 * x + y
            BY <2>4, <3>2, <3>3, Zenon DEF Between
        <3>5. 100 * sorted[j + 2] = 100 * x + d * 100
            BY <3>2
        <3>6. y \in Int /\ 0 <= y /\ y <= 100 * d
            BY <3>3
        <3>7. Between(sorted, j, w) \in Int /\ 100 * x <= Between(sorted, j, w) /\ Between(sorted, j, w) <= 100 * x + d * 100
            BY <3>4, <3>6
        <3>8. 100 * sorted[j + 1] = 100 * x
            BY <3>2
        <3> QED BY <3>5, <3>7, <3>8
    <2> QED BY <2>3, <2>4
<1>7. CASE k = l
    <2>1. t <= u
        BY <1>4, <1>5, <1>7
    <2>2. CASE t = 0
        <3>1. Between(sorted, k, t) = 100 * sorted[l + 1]
            BY <1>7, <2>2 DEF Between
        <3>2. 100 * sorted[l + 1] <= Between(sorted, l, u)
            BY <1>4, <1>6
        <3> QED BY <1>9, <3>1, <3>2
    <2>3. CASE t # 0
        <3>1. k < n - 1 /\ u # 0 /\ k + 1 \in 1..n /\ k + 2 \in 1..n
            BY <1>1, <1>4, <2>1, <2>3
        <3>2. sorted[k + 1] \in Int /\ sorted[k + 2] \in Int /\ sorted[k + 1] <= sorted[k + 2]
            <4>1. k + 1 \in 1..n /\ k + 2 \in 1..n /\ k + 1 <= k + 2
                BY <1>1, <1>4, <3>1
            <4> QED BY <1>0, <1>1, <4>1 DEF Runs
        <3>3. PICK d \in Nat : d = sorted[k + 2] - sorted[k + 1]
            BY <3>2
        <3>4. PICK x, y \in Int : x = d * t /\ y = d * u /\ x <= y
            BY <1>4, <2>1, MulMono
        <3>5. Between(sorted, k, t) = 100 * sorted[k + 1] + x /\ Between(sorted, l, u) = 100 * sorted[k + 1] + y
            BY <1>7, <2>3, <3>1, <3>3, <3>4, Zenon DEF Between
        <3>6. x \in Int /\ y \in Int /\ x <= y
            BY <3>4
        <3> QED BY <1>9, <3>2, <3>5, <3>6
    <2> QED BY <2>2, <2>3
<1>8. CASE k # l
    <2>1. k < l /\ k < n - 1
        BY <1>1, <1>4, <1>5, <1>8, SMTT(15), ZenonT(30)
    <2>2. Between(sorted, k, t) <= 100 * sorted[k + 2] /\ Between(sorted, k, t) \in Int
        BY <1>4, <1>6, <2>1
    <2>3. 100 * sorted[l + 1] <= Between(sorted, l, u) /\ Between(sorted, l, u) \in Int
        BY <1>4, <1>6
    <2>4. k + 2 \in 1..n /\ l + 1 \in 1..n /\ k + 2 <= l + 1
        BY <1>1, <1>4, <2>1
    <2>5. sorted[k + 2] <= sorted[l + 1] /\ sorted[k + 2] \in Int /\ sorted[l + 1] \in Int
        BY <1>0, <1>1, <2>4 DEF Runs
    <2> QED BY <1>9, <2>2, <2>3, <2>5
<1> QED BY <1>7, <1>8

LEMMA PercentileEnds ==
    ASSUME NEW sorted, Rising(sorted), sorted # <<>>
    PROVE  /\ Dev!percentile(sorted, 0) = 100 * sorted[1]
           /\ Dev!percentile(sorted, 100) = 100 * sorted[Len(sorted)]
<1>1. PICK n \in Nat \ {0} : n = Len(sorted)
    BY DEF Rising
<1>2. PICK k, t : Lies(sorted, 0, k, t)
    BY PercentileLies
<1>3. PICK l, u : Lies(sorted, 100, l, u)
    BY PercentileLies
<1>4. k = 0 /\ t = 0
    BY <1>1, <1>2 DEF Lies
<1>5. l = n - 1 /\ u = 0
    BY <1>1, <1>3 DEF Lies
<1>6. Dev!percentile(sorted, 0) = 100 * sorted[1]
    BY <1>2, <1>4 DEF Lies, Between
<1>7. Dev!percentile(sorted, 100) = 100 * sorted[n]
    BY <1>1, <1>3, <1>5 DEF Lies, Between
<1> QED BY <1>1, <1>6, <1>7

\* No run of a simulation is missing from its histogram, however many bins it is drawn in, the best run and the worst
\* included, and its percentiles are in order and inside its range (binned and percentile, engine.ts).
THEOREM SampleWhole ==
    ASSUME NEW sorted, Rising(sorted), sorted # <<>>, NEW bins \in Nat \ {0}
    PROVE  Dev!SampleIsWhole(sorted, bins)
<1>1. Dev!SumOver(Dev!binned(sorted, bins)) = Len(sorted)
    BY HistogramHolds
<1>2. \A p, q \in {0, 10, 50, 90, 100} : p <= q => Dev!percentile(sorted, p) <= Dev!percentile(sorted, q)
    <2>1. \A p, q \in 0..100 : p <= q => Dev!percentile(sorted, p) <= Dev!percentile(sorted, q)
        BY PercentilesOrdered
    <2>2. {0, 10, 50, 90, 100} \subseteq 0..100
        OBVIOUS
    <2> QED BY <2>1, <2>2
<1> QED BY <1>1, <1>2, PercentileEnds, Zenon DEF Dev!SampleIsWhole

-----------------------------------------------------------------------------
(***************************************************************************)
(* What is kept of a list.  A filter of PortfolioFigures takes one item     *)
(* after another; what it keeps is the list read through the places it      *)
(* takes, and what that adds up to is the whole list with nothing in the    *)
(* other places.                                                            *)
(***************************************************************************)
LEMMA SameSum == \A f : Pf!SumOver(f) = Dev!SumOver(f)
    BY Zenon DEF Pf!SumOver, Pf!MapThenSumSet, Pf!MapThenFoldSet, Dev!SumOver, Dev!MapThenSumSet, Dev!MapThenFoldSet

LEMMA PfSums ==
    ASSUME NEW n \in Nat, NEW f, DOMAIN f = 1..n, \A m \in 1..n : f[m] \in Int
    PROVE  Pf!SumOver(f) = Summed(f, n)
    BY SameSum, FoldSums

\* it keeps, of the first n of s, what is at the places of D: what the filter is, if there is one.
IsKept(it, s, D, n) ==
    it = [i \in 0..n |-> IF i = 0 THEN <<>> ELSE IF i \in D THEN Append(it[i - 1], s[i]) ELSE it[i - 1]]
Keeps(it, s, D, n) ==
    /\ it[0] = <<>>
    /\ \A i \in 1..n : it[i] = IF i \in D THEN Append(it[i - 1], s[i]) ELSE it[i - 1]

LEMMA KeptOf == \A s, D : Pf!Kept(s, D) = (CHOOSE it : IsKept(it, s, D, Len(s)))[Len(s)]
    BY Zenon DEF Pf!Kept, IsKept

LEMMA StepIs ==
    ASSUME NEW it, NEW s, NEW D, NEW n \in Nat, IsKept(it, s, D, n), NEW i \in 0..n
    PROVE  it[i] = IF i = 0 THEN <<>> ELSE IF i \in D THEN Append(it[i - 1], s[i]) ELSE it[i - 1]
<1> DEFINE F(j) == IF j = 0 THEN <<>> ELSE IF j \in D THEN Append(it[j - 1], s[j]) ELSE it[j - 1]
<1>1. it = [j \in 0..n |-> F(j)]
    BY Zenon DEF IsKept
<1> HIDE DEF F
<1>2. it[i] = F(i)
    BY <1>1
<1> QED BY <1>2 DEF F

LEMMA KeptKeeps ==
    ASSUME NEW it, NEW s, NEW D, NEW n \in Nat, IsKept(it, s, D, n)
    PROVE  Keeps(it, s, D, n)
<1>1. it[0] = <<>>
    <2>1. 0 \in 0..n
        OBVIOUS
    <2> QED BY <2>1, StepIs
<1>2. ASSUME NEW i \in 1..n
      PROVE  it[i] = IF i \in D THEN Append(it[i - 1], s[i]) ELSE it[i - 1]
    <2>1. i \in 0..n /\ i # 0
        OBVIOUS
    <2>2. it[i] = IF i = 0 THEN <<>> ELSE IF i \in D THEN Append(it[i - 1], s[i]) ELSE it[i - 1]
        BY <2>1, StepIs
    <2> QED BY <2>1, <2>2, Zenon
<1> QED BY <1>1, <1>2 DEF Keeps

\* A column goes on with the next item.
LEMMA KeptOn ==
    ASSUME NEW s, NEW D, NEW m \in Nat \ {0}, NEW it, IsKept(it, s, D, m - 1)
    PROVE  IsKept([i \in 0..m |-> IF i = m THEN IF m \in D THEN Append(it[m - 1], s[m]) ELSE it[m - 1] ELSE it[i]],
                  s, D, m)
<1> DEFINE x == IF m \in D THEN Append(it[m - 1], s[m]) ELSE it[m - 1]
           t == [i \in 0..m |-> IF i = m THEN x ELSE it[i]]
           F(i) == IF i = 0 THEN <<>> ELSE IF i \in D THEN Append(t[i - 1], s[i]) ELSE t[i - 1]
<1>1. m - 1 \in Nat /\ m - 1 \in 0..m /\ m - 1 # m /\ m # 0
    OBVIOUS
<1>2. Keeps(it, s, D, m - 1)
    BY <1>1, KeptKeeps
<1>3. ASSUME NEW i \in 0..m PROVE t[i] = F(i)
    <2>1. CASE i = m
        <3>1. t[i] = x /\ t[m - 1] = it[m - 1]
            BY <1>1, <2>1
        <3> HIDE DEF t
        <3> QED BY <1>1, <2>1, <3>1
    <2>2. CASE i = 0
        <3>1. t[i] = it[0]
            BY <1>1, <2>2
        <3> HIDE DEF t, x
        <3> QED BY <1>2, <2>2, <3>1 DEF Keeps
    <2>3. CASE i # m /\ i # 0
        <3>1. i \in 1..(m - 1) /\ i - 1 \in 0..m /\ i - 1 # m
            BY <2>3
        <3>2. t[i] = it[i] /\ t[i - 1] = it[i - 1]
            BY <2>3, <3>1
        <3>3. it[i] = IF i \in D THEN Append(it[i - 1], s[i]) ELSE it[i - 1]
            BY <1>2, <3>1, Zenon DEF Keeps
        <3> HIDE DEF t, x
        <3>4. t[i] = IF i \in D THEN Append(t[i - 1], s[i]) ELSE t[i - 1]
            BY <3>2, <3>3, Zenon
        <3> QED BY <2>3, <3>4, Zenon
    <2> QED BY <2>1, <2>2, <2>3
<1>4. t = [i \in 0..m |-> F(i)]
    <2> HIDE DEF F, x
    <2> QED BY <1>3, Zenon
<1>5. IsKept(t, s, D, m)
    BY <1>4, Zenon DEF IsKept
<1> QED BY <1>5

LEMMA KeptExists ==
    ASSUME NEW s, NEW D, NEW n \in Nat
    PROVE  \E it : IsKept(it, s, D, n)
<1> DEFINE B == {k \in 0..n : ~ \E it : IsKept(it, s, D, k)}
<1>1. ASSUME B # {} PROVE FALSE
    <2>1. PICK m \in B : \A y \in B : m <= y
        <3>1. B \subseteq Nat
            OBVIOUS
        <3> HIDE DEF B
        <3> QED BY <1>1, <3>1, LeastOf
    <2>2. m # 0
        <3> DEFINE z == [i \in 0..0 |-> <<>>]
        <3>1. IsKept(z, s, D, 0)
            BY DEF IsKept
        <3> HIDE DEF z
        <3> QED BY <3>1
    <2>3. m - 1 \in 0..n /\ m - 1 \notin B /\ m \in Nat \ {0}
        BY <2>1, <2>2
    <2>4. PICK it : IsKept(it, s, D, m - 1)
        BY <2>3
    <2>5. \E t : IsKept(t, s, D, m)
        <3> HIDE DEF B
        <3> QED BY <2>3, <2>4, KeptOn, Zenon
    <2> QED BY <2>5, <2>1
<1> QED BY <1>1

LEMMA KeptColumn ==
    ASSUME NEW s, NEW D, Len(s) \in Nat
    PROVE  \E it : Keeps(it, s, D, Len(s)) /\ Pf!Kept(s, D) = it[Len(s)]
<1> DEFINE n == Len(s)
           c == CHOOSE it : IsKept(it, s, D, n)
<1>1. IsKept(c, s, D, n)
    BY KeptExists, Zenon
<1>2. Pf!Kept(s, D) = c[n]
    BY KeptOf, Zenon
<1> HIDE DEF c
<1>3. Keeps(c, s, D, n)
    BY <1>1, KeptKeeps
<1> QED BY <1>2, <1>3

-----------------------------------------------------------------------------
(***************************************************************************)
(* A scheme on site: the budgets of its cost plan, its spend against the   *)
(* programme, and the covenants of its loan.                               *)
(***************************************************************************)

LEMMA PfMax == \A x, y \in Int : Pf!Max({x, y}) = IF x >= y THEN x ELSE y
<1> SUFFICES ASSUME NEW x \in Int, NEW y \in Int PROVE Pf!Max({x, y}) = IF x >= y THEN x ELSE y
    OBVIOUS
<1> DEFINE P(z) == z \in {x, y} /\ \A w \in {x, y} : z >= w
           m == IF x >= y THEN x ELSE y
<1>1. P(m) /\ \A z : P(z) => z = m
    OBVIOUS
<1>2. Pf!Max({x, y}) = CHOOSE z \in {x, y} : \A w \in {x, y} : z >= w
    BY Zenon DEF Pf!Max
<1> HIDE DEF m
<1> QED BY <1>1, <1>2

LEMMA TotalIs ==
    ASSUME NEW f, f = [i \in DOMAIN f |-> f[i]]
    PROVE  Pf!SumOver([i \in DOMAIN f |-> f[i]]) = Dev!SumOver(f)
<1>1. Pf!SumOver([i \in DOMAIN f |-> f[i]]) = Pf!SumOver(f)
    OBVIOUS
<1> QED BY <1>1, SameSum, Zenon

\* A share is rounded to the nearest.
LEMMA RoundIs ==
    ASSUME NEW x \in Int, NEW d \in Nat \ {0}
    PROVE  /\ Pf!Round(x, d) \in Int
           /\ \A y \in Int : y = Pf!Round(x, d) * d => Pf!DistanceFrom0(2 * (y - x)) <= d
<1> DEFINE q == (2 * x + d) \div (2 * d)
<1>1. 2 * d \in Nat \ {0} /\ 2 * x + d \in Int
    OBVIOUS
<1>2. q \in Int /\ (2 * d) * q <= 2 * x + d /\ 2 * x + d < (2 * d) * q + 2 * d
    BY <1>1, DivBounds
<1>3. Pf!Round(x, d) = q
    BY DEF Pf!Round
<1> HIDE DEF q
<1>4. ASSUME NEW y \in Int, y = Pf!Round(x, d) * d PROVE Pf!DistanceFrom0(2 * (y - x)) <= d
    <2>1. (2 * d) * q = 2 * y
        BY <1>2, <1>3, <1>4
    <2>2. PICK w \in Int : w = 2 * (y - x) /\ w <= d /\ -w <= d
        BY <1>2, <2>1
    <2>3. Pf!DistanceFrom0(w) = IF w >= -w THEN w ELSE -w
        BY <2>2, PfMax DEF Pf!DistanceFrom0
    <2> QED BY <2>2, <2>3
<1> QED BY <1>2, <1>3, <1>4

\* A cost plan made from an appraisal adds up to the build cost, however many trades it has and however their shares
\* round, and no budget but the last is further off its trade's share than rounding takes it (tradeBudgets,
\* cost-report.ts).
THEOREM BudgetsAdd ==
    ASSUME NEW rates \in Seq(Nat), NEW build \in Int
    PROVE  Pf!BudgetsAddUp(rates, build)
<1> DEFINE n == Len(rates)
           all == Dev!SumOver(rates)
           d == IF all = 0 THEN 1 ELSE all
           early == [i \in 1..(n - 1) |-> Pf!Round(build * rates[i], d)]
           rest == build - Dev!SumOver(early)
           b == early \o <<rest>>
<1>1. CASE rates = <<>>
    BY <1>1 DEF Pf!BudgetsAddUp
<1>2. CASE rates # <<>>
    <2>1. n \in Nat \ {0} /\ n - 1 \in Nat /\ DOMAIN rates = 1..n /\ \A i \in 1..n : rates[i] \in Nat
        BY <1>2
    <2>2. Pf!tradeBudgets(rates, build) = b
        <3> DEFINE whole == Pf!SumOver([i \in DOMAIN rates |-> rates[i]])
                   first == [i \in 1..(n - 1) |-> Pf!Round(build * rates[i], IF whole = 0 THEN 1 ELSE whole)]
        <3>1. Pf!tradeBudgets(rates, build) =
                IF rates = <<>> THEN <<>> ELSE first \o <<build - Pf!SumOver([i \in DOMAIN first |-> first[i]])>>
            BY Zenon DEF Pf!tradeBudgets, Pf!Total
        <3>2. whole = all
            <4>1. rates = [i \in DOMAIN rates |-> rates[i]]
                OBVIOUS
            <4> QED BY <4>1, TotalIs, Zenon
        <3>3. first = early
            <4> HIDE DEF whole, all
            <4> QED BY <3>2, Zenon
        <3>4. Pf!SumOver([i \in DOMAIN early |-> early[i]]) = Dev!SumOver(early)
            <4> HIDE DEF d, n
            <4>1. early = [i \in DOMAIN early |-> early[i]]
                OBVIOUS
            <4> HIDE DEF early
            <4> QED BY <4>1, TotalIs, Zenon
        <3> HIDE DEF whole, first, early
        <3> QED BY <1>2, <3>1, <3>3, <3>4, Zenon
    <2>3. all \in Nat
        <3>1. all = Summed(rates, n)
            BY <2>1, FoldSums
        <3> QED BY <2>1, <3>1, SumNat
    <2> HIDE DEF all
    <2>4. d \in Nat \ {0} /\ (all > 0 => d = all)
        BY <2>3
    <2> HIDE DEF d, n
    <2>5. ASSUME NEW i \in 1..(n - 1) PROVE early[i] \in Int /\ early[i] = Pf!Round(build * rates[i], d) /\ build * rates[i] \in Int
        <3>1. rates[i] \in Nat
            BY <2>1
        <3>2. build * rates[i] \in Int
            BY <3>1
        <3>3. Pf!Round(build * rates[i], d) \in Int
            BY <2>4, <3>2, RoundIs
        <3> QED BY <3>2, <3>3
    <2>6. DOMAIN early = 1..(n - 1) /\ early \in Seq(Int) /\ Len(early) = n - 1
        BY <2>1, <2>5
    <2> HIDE DEF early
    <2>7. Dev!SumOver(early) = Summed(early, n - 1)
        BY <2>1, <2>5, <2>6, FoldSums
    <2>8. Summed(early, n - 1) \in Int
        <3>1. PICK t : AddsUp(t, early, n - 1) /\ Summed(early, n - 1) = t[n - 1]
            BY <2>1, <2>5, SumIs
        <3> QED BY <2>1, <3>1 DEF AddsUp
    <2>9. rest \in Int /\ rest = build - Summed(early, n - 1)
        BY <2>7, <2>8
    <2> HIDE DEF rest
    <2>10. /\ DOMAIN b = 1..n /\ Len(b) = n /\ b[n] = rest
           /\ \A i \in 1..(n - 1) : b[i] = early[i]
        <3>1. /\ n \in Nat \ {0} /\ n - 1 \in Nat /\ early \in Seq(Int) /\ Len(early) = n - 1
              /\ rest \in Int
            BY <2>1, <2>6, <2>9
        <3> HIDE DEF rest
        <3>2. b \in Seq(Int) /\ Len(b) = n
            BY <3>1
        <3>3. DOMAIN b = 1..n
            BY <3>2
        <3>4. b[n] = rest
            BY <3>1
        <3>5. \A i \in 1..(n - 1) : b[i] = early[i]
            BY <3>1
        <3> QED BY <3>2, <3>3, <3>4, <3>5
    <2>15. b = [i \in DOMAIN b |-> b[i]]
        <3>1. early \in Seq(Int) /\ rest \in Int
            BY <2>6, <2>9
        <3> HIDE DEF rest
        <3>2. b \in Seq(Int)
            BY <3>1
        <3> HIDE DEF b
        <3> QED BY <3>2
    <2> HIDE DEF b
    <2>11. Dev!SumOver(b) = build
        <3>1. \A i \in 1..(n - 1) : early[i] \in Int /\ b[i] = early[i]
            BY <2>5, <2>10
        <3>2. (n - 1) + 1 = n
            BY <2>1
        <3>3. Summed(b, (n - 1) + 1) = Summed(early, n - 1) + b[(n - 1) + 1]
            BY <2>1, <2>9, <2>10, <3>1, <3>2, SumAppend, ZenonT(40)
        <3>4. \A i \in 1..n : b[i] \in Int
            BY <2>1, <2>9, <2>10, <3>1
        <3>5. Dev!SumOver(b) = Summed(b, n)
            BY <2>1, <2>10, <3>4, FoldSums
        <3> QED BY <2>8, <2>9, <2>10, <3>2, <3>3, <3>5
    <2>12. ASSUME all > 0, NEW i \in 1..(Len(b) - 1)
           PROVE  Pf!DistanceFrom0(2 * (b[i] * all - build * rates[i])) <= all
        <3>1. i \in 1..(n - 1) /\ b[i] = early[i]
            BY <2>10, <2>12
        <3>2. PICK x \in Int : x = build * rates[i] /\ b[i] = Pf!Round(x, all)
            BY <2>4, <2>5, <2>12, <3>1
        <3>3. all \in Nat \ {0}
            BY <2>3, <2>12
        <3>4. b[i] \in Int
            BY <3>2, <3>3, RoundIs
        <3>5. PICK y \in Int : y = b[i] * all
            BY <3>3, <3>4
        <3>6. Pf!DistanceFrom0(2 * (y - x)) <= all
            BY <3>2, <3>3, <3>5, RoundIs
        <3> QED BY <3>2, <3>5, <3>6
    <2>13. Pf!Total(b, LAMBDA x : x) = build
        <3>1. Pf!SumOver([i \in DOMAIN b |-> b[i]]) = build
            BY <2>11, <2>15, TotalIs, Zenon
        <3> QED BY <3>1, Zenon DEF Pf!Total
    <2>14. Pf!Total(rates, LAMBDA x : x) = all
        <3>1. rates = [i \in DOMAIN rates |-> rates[i]]
            OBVIOUS
        <3>2. Pf!SumOver([i \in DOMAIN rates |-> rates[i]]) = all
            BY <3>1, TotalIs, Zenon DEF all
        <3> QED BY <3>2, Zenon DEF Pf!Total
    <2> QED BY <1>2, <2>2, <2>12, <2>13, <2>14, Zenon DEF Pf!BudgetsAddUp
<1> QED BY <1>1, <1>2

LEMMA PfMin == \A x, y \in Int : Pf!Min({x, y}) = IF x <= y THEN x ELSE y
<1> SUFFICES ASSUME NEW x \in Int, NEW y \in Int PROVE Pf!Min({x, y}) = IF x <= y THEN x ELSE y
    OBVIOUS
<1> DEFINE P(z) == z \in {x, y} /\ \A w \in {x, y} : z <= w
           m == IF x <= y THEN x ELSE y
<1>1. P(m) /\ \A z : P(z) => z = m
    OBVIOUS
<1>2. Pf!Min({x, y}) = CHOOSE z \in {x, y} : \A w \in {x, y} : z <= w
    BY Zenon DEF Pf!Min
<1> HIDE DEF m
<1> QED BY <1>1, <1>2

LEMMA ClampIs ==
    ASSUME NEW v \in Int, NEW hi \in Nat
    PROVE  Pf!Clamp(v, 0, hi) = IF v <= 0 THEN 0 ELSE IF v <= hi THEN v ELSE hi
<1>1. PICK w \in Int : w = Pf!Min({v, hi}) /\ w = IF v <= hi THEN v ELSE hi
    BY PfMin
<1>2. Pf!Clamp(v, 0, hi) = Pf!Max({0, w})
    BY <1>1, Zenon DEF Pf!Clamp
<1>3. Pf!Max({0, w}) = IF 0 >= w THEN 0 ELSE w
    BY PfMax
<1> QED BY <1>1, <1>2, <1>3

\* The weights of the first k months, and of them all.
Weighs(weights, t) == /\ weights \in Seq(Nat) /\ AddsUp(t, weights, Len(weights))
PartOf(weights, k) == Pf!MapThenSumSet(LAMBDA i : weights[i], 1..k)
IsPart(it, weights, S) == it = [s \in SUBSET S |-> Fold(it, weights, s)]

LEMMA PartIs == \A weights, k : PartOf(weights, k) = (CHOOSE it : IsPart(it, weights, 1..k))[1..k]
    BY Zenon DEF PartOf, Pf!MapThenSumSet, Pf!MapThenFoldSet, IsPart, Fold, Pick

LEMMA PartAdds ==
    ASSUME NEW weights, NEW t, Weighs(weights, t), NEW k \in 0..Len(weights)
    PROVE  PartOf(weights, k) = t[k]
<1> DEFINE n == Len(weights)
           g == [i \in 1..k |-> weights[i]]
           c == CHOOSE it : IsPart(it, weights, 1..k)
<1>1. n \in Nat /\ DOMAIN weights = 1..n /\ (\A i \in 1..n : weights[i] \in Nat) /\ k \in Nat /\ k <= n
    BY DEF Weighs
<1>2. DOMAIN g = 1..k /\ (\A i \in 1..k : g[i] = weights[i] /\ g[i] \in Int) /\ IsFiniteSet(1..k)
    BY <1>1, FS_Interval
<1>3. Numbers(g)
    BY <1>2 DEF Numbers
<1> HIDE DEF g, n
<1>4. ASSUME NEW it PROVE IsPart(it, weights, 1..k) <=> IsFold(it, g)
    <2>1. ASSUME NEW s \in SUBSET (1..k) PROVE Fold(it, weights, s) = Fold(it, g, s)
        <3>1. CASE s = {}
            BY <3>1 DEF Fold
        <3>2. CASE s # {}
            <4>1. Pick(s) \in 1..k
                BY <3>2 DEF Pick
            <4> QED BY <3>2, <4>1, <1>2 DEF Fold
        <3> QED BY <3>1, <3>2
    <2>2. [s \in SUBSET (1..k) |-> Fold(it, weights, s)] = [s \in SUBSET (1..k) |-> Fold(it, g, s)]
        BY <2>1
    <2> QED BY <1>2, <2>2 DEF IsPart, IsFold
<1>5. IsFold(c, g)
    <2>1. \E it : IsPart(it, weights, 1..k)
        BY <1>3, <1>4, FoldThere
    <2>2. IsPart(c, weights, 1..k)
        BY <2>1, Zenon
    <2> HIDE DEF c
    <2> QED BY <1>4, <2>2
<1>6. PartOf(weights, k) = c[1..k]
    BY PartIs, Zenon
<1> HIDE DEF c
<1>7. c[1..k] = Summed(g, k)
    <2>1. AllFolds(c, g)
        BY <1>3, <1>5, FoldAdds
    <2>2. 1..k \subseteq DOMAIN g
        BY <1>2
    <2> QED BY <1>1, <1>3, <2>1, <2>2, FoldOfSeries
<1>8. PICK w : AddsUp(w, g, k) /\ Summed(g, k) = w[k]
    BY <1>1, <1>2, SumIs
<1>9. AddsUp(t, weights, n)
    BY DEF Weighs, n
<1>10. \A m \in 0..k : w[m] \in Int /\ t[m] \in Int
    BY <1>1, <1>8, <1>9 DEF AddsUp
<1>11. w[0] = t[0]
    BY <1>8, <1>9 DEF AddsUp
<1>12. \A m \in 1..k : w[m] - w[m - 1] = t[m] - t[m - 1]
    <2> SUFFICES ASSUME NEW m \in 1..k PROVE w[m] - w[m - 1] = t[m] - t[m - 1]
        OBVIOUS
    <2>1. m \in 1..n
        BY <1>1
    <2>2. PICK x, y, z \in Int : x = w[m - 1] /\ w[m] = x + z /\ y = t[m - 1] /\ t[m] = y + z /\ z = g[m]
        BY <1>2, <1>8, <1>9, <2>1 DEF AddsUp
    <2> QED BY <2>2
<1>13. w[k] = t[k]
    <2>1. SameSteps(w, t, k)
        BY <1>10, <1>11, <1>12 DEF SameSteps
    <2>2. \A m \in 0..k : w[m] = t[m]
        BY <1>1, <2>1, Matched
    <2> QED BY <1>1, <2>2
<1> QED BY <1>6, <1>7, <1>8, <1>13

LEMMA PartsRise ==
    ASSUME NEW weights, NEW t, Weighs(weights, t)
    PROVE  /\ \A k \in 0..Len(weights) : t[k] \in Nat
           /\ \A k \in 1..Len(weights) : t[k - 1] <= t[k]
<1> DEFINE n == Len(weights)
<1>1. n \in Nat /\ (\A i \in 1..n : weights[i] \in Nat) /\ AddsUp(t, weights, n)
    BY DEF Weighs
<1> HIDE DEF n
<1>2. \A k \in 1..n : t[k - 1] <= t[k] /\ t[k] - t[k - 1] >= 0
    <2> SUFFICES ASSUME NEW k \in 1..n PROVE t[k - 1] <= t[k] /\ t[k] - t[k - 1] >= 0
        OBVIOUS
    <2>1. PICK x \in Int, y \in Nat : x = t[k - 1] /\ t[k] = x + y
        BY <1>1 DEF AddsUp
    <2> QED BY <2>1
<1>3. \A k \in 0..n : t[k] \in Int
    BY <1>1 DEF AddsUp
<1>4. \A k \in 0..n : 0 <= t[k]
    <2> DEFINE z == [k \in 0..n |-> 0]
    <2>1. \A k \in 0..n : z[k] = 0 /\ z[k] \in Int
        OBVIOUS
    <2> HIDE DEF z
    <2>2. z[0] <= t[0]
        BY <1>1, <2>1 DEF AddsUp
    <2>3. \A k \in 1..n : z[k] - z[k - 1] <= t[k] - t[k - 1]
        <3> SUFFICES ASSUME NEW k \in 1..n PROVE z[k] - z[k - 1] <= t[k] - t[k - 1]
            OBVIOUS
        <3>1. z[k] = 0 /\ z[k - 1] = 0
            BY <1>1, <2>1
        <3> QED BY <1>2, <3>1
    <2>4. \A k \in 0..n : z[k] <= t[k]
        BY <1>1, <1>3, <2>1, <2>2, <2>3, Compare
    <2> QED BY <2>1, <2>4
<1>5. \A k \in 0..n : t[k] \in Nat
    BY <1>3, <1>4
<1> QED BY <1>2, <1>5 DEF n

\* A larger part of the same whole is no less of the total, and the whole is all of it.
LEMMA SharesRise ==
    ASSUME NEW total \in Nat, NEW x \in Nat, NEW y \in Nat, x <= y, NEW d \in Nat \ {0}
    PROVE  /\ (total * x) \div d <= (total * y) \div d
           /\ (total * x) \div d \in Int /\ (total * y) \div d \in Int
<1>1. PICK u, v \in Int : u = total * x /\ v = total * y /\ u <= v
    BY MulMono
<1>2. PICK p, q \in Int : p = u \div d /\ q = v \div d
    BY DivBounds
<1>3. d * p <= u /\ u < d * p + d /\ d * q <= v /\ v < d * q + d
    BY <1>1, <1>2, DivBounds
<1>4. ASSUME p > q PROVE FALSE
    <2>1. q + 1 <= p
        BY <1>2, <1>4
    <2>2. d * (q + 1) <= d * p
        BY <1>2, <2>1, MulMono
    <2>3. d * (q + 1) = d * q + d
        BY <1>2
    <2>4. PICK b, c \in Int : b = d * p /\ c = d * q
        BY <1>2
    <2> QED BY <1>1, <1>3, <2>2, <2>3, <2>4
<1> QED BY <1>1, <1>2, <1>4

LEMMA WholeIs == ASSUME NEW total \in Nat, NEW d \in Nat \ {0} PROVE (total * d) \div d = total
<1>1. PICK u \in Int : u = total * d /\ u = d * total
    OBVIOUS
<1>2. PICK q \in Int : q = u \div d /\ d * q <= u /\ u < d * q + d
    BY <1>1, DivBounds
<1>3. ASSUME q < total PROVE FALSE
    <2>1. q + 1 <= total
        BY <1>2, <1>3
    <2>2. d * (q + 1) <= d * total
        BY <1>2, <2>1, MulMono
    <2>3. d * (q + 1) = d * q + d
        BY <1>2
    <2>4. PICK b \in Int : b = d * q
        BY <1>2
    <2> QED BY <1>1, <1>2, <2>2, <2>3, <2>4
<1>4. ASSUME q > total PROVE FALSE
    <2>1. total + 1 <= q
        BY <1>2, <1>4
    <2>2. d * (total + 1) <= d * q
        BY <1>2, <2>1, MulMono
    <2>3. d * (total + 1) = d * total + d
        OBVIOUS
    <2>4. PICK b \in Int : b = d * q
        BY <1>2
    <2> QED BY <1>1, <1>2, <2>2, <2>3, <2>4
<1> QED BY <1>1, <1>2, <1>3, <1>4

\* How what was spent is rated against the works done.
Near(over, total) == Pf!DistanceFrom0(over) * 100 <= total * 5
Rated(over, total) ==
    IF Near(over, total) THEN "on budget"
    ELSE IF over > 0 THEN "overspending" ELSE "underspending"
Rank(status) == CASE status = "underspending" -> 1 [] status = "on budget" -> 2 [] OTHER -> 3
Works(total, progressPct) == Pf!Share(total, Pf!Clamp(progressPct, 0, 100))
Status(total, months, actual, progressPct) ==
    IF (months = 0 /\ actual = 0) \/ total <= 0 THEN "not started" ELSE Rated(actual - Works(total, progressPct), total)
ByProgramme(total, weights, elapsed) ==
    (total * PartOf(weights, Pf!Clamp(elapsed, 0, Len(weights)))) \div Pf!Total(weights, LAMBDA w : w)
Ranked == {"underspending", "on budget", "overspending"}

LEMMA SpendIs ==
    ASSUME NEW total, NEW weights, NEW elapsed, NEW actual, NEW progressPct
    PROVE  LET r == Pf!spendAgainstProgramme(total, weights, elapsed, actual, progressPct)
           IN  /\ r.byProgramme = ByProgramme(total, weights, elapsed)
               /\ r.status = Status(total, Pf!Clamp(elapsed, 0, Len(weights)), actual, progressPct)
<1> DEFINE months == Pf!Clamp(elapsed, 0, Len(weights))
           works == Works(total, progressPct)
           status == CASE (months = 0 /\ actual = 0) \/ total <= 0 -> "not started"
                       [] OTHER -> Rated(actual - works, total)
<1>1. Pf!spendAgainstProgramme(total, weights, elapsed, actual, progressPct) =
        [byProgramme |-> ByProgramme(total, weights, elapsed), byWorks |-> works,
         over |-> actual - works, status |-> status]
    BY Zenon DEF Pf!spendAgainstProgramme, ByProgramme, PartOf, Works, Rated, Near, Pf!Tolerance
<1> HIDE DEF months, works
<1>2. status = Status(total, months, actual, progressPct)
    BY DEF Status, works
<1> HIDE DEF status
<1> QED BY <1>1, <1>2 DEF months

LEMMA RatingRises ==
    ASSUME NEW over \in Int, NEW total \in Nat
    PROVE  Rated(over, total) \in Ranked /\ Rank(Rated(over, total)) <= Rank(Rated(over + 1, total))
<1>1. Pf!DistanceFrom0(over) = (IF over >= -over THEN over ELSE -over)
    BY PfMax DEF Pf!DistanceFrom0
<1>2. Pf!DistanceFrom0(over + 1) = (IF over + 1 >= -(over + 1) THEN over + 1 ELSE -(over + 1))
    BY PfMax DEF Pf!DistanceFrom0
<1>3. PICK x, y \in Int : /\ x = Pf!DistanceFrom0(over) /\ x = (IF over >= -over THEN over ELSE -over)
                         /\ y = Pf!DistanceFrom0(over + 1)
                         /\ y = (IF over + 1 >= -(over + 1) THEN over + 1 ELSE -(over + 1))
    BY <1>1, <1>2
<1>4. Near(over, total) <=> x * 100 <= total * 5
    BY <1>3 DEF Near
<1>5. Near(over + 1, total) <=> y * 100 <= total * 5
    BY <1>3 DEF Near
<1>6. /\ over > 0 /\ ~Near(over, total) => ~Near(over + 1, total)
      /\ over > 0 => over + 1 > 0
      /\ over <= 0 /\ Near(over, total) /\ ~Near(over + 1, total) => over + 1 > 0
    <2>1. over > 0 => x = over /\ y = over + 1
        BY <1>3
    <2>2. over <= 0 => over = 0 \/ y <= x
        BY <1>3
    <2> QED BY <1>4, <1>5, <2>1, <2>2
<1>7. PICK a, b : a = Rated(over, total) /\ b = Rated(over + 1, total)
    OBVIOUS
<1>8. \/ a = "underspending" /\ b \in Ranked
      \/ a = "on budget" /\ b \in {"on budget", "overspending"}
      \/ a = "overspending" /\ b = "overspending"
    <2>1. CASE Near(over, total)
        <3>1. Near(over + 1, total) \/ over + 1 > 0
            BY <1>6, <2>1
        <3> QED BY <1>7, <2>1, <3>1 DEF Rated
    <2>2. CASE ~Near(over, total) /\ over > 0
        BY <1>6, <1>7, <2>2 DEF Rated
    <2>3. CASE ~Near(over, total) /\ ~(over > 0)
        BY <1>7, <2>3 DEF Rated, Ranked
    <2> QED BY <2>1, <2>2, <2>3
<1>9. Rank("underspending") = 1 /\ Rank("on budget") = 2 /\ Rank("overspending") = 3
    BY DEF Rank
<1>10. a \in Ranked
    BY <1>8 DEF Ranked
<1>11. Rank(a) <= Rank(b)
    <2>1. CASE a = "underspending" /\ b \in Ranked
        <3>1. b = "underspending" \/ b = "on budget" \/ b = "overspending"
            BY <2>1 DEF Ranked
        <3>2. Rank(a) = 1 /\ (Rank(b) = 1 \/ Rank(b) = 2 \/ Rank(b) = 3)
            BY <1>9, <2>1, <3>1
        <3> QED BY <3>2
    <2>2. CASE a = "on budget" /\ b \in {"on budget", "overspending"}
        <3>1. Rank(a) = 2 /\ (Rank(b) = 2 \/ Rank(b) = 3)
            BY <1>9, <2>2
        <3> QED BY <3>1
    <2>3. CASE a = "overspending" /\ b = "overspending"
        <3>1. Rank(a) = 3 /\ Rank(b) = 3
            BY <1>9, <2>3
        <3> QED BY <3>1
    <2> QED BY <1>8, <2>1, <2>2, <2>3
<1> QED BY <1>7, <1>10, <1>11

\* Spend moves with the works and the calendar in one direction only: a job that has run its months is expected to have
\* spent the whole, a month later never expects less, and spending more never makes it look less overspent, for any
\* profile of spend that has a weight (spendAgainstProgramme, drawdown.ts).
THEOREM DrawdownOrdered ==
    ASSUME NEW total \in Nat, NEW weights \in Seq(Nat), Dev!SumOver(weights) > 0,
           NEW elapsed \in Int, NEW actual \in Nat, NEW progressPct \in Int
    PROVE  Pf!DrawdownIsOrdered(total, weights, elapsed, actual, progressPct)
<1> DEFINE n == Len(weights)
           Spent(e, a) == Pf!spendAgainstProgramme(total, weights, e, a, progressPct)
           rank == [s \in Ranked |-> Rank(s)]
           whole == Dev!SumOver(weights)
<1>1. n \in Nat /\ DOMAIN weights = 1..n /\ \A i \in 1..n : weights[i] \in Nat
    OBVIOUS
<1>2. PICK t : AddsUp(t, weights, n) /\ Summed(weights, n) = t[n]
    BY <1>1, SumIs
<1>3. Weighs(weights, t)
    BY <1>2 DEF Weighs
<1>4. whole = t[n] /\ whole \in Nat \ {0} /\ Pf!Total(weights, LAMBDA w : w) = whole
    <2>1. Dev!SumOver(weights) = Summed(weights, n)
        BY <1>1, FoldSums
    <2>2. Summed(weights, n) \in Nat
        BY <1>1, SumNat
    <2>3. Pf!Total(weights, LAMBDA w : w) = Dev!SumOver(weights)
        <3>1. weights = [i \in DOMAIN weights |-> weights[i]]
            OBVIOUS
        <3>2. Pf!SumOver([i \in DOMAIN weights |-> weights[i]]) = Dev!SumOver(weights)
            BY <3>1, TotalIs, Zenon
        <3> QED BY <3>2, Zenon DEF Pf!Total
    <2> QED BY <1>2, <2>1, <2>2, <2>3
<1> HIDE DEF whole, n
<1>5. \A k \in 0..n : t[k] \in Nat
    BY <1>3, PartsRise DEF n
<1>6. \A k \in 1..n : t[k - 1] <= t[k]
    BY <1>3, PartsRise DEF n
<1>7. ASSUME NEW e \in Int
      PROVE  \E k \in 0..n : /\ k = Pf!Clamp(e, 0, n)
                            /\ k = (IF e <= 0 THEN 0 ELSE IF e <= n THEN e ELSE n)
                            /\ ByProgramme(total, weights, e) = (total * t[k]) \div whole
    <2>1. PICK k \in 0..n : k = Pf!Clamp(e, 0, n) /\ k = (IF e <= 0 THEN 0 ELSE IF e <= n THEN e ELSE n)
        BY <1>1, ClampIs
    <2>2. PartOf(weights, k) = t[k]
        BY <1>3, PartAdds DEF n
    <2>3. ByProgramme(total, weights, e) = (total * PartOf(weights, k)) \div whole
        BY <1>4, <2>1, Zenon DEF ByProgramme, n
    <2> QED BY <2>1, <2>2, <2>3
<1>8. Spent(n + 1, actual).byProgramme = total
    <2>1. Spent(n + 1, actual).byProgramme = ByProgramme(total, weights, n + 1)
        BY SpendIs, ZenonT(40)
    <2>4. n + 1 \in Int
        BY <1>1
    <2>5. PICK k \in 0..n : /\ k = (IF n + 1 <= 0 THEN 0 ELSE IF n + 1 <= n THEN n + 1 ELSE n)
                            /\ ByProgramme(total, weights, n + 1) = (total * t[k]) \div whole
        BY <1>7, <2>4
    <2>6. k = n
        BY <1>1, <2>5
    <2>2. ByProgramme(total, weights, n + 1) = (total * whole) \div whole
        BY <1>4, <2>5, <2>6
    <2>3. (total * whole) \div whole = total
        BY <1>4, WholeIs
    <2> QED BY <2>1, <2>2, <2>3
<1>9. Spent(elapsed + 1, actual).byProgramme >= Spent(elapsed, actual).byProgramme
    <2>1. PICK k \in 0..n : /\ k = (IF elapsed <= 0 THEN 0 ELSE IF elapsed <= n THEN elapsed ELSE n)
                            /\ ByProgramme(total, weights, elapsed) = (total * t[k]) \div whole
        BY <1>7
    <2>0. elapsed + 1 \in Int
        OBVIOUS
    <2>2. PICK l \in 0..n : /\ l = (IF elapsed + 1 <= 0 THEN 0 ELSE IF elapsed + 1 <= n THEN elapsed + 1 ELSE n)
                            /\ ByProgramme(total, weights, elapsed + 1) = (total * t[l]) \div whole
        BY <1>7, <2>0
    <2>3. l = k \/ (l = k + 1 /\ l \in 1..n)
        BY <1>1, <2>1, <2>2
    <2>4. t[k] <= t[l] /\ t[k] \in Nat /\ t[l] \in Nat
        <3>1. t[k] \in Nat /\ t[l] \in Nat
            BY <1>5
        <3>2. l = k + 1 /\ l \in 1..n => t[k] <= t[l]
            <4>1. l = k + 1 => l - 1 = k
                OBVIOUS
            <4> QED BY <1>6, <4>1
        <3> QED BY <2>3, <3>1, <3>2
    <2>5. (total * t[k]) \div whole <= (total * t[l]) \div whole
        BY <1>4, <2>4, SharesRise
    <2>6. /\ Spent(elapsed, actual).byProgramme = ByProgramme(total, weights, elapsed)
          /\ Spent(elapsed + 1, actual).byProgramme = ByProgramme(total, weights, elapsed + 1)
        BY SpendIs, ZenonT(40)
    <2>7. PICK x, y \in Int : x = (total * t[k]) \div whole /\ y = (total * t[l]) \div whole
        BY <1>4, <2>4, SharesRise
    <2> HIDE DEF Spent
    <2> QED BY <2>1, <2>2, <2>5, <2>6, <2>7
<1>10. Spent(elapsed, actual).status \in DOMAIN rank =>
           /\ Spent(elapsed, actual + 1).status \in DOMAIN rank
           /\ rank[Spent(elapsed, actual + 1).status] >= rank[Spent(elapsed, actual).status]
    <2>1. PICK k : k = Pf!Clamp(elapsed, 0, n)
        OBVIOUS
    <2>2. PICK works \in Int : works = Works(total, progressPct)
        <3>1. PICK p \in Int : p = Pf!Clamp(progressPct, 0, 100)
            BY ClampIs
        <3>2. PICK x \in Int : x = total * p
            OBVIOUS
        <3>3. Works(total, progressPct) = x \div 100
            BY <3>1, <3>2, Zenon DEF Works, Pf!Share
        <3> QED BY <3>3
    <2>3. /\ Spent(elapsed, actual).status = Status(total, k, actual, progressPct)
          /\ Spent(elapsed, actual + 1).status = Status(total, k, actual + 1, progressPct)
        BY <2>1, SpendIs, Zenon DEF n
    <2> HIDE DEF Spent
    <2>4. PICK now, more : now = Spent(elapsed, actual).status /\ more = Spent(elapsed, actual + 1).status
        OBVIOUS
    <2>5. ASSUME now \in Ranked PROVE more \in Ranked /\ Rank(more) >= Rank(now)
        <3>1. ~((k = 0 /\ actual = 0) \/ total <= 0)
            BY <2>3, <2>4, <2>5 DEF Status, Ranked
        <3>2. now = Rated(actual - works, total)
            BY <2>2, <2>3, <2>4, <3>1 DEF Status
        <3>3. actual + 1 # 0
            OBVIOUS
        <3>4. more = Rated((actual + 1) - works, total)
            BY <2>2, <2>3, <2>4, <3>1, <3>3 DEF Status
        <3>5. PICK over \in Int : over = actual - works /\ over + 1 = (actual + 1) - works
            OBVIOUS
        <3>6. Rank(Rated(over, total)) <= Rank(Rated(over + 1, total)) /\ Rated(over + 1, total) \in Ranked
            BY <3>5, RatingRises
        <3>7. Rank(now) \in Int /\ Rank(more) \in Int
            BY DEF Rank
        <3> QED BY <3>2, <3>4, <3>5, <3>6, <3>7
    <2> HIDE DEF rank
    <2>6. DOMAIN rank = Ranked /\ \A s \in Ranked : rank[s] = Rank(s)
        BY DEF rank
    <2> QED BY <2>4, <2>5, <2>6
<1>11. rank = [s \in {"underspending", "on budget", "overspending"} |->
                 CASE s = "underspending" -> 1 [] s = "on budget" -> 2 [] OTHER -> 3]
    BY Zenon DEF rank, Ranked, Rank
<1> HIDE DEF rank
<1>12. Pf!DrawdownIsOrdered(total, weights, elapsed, actual, progressPct) =
        LET r == [s \in {"underspending", "on budget", "overspending"} |->
                    CASE s = "underspending" -> 1 [] s = "on budget" -> 2 [] OTHER -> 3]
        IN  /\ Spent(Len(weights) + 1, actual).byProgramme = total
            /\ Spent(elapsed + 1, actual).byProgramme >= Spent(elapsed, actual).byProgramme
            /\ Spent(elapsed, actual).status \in DOMAIN r =>
                  /\ Spent(elapsed, actual + 1).status \in DOMAIN r
                  /\ r[Spent(elapsed, actual + 1).status] >= r[Spent(elapsed, actual).status]
    BY Zenon DEF Pf!DrawdownIsOrdered
<1> HIDE DEF Spent
<1> QED BY <1>8, <1>9, <1>10, <1>11, <1>12, Zenon DEF n

\* The measures a covenant is tested on, and the test of one.
Measured(m) == m \in [facility : Int, totalCost : Int, gdv : Int, profit : Int]
Tested(t) == t.of > 0 /\ t.limit # Unknown
Room(t) == t.dir * (t.limit * t.of - t.part * 100)
ToValue(m, limits) == [key |-> "ltgdv", limit |-> limits.ltgdv, part |-> m.facility, of |-> m.gdv, dir |-> 1]
ToCost(m, limits) == [key |-> "ltc", limit |-> limits.ltc, part |-> m.facility, of |-> m.totalCost, dir |-> 1]
OnCost(m, limits) ==
    [key |-> "profitOnCost", limit |-> limits.profitOnCost, part |-> m.profit, of |-> m.totalCost, dir |-> -1]
Covenants(m, limits) == {ToValue(m, limits), ToCost(m, limits), OnCost(m, limits)}
TestedOf(m, limits) == {t \in Covenants(m, limits) : Tested(t)}
BreachedOf(m, limits) == {t \in TestedOf(m, limits) : Room(t) < 0}
Set(limits) == \A limit \in {limits.ltgdv, limits.ltc, limits.profitOnCost} : limit # Unknown => limit \in Int
Safer(m) == [m EXCEPT !.facility = @ - 1, !.profit = @ + 1]

LEMMA CovenantsAre ==
    \A m, limits : /\ Pf!testCovenants(m, limits).tests = {t.key : t \in TestedOf(m, limits)}
                   /\ Pf!testCovenants(m, limits).breaches = {t.key : t \in BreachedOf(m, limits)}
    BY ZenonT(40) DEF Pf!testCovenants, TestedOf, BreachedOf, Covenants, ToValue, ToCost, OnCost, Tested, Room

\* A test that passes keeps passing with more room.
LEMMA RoomGrows ==
    ASSUME NEW limit \in Int, NEW of \in Int, NEW part \in Int
    PROVE  /\ 1 * (limit * of - (part - 1) * 100) < 0 => 1 * (limit * of - part * 100) < 0
           /\ (-1) * (limit * of - (part + 1) * 100) < 0 => (-1) * (limit * of - part * 100) < 0
<1>1. PICK x \in Int : x = limit * of
    OBVIOUS
<1> QED BY <1>1

\* A covenant that passes keeps passing with less debt and more profit, one breached was tested, and one that cannot be
\* measured is not reported as kept, whichever limits are set (testCovenants, covenants.ts).
THEOREM CovenantsMonotone ==
    ASSUME NEW m, NEW limits, Measured(m), Set(limits)
    PROVE  Pf!CovenantsAreMonotone(m, limits)
<1> DEFINE safer == Safer(m)
<1>1. /\ safer.facility = m.facility - 1 /\ safer.profit = m.profit + 1
      /\ safer.gdv = m.gdv /\ safer.totalCost = m.totalCost
    BY DEF Safer, Measured
<1> HIDE DEF safer
<1>2. ASSUME NEW t \in BreachedOf(safer, limits) PROVE \E u \in BreachedOf(m, limits) : u.key = t.key
    <2>0. Tested(t) /\ Room(t) < 0 /\ t \in Covenants(safer, limits)
        BY DEF BreachedOf, TestedOf
    <2>1. CASE t = ToValue(safer, limits)
        <3> DEFINE u == ToValue(m, limits)
        <3>1. m.gdv > 0 /\ limits.ltgdv # Unknown /\ 1 * (limits.ltgdv * m.gdv - (m.facility - 1) * 100) < 0
            BY <1>1, <2>0, <2>1 DEF Tested, Room, ToValue
        <3>2. 1 * (limits.ltgdv * m.gdv - m.facility * 100) < 0
            BY <3>1, RoomGrows DEF Measured, Set
        <3>3. Tested(u) /\ Room(u) < 0 /\ u.key = t.key
            BY <2>1, <3>1, <3>2 DEF Tested, Room, ToValue
        <3>4. u \in Covenants(m, limits)
            BY DEF Covenants
        <3> HIDE DEF u
        <3> QED BY <3>3, <3>4, Zenon DEF BreachedOf, TestedOf
    <2>2. CASE t = ToCost(safer, limits)
        <3> DEFINE u == ToCost(m, limits)
        <3>1. m.totalCost > 0 /\ limits.ltc # Unknown /\ 1 * (limits.ltc * m.totalCost - (m.facility - 1) * 100) < 0
            BY <1>1, <2>0, <2>2 DEF Tested, Room, ToCost
        <3>2. 1 * (limits.ltc * m.totalCost - m.facility * 100) < 0
            BY <3>1, RoomGrows DEF Measured, Set
        <3>3. Tested(u) /\ Room(u) < 0 /\ u.key = t.key
            BY <2>2, <3>1, <3>2 DEF Tested, Room, ToCost
        <3>4. u \in Covenants(m, limits)
            BY DEF Covenants
        <3> HIDE DEF u
        <3> QED BY <3>3, <3>4, Zenon DEF BreachedOf, TestedOf
    <2>3. CASE t = OnCost(safer, limits)
        <3> DEFINE u == OnCost(m, limits)
        <3>1. /\ m.totalCost > 0 /\ limits.profitOnCost # Unknown
              /\ (-1) * (limits.profitOnCost * m.totalCost - (m.profit + 1) * 100) < 0
            BY <1>1, <2>0, <2>3 DEF Tested, Room, OnCost
        <3>2. (-1) * (limits.profitOnCost * m.totalCost - m.profit * 100) < 0
            BY <3>1, RoomGrows DEF Measured, Set
        <3>3. Tested(u) /\ Room(u) < 0 /\ u.key = t.key
            BY <2>3, <3>1, <3>2 DEF Tested, Room, OnCost
        <3>4. u \in Covenants(m, limits)
            BY DEF Covenants
        <3> HIDE DEF u
        <3> QED BY <3>3, <3>4, Zenon DEF BreachedOf, TestedOf
    <2> QED BY <2>0, <2>1, <2>2, <2>3 DEF Covenants
<1>3. {t.key : t \in BreachedOf(safer, limits)} \subseteq {t.key : t \in BreachedOf(m, limits)}
    BY <1>2
<1>4. {t.key : t \in BreachedOf(m, limits)} \subseteq {t.key : t \in TestedOf(m, limits)}
    BY DEF BreachedOf
<1>5. m.gdv <= 0 => "ltgdv" \notin {t.key : t \in TestedOf(m, limits)}
    <2> SUFFICES ASSUME m.gdv <= 0, NEW t \in TestedOf(m, limits), t.key = "ltgdv" PROVE FALSE
        OBVIOUS
    <2>1. t \in Covenants(m, limits) /\ t.of > 0
        BY DEF TestedOf, Tested
    <2>2. t = ToValue(m, limits)
        BY <2>1 DEF Covenants, ToCost, OnCost
    <2> QED BY <2>1, <2>2 DEF ToValue, Measured
<1>6. Pf!CovenantsAreMonotone(m, limits) =
        LET now == Pf!testCovenants(m, limits)
            then == Pf!testCovenants(safer, limits)
        IN  /\ then.breaches \subseteq now.breaches
            /\ now.breaches \subseteq now.tests
            /\ m.gdv <= 0 => "ltgdv" \notin now.tests
    BY Zenon DEF Pf!CovenantsAreMonotone, safer, Safer
<1> QED BY <1>3, <1>4, <1>5, <1>6, CovenantsAre, Zenon

\* What V says of each item of a list, and of those at the places of D.
Of(s, V) == [j \in 1..Len(s) |-> V[s[j]]]
Masked(s, V, D) == [i \in 1..Len(s) |-> IF i \in D THEN V[s[i]] ELSE 0]

LEMMA OfAppend ==
    ASSUME NEW S, NEW t \in Seq(S), NEW x \in S, NEW V \in [S -> Int]
    PROVE  /\ Append(t, x) \in Seq(S) /\ Len(Append(t, x)) = Len(t) + 1
           /\ Summed(Of(Append(t, x), V), Len(t) + 1) = Summed(Of(t, V), Len(t)) + V[x]
<1>1. PICK n \in Nat : n = Len(t)
    OBVIOUS
<1>2. PICK u : u = Append(t, x)
    OBVIOUS
<1>3. u \in Seq(S) /\ Len(u) = n + 1 /\ u[n + 1] = x /\ \A j \in 1..n : u[j] = t[j] /\ t[j] \in S
    BY <1>1, <1>2
<1>4. PICK g, k : g = Of(t, V) /\ k = Of(u, V)
    OBVIOUS
<1>5. ASSUME NEW j \in 1..n PROVE g[j] \in Int /\ k[j] = g[j]
    <2>1. j \in 1..Len(t) /\ j \in 1..Len(u)
        BY <1>1, <1>3
    <2>2. g[j] = V[t[j]] /\ k[j] = V[u[j]]
        BY <1>4, <2>1, Zenon DEF Of
    <2>3. t[j] \in S /\ u[j] = t[j]
        BY <1>3
    <2> QED BY <2>2, <2>3
<1>6. k[n + 1] = V[x] /\ V[x] \in Int
    <2>1. n + 1 \in 1..Len(u)
        BY <1>3
    <2> QED BY <1>3, <1>4, <2>1 DEF Of
<1>7. Summed(k, n + 1) = Summed(g, n) + k[n + 1]
    BY <1>5, <1>6, SumAppend
<1> QED BY <1>1, <1>2, <1>3, <1>4, <1>6, <1>7

\* What is kept are items of the list at the places it takes, and they add up to those there.
Fetch(t, s, D) == \A j \in DOMAIN t : \E i \in DOMAIN s : i \in D /\ t[j] = s[i]
LEMMA KeptIs ==
    ASSUME NEW S, NEW s \in Seq(S), NEW D, NEW V \in [S -> Int]
    PROVE  /\ Pf!Kept(s, D) \in Seq(S) /\ Fetch(Pf!Kept(s, D), s, D)
           /\ Summed(Of(Pf!Kept(s, D), V), Len(Pf!Kept(s, D))) = Summed(Masked(s, V, D), Len(s))
<1>1. PICK n \in Nat : n = Len(s) /\ DOMAIN s = 1..n
    OBVIOUS
<1>2. PICK it : Keeps(it, s, D, n) /\ Pf!Kept(s, D) = it[n]
    <2>1. Len(s) \in Nat
        OBVIOUS
    <2> QED BY <1>1, <2>1, KeptColumn
<1>3. PICK g : g = Masked(s, V, D)
    OBVIOUS
<1>4. ASSUME NEW i \in 1..n PROVE g[i] = (IF i \in D THEN V[s[i]] ELSE 0) /\ s[i] \in S /\ V[s[i]] \in Int /\ g[i] \in Int
    <2>1. i \in 1..Len(s) /\ i \in DOMAIN s
        BY <1>1
    <2>2. g[i] = IF i \in D THEN V[s[i]] ELSE 0
        BY <1>3, <2>1 DEF Masked
    <2>3. s[i] \in S
        BY <2>1
    <2> QED BY <2>2, <2>3
<1>5. PICK w : AddsUp(w, g, n) /\ Summed(g, n) = w[n]
    BY <1>4, SumIs
<1> DEFINE Good(m) == /\ it[m] \in Seq(S) /\ Fetch(it[m], s, D)
                      /\ Summed(Of(it[m], V), Len(it[m])) = w[m]
           B == {m \in 0..n : ~Good(m)}
<1>6. Good(0)
    <2>1. it[0] = <<>> /\ w[0] = 0
        BY <1>2, <1>5 DEF Keeps, AddsUp
    <2>2. <<>> \in Seq(S) /\ Len(<<>>) = 0 /\ Fetch(<<>>, s, D)
        BY DEF Fetch
    <2>3. PICK h : h = Of(<<>>, V)
        OBVIOUS
    <2>4. Summed(h, 0) = 0
        <3>1. \A m \in 1..0 : h[m] \in Int
            OBVIOUS
        <3>2. 0 \in Nat
            OBVIOUS
        <3>3. PICK t : AddsUp(t, h, 0) /\ Summed(h, 0) = t[0]
            BY <3>1, <3>2, SumIs
        <3> QED BY <3>3 DEF AddsUp
    <2> QED BY <2>1, <2>2, <2>3, <2>4
<1>7. ASSUME NEW m \in 1..n, Good(m - 1) PROVE Good(m)
    <2>1. it[m] = IF m \in D THEN Append(it[m - 1], s[m]) ELSE it[m - 1]
        BY <1>2, Zenon DEF Keeps
    <2>2. w[m] = w[m - 1] + g[m] /\ w[m - 1] \in Int
        BY <1>5 DEF AddsUp
    <2>3. PICK t : t = it[m - 1] /\ t \in Seq(S) /\ Fetch(t, s, D) /\ Summed(Of(t, V), Len(t)) = w[m - 1]
        BY <1>7
    <2>4. PICK x \in S : x = s[m] /\ g[m] = IF m \in D THEN V[x] ELSE 0
        BY <1>4
    <2> HIDE DEF Good
    <2>5. CASE m \in D
        <3>1. it[m] = Append(t, x) /\ g[m] = V[x]
            BY <2>1, <2>3, <2>4, <2>5
        <3>2. it[m] \in Seq(S) /\ Len(it[m]) = Len(t) + 1 /\ Summed(Of(it[m], V), Len(it[m])) = w[m - 1] + V[x]
            BY <2>3, <3>1, OfAppend, SMTT(15), ZenonT(30)
        <3>3. Fetch(it[m], s, D)
            <4>0. t \in Seq(S) /\ x \in S /\ it[m] = Append(t, x) /\ m \in DOMAIN s /\ x = s[m]
                BY <1>1, <2>3, <2>4, <3>1, Zenon
            <4>1. ASSUME NEW j \in DOMAIN it[m] PROVE \E i \in DOMAIN s : i \in D /\ it[m][j] = s[i]
                <5>1. j \in 1..(Len(t) + 1) /\ Len(t) \in Nat
                    BY <4>0
                <5>2. CASE j = Len(t) + 1
                    BY <2>5, <4>0, <5>2
                <5>3. CASE j # Len(t) + 1
                    <6>1. j \in DOMAIN t /\ it[m][j] = t[j]
                        BY <4>0, <5>1, <5>3
                    <6> QED BY <2>3, <6>1 DEF Fetch
                <5> QED BY <5>2, <5>3
            <4> QED BY <4>1 DEF Fetch
        <3> QED BY <2>2, <3>1, <3>2, <3>3 DEF Good
    <2>6. CASE m \notin D
        <3>1. it[m] = t /\ g[m] = 0
            BY <2>1, <2>3, <2>4, <2>6
        <3>2. w[m] = w[m - 1]
            BY <2>2, <3>1
        <3> QED BY <2>3, <3>1, <3>2 DEF Good
    <2> QED BY <2>5, <2>6
<1>8. Good(n)
    <2> HIDE DEF Good
    <2>1. ASSUME B # {} PROVE FALSE
        <3>1. PICK m \in B : \A y \in B : m <= y
            <4>1. B \subseteq Nat
                OBVIOUS
            <4> HIDE DEF B
            <4> QED BY <2>1, <4>1, LeastOf
        <3>2. m # 0
            BY <1>6, <3>1
        <3>3. m \in 1..n /\ m - 1 \in 0..n /\ m - 1 \notin B
            BY <3>1, <3>2
        <3>4. Good(m)
            BY <1>7, <3>3
        <3> QED BY <3>1, <3>4
    <2>2. n \in 0..n
        OBVIOUS
    <2> QED BY <2>1, <2>2
<1> HIDE DEF B
<1> QED BY <1>1, <1>2, <1>3, <1>5, <1>8

LEMMA OfInts ==
    ASSUME NEW S, NEW t \in Seq(S), NEW V \in [S -> Int]
    PROVE  \A j \in 1..Len(t) : Of(t, V)[j] = V[t[j]] /\ V[t[j]] \in Int
<1> SUFFICES ASSUME NEW j \in 1..Len(t) PROVE Of(t, V)[j] = V[t[j]] /\ V[t[j]] \in Int
    OBVIOUS
<1>1. t[j] \in S
    OBVIOUS
<1> QED BY <1>1 DEF Of

LEMMA MaskInts ==
    ASSUME NEW S, NEW s \in Seq(S), NEW D, NEW V \in [S -> Int]
    PROVE  \A i \in 1..Len(s) : /\ Masked(s, V, D)[i] = IF i \in D THEN V[s[i]] ELSE 0
                                /\ V[s[i]] \in Int /\ Masked(s, V, D)[i] \in Int
<1> SUFFICES ASSUME NEW i \in 1..Len(s)
             PROVE  /\ Masked(s, V, D)[i] = IF i \in D THEN V[s[i]] ELSE 0
                    /\ V[s[i]] \in Int /\ Masked(s, V, D)[i] \in Int
    OBVIOUS
<1>1. s[i] \in S
    OBVIOUS
<1>2. Masked(s, V, D)[i] = IF i \in D THEN V[s[i]] ELSE 0
    BY DEF Masked
<1> QED BY <1>1, <1>2

\* A total over the items of a list.
Read(g, t, V) == DOMAIN g = DOMAIN t /\ \A i \in DOMAIN t : g[i] = V[t[i]]
LEMMA TotalOf ==
    ASSUME NEW S, NEW t \in Seq(S), NEW V \in [S -> Int], NEW g, Read(g, t, V)
    PROVE  Pf!SumOver(g) = Summed(Of(t, V), Len(t)) /\ Summed(Of(t, V), Len(t)) \in Int
<1>1. PICK n \in Nat : n = Len(t) /\ DOMAIN t = 1..n
    OBVIOUS
<1>2. PICK h : h = Of(t, V) /\ \A j \in 1..n : h[j] = V[t[j]] /\ V[t[j]] \in Int
    BY <1>1, OfInts
<1>3. DOMAIN g = 1..n /\ \A j \in 1..n : g[j] \in Int /\ h[j] = g[j]
    BY <1>1, <1>2 DEF Read
<1>4. Pf!SumOver(g) = Summed(g, n)
    BY <1>3, PfSums
<1>5. Summed(h, n) = Summed(g, n) /\ Summed(h, n) \in Int
    BY <1>3, SumSame, SumInt
<1> QED BY <1>1, <1>2, <1>4, <1>5

\* What the kept items come to.
LEMMA KeptTotal ==
    ASSUME NEW S, NEW s \in Seq(S), NEW D, NEW V \in [S -> Int], NEW g, Read(g, Pf!Kept(s, D), V)
    PROVE  Pf!SumOver(g) = Summed(Masked(s, V, D), Len(s)) /\ Pf!SumOver(g) \in Int
<1>1. PICK t \in Seq(S) : t = Pf!Kept(s, D) /\ Summed(Of(t, V), Len(t)) = Summed(Masked(s, V, D), Len(s))
    BY KeptIs
<1>2. Read(g, t, V)
    BY <1>1
<1>3. Pf!SumOver(g) = Summed(Of(t, V), Len(t)) /\ Summed(Of(t, V), Len(t)) \in Int
    BY <1>2, TotalOf
<1> QED BY <1>1, <1>3

Each(S) == [x \in S |-> 1]
LEMMA KeptLen ==
    ASSUME NEW S, NEW s \in Seq(S), NEW D
    PROVE  Len(Pf!Kept(s, D)) = Summed(Masked(s, Each(S), D), Len(s)) /\ Len(Pf!Kept(s, D)) \in Nat
<1>1. PICK V \in [S -> Int] : V = Each(S) /\ \A x \in S : V[x] = 1
    <2>1. Each(S) \in [S -> Int] /\ \A x \in S : Each(S)[x] = 1
        BY DEF Each
    <2> QED BY <2>1, Zenon
<1>2. PICK t \in Seq(S) : t = Pf!Kept(s, D) /\ Summed(Of(t, V), Len(t)) = Summed(Masked(s, V, D), Len(s))
    BY KeptIs
<1>3. PICK n \in Nat : n = Len(t)
    OBVIOUS
<1>4. PICK g : g = Of(t, V)
    OBVIOUS
<1>5. \A j \in 1..n : g[j] = 1
    <2>1. \A j \in 1..Len(t) : g[j] = V[t[j]]
        BY <1>4, OfInts, Zenon
    <2>2. \A j \in 1..Len(t) : t[j] \in S
        OBVIOUS
    <2> QED BY <1>1, <1>3, <2>1, <2>2
<1>6. Summed(g, n) = n
    BY <1>5, OnesAdd
<1> QED BY <1>1, <1>2, <1>3, <1>4, <1>6

\* Lists that have the same items at the places that count keep the same.
LEMMA KeptAlike ==
    ASSUME NEW n \in Nat, NEW s, NEW D, NEW u, NEW E, NEW h, NEW w, Keeps(h, s, D, n), Keeps(w, u, E, n),
           \A i \in 1..n : (i \in D <=> i \in E) /\ (i \in D => s[i] = u[i])
    PROVE  h[n] = w[n]
<1> DEFINE B == {m \in 0..n : h[m] # w[m]}
<1>1. ASSUME B # {} PROVE FALSE
    <2>1. PICK m \in B : \A y \in B : m <= y
        <3>1. B \subseteq Nat
            OBVIOUS
        <3> HIDE DEF B
        <3> QED BY <1>1, <3>1, LeastOf
    <2>2. m # 0
        BY <2>1 DEF Keeps
    <2>3. m \in 1..n /\ m - 1 \in 0..n /\ m - 1 \notin B
        BY <2>1, <2>2
    <2>4. h[m - 1] = w[m - 1] /\ (m \in D <=> m \in E) /\ (m \in D => s[m] = u[m])
        BY <2>3
    <2>5. h[m] = (IF m \in D THEN Append(h[m - 1], s[m]) ELSE h[m - 1])
        BY <2>3, Zenon DEF Keeps
    <2>6. w[m] = (IF m \in E THEN Append(w[m - 1], u[m]) ELSE w[m - 1])
        BY <2>3, Zenon DEF Keeps
    <2>7. h[m] = w[m]
        BY <2>4, <2>5, <2>6, Zenon
    <2> QED BY <2>1, <2>7
<1>2. n \in 0..n
    OBVIOUS
<1> QED BY <1>1, <1>2

\* One item more that does not count changes nothing.
LEMMA KeptUnmoved ==
    ASSUME NEW S, NEW s \in Seq(S), NEW D, NEW x \in S, NEW E,
           \A i \in 1..Len(s) : i \in D <=> i \in E, (Len(s) + 1) \notin E
    PROVE  Pf!Kept(Append(s, x), E) = Pf!Kept(s, D)
<1>1. PICK n \in Nat : n = Len(s)
    OBVIOUS
<1>2. PICK u : u = Append(s, x) /\ Len(u) = n + 1 /\ \A i \in 1..n : u[i] = s[i]
    <2>1. Len(Append(s, x)) = n + 1 /\ \A i \in 1..n : Append(s, x)[i] = s[i]
        BY <1>1
    <2> QED BY <2>1, Zenon
<1>3. PICK h : Keeps(h, s, D, n) /\ Pf!Kept(s, D) = h[n]
    BY <1>1, KeptColumn
<1>4. PICK w : Keeps(w, u, E, n + 1) /\ Pf!Kept(u, E) = w[n + 1]
    <2>1. Len(u) \in Nat
        BY <1>2
    <2> QED BY <1>2, <2>1, KeptColumn
<1>5. Keeps(w, u, E, n) /\ w[n + 1] = w[n]
    <2>1. n + 1 \in 1..(n + 1) /\ n + 1 - 1 = n /\ n + 1 \notin E /\ \A i \in 1..n : i \in 1..(n + 1)
        BY <1>1
    <2> QED BY <1>4, <2>1 DEF Keeps
<1>6. h[n] = w[n]
    <2>1. \A i \in 1..n : (i \in D <=> i \in E) /\ (i \in D => s[i] = u[i])
        BY <1>1, <1>2
    <2>2. n \in Nat /\ Keeps(h, s, D, n) /\ Keeps(w, u, E, n)
        BY <1>3, <1>5
    <2> QED BY <2>1, <2>2, KeptAlike
<1> QED BY <1>2, <1>3, <1>4, <1>5, <1>6

-----------------------------------------------------------------------------
(***************************************************************************)
(* The benchmark pool.  The values of a cohort can be put in order, so that *)
(* the list the engine chooses is one; a quantile of it is a percentile of  *)
(* the sample it makes.                                                     *)
(***************************************************************************)

Ordered(v, p, n) == \A i \in 1..(n - 1) : v[p[i]] <= v[p[i + 1]]
Orders(p, n) == p \in [1..n -> 1..n] /\ \A i, j \in 1..n : i # j => p[i] # p[j]
Sortable(n) == \A v \in [1..n -> Int] : \E p : Orders(p, n) /\ Ordered(v, p, n)

\* One more value goes before the first that is above it.
LEMMA Insert ==
    ASSUME NEW n \in Nat \ {0}, Sortable(n - 1)
    PROVE  Sortable(n)
<1> SUFFICES ASSUME NEW v \in [1..n -> Int] PROVE \E p : Orders(p, n) /\ Ordered(v, p, n)
    BY DEF Sortable
<1> DEFINE m == n - 1
           u == [i \in 1..m |-> v[i]]
<1>1. m \in Nat /\ n = m + 1 /\ u \in [1..m -> Int] /\ \A i \in 1..m : u[i] = v[i] /\ v[i] \in Int
    OBVIOUS
<1>2. PICK r : Orders(r, m) /\ Ordered(u, r, m)
    BY <1>1 DEF Sortable
<1> HIDE DEF u, m
<1>3. \A i \in 1..m : r[i] \in 1..m /\ v[r[i]] \in Int
    BY <1>1, <1>2 DEF Orders
<1>4. \A i \in 1..(m - 1) : v[r[i]] <= v[r[i + 1]]
    <2> SUFFICES ASSUME NEW i \in 1..(m - 1) PROVE v[r[i]] <= v[r[i + 1]]
        OBVIOUS
    <2>1. i \in 1..m /\ i + 1 \in 1..m
        BY <1>1
    <2>2. r[i] \in 1..m /\ r[i + 1] \in 1..m
        BY <1>3, <2>1
    <2>3. u[r[i]] <= u[r[i + 1]]
        BY <1>2 DEF Ordered
    <2> QED BY <1>1, <2>2, <2>3
<1>5. \E k \in 1..n : /\ \A y \in 1..n : (y = n \/ v[n] < v[r[y]]) => k <= y
                      /\ k = n \/ v[n] < v[r[k]]
    <2> DEFINE T == {y \in 1..n : y = n \/ v[n] < v[r[y]]}
    <2>1. T \subseteq Nat /\ n \in T
        OBVIOUS
    <2>2. PICK k \in T : \A y \in T : k <= y
        <3> HIDE DEF T
        <3> QED BY <2>1, LeastOf
    <2> QED BY <2>2
<1>6. PICK k \in 1..n : /\ \A y \in 1..n : (y = n \/ v[n] < v[r[y]]) => k <= y
                        /\ k = n \/ v[n] < v[r[k]]
    BY <1>5
<1> DEFINE p == [i \in 1..n |-> IF i < k THEN r[i] ELSE IF i = k THEN n ELSE r[i - 1]]
<1>7. ASSUME NEW i \in 1..n
      PROVE  /\ i < k => p[i] = r[i] /\ i \in 1..m
             /\ i = k => p[i] = n
             /\ i > k => p[i] = r[i - 1] /\ i - 1 \in 1..m
    BY <1>1
<1> HIDE DEF p
<1>8. Orders(p, n)
    <2>1. ASSUME NEW i \in 1..n PROVE p[i] \in 1..n
        <3>1. i < k \/ i = k \/ i > k
            OBVIOUS
        <3>2. \A j \in 1..m : r[j] \in 1..n
            BY <1>1, <1>3
        <3>3. CASE i < k
            <4>1. p[i] = r[i] /\ i \in 1..m
                BY <1>7, <3>3
            <4> QED BY <3>2, <4>1
        <3>4. CASE i = k
            BY <1>7, <3>4
        <3>5. CASE i > k
            <4>1. p[i] = r[i - 1] /\ i - 1 \in 1..m
                BY <1>7, <3>5
            <4> QED BY <3>2, <4>1
        <3> QED BY <3>1, <3>3, <3>4, <3>5
    <2>2. p \in [1..n -> 1..n]
        BY <2>1 DEF p
    <2>3. ASSUME NEW i \in 1..n, NEW j \in 1..n, i < j PROVE p[i] # p[j]
        <3>1. \A x, y \in 1..m : x # y => r[x] # r[y]
            BY <1>2 DEF Orders
        <3>2. \A x \in 1..m : r[x] # n
            BY <1>1, <1>3
        <3>3. CASE j < k
            <4>1. p[i] = r[i] /\ i \in 1..m /\ p[j] = r[j] /\ j \in 1..m
                BY <1>7, <2>3, <3>3
            <4> QED BY <2>3, <3>1, <4>1
        <3>4. CASE j = k
            <4>1. p[i] = r[i] /\ i \in 1..m /\ p[j] = n
                BY <1>7, <2>3, <3>4
            <4> QED BY <3>2, <4>1
        <3>5. CASE j > k
            <4>1. p[j] = r[j - 1] /\ j - 1 \in 1..m
                BY <1>7, <3>5
            <4>2. CASE i < k
                <5>1. p[i] = r[i] /\ i \in 1..m /\ i # j - 1
                    BY <1>7, <3>5, <4>2
                <5> QED BY <3>1, <4>1, <5>1
            <4>3. CASE i = k
                <5>1. p[i] = n
                    BY <1>7, <4>3
                <5> QED BY <3>2, <4>1, <5>1
            <4>4. CASE i > k
                <5>1. p[i] = r[i - 1] /\ i - 1 \in 1..m
                    BY <1>7, <4>4
                <5>2. i - 1 # j - 1
                    BY <2>3
                <5> QED BY <3>1, <4>1, <5>1, <5>2
            <4> QED BY <4>2, <4>3, <4>4
        <3> QED BY <3>3, <3>4, <3>5
    <2>4. \A i, j \in 1..n : i # j => i < j \/ j < i
        OBVIOUS
    <2>5. \A i, j \in 1..n : i # j => p[i] # p[j]
        BY <2>3, <2>4
    <2> QED BY <2>2, <2>5 DEF Orders
<1>9. Ordered(v, p, n)
    <2> SUFFICES ASSUME NEW i \in 1..(n - 1) PROVE v[p[i]] <= v[p[i + 1]]
        BY DEF Ordered
    <2>1. i \in 1..n /\ i + 1 \in 1..n /\ v[n] \in Int
        OBVIOUS
    <2>2. CASE i + 1 < k
        <3>1. p[i] = r[i] /\ p[i + 1] = r[i + 1] /\ i \in 1..(m - 1)
            <4>1. i + 1 \in 1..m /\ p[i + 1] = r[i + 1]
                BY <1>7, <2>1, <2>2
            <4>2. p[i] = r[i]
                BY <1>7, <2>1, <2>2
            <4> QED BY <1>1, <4>1, <4>2
        <3> QED BY <1>4, <3>1
    <2>3. CASE i + 1 = k
        <3>1. p[i] = r[i] /\ p[i + 1] = n /\ i \in 1..m
            <4>1. p[i + 1] = n
                BY <1>7, <2>1, <2>3
            <4>2. p[i] = r[i] /\ i \in 1..m
                BY <1>7, <2>1, <2>3
            <4> QED BY <4>1, <4>2
        <3>2. ~(v[n] < v[r[i]])
            BY <1>6, <2>1, <2>3
        <3> QED BY <1>3, <2>1, <3>1, <3>2
    <2>4. CASE i = k
        <3>1. p[i] = n /\ p[i + 1] = r[i]
            <4>1. i + 1 > k /\ i + 1 - 1 = i
                BY <2>4
            <4>2. p[i + 1] = r[i + 1 - 1]
                BY <1>7, <2>1, <4>1
            <4> QED BY <1>7, <2>1, <2>4, <4>1, <4>2
        <3>2. v[n] < v[r[i]] /\ i \in 1..m
            BY <1>1, <1>6, <2>4
        <3> QED BY <1>3, <2>1, <3>1, <3>2
    <2>5. CASE i > k
        <3>1. p[i] = r[i - 1] /\ p[i + 1] = r[i] /\ i - 1 \in 1..(m - 1)
            <4>1. i + 1 > k /\ i + 1 - 1 = i
                BY <2>5
            <4>2. p[i + 1] = r[i + 1 - 1]
                BY <1>7, <2>1, <4>1
            <4>3. p[i] = r[i - 1] /\ i - 1 \in 1..m
                BY <1>7, <2>1, <2>5
            <4> QED BY <1>1, <4>1, <4>2, <4>3
        <3>2. v[r[i - 1]] <= v[r[i - 1 + 1]]
            BY <1>4, <3>1
        <3>3. i - 1 + 1 = i
            OBVIOUS
        <3> QED BY <3>1, <3>2, <3>3
    <2>6. i + 1 < k \/ i + 1 = k \/ i = k \/ i > k
        OBVIOUS
    <2> QED BY <2>2, <2>3, <2>4, <2>5, <2>6
<1> QED BY <1>8, <1>9

LEMMA AllSortable == \A n \in Nat : Sortable(n)
<1> DEFINE B == {n \in Nat : ~Sortable(n)}
<1>1. ASSUME B # {} PROVE FALSE
    <2>1. PICK n \in B : \A y \in B : n <= y
        <3>1. B \subseteq Nat
            OBVIOUS
        <3> HIDE DEF B
        <3> QED BY <1>1, <3>1, LeastOf
    <2>2. Sortable(0)
        <3> SUFFICES ASSUME NEW v PROVE \E p : Orders(p, 0) /\ Ordered(v, p, 0)
            BY DEF Sortable
        <3> DEFINE p == [i \in 1..0 |-> i]
        <3>1. p \in [1..0 -> 1..0] /\ \A i, j \in 1..0 : i # j => p[i] # p[j]
            OBVIOUS
        <3>2. Ordered(v, p, 0)
            BY DEF Ordered
        <3> QED BY <3>1, <3>2 DEF Orders
    <2>3. n # 0
        BY <2>1, <2>2
    <2>4. n \in Nat \ {0} /\ n - 1 \in Nat /\ n - 1 \notin B
        BY <2>1, <2>3
    <2>5. Sortable(n)
        BY <2>4, Insert
    <2> QED BY <2>1, <2>5
<1> QED BY <1>1

\* What is in order from one to the next is in order.
LEMMA StepwiseRising ==
    ASSUME NEW n \in Nat, NEW t \in [1..n -> Int], \A i \in 1..(n - 1) : t[i] <= t[i + 1]
    PROVE  \A i, j \in 1..n : i <= j => t[i] <= t[j]
<1> DEFINE B == {d \in 0..n : \E i \in 1..n : i + d \in 1..n /\ ~(t[i] <= t[i + d])}
<1>1. ASSUME B # {} PROVE FALSE
    <2>1. PICK d \in B : \A y \in B : d <= y
        <3>1. B \subseteq Nat
            OBVIOUS
        <3> HIDE DEF B
        <3> QED BY <1>1, <3>1, LeastOf
    <2>2. PICK i \in 1..n : i + d \in 1..n /\ ~(t[i] <= t[i + d])
        BY <2>1
    <2>3. d # 0
        <3>1. t[i] \in Int
            OBVIOUS
        <3>2. d = 0 => i + d = i
            OBVIOUS
        <3> QED BY <2>2, <3>1, <3>2
    <2>4. d - 1 \in 0..n /\ d - 1 \notin B /\ i + (d - 1) \in 1..(n - 1) /\ i + (d - 1) + 1 = i + d
        <3>1. d \in 0..n /\ d # 0
            BY <2>1, <2>3
        <3>2. d - 1 \in 0..n /\ i + (d - 1) \in 1..(n - 1) /\ i + (d - 1) + 1 = i + d
            BY <2>2, <3>1
        <3>3. d - 1 \notin B
            <4> HIDE DEF B
            <4> QED BY <2>1, <3>1
        <3> QED BY <3>2, <3>3
    <2>5. PICK k \in 1..(n - 1) : k = i + (d - 1) /\ k + 1 = i + d
        BY <2>4
    <2>6. k \in 1..n /\ k + 1 \in 1..n
        OBVIOUS
    <2>7. t[i] <= t[k]
        BY <2>4, <2>5, <2>6
    <2>8. t[k] <= t[k + 1] /\ t[i] \in Int /\ t[k] \in Int /\ t[k + 1] \in Int
        BY <2>6
    <2> QED BY <2>2, <2>5, <2>7, <2>8
<1>2. ASSUME NEW i \in 1..n, NEW j \in 1..n, i <= j PROVE t[i] <= t[j]
    <2>1. j - i \in 0..n /\ i + (j - i) = j
        BY <1>2
    <2>2. j - i \notin B
        BY <1>1
    <2> QED BY <2>1, <2>2
<1> QED BY <1>2

LEMMA SortedIs ==
    ASSUME NEW n \in Nat, NEW s, s \in [1..n -> Int]
    PROVE  Rising(Pf!Sorted(s)) /\ Len(Pf!Sorted(s)) = n
<1>1. s \in Seq(Int) /\ Len(s) = n /\ DOMAIN s = 1..n
    OBVIOUS
<1> DEFINE Ps == {q \in [1..n -> 1..n] : \A i, j \in 1..n : i # j => q[i] # q[j]}
           Ts == {[i \in 1..n |-> s[p[i]]] : p \in Ps}
           Up(t) == \A i \in 1..(n - 1) : t[i] <= t[i + 1]
<1>2. Pf!Sorted(s) = CHOOSE t \in Ts : Up(t)
    BY <1>1 DEF Pf!Sorted
<1>3. \E t \in Ts : Up(t)
    <2>1. PICK p : Orders(p, n) /\ Ordered(s, p, n)
        BY AllSortable DEF Sortable
    <2>2. p \in Ps
        BY <2>1 DEF Orders
    <2> DEFINE t == [i \in 1..n |-> s[p[i]]]
    <2>3. t \in Ts
        BY <2>2
    <2>4. Up(t)
        <3> SUFFICES ASSUME NEW i \in 1..(n - 1) PROVE t[i] <= t[i + 1]
            OBVIOUS
        <3>1. i \in 1..n /\ i + 1 \in 1..n
            OBVIOUS
        <3>2. s[p[i]] <= s[p[i + 1]]
            BY <2>1 DEF Ordered
        <3> QED BY <3>1, <3>2
    <2> HIDE DEF t, Ts, Up
    <2> QED BY <2>3, <2>4
<1>4. PICK t : t = Pf!Sorted(s) /\ t \in Ts /\ Up(t)
    <2> HIDE DEF Ts, Up
    <2> QED BY <1>2, <1>3, Zenon
<1>5. t \in [1..n -> Int]
    <2>1. PICK p \in Ps : t = [i \in 1..n |-> s[p[i]]]
        BY <1>4
    <2> QED BY <2>1
<1>6. \A i, j \in 1..n : i <= j => t[i] <= t[j]
    <2>1. \A i \in 1..(n - 1) : t[i] <= t[i + 1]
        BY <1>4
    <2> QED BY <1>5, <2>1, StepwiseRising
<1>7. t \in Seq(Int) /\ Len(t) = n /\ DOMAIN t = 1..n
    BY <1>5
<1> HIDE DEF Ts, Ps
<1> QED BY <1>4, <1>6, <1>7 DEF Rising

\* A quantile of a cohort in order lies where the percentile of a sample does.
LEMMA QuantileIs ==
    ASSUME NEW sorted, Rising(sorted), sorted # <<>>, NEW p \in 0..100
    PROVE  Pf!quantile(sorted, p) = Dev!percentile(sorted, p) /\ Pf!quantile(sorted, p) \in Int
<1>1. PICK k, t : Lies(sorted, p, k, t)
    BY PercentileLies
<1>2. PICK n : Runs(sorted, n)
    BY RunsOf
<1>3. /\ k \in 0..(n - 1) /\ t \in 0..99 /\ (Len(sorted) - 1) * p = 100 * k + t /\ (t > 0 => k < n - 1)
      /\ Dev!percentile(sorted, p) = Between(sorted, k, t) /\ n \in Nat
      /\ \A i \in 1..n : sorted[i] \in Int
    BY <1>1, <1>2, Zenon DEF Lies, Runs
<1>4. PICK pos \in Nat : pos = 100 * k + t /\ pos = (Len(sorted) - 1) * p
    BY <1>3
<1>5. pos \div 100 = k /\ (pos % 100) = t
    BY <1>3, <1>4
<1>6. Pf!quantile(sorted, p) = sorted[k + 1] * 100 + (IF t = 0 THEN 0 ELSE (sorted[k + 2] - sorted[k + 1]) * t)
    <2>1. Pf!quantile(sorted, p) = sorted[pos \div 100 + 1] * 100
             + (IF (pos % 100) = 0 THEN 0 ELSE (sorted[pos \div 100 + 1 + 1] - sorted[pos \div 100 + 1]) * (pos % 100))
        BY <1>4, Zenon DEF Pf!quantile
    <2>2. k + 1 + 1 = k + 2
        BY <1>3
    <2> QED BY <1>5, <2>1, <2>2, Zenon
<1>7. PICK lo \in Int : lo = sorted[k + 1]
    <2>1. k + 1 \in 1..n
        BY <1>3
    <2> QED BY <1>3, <2>1
<1>8. CASE t = 0
    <2>1. Pf!quantile(sorted, p) = lo * 100 + 0 /\ Between(sorted, k, t) = 100 * lo
        BY <1>6, <1>7, <1>8 DEF Between
    <2> QED BY <1>3, <2>1
<1>9. CASE t # 0
    <2>1. k + 2 \in 1..n
        BY <1>3, <1>9
    <2>2. PICK d \in Int : d = sorted[k + 2] - sorted[k + 1]
        BY <1>3, <1>7, <2>1
    <2>3. PICK y \in Int : y = d * t
        BY <1>3
    <2>4. Pf!quantile(sorted, p) = lo * 100 + y /\ Between(sorted, k, t) = 100 * lo + y
        BY <1>6, <1>7, <1>9, <2>2, <2>3, Zenon DEF Between
    <2> QED BY <1>3, <2>4
<1> QED BY <1>8, <1>9

\* The cohort a firm is shown is what is kept of the pool at the places of other firms.
Others(s, me) == {i \in DOMAIN s : s[i].org # me}
LEMMA EligibleIs == \A s, me : Pf!Eligible(s, me) = Pf!Kept(s, Others(s, me))
    BY Zenon DEF Pf!Eligible, Pf!Where, Others

LEMMA OwnUnseen ==
    ASSUME NEW P, NEW s \in Seq(P), NEW me, NEW p \in P, p.org = me
    PROVE  Pf!Eligible(Append(s, p), me) = Pf!Eligible(s, me)
<1>1. PICK n \in Nat : n = Len(s)
    OBVIOUS
<1>2. PICK u : u = Append(s, p) /\ DOMAIN u = 1..(n + 1) /\ u[n + 1] = p /\ \A i \in 1..n : u[i] = s[i]
    <2>1. Append(s, p) \in Seq(P) /\ Len(Append(s, p)) = n + 1
        BY <1>1
    <2>2. DOMAIN Append(s, p) = 1..(n + 1)
        BY <1>1, <2>1
    <2>3. Append(s, p)[n + 1] = p /\ \A i \in 1..n : Append(s, p)[i] = s[i]
        BY <1>1
    <2> QED BY <2>2, <2>3, Zenon
<1>3. DOMAIN s = 1..n
    BY <1>1
<1>4. \A i \in 1..Len(s) : i \in Others(s, me) <=> i \in Others(u, me)
    BY <1>1, <1>2, <1>3 DEF Others
<1>5. (Len(s) + 1) \notin Others(u, me)
    BY <1>1, <1>2 DEF Others
<1>6. Pf!Kept(Append(s, p), Others(u, me)) = Pf!Kept(s, Others(s, me))
    BY <1>4, <1>5, KeptUnmoved
<1> QED BY <1>2, <1>6, EligibleIs

LEMMA EligibleOthers ==
    ASSUME NEW P, NEW s \in Seq(P), NEW me
    PROVE  Pf!Eligible(s, me) \in Seq(P) /\ \A j \in DOMAIN Pf!Eligible(s, me) : Pf!Eligible(s, me)[j].org # me
<1>1. Each(P) \in [P -> Int]
    BY DEF Each
<1>2. PICK t : t = Pf!Eligible(s, me) /\ t \in Seq(P) /\ Fetch(t, s, Others(s, me))
    BY <1>1, KeptIs, EligibleIs
<1>3. \A j \in DOMAIN t : t[j].org # me
    BY <1>2 DEF Fetch, Others
<1> QED BY <1>2, <1>3

\* A firm reads nothing of its own in the pool: the cohort it is shown and its rank in it rest on the points of other
\* firms alone, on no fewer firms and points than the floors, and are the same if it gives one more point of any value,
\* for any pool and any floors (cohortStats and rankWithin, benchmarks.ts).
THEOREM OwnPointsUnseen ==
    ASSUME NEW P, NEW points \in Seq(P), NEW me, NEW own \in P, own.org = me, NEW value
    PROVE  /\ Pf!cohortStats(Append(points, own), me) = Pf!cohortStats(points, me)
           /\ Pf!rankWithin(Append(points, own), value, me) = Pf!rankWithin(points, value, me)
           /\ \A i \in DOMAIN Pf!Eligible(points, me) : Pf!Eligible(points, me)[i].org # me
           /\ Pf!cohortStats(points, me) # Withheld =>
                 /\ Pf!Contributors(Pf!Eligible(points, me)) >= MinContributors
                 /\ Len(Pf!Eligible(points, me)) >= MinPoints
<1>1. Pf!Eligible(Append(points, own), me) = Pf!Eligible(points, me)
    BY OwnUnseen
<1>2. Pf!cohortStats(Append(points, own), me) = Pf!cohortStats(points, me)
    BY <1>1, Zenon DEF Pf!cohortStats
<1>3. Pf!rankWithin(Append(points, own), value, me) = Pf!rankWithin(points, value, me)
    BY <1>1, Zenon DEF Pf!rankWithin
<1>4. \A i \in DOMAIN Pf!Eligible(points, me) : Pf!Eligible(points, me)[i].org # me
    BY EligibleOthers
<1>5. Pf!cohortStats(points, me) # Withheld => Pf!Published(Pf!Eligible(points, me))
    BY Zenon DEF Pf!cohortStats
<1> QED BY <1>2, <1>3, <1>4, <1>5, Zenon DEF Pf!Published

\* What a cohort publishes are numbers in order.
LEMMA StatsAre ==
    ASSUME NEW P, \A x \in P : x.value \in Int, NEW others \in Seq(P), others # <<>>,
           NEW s, s = [q \in Pf!Quantiles |-> Pf!quantile(Pf!Sorted([i \in DOMAIN others |-> others[i].value]), q)]
    PROVE  s \in [Pf!Quantiles -> Int] /\ \A p, q \in Pf!Quantiles : p <= q => s[p] <= s[q]
<1>1. PICK n \in Nat : n = Len(others) /\ DOMAIN others = 1..n /\ n > 0
    OBVIOUS
<1>2. PICK v : v = [i \in DOMAIN others |-> others[i].value] /\ v \in [1..n -> Int]
    <2>1. \A i \in 1..n : others[i] \in P
        BY <1>1
    <2>2. \A i \in 1..n : others[i].value \in Int
        BY <2>1
    <2>3. [i \in DOMAIN others |-> others[i].value] \in [1..n -> Int]
        BY <1>1, <2>2
    <2> QED BY <2>3, Zenon
<1>3. PICK t : t = Pf!Sorted(v) /\ Rising(t) /\ Len(t) = n
    BY <1>2, SortedIs
<1>4. t # <<>>
    BY <1>1, <1>3
<1>5. Pf!Quantiles \subseteq 0..100
    BY DEF Pf!Quantiles
<1>6. s = [q \in Pf!Quantiles |-> Pf!quantile(t, q)]
    BY <1>2, <1>3
<1>7. \A q \in Pf!Quantiles : s[q] = Pf!quantile(t, q) /\ s[q] = Dev!percentile(t, q) /\ s[q] \in Int
    BY <1>3, <1>4, <1>5, <1>6, QuantileIs, SMTT(15), ZenonT(30)
<1>8. \A p, q \in Pf!Quantiles : p <= q => s[p] <= s[q]
    BY <1>3, <1>4, <1>5, <1>7, PercentilesOrdered, SMTT(15), ZenonT(30)
<1> QED BY <1>6, <1>7, <1>8

\* A rank is a number.
LEMMA RankIs ==
    ASSUME NEW P, NEW others \in Seq(P), others # <<>>, NEW value
    PROVE  (200 * Len(Pf!Where(others, LAMBDA p : p.value <= value)) + Len(others)) \div (2 * Len(others)) \in Int
<1>1. PICK n \in Nat : n = Len(others) /\ n > 0
    OBVIOUS
<1>2. PICK k \in Nat : k = Len(Pf!Where(others, LAMBDA p : p.value <= value))
    <2>1. Pf!Where(others, LAMBDA p : p.value <= value) = Pf!Kept(others, {i \in DOMAIN others : others[i].value <= value})
        BY Zenon DEF Pf!Where
    <2> QED BY <2>1, KeptLen
<1>3. 200 * k + n \in Int /\ 2 * n \in Nat \ {0}
    BY <1>1
<1>4. (200 * k + n) \div (2 * n) \in Int
    BY <1>3, DivBounds
<1> QED BY <1>1, <1>2, <1>4

\* The benchmark pool gives no firm away: what a firm is shown holds none of its own points and rests on no fewer other
\* firms and points than the floors, the quantiles are in order, a further point of its own moves nothing, and its rank
\* is withheld exactly when its cohort is, for any pool and any floors (cohortStats and rankWithin, benchmarks.ts).
THEOREM PoolPrivate ==
    ASSUME NEW firms, NEW points \in Seq([org : firms, value : Int]), NEW me \in firms, NEW mine \in Int
    PROVE  Pf!CohortsStayPrivate(points, me, mine)
<1> DEFINE P == [org : firms, value : Int]
           own == [org |-> me, value |-> mine]
           others == Pf!Eligible(points, me)
           s == Pf!cohortStats(points, me)
           r == Pf!rankWithin(points, mine, me)
<1>1. own \in P /\ own.org = me /\ points \in Seq(P) /\ \A x \in P : x.value \in Int
    OBVIOUS
<1> HIDE DEF P
<1>2. /\ Pf!cohortStats(Append(points, own), me) = s
      /\ s # Withheld => Pf!Contributors(others) >= MinContributors /\ Len(others) >= MinPoints
    <2> HIDE DEF own
    <2>1. \A value : /\ Pf!cohortStats(Append(points, own), me) = Pf!cohortStats(points, me)
                     /\ Pf!cohortStats(points, me) # Withheld =>
                            /\ Pf!Contributors(Pf!Eligible(points, me)) >= MinContributors
                            /\ Len(Pf!Eligible(points, me)) >= MinPoints
        BY <1>1, OwnPointsUnseen, SMTT(30)
    <2> QED BY <2>1, Zenon
<1>3. others \in Seq(P)
    BY <1>1, EligibleOthers
<1>4. ~Pf!Published(others) => s = Withheld /\ r = Withheld
    BY Zenon DEF Pf!cohortStats, Pf!rankWithin
<1>5. ASSUME Pf!Published(others)
      PROVE  s # Withheld /\ r # Withheld /\ \A p, q \in Pf!Quantiles : p <= q => s[p] <= s[q]
    <2>1. others # <<>>
        <3>1. Len(others) >= MinPoints /\ MinPoints \in Nat \ {0}
            BY <1>5, FiguresAssumption DEF Pf!Published
        <3> QED BY <1>3, <3>1
    <2>2. s = [q \in Pf!Quantiles |-> Pf!quantile(Pf!Sorted([i \in DOMAIN others |-> others[i].value]), q)]
        BY <1>5, Zenon DEF Pf!cohortStats
    <2>3. s \in [Pf!Quantiles -> Int] /\ \A p, q \in Pf!Quantiles : p <= q => s[p] <= s[q]
        <3>1. \A x \in P : x.value \in Int
            BY <1>1
        <3> HIDE DEF others, s, own
        <3> QED BY <1>3, <2>1, <2>2, <3>1, StatsAre, Zenon
    <2>4. r = (200 * Len(Pf!Where(others, LAMBDA p : p.value <= mine)) + Len(others)) \div (2 * Len(others))
        BY <1>5, Zenon DEF Pf!rankWithin
    <2>5. r \in Int
        <3> HIDE DEF others, r
        <3> QED BY <1>3, <2>1, <2>4, RankIs
    <2> HIDE DEF s, r
    <2> QED BY <2>3, <2>5, FiguresAssumption
<1> HIDE DEF others
<1> QED BY <1>2, <1>4, <1>5, Zenon DEF Pf!CohortsStayPrivate, s, r, own, others

-----------------------------------------------------------------------------
(***************************************************************************)
(* Loan books, sales, tenancies and returns.  What is added up group by     *)
(* group is added up group after group, in any order of the groups.         *)
(***************************************************************************)

LEMMA RenamedSum ==
    ASSUME NEW Q, IsFiniteSet(Q), NEW f, DOMAIN f = Q, \A k \in Q : f[k] \in Int,
           NEW c \in Nat, NEW b, Numbers1(b, c, Q), NEW g, \A i \in 1..c : g[i] = f[b[i]]
    PROVE  Pf!SumOver(f) = Summed(g, c)
<1>1. Numbers(f)
    BY DEF Numbers
<1>2. PICK it : Dev!SumOver(f) = it[Q] /\ AllFolds(it, f)
    BY <1>1, FoldIs
<1>3. AnyOrder(it, f)
    BY <1>1, <1>2, FoldTakes
<1> DEFINE first(m) == {b[i] : i \in 1..m}
           h == [m \in 0..c |-> it[first(m)]]
<1>4. ASSUME NEW m \in 0..c PROVE first(m) \in SUBSET Q /\ h[m] = it[first(m)] /\ h[m] \in Int
    <2>1. first(m) \in SUBSET Q
        BY DEF Numbers1
    <2> HIDE DEF first
    <2> QED BY <1>2, <2>1 DEF AllFolds
<1>5. h[0] = 0
    <2>1. first(0) = {} /\ 0 \in 0..c
        OBVIOUS
    <2>2. it[{}] = 0
        BY <1>2 DEF AllFolds, Fold
    <2> HIDE DEF first
    <2> QED BY <2>1, <2>2
<1>6. ASSUME NEW i \in 1..c PROVE g[i] \in Int /\ g[i] = f[b[i]] /\ b[i] \in Q
    BY DEF Numbers1
<1>7. PICK t : AddsUp(t, g, c) /\ Summed(g, c) = t[c]
    BY <1>6, SumIs
<1>8. ASSUME NEW m \in 1..c PROVE h[m] = h[m - 1] + g[m]
    <2>1. m \in 0..c /\ m - 1 \in 0..c /\ 1..m = (1..(m - 1)) \cup {m}
        OBVIOUS
    <2>2. first(m) \ {b[m]} = first(m - 1) /\ b[m] \in first(m)
        <3>1. \A i \in 1..(m - 1) : i \in 1..c /\ i # m
            OBVIOUS
        <3>2. \A i \in 1..(m - 1) : b[i] # b[m]
            BY <3>1 DEF Numbers1
        <3>3. first(m) = first(m - 1) \cup {b[m]}
            BY <2>1
        <3>4. b[m] \notin first(m - 1)
            BY <3>2
        <3> HIDE DEF first
        <3> QED BY <3>3, <3>4
    <2>3. it[first(m)] = f[b[m]] + it[first(m - 1)]
        <3>1. first(m) \in SUBSET DOMAIN f
            BY <1>4, <2>1
        <3> HIDE DEF first
        <3> QED BY <1>3, <2>2, <3>1 DEF AnyOrder
    <2>4. h[m] = it[first(m)] /\ h[m - 1] = it[first(m - 1)] /\ h[m - 1] \in Int
        BY <1>4, <2>1
    <2>5. g[m] = f[b[m]] /\ g[m] \in Int
        BY <1>6
    <2> HIDE DEF h, first
    <2> QED BY <2>3, <2>4, <2>5
<1> HIDE DEF h
<1>9. SameSteps(h, t, c)
    <2>1. \A m \in 0..c : h[m] \in Int /\ t[m] \in Int
        BY <1>4, <1>7 DEF AddsUp
    <2>2. h[0] = t[0]
        BY <1>5, <1>7 DEF AddsUp
    <2>3. ASSUME NEW m \in 1..c PROVE h[m] - h[m - 1] = t[m] - t[m - 1]
        <3>1. m - 1 \in 0..c /\ t[m] = t[m - 1] + g[m] /\ h[m] = h[m - 1] + g[m]
            BY <1>7, <1>8 DEF AddsUp
        <3>2. h[m - 1] \in Int /\ t[m - 1] \in Int /\ g[m] \in Int
            BY <1>6, <2>1, <3>1
        <3> QED BY <3>1, <3>2
    <2> QED BY <2>1, <2>2, <2>3 DEF SameSteps
<1>10. c \in 0..c /\ first(c) = Q
    BY DEF Numbers1
<1>11. h[c] = t[c]
    BY <1>9, <1>10, Matched
<1>12. h[c] = it[Q]
    BY <1>4, <1>10
<1> QED BY <1>2, <1>7, <1>11, <1>12, SameSum

\* The numbers of a list at the places of one tag.
Keyed(g, tag, k, n) == [i \in 1..n |-> IF tag[i] = k THEN g[i] ELSE 0]
Groups(f, g, tag, n) ==
    DOMAIN f = {tag[i] : i \in 1..n} /\ \A k \in DOMAIN f : f[k] = Summed(Keyed(g, tag, k, n), n)

\* Whatever the tag of each number, the groups add up to the whole.
LEMMA Regrouped ==
    ASSUME NEW n \in Nat, NEW g, \A i \in 1..n : g[i] \in Int, NEW tag, NEW f, Groups(f, g, tag, n)
    PROVE  Pf!SumOver(f) = Summed(g, n) /\ \A k \in DOMAIN f : f[k] \in Int
<1>0. PICK Q : /\ Q = DOMAIN f /\ Q = {tag[i] : i \in 1..n}
               /\ \A k \in Q : f[k] = Summed(Keyed(g, tag, k, n), n)
    BY DEF Groups
<1>1. IsFiniteSet(Q)
    BY <1>0, ImageFinite
<1>2a. PICK c \in Nat : \E b : Numbers1(b, c, Q)
    BY <1>1, Enumerated
<1>2. PICK b : Numbers1(b, c, Q)
    BY <1>2a
<1>3. ASSUME NEW k, NEW i \in 1..n PROVE Keyed(g, tag, k, n)[i] = (IF tag[i] = k THEN g[i] ELSE 0) /\ Keyed(g, tag, k, n)[i] \in Int
    BY DEF Keyed
\* What the groups come to in the first m.
<1> DEFINE Group(k) == CHOOSE t : AddsUp(t, Keyed(g, tag, k, n), n) /\ Summed(Keyed(g, tag, k, n), n) = t[n]
<1>4. ASSUME NEW k PROVE AddsUp(Group(k), Keyed(g, tag, k, n), n) /\ Summed(Keyed(g, tag, k, n), n) = Group(k)[n]
    <2>1. \E t : AddsUp(t, Keyed(g, tag, k, n), n) /\ Summed(Keyed(g, tag, k, n), n) = t[n]
        BY <1>3, SumIs
    <2> QED BY <2>1, Zenon
<1> HIDE DEF Group
<1>5. ASSUME NEW k, NEW m \in 0..n PROVE Group(k)[m] \in Int /\ Group(k)[0] = 0
    BY <1>4 DEF AddsUp
<1>6. ASSUME NEW k, NEW m \in 1..n PROVE Group(k)[m] = Group(k)[m - 1] + (IF tag[m] = k THEN g[m] ELSE 0)
    <2>1. Group(k)[m] = Group(k)[m - 1] + Keyed(g, tag, k, n)[m]
        BY <1>4 DEF AddsUp
    <2> QED BY <1>3, <2>1
<1> DEFINE row(m) == [j \in 1..c |-> Group(b[j])[m]]
           h == [m \in 0..n |-> Summed(row(m), c)]
<1>7. ASSUME NEW m \in 0..n
      PROVE  (\A j \in 1..c : row(m)[j] = Group(b[j])[m] /\ row(m)[j] \in Int) /\ h[m] = Summed(row(m), c) /\ h[m] \in Int
    <2>1. \A j \in 1..c : row(m)[j] = Group(b[j])[m] /\ row(m)[j] \in Int
        BY <1>5
    <2> HIDE DEF row
    <2> QED BY <2>1, SumInt
<1>8. h[0] = 0
    <2>1. 0 \in 0..n /\ \A j \in 1..c : row(0)[j] = 0
        BY <1>5
    <2>2. Summed(row(0), c) = 0
        <3> HIDE DEF row
        <3> QED BY <2>1, ZeroSum
    <2> QED BY <2>1, <2>2
<1>9. ASSUME NEW m \in 1..n PROVE h[m] = h[m - 1] + g[m]
    <2>1. m \in 0..n /\ m - 1 \in 0..n /\ tag[m] \in Q
        BY <1>0
    <2>2. PICK j \in 1..c : b[j] = tag[m]
        BY <1>2, <2>1 DEF Numbers1
    <2>3. \A i \in 1..c : i # j => tag[m] # b[i]
        BY <1>2, <2>2 DEF Numbers1
    <2> HIDE DEF row, h
    <2>4. ASSUME NEW i \in 1..c
          PROVE  /\ row(m - 1)[i] \in Int /\ row(m)[i] \in Int
                 /\ i # j => row(m)[i] = row(m - 1)[i]
                 /\ i = j => row(m)[i] = row(m - 1)[i] + g[m]
        <3>1. row(m)[i] = Group(b[i])[m] /\ row(m - 1)[i] = Group(b[i])[m - 1] /\ row(m - 1)[i] \in Int /\ row(m)[i] \in Int
            BY <1>7, <2>1
        <3>2. Group(b[i])[m] = Group(b[i])[m - 1] + (IF tag[m] = b[i] THEN g[m] ELSE 0)
            BY <1>6
        <3> QED BY <2>2, <2>3, <3>1, <3>2
    <2>5. Summed(row(m), c) = Summed(row(m - 1), c) + (row(m)[j] - row(m - 1)[j])
        <3>1. \A i \in 1..c : row(m - 1)[i] \in Int /\ row(m)[i] \in Int /\ (i # j => row(m)[i] = row(m - 1)[i])
            BY <2>4
        <3>2. PICK u, w : u = row(m - 1) /\ w = row(m)
            OBVIOUS
        <3>3. \A i \in 1..c : u[i] \in Int /\ w[i] \in Int /\ (i # j => w[i] = u[i])
            BY <3>1, <3>2
        <3>4. Summed(w, c) = Summed(u, c) + (w[j] - u[j])
            BY <3>3, SumChange
        <3> QED BY <3>2, <3>4
    <2>6. row(m)[j] - row(m - 1)[j] = g[m]
        BY <2>4
    <2> QED BY <1>7, <2>1, <2>5, <2>6
<1> HIDE DEF h
<1>10. PICK t : AddsUp(t, g, n) /\ Summed(g, n) = t[n]
    BY SumIs
<1>11. SameSteps(h, t, n)
    <2>1. \A m \in 0..n : h[m] \in Int /\ t[m] \in Int
        BY <1>7, <1>10 DEF AddsUp
    <2>2. h[0] = t[0]
        BY <1>8, <1>10 DEF AddsUp
    <2>3. ASSUME NEW m \in 1..n PROVE h[m] - h[m - 1] = t[m] - t[m - 1]
        <3>1. m - 1 \in 0..n /\ t[m] = t[m - 1] + g[m] /\ h[m] = h[m - 1] + g[m] /\ g[m] \in Int
            BY <1>9, <1>10 DEF AddsUp
        <3>2. h[m - 1] \in Int /\ t[m - 1] \in Int
            BY <2>1, <3>1
        <3> QED BY <3>1, <3>2
    <2> QED BY <2>1, <2>2, <2>3 DEF SameSteps
<1>12. n \in 0..n
    OBVIOUS
<1>13. h[n] = t[n]
    <2>1. \A m \in 0..n : h[m] = t[m]
        BY <1>11, Matched
    <2> QED BY <1>12, <2>1
<1>14. \A k \in Q : f[k] = Group(k)[n] /\ f[k] \in Int
    BY <1>0, <1>4, <1>5, <1>12
<1>15. Pf!SumOver(f) = Summed(row(n), c)
    <2>1. \A j \in 1..c : row(n)[j] = f[b[j]]
        <3>1. \A j \in 1..c : b[j] \in Q
            BY <1>2 DEF Numbers1
        <3> QED BY <1>7, <1>12, <1>14, <3>1
    <2>2. \A k \in Q : f[k] \in Int
        BY <1>14
    <2> HIDE DEF row
    <2>3. DOMAIN f = Q
        BY <1>0
    <2> QED BY <1>1, <1>2, <2>1, <2>2, <2>3, RenamedSum
<1> QED BY <1>0, <1>7, <1>10, <1>12, <1>13, <1>14, <1>15

LEMMA MinIs ==
    ASSUME NEW S, IsFiniteSet(S), S # {}, \A x \in S : x \in Int
    PROVE  Pf!Min(S) \in S /\ \A y \in S : Pf!Min(S) <= y
<1>1a. PICK c \in Nat : \E b : Numbers1(b, c, S)
    BY Enumerated
<1>1. PICK b : Numbers1(b, c, S)
    BY <1>1a
<1>2. c \in Nat \ {0} /\ \A i \in 1..c : b[i] \in S /\ b[i] \in Int
    BY <1>1 DEF Numbers1
<1> DEFINE g == [i \in 1..c |-> -b[i]]
<1>3. \A i \in 1..c : g[i] = -b[i] /\ g[i] \in Int
    BY <1>2
<1> HIDE DEF g
<1>4. PICK k \in 1..c : \A i \in 1..c : g[i] <= g[k]
    BY <1>2, <1>3, TopOf
<1>5. b[k] \in S /\ \A y \in S : b[k] <= y
    <2>1. ASSUME NEW i \in 1..c PROVE b[k] <= b[i]
        <3>1. g[i] <= g[k] /\ g[i] = -b[i] /\ g[k] = -b[k] /\ b[i] \in Int /\ b[k] \in Int
            BY <1>2, <1>3, <1>4
        <3> QED BY <3>1
    <2> QED BY <1>1, <1>2, <2>1 DEF Numbers1
<1>6. Pf!Min(S) = CHOOSE x \in S : \A y \in S : x <= y
    BY Zenon DEF Pf!Min
<1> QED BY <1>5, <1>6, Zenon

Facilities(P) == [p \in P |-> p.facility]
LEMMA GroupsAre ==
    ASSUME NEW P, \A p \in P : p.facility \in Nat, NEW s \in Seq(P), NEW dim, NEW f, f = Pf!groupBy(s, dim)
    PROVE  /\ Pf!SumOver(f) = Summed(Of(s, Facilities(P)), Len(s))
           /\ IsFiniteSet(DOMAIN f)
           /\ \A k \in DOMAIN f : f[k] \in Nat /\ f[k] <= Summed(Of(s, Facilities(P)), Len(s))
<1>1. PICK V \in [P -> Int] : V = Facilities(P) /\ \A p \in P : V[p] = p.facility /\ V[p] \in Nat
    <2>1. Facilities(P) \in [P -> Int] /\ \A p \in P : Facilities(P)[p] = p.facility /\ Facilities(P)[p] \in Nat
        BY DEF Facilities
    <2> QED BY <2>1, Zenon
<1>2. PICK n \in Nat : n = Len(s) /\ DOMAIN s = 1..n
    OBVIOUS
<1>3. PICK g : g = Of(s, V) /\ \A i \in 1..n : g[i] = V[s[i]] /\ g[i] \in Nat
    <2>1. \A i \in 1..n : Of(s, V)[i] = V[s[i]]
        BY <1>2, OfInts
    <2>2. \A i \in 1..n : s[i] \in P
        BY <1>2
    <2> QED BY <1>1, <2>1, <2>2
<1>4. PICK tag : \A i \in 1..n : tag[i] = s[i][dim]
    <2>1. \A i \in 1..n : [j \in 1..n |-> s[j][dim]][i] = s[i][dim]
        OBVIOUS
    <2> QED BY <2>1, Zenon
<1> DEFINE Q == {s[i][dim] : i \in DOMAIN s}
           D(k) == {i \in DOMAIN s : s[i][dim] = k}
<1>5. f = [k \in Q |-> Pf!SumOver([i \in DOMAIN Pf!Kept(s, D(k)) |-> Pf!Kept(s, D(k))[i].facility])]
    BY Zenon DEF Pf!groupBy, Pf!Total, Pf!Where
<1>6. DOMAIN f = Q /\ Q = {tag[i] : i \in 1..n}
    BY <1>2, <1>4, <1>5, SMTT(15), ZenonT(30)
<1>7. ASSUME NEW k \in Q PROVE f[k] = Summed(Keyed(g, tag, k, n), n) /\ f[k] \in Nat /\ f[k] <= Summed(g, n)
    <2>1. PICK t \in Seq(P) : t = Pf!Kept(s, D(k))
        BY <1>1, KeptIs
    <2>2. PICK h : h = [i \in DOMAIN t |-> t[i].facility]
        OBVIOUS
    <2>3. f[k] = Pf!SumOver(h)
        <3> HIDE DEF D, Q
        <3> QED BY <1>5, <2>1, <2>2
    <2>4. Read(h, t, V)
        <3>1. \A i \in DOMAIN t : t[i] \in P
            OBVIOUS
        <3> QED BY <1>1, <2>2, <3>1 DEF Read
    <2>5. PICK m : m = Masked(s, V, D(k)) /\ Pf!SumOver(h) = Summed(m, n)
        <3> HIDE DEF D
        <3> QED BY <1>2, <2>1, <2>4, KeptTotal
    <2>6. PICK u : u = Keyed(g, tag, k, n)
        OBVIOUS
    <2>7. ASSUME NEW i \in 1..n PROVE m[i] = u[i] /\ m[i] \in Nat /\ m[i] <= g[i] /\ m[i] \in Int
        <3>1. m[i] = IF i \in D(k) THEN V[s[i]] ELSE 0
            <4> HIDE DEF D
            <4>1. \A j \in 1..Len(s) : m[j] = IF j \in D(k) THEN V[s[j]] ELSE 0
                BY <2>5, Zenon DEF Masked
            <4> QED BY <1>2, <4>1
        <3>2. u[i] = IF tag[i] = k THEN g[i] ELSE 0
            BY <2>6 DEF Keyed
        <3>3. i \in D(k) <=> tag[i] = k
            BY <1>2, <1>4
        <3> HIDE DEF D
        <3> QED BY <1>3, <3>1, <3>2, <3>3
    <2>8. Summed(u, n) = Summed(m, n) /\ Summed(m, n) \in Nat /\ Summed(m, n) <= Summed(g, n)
        <3>1. \A i \in 1..n : m[i] \in Int /\ g[i] \in Int /\ m[i] <= g[i]
            BY <1>3, <2>7
        <3>2. Summed(m, n) <= Summed(g, n)
            BY <3>1, SumMonotone
        <3>3. Summed(u, n) = Summed(m, n)
            BY <2>7, SumSame
        <3>4. Summed(m, n) \in Nat
            BY <2>7, SumNat
        <3> QED BY <3>2, <3>3, <3>4
    <2> QED BY <2>3, <2>5, <2>6, <2>8
<1> HIDE DEF Q, D
<1>8. Pf!SumOver(f) = Summed(g, n)
    <2>1. \A i \in 1..n : g[i] \in Int
        BY <1>3
    <2>2. Groups(f, g, tag, n)
        BY <1>6, <1>7 DEF Groups
    <2> QED BY <2>1, <2>2, Regrouped
<1>9. IsFiniteSet(Q)
    BY <1>6, ImageFinite, SMTT(15), ZenonT(30)
<1> QED BY <1>1, <1>2, <1>3, <1>6, <1>7, <1>8, <1>9

\* Regrouping a loan book loses nothing: by asset and by region it adds back to the facilities lent, whatever is lent on
\* what and where, and the largest concentration reported is above every group of either (aggregateExposure, exposure.ts).
THEOREM BookAdds ==
    ASSUME NEW P, \A p \in P : p.facility \in Nat, NEW positions \in Seq(P)
    PROVE  Pf!BookAddsBack(positions)
<1> DEFINE s == positions
           byAsset == Pf!groupBy(s, "asset")
           byRegion == Pf!groupBy(s, "region")
           facility == Pf!SumOver([i \in DOMAIN s |-> s[i].facility])
           all == Summed(Of(s, Facilities(P)), Len(s))
           lent == {s[i].facility : i \in DOMAIN s} \cup {byAsset[k] : k \in DOMAIN byAsset} \cup {byRegion[k] : k \in DOMAIN byRegion}
           e == Pf!aggregateExposure(s)
           largest == IF facility > 0 THEN Pf!Max(lent) ELSE 0
<1>1. e.facility = facility /\ e.byAsset = byAsset /\ e.byRegion = byRegion /\ e.largest = largest
    <2>1. e = [facility |-> facility, byAsset |-> byAsset, byRegion |-> byRegion,
               undrawn |-> Pf!Max({0, facility - Pf!SumOver([i \in DOMAIN s |-> s[i].drawn])}),
               largest |-> largest]
        BY Zenon DEF Pf!aggregateExposure, Pf!Total
    <2> HIDE DEF e, facility, byAsset, byRegion, largest
    <2> QED BY <2>1
<1>2. facility = all
    <2>1. PICK V \in [P -> Int] : V = Facilities(P) /\ \A p \in P : V[p] = p.facility
        <3>1. Facilities(P) \in [P -> Int] /\ \A p \in P : Facilities(P)[p] = p.facility
            BY DEF Facilities
        <3> QED BY <3>1, Zenon
    <2>2. PICK g : g = [i \in DOMAIN s |-> s[i].facility]
        OBVIOUS
    <2>3. Read(g, s, V)
        <3>1. \A i \in DOMAIN s : s[i] \in P
            OBVIOUS
        <3> QED BY <2>1, <2>2, <3>1 DEF Read
    <2> QED BY <2>1, <2>2, <2>3, TotalOf
<1>3. Pf!SumOver(byAsset) = all /\ IsFiniteSet(DOMAIN byAsset) /\ \A k \in DOMAIN byAsset : byAsset[k] \in Nat /\ byAsset[k] <= all
    BY GroupsAre
<1>4. Pf!SumOver(byRegion) = all /\ IsFiniteSet(DOMAIN byRegion) /\ \A k \in DOMAIN byRegion : byRegion[k] \in Nat /\ byRegion[k] <= all
    BY GroupsAre
<1>5. IsFiniteSet(lent) /\ \A x \in lent : x \in Int
    <2>1. ASSUME NEW Q, NEW f, IsFiniteSet(Q) PROVE IsFiniteSet({f[k] : k \in Q})
        <3>1a. PICK c \in Nat : \E b : Numbers1(b, c, Q)
            BY <2>1, Enumerated
        <3>1. PICK b : Numbers1(b, c, Q)
            BY <3>1a
        <3>2. PICK h : h = [i \in 1..c |-> f[b[i]]]
            OBVIOUS
        <3>3. {f[k] : k \in Q} = {h[i] : i \in 1..c}
            BY <3>1, <3>2 DEF Numbers1
        <3> QED BY <3>3, ImageFinite
    <2>2. PICK n \in Nat : DOMAIN s = 1..n
        OBVIOUS
    <2>3. PICK h : h = [i \in DOMAIN s |-> s[i].facility]
        OBVIOUS
    <2>4. {s[i].facility : i \in DOMAIN s} = {h[i] : i \in 1..n}
        BY <2>2, <2>3
    <2>5. IsFiniteSet({s[i].facility : i \in DOMAIN s})
        BY <2>4, ImageFinite
    <2>6. \A i \in DOMAIN s : s[i].facility \in Int
        <3>1. \A i \in DOMAIN s : s[i] \in P
            OBVIOUS
        <3> QED BY <3>1
    <2> HIDE DEF byAsset, byRegion
    <2>7. IsFiniteSet({byAsset[k] : k \in DOMAIN byAsset}) /\ IsFiniteSet({byRegion[k] : k \in DOMAIN byRegion})
        BY <1>3, <1>4, <2>1
    <2>8. IsFiniteSet(lent)
        BY <2>5, <2>7, FS_Union
    <2>9. \A x \in lent : x \in Int
        BY <1>3, <1>4, <2>6
    <2> QED BY <2>8, <2>9
<1> HIDE DEF facility, byAsset, byRegion, all
<1>6. ASSUME NEW x, x \in {byAsset[k] : k \in DOMAIN byAsset} \cup {byRegion[k] : k \in DOMAIN byRegion}
      PROVE  x <= largest
    <2>1. x \in lent /\ x \in Nat /\ x <= all
        BY <1>3, <1>4, <1>6
    <2>2. CASE facility > 0
        <3> HIDE DEF lent
        <3>1. x <= Pf!Max(lent)
            BY <1>5, <2>1, MaxIs
        <3> QED BY <2>2, <3>1
    <2>3. CASE ~(facility > 0)
        <3>1. all \in Int
            <4>1. Facilities(P) \in [P -> Int]
                BY DEF Facilities
            <4>2. PICK V \in [P -> Int] : V = Facilities(P)
                BY <4>1
            <4>3. \A i \in 1..Len(s) : Of(s, V)[i] \in Int
                BY OfInts
            <4> QED BY <4>2, <4>3, SumInt DEF all
        <3>2. x = 0
            BY <1>2, <2>1, <2>3, <3>1
        <3> QED BY <2>3, <3>2
    <2> QED BY <2>2, <2>3
<1> HIDE DEF e, largest, lent
<1>7. \A k \in DOMAIN byAsset : byAsset[k] <= largest
    BY <1>6
<1>8. \A k \in DOMAIN byRegion : byRegion[k] <= largest
    BY <1>6
<1>9. /\ Pf!SumOver(e.byAsset) = e.facility /\ Pf!SumOver(e.byRegion) = e.facility
      /\ \A k \in DOMAIN e.byAsset : e.byAsset[k] <= e.largest
      /\ \A k \in DOMAIN e.byRegion : e.byRegion[k] <= e.largest
    BY <1>1, <1>2, <1>3, <1>4, <1>7, <1>8
<1> QED BY <1>9, Zenon DEF Pf!BookAddsBack, e, s

\* What the items of a list come to, each counted as W counts it.
Tally(s, W) == Summed(Of(s, W), Len(s))

LEMMA TallyInt == ASSUME NEW S, NEW s \in Seq(S), NEW W \in [S -> Int] PROVE Tally(s, W) \in Int
<1>1. PICK n \in Nat : n = Len(s)
    OBVIOUS
<1>2. PICK g : g = Of(s, W)
    OBVIOUS
<1>3. \A i \in 1..n : g[i] = W[s[i]] /\ W[s[i]] \in Int
    BY <1>1, <1>2, OfInts
<1>4. Summed(g, n) \in Int
    BY <1>3, SumInt
<1> QED BY <1>1, <1>2, <1>4 DEF Tally

\* A total over what is kept counts nothing for the rest.
Counted(s, D, V, W) == \A i \in 1..Len(s) : W[s[i]] = IF i \in D THEN V[s[i]] ELSE 0
LEMMA KeptTally ==
    ASSUME NEW S, NEW s \in Seq(S), NEW D, NEW V \in [S -> Int], NEW W \in [S -> Int], Counted(s, D, V, W),
           NEW g, Read(g, Pf!Kept(s, D), V)
    PROVE  Pf!SumOver(g) = Tally(s, W)
<1>1. PICK n \in Nat : n = Len(s)
    OBVIOUS
<1>2. PICK m : m = Masked(s, V, D) /\ Pf!SumOver(g) = Summed(m, n)
    BY <1>1, KeptTotal
<1>3. PICK h : h = Of(s, W)
    OBVIOUS
<1>4. ASSUME NEW i \in 1..n PROVE m[i] \in Int /\ h[i] = m[i]
    <2>1. m[i] = IF i \in D THEN V[s[i]] ELSE 0
        BY <1>1, <1>2 DEF Masked
    <2>2. h[i] = W[s[i]] /\ s[i] \in S
        BY <1>1, <1>3 DEF Of
    <2>3. W[s[i]] = IF i \in D THEN V[s[i]] ELSE 0
        BY <1>1 DEF Counted
    <2> QED BY <2>1, <2>2, <2>3
<1>5. Summed(h, n) = Summed(m, n)
    BY <1>4, SumSame
<1> QED BY <1>1, <1>2, <1>3, <1>5 DEF Tally

LEMMA KeptCount ==
    ASSUME NEW S, NEW s \in Seq(S), NEW D, NEW V \in [S -> Int], \A x \in S : V[x] = 1,
           NEW W \in [S -> Int], Counted(s, D, V, W)
    PROVE  Len(Pf!Kept(s, D)) = Tally(s, W)
<1>3. PICK t \in Seq(S) : t = Pf!Kept(s, D)
    BY KeptIs
<1>4. PICK n \in Nat : n = Len(t) /\ DOMAIN t = 1..n
    OBVIOUS
<1>5. PICK g : DOMAIN g = 1..n /\ \A i \in 1..n : g[i] = 1
    <2> DEFINE h == [i \in 1..n |-> 1]
    <2>1. DOMAIN h = 1..n /\ \A i \in 1..n : h[i] = 1
        OBVIOUS
    <2> HIDE DEF h
    <2> QED BY <2>1
<1>6. Read(g, t, V)
    <2>1. \A i \in 1..n : t[i] \in S
        BY <1>4
    <2> QED BY <1>4, <1>5, <2>1 DEF Read
<1>7. Pf!SumOver(g) = Tally(s, W)
    <2>1. Read(g, Pf!Kept(s, D), V)
        BY <1>3, <1>6
    <2> QED BY <2>1, KeptTally, SMTT(60)
<1>8. Pf!SumOver(g) = Summed(g, n)
    <2>1. \A i \in 1..n : g[i] \in Int
        BY <1>5
    <2> QED BY <1>5, <2>1, PfSums
<1>9. Summed(g, n) = n
    BY <1>5, OnesAdd
<1> QED BY <1>3, <1>4, <1>7, <1>8, <1>9

LEMMA TallyJoined ==
    ASSUME NEW S, NEW s \in Seq(S), NEW u \in Seq(S), NEW W \in [S -> Int]
    PROVE  Tally(s \o u, W) = Tally(s, W) + Tally(u, W) /\ Tally(s, W) \in Int /\ Tally(u, W) \in Int
<1>1. PICK n \in Nat, m \in Nat : n = Len(s) /\ m = Len(u)
    OBVIOUS
<1>2. PICK w : w = s \o u /\ Len(w) = n + m /\ (\A i \in 1..n : w[i] = s[i]) /\ \A i \in 1..m : w[n + i] = u[i]
    <2>1. Len(s \o u) = n + m /\ (\A i \in 1..n : (s \o u)[i] = s[i]) /\ \A i \in 1..m : (s \o u)[n + i] = u[i]
        BY <1>1
    <2> QED BY <2>1, Zenon
<1>3. PICK g, h, k : g = Of(w, W) /\ h = Of(s, W) /\ k = Of(u, W)
    OBVIOUS
<1>4. (\A i \in 1..n : h[i] = W[s[i]] /\ h[i] \in Int) /\ \A i \in 1..m : k[i] = W[u[i]] /\ k[i] \in Int
    <2>1. \A i \in 1..n : h[i] = W[s[i]] /\ W[s[i]] \in Int
        BY <1>1, <1>3, OfInts
    <2>2. \A i \in 1..m : k[i] = W[u[i]] /\ W[u[i]] \in Int
        BY <1>1, <1>3, OfInts
    <2> QED BY <2>1, <2>2
<1>5. \A i \in 1..(n + m) : g[i] = W[w[i]]
    BY <1>2, <1>3 DEF Of
<1>6. (\A i \in 1..n : g[i] = h[i]) /\ \A i \in 1..m : g[n + i] = k[i]
    <2>1. \A i \in 1..n : i \in 1..(n + m)
        OBVIOUS
    <2>2. \A i \in 1..m : n + i \in 1..(n + m)
        OBVIOUS
    <2>3. ASSUME NEW i \in 1..n PROVE g[i] = h[i]
        <3>1. g[i] = W[w[i]] /\ w[i] = s[i]
            BY <1>2, <1>5, <2>1
        <3> QED BY <1>4, <3>1
    <2>4. ASSUME NEW i \in 1..m PROVE g[n + i] = k[i]
        <3>1. g[n + i] = W[w[n + i]] /\ w[n + i] = u[i]
            BY <1>2, <1>5, <2>2
        <3> QED BY <1>4, <3>1
    <2> QED BY <2>3, <2>4
<1>7. \A i \in 1..(n + m) : g[i] \in Int
    <2> SUFFICES ASSUME NEW i \in 1..(n + m) PROVE g[i] \in Int
        OBVIOUS
    <2>1. CASE i <= n
        BY <1>4, <1>6, <2>1
    <2>2. CASE i > n
        <3>1. PICK j \in 1..m : i = n + j
            <4>1. i - n \in 1..m /\ i = n + (i - n)
                BY <2>2
            <4> QED BY <4>1
        <3> QED BY <1>4, <1>6, <3>1
    <2> QED BY <2>1, <2>2
<1>8. /\ Summed(g, n) \in Int /\ Summed(k, m) \in Int /\ Summed(g, n + m) = Summed(g, n) + Summed(k, m)
    <2>1. n \in Nat /\ m \in Nat
        OBVIOUS
    <2>2. InParts(g, k, n, m)
        <3>1. \A i \in 1..m : k[i] = g[n + i]
            BY <1>6
        <3> QED BY <1>7, <3>1 DEF InParts
    <2>3. Summed(g, n + m) = Summed(g, n) + Summed(k, m)
        BY <2>1, <2>2, SumParts
    <2>4. (\A i \in 1..n : g[i] \in Int) /\ \A i \in 1..m : k[i] \in Int
        BY <1>4, <1>6
    <2>5. Summed(g, n) \in Int /\ Summed(k, m) \in Int
        BY <2>1, <2>4, SumInt
    <2> QED BY <2>3, <2>5
<1>9. Summed(g, n) = Summed(h, n)
    BY <1>4, <1>6, SumSame
<1> QED BY <1>1, <1>2, <1>3, <1>8, <1>9 DEF Tally

\* One item is replaced.
Replaced(u, s, i, y) == u = [s EXCEPT ![i] = y]
LEMMA TallyChanged ==
    ASSUME NEW S, NEW s \in Seq(S), NEW W \in [S -> Int], NEW i \in DOMAIN s, NEW y \in S,
           NEW u, Replaced(u, s, i, y)
    PROVE  Tally(u, W) = Tally(s, W) + (W[y] - W[s[i]]) /\ Tally(s, W) \in Int
<1>1. PICK n \in Nat : n = Len(s) /\ DOMAIN s = 1..n /\ i \in 1..n
    OBVIOUS
<1>2. u \in Seq(S) /\ Len(u) = n /\ u[i] = y /\ \A j \in 1..n : j # i => u[j] = s[j]
    <2>1. s \in [1..n -> S]
        BY <1>1
    <2>2. u = [s EXCEPT ![i] = y]
        BY DEF Replaced
    <2>3. u \in [1..n -> S]
        BY <1>1, <2>1, <2>2
    <2> QED BY <1>1, <2>1, <2>2, <2>3
<1>3. PICK g, k : g = Of(s, W) /\ k = Of(u, W)
    OBVIOUS
<1>4. (\A j \in 1..n : g[j] = W[s[j]] /\ W[s[j]] \in Int) /\ \A j \in 1..n : k[j] = W[u[j]] /\ W[u[j]] \in Int
    <2>1. \A j \in 1..n : g[j] = W[s[j]] /\ W[s[j]] \in Int
        BY <1>1, <1>3, OfInts
    <2>2. \A j \in 1..n : k[j] = W[u[j]] /\ W[u[j]] \in Int
        <3>1. u \in Seq(S)
            BY <1>2
        <3>2. \A j \in 1..Len(u) : Of(u, W)[j] = W[u[j]] /\ W[u[j]] \in Int
            BY <3>1, OfInts, Zenon
        <3> QED BY <1>2, <1>3, <3>2
    <2> QED BY <2>1, <2>2
<1>5. ASSUME NEW j \in 1..n PROVE g[j] \in Int /\ k[j] \in Int /\ (j # i => k[j] = g[j])
    <2>1. j # i => u[j] = s[j]
        BY <1>2, Zenon
    <2>2. g[j] = W[s[j]] /\ W[s[j]] \in Int /\ k[j] = W[u[j]] /\ W[u[j]] \in Int
        BY <1>4, Zenon
    <2> QED BY <2>1, <2>2, Zenon
<1>6. Summed(k, n) = Summed(g, n) + (k[i] - g[i])
    BY <1>1, <1>5, SumChange, SMTT(15), ZenonT(30)
<1>7. k[i] = W[y] /\ g[i] = W[s[i]]
    BY <1>1, <1>2, <1>4
<1>8. Summed(g, n) \in Int
    BY <1>5, SumInt
<1> QED BY <1>1, <1>2, <1>3, <1>6, <1>7, <1>8 DEF Tally

LEMMA TallyAll ==
    ASSUME NEW S, NEW s \in Seq(S), NEW V \in [S -> Int], NEW g, Read(g, s, V)
    PROVE  Pf!SumOver(g) = Tally(s, V)
    BY TotalOf DEF Tally

LEMMA TallyMonotone ==
    ASSUME NEW S, NEW s \in Seq(S), NEW V \in [S -> Int], NEW W \in [S -> Int], \A x \in S : V[x] <= W[x]
    PROVE  Tally(s, V) <= Tally(s, W) /\ Tally(s, V) \in Int /\ Tally(s, W) \in Int
<1>1. PICK n \in Nat : n = Len(s)
    OBVIOUS
<1>2. PICK g, k : g = Of(s, V) /\ k = Of(s, W)
    OBVIOUS
<1>3. (\A j \in 1..n : g[j] = V[s[j]] /\ V[s[j]] \in Int) /\ \A j \in 1..n : k[j] = W[s[j]] /\ W[s[j]] \in Int
    <2>1. \A j \in 1..n : g[j] = V[s[j]] /\ V[s[j]] \in Int
        BY <1>1, <1>2, OfInts
    <2>2. \A j \in 1..n : k[j] = W[s[j]] /\ W[s[j]] \in Int
        BY <1>1, <1>2, OfInts
    <2> QED BY <2>1, <2>2
<1>4. \A j \in 1..n : s[j] \in S
    BY <1>1
<1>5. \A j \in 1..n : g[j] \in Int /\ k[j] \in Int /\ g[j] <= k[j]
    BY <1>3, <1>4
<1>6. Summed(g, n) <= Summed(k, n) /\ Summed(g, n) \in Int /\ Summed(k, n) \in Int
    BY <1>5, SumMonotone
<1> QED BY <1>1, <1>2, <1>6 DEF Tally

\* So many times each is so many times all.
Multiples(W, c, V, S) == \A x \in S : W[x] = c * V[x]
LEMMA TallyTimes ==
    ASSUME NEW S, NEW s \in Seq(S), NEW V \in [S -> Int], NEW W \in [S -> Int], NEW c \in Int, Multiples(W, c, V, S)
    PROVE  Tally(s, W) = c * Tally(s, V) /\ Tally(s, V) \in Int
<1>1. PICK n \in Nat : n = Len(s)
    OBVIOUS
<1>2. PICK g, k : g = Of(s, V) /\ k = Of(s, W)
    OBVIOUS
<1>3. (\A j \in 1..n : g[j] = V[s[j]] /\ V[s[j]] \in Int) /\ \A j \in 1..n : k[j] = W[s[j]] /\ W[s[j]] \in Int
    <2>1. \A j \in 1..n : g[j] = V[s[j]] /\ V[s[j]] \in Int
        BY <1>1, <1>2, OfInts
    <2>2. \A j \in 1..n : k[j] = W[s[j]] /\ W[s[j]] \in Int
        BY <1>1, <1>2, OfInts
    <2> QED BY <2>1, <2>2
<1>4. \A j \in 1..n : s[j] \in S
    BY <1>1
<1>5. \A j \in 1..n : g[j] \in Int /\ k[j] = c * g[j] /\ k[j] \in Int
    BY <1>3, <1>4 DEF Multiples
<1>6. PICK t : AddsUp(t, g, n) /\ Summed(g, n) = t[n]
    BY <1>5, SumIs
<1>7. PICK w : AddsUp(w, k, n) /\ Summed(k, n) = w[n]
    BY <1>5, SumIs
<1> DEFINE h == [j \in 0..n |-> c * t[j]]
<1>8. \A j \in 0..n : h[j] = c * t[j] /\ t[j] \in Int /\ h[j] \in Int /\ w[j] \in Int
    <2>1. \A j \in 0..n : t[j] \in Int /\ w[j] \in Int
        BY <1>6, <1>7 DEF AddsUp
    <2> QED BY <2>1
<1> HIDE DEF h
<1>9. SameSteps(h, w, n)
    <2>1. 0 \in 0..n /\ t[0] = 0 /\ w[0] = 0
        BY <1>6, <1>7 DEF AddsUp
    <2>2. h[0] = w[0]
        BY <1>8, <2>1
    <2>3. ASSUME NEW j \in 1..n PROVE h[j] - h[j - 1] = w[j] - w[j - 1]
        <3>1. j \in 0..n /\ j - 1 \in 0..n /\ t[j] = t[j - 1] + g[j] /\ w[j] = w[j - 1] + k[j]
            BY <1>6, <1>7 DEF AddsUp
        <3>2. PICK x \in Int, y \in Int, z \in Int : x = t[j - 1] /\ y = g[j] /\ z = w[j - 1]
            BY <1>5, <1>8, <3>1
        <3>3. h[j] = c * (x + y) /\ h[j - 1] = c * x /\ w[j] = z + c * y
            BY <1>5, <1>8, <3>1, <3>2
        <3>4. PICK a \in Int, b \in Int : a = c * x /\ b = c * y /\ c * (x + y) = a + b
            OBVIOUS
        <3>5. h[j] = a + b /\ h[j - 1] = a /\ w[j] = z + b
            BY <3>3, <3>4, Zenon
        <3> QED BY <3>2, <3>5
    <2> QED BY <1>8, <2>2, <2>3 DEF SameSteps
<1>10. n \in 0..n
    OBVIOUS
<1>11. h[n] = w[n]
    <2>1. \A j \in 0..n : h[j] = w[j]
        BY <1>9, Matched
    <2> QED BY <1>10, <2>1
<1> QED BY <1>1, <1>2, <1>6, <1>7, <1>8, <1>10, <1>11 DEF Tally

\* Two counts of the same items add up to the count of both.
Plus(V, W, S) == [x \in S |-> V[x] + W[x]]
LEMMA TallyPlus ==
    ASSUME NEW S, NEW s \in Seq(S), NEW V \in [S -> Int], NEW W \in [S -> Int]
    PROVE  Tally(s, Plus(V, W, S)) = Tally(s, V) + Tally(s, W)
<1>0. PICK U : U = Plus(V, W, S) /\ U \in [S -> Int] /\ \A x \in S : U[x] = V[x] + W[x]
    <2>1. Plus(V, W, S) \in [S -> Int] /\ \A x \in S : Plus(V, W, S)[x] = V[x] + W[x]
        BY DEF Plus
    <2> QED BY <2>1, Zenon
<1>1. PICK n \in Nat : n = Len(s) /\ \A j \in 1..n : s[j] \in S
    OBVIOUS
<1>2. PICK f, g, h : f = Of(s, U) /\ g = Of(s, V) /\ h = Of(s, W)
    OBVIOUS
<1>3. \A j \in 1..n : f[j] = U[s[j]] /\ U[s[j]] \in Int
    BY <1>0, <1>1, <1>2, OfInts, SMTT(15), ZenonT(30)
<1>4. \A j \in 1..n : g[j] = V[s[j]] /\ V[s[j]] \in Int
    BY <1>1, <1>2, OfInts
<1>5. \A j \in 1..n : h[j] = W[s[j]] /\ W[s[j]] \in Int
    BY <1>1, <1>2, OfInts
<1>6. \A j \in 1..n : f[j] \in Int /\ g[j] \in Int /\ h[j] \in Int /\ f[j] = g[j] + h[j]
    BY <1>0, <1>1, <1>3, <1>4, <1>5
<1>7. PICK t : AddsUp(t, f, n) /\ Summed(f, n) = t[n]
    BY <1>6, SumIs
<1>8. PICK v : AddsUp(v, g, n) /\ Summed(g, n) = v[n]
    BY <1>6, SumIs
<1>9. PICK w : AddsUp(w, h, n) /\ Summed(h, n) = w[n]
    BY <1>6, SumIs
<1> DEFINE both == [j \in 0..n |-> v[j] + w[j]]
<1>10. \A j \in 0..n : t[j] \in Int /\ v[j] \in Int /\ w[j] \in Int /\ both[j] = v[j] + w[j] /\ both[j] \in Int
    <2>1. \A j \in 0..n : t[j] \in Int /\ v[j] \in Int /\ w[j] \in Int
        BY <1>7, <1>8, <1>9 DEF AddsUp
    <2> QED BY <2>1
<1> HIDE DEF both
<1>11. SameSteps(t, both, n)
    <2>1. 0 \in 0..n /\ t[0] = 0 /\ v[0] = 0 /\ w[0] = 0
        BY <1>7, <1>8, <1>9 DEF AddsUp
    <2>2. t[0] = both[0]
        BY <1>10, <2>1
    <2>3. ASSUME NEW j \in 1..n PROVE t[j] - t[j - 1] = both[j] - both[j - 1]
        <3>1. /\ j \in 0..n /\ j - 1 \in 0..n /\ t[j] = t[j - 1] + f[j]
              /\ v[j] = v[j - 1] + g[j] /\ w[j] = w[j - 1] + h[j]
            BY <1>7, <1>8, <1>9 DEF AddsUp
        <3>2. PICK a \in Int, b \in Int : f[j] = a + b /\ g[j] = a /\ h[j] = b
            BY <1>6
        <3>3. PICK x \in Int, y \in Int : v[j - 1] = x /\ w[j - 1] = y /\ t[j - 1] \in Int /\ both[j - 1] = x + y
            BY <1>10, <3>1
        <3>4. both[j] = v[j] + w[j]
            BY <1>10, <3>1
        <3>5. both[j] = (x + a) + (y + b) /\ t[j] = t[j - 1] + (a + b)
            BY <3>1, <3>2, <3>3, <3>4
        <3> QED BY <3>2, <3>3, <3>5
    <2> QED BY <1>10, <2>2, <2>3 DEF SameSteps
<1>12. n \in 0..n
    OBVIOUS
<1>13. t[n] = both[n]
    <2>1. \A j \in 0..n : t[j] = both[j]
        BY <1>11, Matched
    <2> QED BY <1>12, <2>1
<1> QED BY <1>0, <1>1, <1>2, <1>7, <1>8, <1>9, <1>10, <1>12, <1>13 DEF Tally

(* Sales, lettings, deals and returns: every figure is a tally. *)

UnitStages == {"AVAILABLE", "RESERVED", "EXCHANGED", "COMPLETED", "HANDOVER"}
Unit == [status : UnitStages, agreed : Int, appraised : Int, deposit : Nat]
SoldFor == [u \in Unit |-> IF u.status \in Pf!Sold THEN u.agreed ELSE 0]
AppraisedAt == [u \in Unit |-> u.appraised]
HeldOn == [u \in Unit |-> IF u.status \in Pf!Sold \cup {"RESERVED"} THEN u.deposit ELSE 0]
SoldOnes == [u \in Unit |-> IF u.status \in Pf!Sold THEN 1 ELSE 0]

LEMMA UnitFunctions ==
    /\ SoldFor \in [Unit -> Int] /\ AppraisedAt \in [Unit -> Int]
    /\ HeldOn \in [Unit -> Int] /\ SoldOnes \in [Unit -> Int]
<1>1. SoldFor \in [Unit -> Int]
    BY DEF SoldFor, Unit
<1>2. AppraisedAt \in [Unit -> Int]
    BY DEF AppraisedAt, Unit
<1>3. HeldOn \in [Unit -> Int]
    BY DEF HeldOn, Unit
<1>4. SoldOnes \in [Unit -> Int]
    BY DEF SoldOnes
<1> QED BY <1>1, <1>2, <1>3, <1>4

LEMMA SalesAre ==
    ASSUME NEW s \in Seq(Unit), NEW r, r = Pf!salesRollup(s)
    PROVE  /\ r.realised = Tally(s, SoldFor) /\ r.appraised = Tally(s, AppraisedAt)
           /\ r.deposits = Tally(s, HeldOn) /\ r.sold = Tally(s, SoldOnes)
<1> DEFINE A == {i \in DOMAIN s : s[i].status \in Pf!Sold}
           B == {i \in DOMAIN s : s[i].status \in Pf!Sold \cup {"RESERVED"}}
           a == Pf!Kept(s, A)
           b == Pf!Kept(s, B)
           f == [i \in DOMAIN a |-> a[i].agreed]
           g == [i \in DOMAIN s |-> s[i].appraised]
           h == [i \in DOMAIN b |-> b[i].deposit]
<1>0. s \in Seq(Unit)
    OBVIOUS
<1>1. r = [realised |-> Pf!SumOver(f), appraised |-> Pf!SumOver(g), deposits |-> Pf!SumOver(h),
           sold |-> Len(a), total |-> Len(s)]
    BY Zenon DEF Pf!salesRollup, Pf!Total, Pf!Where
<1>2. /\ r.realised = Pf!SumOver(f) /\ r.appraised = Pf!SumOver(g)
      /\ r.deposits = Pf!SumOver(h) /\ r.sold = Len(a)
    <2> HIDE DEF a, b, f, g, h
    <2> QED BY <1>1
<1>3. \A j \in 1..Len(s) : s[j] \in Unit /\ j \in DOMAIN s
    OBVIOUS
<1>4. a \in Seq(Unit) /\ b \in Seq(Unit)
    <2> HIDE DEF A, B
    <2>1. AppraisedAt \in [Unit -> Int]
        BY UnitFunctions
    <2> QED BY <2>1, KeptIs
<1>5. (\A i \in DOMAIN a : a[i] \in Unit) /\ \A i \in DOMAIN b : b[i] \in Unit
    <2> HIDE DEF a, b
    <2> QED BY <1>4
<1>6. PICK V : V \in [Unit -> Int] /\ \A u \in Unit : V[u] = u.agreed
    <2>1. [u \in Unit |-> u.agreed] \in [Unit -> Int] /\ \A u \in Unit : [v \in Unit |-> v.agreed][u] = u.agreed
        BY DEF Unit
    <2> QED BY <2>1, Zenon
<1>61. PICK W : W \in [Unit -> Int] /\ \A u \in Unit : W[u] = u.deposit
    <2>1. [u \in Unit |-> u.deposit] \in [Unit -> Int] /\ \A u \in Unit : [v \in Unit |-> v.deposit][u] = u.deposit
        BY DEF Unit
    <2> QED BY <2>1, Zenon
<1>62. PICK Z : Z \in [Unit -> Int] /\ \A u \in Unit : Z[u] = 1
    <2>1. [u \in Unit |-> 1] \in [Unit -> Int] /\ \A u \in Unit : [v \in Unit |-> 1][u] = 1
        OBVIOUS
    <2> QED BY <2>1, Zenon
<1>63. PICK D, E : D = A /\ E = B
    OBVIOUS
<1>7. Counted(s, D, V, SoldFor) /\ Counted(s, D, Z, SoldOnes) /\ Counted(s, E, W, HeldOn)
    <2>1. Counted(s, D, V, SoldFor)
        BY <1>3, <1>6, <1>63 DEF Counted, SoldFor
    <2>2. Counted(s, D, Z, SoldOnes)
        BY <1>3, <1>62, <1>63 DEF Counted, SoldOnes
    <2>3. Counted(s, E, W, HeldOn)
        BY <1>3, <1>61, <1>63 DEF Counted, HeldOn
    <2> QED BY <2>1, <2>2, <2>3
<1>8. Read(f, Pf!Kept(s, D), V) /\ Read(h, Pf!Kept(s, E), W)
    <2> HIDE DEF A, B
    <2>1. Read(f, a, V)
        <3> HIDE DEF a
        <3> QED BY <1>5, <1>6 DEF Read
    <2>2. Read(h, b, W)
        <3> HIDE DEF b
        <3> QED BY <1>5, <1>61 DEF Read
    <2> QED BY <1>63, <2>1, <2>2
<1>9. Read(g, s, AppraisedAt)
    BY <1>3 DEF Read, AppraisedAt
<1> HIDE DEF A, B, a, b, f, g, h
<1>10. Pf!SumOver(f) = Tally(s, SoldFor) /\ Pf!SumOver(h) = Tally(s, HeldOn)
    <2>1. Pf!SumOver(f) = Tally(s, SoldFor)
        <3>1. V \in [Unit -> Int] /\ SoldFor \in [Unit -> Int]
            BY <1>6, UnitFunctions
        <3>2. Counted(s, D, V, SoldFor) /\ Read(f, Pf!Kept(s, D), V)
            BY <1>7, <1>8
        <3> QED BY <1>0, <3>1, <3>2, KeptTally, SMTT(20)
    <2>2. Pf!SumOver(h) = Tally(s, HeldOn)
        <3>1. W \in [Unit -> Int] /\ HeldOn \in [Unit -> Int]
            BY <1>61, UnitFunctions
        <3>2. Counted(s, E, W, HeldOn) /\ Read(h, Pf!Kept(s, E), W)
            BY <1>7, <1>8
        <3> QED BY <1>0, <3>1, <3>2, KeptTally, SMTT(20)
    <2> QED BY <2>1, <2>2
<1>11. Pf!SumOver(g) = Tally(s, AppraisedAt)
    BY <1>9, UnitFunctions, TallyAll
<1>12. Len(a) = Tally(s, SoldOnes)
    <2>1. Z \in [Unit -> Int] /\ (\A u \in Unit : Z[u] = 1) /\ SoldOnes \in [Unit -> Int] /\ a = Pf!Kept(s, D)
        BY <1>62, <1>63, UnitFunctions DEF a
    <2>2. Len(Pf!Kept(s, D)) = Tally(s, SoldOnes)
        BY <1>0, <1>7, <2>1, KeptCount
    <2> QED BY <2>1, <2>2
<1> QED BY <1>2, <1>10, <1>11, <1>12

\* Reserved is not sold: exchanging contracts on a unit that is on the market or reserved adds its price and one sale to
\* what is reported, never takes a deposit back, and leaves the appraised value alone (salesRollup, rollups.ts).
THEOREM StagesAdd ==
    ASSUME NEW units \in Seq(Unit), NEW i \in DOMAIN units
    PROVE  Pf!StagesOnlyAdd(units, i)
<1> DEFINE s == units
           u == [s EXCEPT ![i].status = "EXCHANGED"]
<1>1. SUFFICES ASSUME s[i].status \in {"AVAILABLE", "RESERVED"}
               PROVE  /\ Pf!salesRollup(u).realised = Pf!salesRollup(s).realised + s[i].agreed
                      /\ Pf!salesRollup(u).sold = Pf!salesRollup(s).sold + 1
                      /\ Pf!salesRollup(u).deposits >= Pf!salesRollup(s).deposits
                      /\ Pf!salesRollup(u).appraised = Pf!salesRollup(s).appraised
    BY Zenon DEF Pf!StagesOnlyAdd
<1>2. PICK p \in Unit : p = s[i]
    OBVIOUS
<1>3. PICK q \in Unit : q = [p EXCEPT !.status = "EXCHANGED"]
    <2>1. "EXCHANGED" \in UnitStages
        BY DEF UnitStages
    <2>2. [p EXCEPT !.status = "EXCHANGED"] \in Unit
        BY <1>2, <2>1 DEF Unit
    <2> QED BY <2>2, Zenon
<1>4. Replaced(u, s, i, q)
    BY <1>2, <1>3, Zenon DEF Replaced
<1>5. u \in Seq(Unit)
    <2>1. u = [s EXCEPT ![i] = q]
        BY <1>4 DEF Replaced
    <2>2. [s EXCEPT ![i] = q] \in Seq(Unit)
        OBVIOUS
    <2> QED BY <2>1, <2>2
<1>6. PICK w : w = u
    OBVIOUS
<1>60. PICK k \in DOMAIN s : k = i
    OBVIOUS
<1>61. w \in Seq(Unit) /\ Replaced(w, s, k, q) /\ p = s[k]
    BY <1>2, <1>4, <1>5, <1>6, <1>60
<1>7. /\ p.status \in {"AVAILABLE", "RESERVED"} /\ q.status = "EXCHANGED" /\ q.agreed = p.agreed
      /\ q.appraised = p.appraised /\ q.deposit = p.deposit
    BY <1>1, <1>2, <1>3 DEF Unit
<1> HIDE DEF u, s
<1>8. p.agreed \in Int /\ p.deposit \in Nat
    BY DEF Unit
<1>9. /\ SoldFor[q] = p.agreed /\ SoldFor[p] = 0 /\ SoldOnes[q] = 1 /\ SoldOnes[p] = 0
      /\ AppraisedAt[q] = AppraisedAt[p] /\ HeldOn[q] = p.deposit /\ HeldOn[p] \in {0, p.deposit}
    BY <1>7, <1>8 DEF SoldFor, SoldOnes, AppraisedAt, HeldOn, Pf!Sold
<1>10. s \in Seq(Unit)
    BY DEF s
<1>11. ASSUME NEW W, W \in [Unit -> Int]
       PROVE  Tally(w, W) = Tally(s, W) + (W[q] - W[p]) /\ Tally(s, W) \in Int /\ W[p] \in Int /\ W[q] \in Int
    <2>1. Tally(w, W) = Tally(s, W) + (W[q] - W[s[k]]) /\ Tally(s, W) \in Int
        BY <1>61, <1>10, <1>11, TallyChanged
    <2> QED BY <1>61, <1>11, <2>1
<1>12. /\ Tally(w, SoldFor) = Tally(s, SoldFor) + p.agreed /\ Tally(w, SoldOnes) = Tally(s, SoldOnes) + 1
       /\ Tally(w, HeldOn) >= Tally(s, HeldOn) /\ Tally(w, AppraisedAt) = Tally(s, AppraisedAt)
    <2>1. Tally(w, SoldFor) = Tally(s, SoldFor) + p.agreed
        <3>1. Tally(w, SoldFor) = Tally(s, SoldFor) + (SoldFor[q] - SoldFor[p])
            BY <1>11, UnitFunctions
        <3> QED BY <1>8, <1>9, <3>1
    <2>2. Tally(w, SoldOnes) = Tally(s, SoldOnes) + 1
        <3>1. Tally(w, SoldOnes) = Tally(s, SoldOnes) + (SoldOnes[q] - SoldOnes[p])
            BY <1>11, UnitFunctions
        <3> QED BY <1>9, <3>1
    <2>3. Tally(w, HeldOn) >= Tally(s, HeldOn)
        <3>1. Tally(w, HeldOn) = Tally(s, HeldOn) + (HeldOn[q] - HeldOn[p]) /\ Tally(s, HeldOn) \in Int
            BY <1>11, UnitFunctions
        <3> QED BY <1>8, <1>9, <3>1
    <2>4. Tally(w, AppraisedAt) = Tally(s, AppraisedAt)
        <3>1. /\ Tally(w, AppraisedAt) = Tally(s, AppraisedAt) + (AppraisedAt[q] - AppraisedAt[p])
              /\ Tally(s, AppraisedAt) \in Int /\ AppraisedAt[p] \in Int
            BY <1>11, UnitFunctions
        <3> QED BY <1>9, <3>1
    <2> QED BY <2>1, <2>2, <2>3, <2>4
<1>13. PICK now, later : now = Pf!salesRollup(s) /\ later = Pf!salesRollup(w)
    OBVIOUS
<1>14. /\ now.realised = Tally(s, SoldFor) /\ now.appraised = Tally(s, AppraisedAt)
       /\ now.deposits = Tally(s, HeldOn) /\ now.sold = Tally(s, SoldOnes)
    BY <1>10, <1>13, SalesAre
<1>15. /\ later.realised = Tally(w, SoldFor) /\ later.appraised = Tally(w, AppraisedAt)
       /\ later.deposits = Tally(w, HeldOn) /\ later.sold = Tally(w, SoldOnes)
    BY <1>61, <1>13, SalesAre
<1> QED BY <1>2, <1>6, <1>60, <1>12, <1>13, <1>14, <1>15

TenancyStages == {"AVAILABLE", "APPLICATION", "REFERENCING", "SIGNED", "OCCUPIED"}
Tenancy == [status : TenancyStages, agreed : Int, erv : Int, arrears : Int]
LetFor == [t \in Tenancy |-> IF t.status = "OCCUPIED" THEN t.agreed ELSE 0]
WouldLetFor == [t \in Tenancy |-> t.erv]
Dues == [t \in Tenancy |-> t.arrears]
VoidOnes == [t \in Tenancy |-> IF t.status = "AVAILABLE" THEN 1 ELSE 0]

LEMMA TenancyFunctions ==
    /\ LetFor \in [Tenancy -> Int] /\ WouldLetFor \in [Tenancy -> Int]
    /\ Dues \in [Tenancy -> Int] /\ VoidOnes \in [Tenancy -> Int]
<1>1. LetFor \in [Tenancy -> Int]
    BY DEF LetFor, Tenancy
<1>2. WouldLetFor \in [Tenancy -> Int]
    BY DEF WouldLetFor, Tenancy
<1>3. Dues \in [Tenancy -> Int]
    BY DEF Dues, Tenancy
<1>4. VoidOnes \in [Tenancy -> Int]
    BY DEF VoidOnes
<1> QED BY <1>1, <1>2, <1>3, <1>4

LEMMA LettingsAre ==
    ASSUME NEW s \in Seq(Tenancy)
    PROVE  Pf!lettingsRollup(s) =
               [rentRoll |-> 12 * Tally(s, LetFor), erv |-> 12 * Tally(s, WouldLetFor), arrears |-> Tally(s, Dues),
                void |-> Tally(s, VoidOnes), total |-> Len(s)]
<1> DEFINE A == {i \in DOMAIN s : s[i].status = "OCCUPIED"}
           B == {i \in DOMAIN s : s[i].status = "AVAILABLE"}
           a == Pf!Kept(s, A)
           b == Pf!Kept(s, B)
           f == [i \in DOMAIN a |-> a[i].agreed]
           g == [i \in DOMAIN s |-> s[i].erv]
           h == [i \in DOMAIN s |-> s[i].arrears]
<1>0. s \in Seq(Tenancy)
    OBVIOUS
<1>1. Pf!lettingsRollup(s) =
          [rentRoll |-> 12 * Pf!SumOver(f), erv |-> 12 * Pf!SumOver(g), arrears |-> Pf!SumOver(h),
           void |-> Len(b), total |-> Len(s)]
    BY Zenon DEF Pf!lettingsRollup, Pf!Total, Pf!Where
<1>2. \A j \in 1..Len(s) : s[j] \in Tenancy /\ j \in DOMAIN s
    OBVIOUS
<1>3. a \in Seq(Tenancy)
    <2> HIDE DEF A, B
    <2>1. Dues \in [Tenancy -> Int]
        BY TenancyFunctions
    <2> QED BY <2>1, KeptIs
<1>4. \A i \in DOMAIN a : a[i] \in Tenancy
    <2> HIDE DEF a, b
    <2> QED BY <1>3
<1>5. PICK V : V \in [Tenancy -> Int] /\ \A t \in Tenancy : V[t] = t.agreed
    <2>1. [t \in Tenancy |-> t.agreed] \in [Tenancy -> Int] /\ \A t \in Tenancy : [v \in Tenancy |-> v.agreed][t] = t.agreed
        BY DEF Tenancy
    <2> QED BY <2>1, Zenon
<1>6. PICK Z : Z \in [Tenancy -> Int] /\ \A t \in Tenancy : Z[t] = 1
    <2>1. [t \in Tenancy |-> 1] \in [Tenancy -> Int] /\ \A t \in Tenancy : [v \in Tenancy |-> 1][t] = 1
        OBVIOUS
    <2> QED BY <2>1, Zenon
<1>7. Counted(s, A, V, LetFor)
    BY <1>2, <1>5 DEF Counted, LetFor
<1>8. Counted(s, B, Z, VoidOnes)
    BY <1>2, <1>6 DEF Counted, VoidOnes
<1>9. Read(f, a, V)
    <2> HIDE DEF a, b
    <2> QED BY <1>4, <1>5 DEF Read
<1>10. Read(g, s, WouldLetFor)
    BY <1>2 DEF Read, WouldLetFor
<1>11. Read(h, s, Dues)
    BY <1>2 DEF Read, Dues
<1> HIDE DEF A, B, f, g, h
<1>12. Pf!SumOver(f) = Tally(s, LetFor)
    <2>1. V \in [Tenancy -> Int] /\ LetFor \in [Tenancy -> Int]
        BY <1>5, TenancyFunctions
    <2> QED BY <1>0, <1>7, <1>9, <2>1, KeptTally, SMTT(20)
<1>13. Pf!SumOver(g) = Tally(s, WouldLetFor)
    BY <1>10, TenancyFunctions, TallyAll
<1>14. Pf!SumOver(h) = Tally(s, Dues)
    BY <1>11, TenancyFunctions, TallyAll
<1>15. Len(b) = Tally(s, VoidOnes)
    <2>1. Z \in [Tenancy -> Int] /\ (\A t \in Tenancy : Z[t] = 1) /\ VoidOnes \in [Tenancy -> Int]
        BY <1>6, TenancyFunctions
    <2> QED BY <1>0, <1>8, <2>1, KeptCount, SMTT(15), ZenonT(30)
<1> HIDE DEF a, b
<1> QED BY <1>1, <1>12, <1>13, <1>14, <1>15

DealStages == {"SOURCING", "APPRAISAL", "OFFER", "ACQUISITION", "CONSTRUCTION", "SALES_LETTING", "COMPLETED"}
Deal == [stage : DealStages, gdv : Int, probability : Int]
Live == [d \in Deal |-> IF d.stage # "COMPLETED" THEN d.gdv ELSE 0]
LEMMA PipelineIs ==
    ASSUME NEW s \in Seq(Deal)
    PROVE  Pf!portfolioRollup(s).gdv = Tally(s, Live) /\ Live \in [Deal -> Int]
<1> DEFINE A == {i \in DOMAIN s : s[i].stage # "COMPLETED"}
           a == Pf!Kept(s, A)
           f == [i \in DOMAIN a |-> a[i].gdv]
           g == [i \in DOMAIN a |-> (a[i].gdv * a[i].probability) \div 100]
<1>0. s \in Seq(Deal)
    OBVIOUS
<1>1. Pf!portfolioRollup(s) = [gdv |-> Pf!SumOver(f), count |-> Len(a), weighted |-> Pf!SumOver(g)]
    BY Zenon DEF Pf!portfolioRollup, Pf!Total, Pf!Where
<1>2. Pf!portfolioRollup(s).gdv = Pf!SumOver(f)
    <2> HIDE DEF a, f, g
    <2> QED BY <1>1
<1>3. Live \in [Deal -> Int]
    BY DEF Live, Deal
<1>4. \A j \in 1..Len(s) : s[j] \in Deal /\ j \in DOMAIN s
    OBVIOUS
<1>5. \A i \in DOMAIN a : a[i] \in Deal
    <2> HIDE DEF A
    <2>1. a \in Seq(Deal)
        BY <1>3, KeptIs
    <2> HIDE DEF a
    <2> QED BY <2>1
<1>6. PICK V : V \in [Deal -> Int] /\ \A d \in Deal : V[d] = d.gdv
    <2>1. [d \in Deal |-> d.gdv] \in [Deal -> Int] /\ \A d \in Deal : [v \in Deal |-> v.gdv][d] = d.gdv
        BY DEF Deal
    <2> QED BY <2>1, Zenon
<1>7. Counted(s, A, V, Live)
    BY <1>4, <1>6 DEF Counted, Live
<1>8. Read(f, a, V)
    <2> HIDE DEF a
    <2> QED BY <1>5, <1>6 DEF Read
<1> HIDE DEF A, f, g
<1>9. Pf!SumOver(f) = Tally(s, Live)
    <2>1. V \in [Deal -> Int]
        BY <1>6
    <2> QED BY <1>0, <1>3, <1>7, <1>8, <2>1, KeptTally, SMTT(20)
<1> HIDE DEF a
<1> QED BY <1>2, <1>3, <1>9

\* Two rent rolls reported apart come to what they come to together, figure by figure, and a deal that completes leaves the
\* pipeline with exactly the value it brought (lettingsRollup and portfolioRollup, rollups.ts).
THEOREM RollUpsAdd ==
    ASSUME NEW x \in Seq(Tenancy), NEW y \in Seq(Tenancy), NEW deals \in Seq(Deal)
    PROVE  Pf!RollUpsAreAdditive(x, y, deals)
<1> DEFINE all == Pf!lettingsRollup(x \o y)
<1>1. ASSUME NEW f, f \in DOMAIN all
      PROVE  all[f] = Pf!lettingsRollup(x)[f] + Pf!lettingsRollup(y)[f]
    <2>1. PICK w : w = x \o y /\ w \in Seq(Tenancy) /\ Len(w) = Len(x) + Len(y)
        <3>1. x \o y \in Seq(Tenancy) /\ Len(x \o y) = Len(x) + Len(y)
            OBVIOUS
        <3> QED BY <3>1, Zenon
    <2>2. ASSUME NEW W, W \in [Tenancy -> Int]
          PROVE  Tally(w, W) = Tally(x, W) + Tally(y, W) /\ Tally(x, W) \in Int /\ Tally(y, W) \in Int
        BY <2>1, <2>2, TallyJoined
    <2>3. PICK a \in Int, b \in Int : a = Tally(x, LetFor) /\ b = Tally(y, LetFor) /\ Tally(w, LetFor) = a + b
        BY <2>2, TenancyFunctions
    <2>4. PICK c \in Int, d \in Int : c = Tally(x, WouldLetFor) /\ d = Tally(y, WouldLetFor) /\ Tally(w, WouldLetFor) = c + d
        BY <2>2, TenancyFunctions
    <2>5. PICK g \in Int, h \in Int : g = Tally(x, Dues) /\ h = Tally(y, Dues) /\ Tally(w, Dues) = g + h
        BY <2>2, TenancyFunctions
    <2>6. PICK j \in Int, k \in Int : j = Tally(x, VoidOnes) /\ k = Tally(y, VoidOnes) /\ Tally(w, VoidOnes) = j + k
        BY <2>2, TenancyFunctions
    <2>7. PICK m \in Nat, n \in Nat : m = Len(x) /\ n = Len(y) /\ Len(w) = m + n
        BY <2>1
    <2>8. all = [rentRoll |-> 12 * (a + b), erv |-> 12 * (c + d), arrears |-> g + h, void |-> j + k, total |-> m + n]
        BY <2>1, <2>3, <2>4, <2>5, <2>6, <2>7, LettingsAre, Zenon
    <2>9. Pf!lettingsRollup(x) = [rentRoll |-> 12 * a, erv |-> 12 * c, arrears |-> g, void |-> j, total |-> m]
        BY <2>3, <2>4, <2>5, <2>6, <2>7, LettingsAre, Zenon
    <2>10. Pf!lettingsRollup(y) = [rentRoll |-> 12 * b, erv |-> 12 * d, arrears |-> h, void |-> k, total |-> n]
        BY <2>3, <2>4, <2>5, <2>6, <2>7, LettingsAre, Zenon
    <2> HIDE DEF all
    <2>11. f \in {"rentRoll", "erv", "arrears", "void", "total"}
        BY <1>1, <2>8
    <2> QED BY <2>8, <2>9, <2>10, <2>11, SMTT(15), ZenonT(30)
<1>2. ASSUME NEW i \in DOMAIN deals, deals[i].stage # "COMPLETED"
      PROVE  Pf!portfolioRollup(deals).gdv = Pf!portfolioRollup([deals EXCEPT ![i].stage = "COMPLETED"]).gdv + deals[i].gdv
    <2> DEFINE u == [deals EXCEPT ![i].stage = "COMPLETED"]
    <2>1. PICK p : p \in Deal /\ p = deals[i]
        OBVIOUS
    <2>2. PICK q : q \in Deal /\ q = [p EXCEPT !.stage = "COMPLETED"]
        <3>1. [p EXCEPT !.stage = "COMPLETED"] \in Deal
            <4>1. "COMPLETED" \in DealStages
                BY DEF DealStages
            <4> QED BY <2>1, <4>1 DEF Deal
        <3> QED BY <3>1, Zenon
    <2>3. q.stage = "COMPLETED" /\ p.stage # "COMPLETED" /\ p.gdv \in Int
        BY <1>2, <2>1, <2>2 DEF Deal
    <2>4. Replaced(u, deals, i, q)
        BY <2>1, <2>2, Zenon DEF Replaced
    <2>5. u \in Seq(Deal)
        <3>1. u = [deals EXCEPT ![i] = q]
            BY <2>4 DEF Replaced
        <3>2. [deals EXCEPT ![i] = q] \in Seq(Deal)
            BY <2>2
        <3> QED BY <3>1, <3>2
    <2> HIDE DEF u
    <2>6. Pf!portfolioRollup(u).gdv = Tally(u, Live) /\ Live \in [Deal -> Int]
        BY <2>5, PipelineIs
    <2>7. Pf!portfolioRollup(deals).gdv = Tally(deals, Live)
        BY PipelineIs
    <2>8. Live[q] = 0 /\ Live[p] = p.gdv
        BY <2>1, <2>2, <2>3 DEF Live
    <2>9. Tally(u, Live) = Tally(deals, Live) + (Live[q] - Live[deals[i]]) /\ Tally(deals, Live) \in Int
        BY <2>2, <2>4, <2>6, TallyChanged
    <2>10. Pf!portfolioRollup(deals).gdv = Pf!portfolioRollup(u).gdv + deals[i].gdv
        BY <2>1, <2>3, <2>6, <2>7, <2>8, <2>9
    <2> QED BY <2>10 DEF u
<1> HIDE DEF all
<1>3. \A f \in DOMAIN all : all[f] = Pf!lettingsRollup(x)[f] + Pf!lettingsRollup(y)[f]
    BY <1>1
<1>4. \A i \in DOMAIN deals : deals[i].stage # "COMPLETED" =>
          Pf!portfolioRollup(deals).gdv = Pf!portfolioRollup([deals EXCEPT ![i].stage = "COMPLETED"]).gdv + deals[i].gdv
    BY <1>2
<1> QED BY <1>3, <1>4, Zenon DEF Pf!RollUpsAreAdditive, all

Holding == [irr : Int \cup {Withheld}, committed : Nat]
Scored(h) == {i \in DOMAIN h : h[i].irr # Withheld /\ h[i].committed > 0}
Ranged(lo, hi) == {x \in Holding : x.irr \in Int /\ x.committed > 0 /\ lo <= x.irr /\ x.irr <= hi}

LEMMA ReturnIs ==
    ASSUME NEW h, NEW t, t = Pf!Kept(h, Scored(h))
    PROVE  Pf!weightedIrr(h) = IF t = <<>> THEN Withheld
                               ELSE [sum |-> Pf!SumOver([i \in DOMAIN t |-> t[i].irr * t[i].committed]),
                                     capital |-> Pf!SumOver([i \in DOMAIN t |-> t[i].committed])]
    BY Zenon DEF Pf!weightedIrr, Pf!Total, Pf!Where, Scored

LEMMA UnrecordedUnmoved ==
    ASSUME NEW h \in Seq(Holding), NEW x, x = [irr |-> Withheld, committed |-> 7]
    PROVE  Pf!weightedIrr(Append(h, x)) = Pf!weightedIrr(h)
<1>1. x \in Holding
    BY DEF Holding
<1>2. PICK D, E : D = Scored(h) /\ E = Scored(Append(h, x))
    OBVIOUS
<1>3. (\A i \in 1..Len(h) : i \in D <=> i \in E) /\ (Len(h) + 1) \notin E
    <2>1. \A i \in 1..Len(h) : Append(h, x)[i] = h[i] /\ i \in DOMAIN h /\ i \in DOMAIN Append(h, x)
        OBVIOUS
    <2>2. Append(h, x)[Len(h) + 1] = x
        OBVIOUS
    <2>3. x.irr = Withheld
        OBVIOUS
    <2> QED BY <1>2, <2>1, <2>2, <2>3 DEF Scored
<1>4. Pf!Kept(Append(h, x), E) = Pf!Kept(h, D)
    BY <1>1, <1>3, KeptUnmoved
<1>5. PICK t : t = Pf!Kept(h, Scored(h)) /\ t = Pf!Kept(Append(h, x), Scored(Append(h, x)))
    BY <1>2, <1>4
<1> DEFINE v == IF t = <<>> THEN Withheld
                ELSE [sum |-> Pf!SumOver([i \in DOMAIN t |-> t[i].irr * t[i].committed]),
                      capital |-> Pf!SumOver([i \in DOMAIN t |-> t[i].committed])]
<1>6. Pf!weightedIrr(h) = v
    BY <1>5, ReturnIs, Zenon
<1>7. Pf!weightedIrr(Append(h, x)) = v
    BY <1>5, ReturnIs, Zenon
<1> QED BY <1>6, <1>7

\* Weighted by capital, what lies between two returns comes to no less than the lower and no more than the higher.
LEMMA WeightedBetween ==
    ASSUME NEW lo \in Int, NEW hi \in Int, NEW S, S = Ranged(lo, hi), NEW t \in Seq(S), NEW f, NEW g,
           f = [i \in DOMAIN t |-> t[i].irr * t[i].committed], g = [i \in DOMAIN t |-> t[i].committed]
    PROVE  lo * Pf!SumOver(g) <= Pf!SumOver(f) /\ Pf!SumOver(f) <= hi * Pf!SumOver(g)
<1> DEFINE C == [x \in S |-> x.committed]
           W == [x \in S |-> x.irr * x.committed]
           L == [x \in S |-> lo * x.committed]
           H == [x \in S |-> hi * x.committed]
<1>1. \A x \in S : x.irr \in Int /\ x.committed \in Int /\ x.committed > 0 /\ lo <= x.irr /\ x.irr <= hi
    BY DEF Ranged, Holding
<1>2. ASSUME NEW x \in S PROVE lo * x.committed <= x.irr * x.committed /\ x.irr * x.committed <= hi * x.committed
    <2>1. PICK c \in Nat, r \in Int : c = x.committed /\ r = x.irr /\ lo <= r /\ r <= hi
        BY <1>1
    <2>2. ASSUME NEW a \in Int, NEW b \in Int, a <= b PROVE a * c <= b * c
        <3>1. PICK n \in Nat : n = b - a
            BY <2>2
        <3>2. n * c \in Nat
            BY <2>1
        <3>3. b * c = a * c + n * c
            BY <2>1, <3>1
        <3>4. a * c \in Int
            BY <2>1
        <3> QED BY <3>2, <3>3, <3>4
    <2>3. lo * c <= r * c /\ r * c <= hi * c
        BY <2>1, <2>2
    <2> QED BY <2>1, <2>3
<1>3. /\ \A x \in S : C[x] = x.committed /\ C[x] \in Int /\ W[x] = x.irr * x.committed /\ W[x] \in Int
      /\ \A x \in S : L[x] = lo * x.committed /\ H[x] = hi * x.committed /\ L[x] \in Int /\ H[x] \in Int
    BY <1>1
<1>4. C \in [S -> Int] /\ W \in [S -> Int] /\ L \in [S -> Int] /\ H \in [S -> Int]
    BY <1>1
<1>5. Read(f, t, W) /\ Read(g, t, C)
    <2>1. \A i \in DOMAIN t : t[i] \in S
        OBVIOUS
    <2> HIDE DEF C, W, L, H
    <2>2. Read(f, t, W)
        BY <1>3, <2>1 DEF Read
    <2>3. Read(g, t, C)
        BY <1>3, <2>1 DEF Read
    <2> QED BY <2>2, <2>3
<1> HIDE DEF C, W, L, H
<1>6. t \in Seq(S)
    OBVIOUS
<1>7. Pf!SumOver(f) = Tally(t, W)
    BY <1>4, <1>5, <1>6, TallyAll
<1>8. Pf!SumOver(g) = Tally(t, C)
    BY <1>4, <1>5, <1>6, TallyAll
<1>9. Tally(t, L) <= Tally(t, W)
    <2>1. \A x \in S : L[x] <= W[x]
        BY <1>2, <1>3
    <2> QED BY <1>4, <1>6, <2>1, TallyMonotone
<1>10. Tally(t, W) <= Tally(t, H)
    <2>1. \A x \in S : W[x] <= H[x]
        BY <1>2, <1>3
    <2> QED BY <1>4, <1>6, <2>1, TallyMonotone
<1>11. Tally(t, L) = lo * Tally(t, C)
    <2>1. Multiples(L, lo, C, S)
        BY <1>3 DEF Multiples
    <2>2. C \in [S -> Int] /\ L \in [S -> Int] /\ lo \in Int
        BY <1>4
    <2> QED BY <1>6, <2>1, <2>2, TallyTimes, SMTT(15), ZenonT(30)
<1>12. Tally(t, H) = hi * Tally(t, C)
    <2>1. Multiples(H, hi, C, S)
        BY <1>3 DEF Multiples
    <2>2. C \in [S -> Int] /\ H \in [S -> Int] /\ hi \in Int
        BY <1>4
    <2> QED BY <1>6, <2>1, <2>2, TallyTimes
<1> QED BY <1>7, <1>8, <1>9, <1>10, <1>11, <1>12

\* A holding nobody has recorded a return for moves nothing, and the return shown, weighted by capital, lies between the
\* worst and the best that are recorded, losses included (weightedIrr, lp.ts).
THEOREM ReturnsBetween ==
    ASSUME NEW holdings \in Seq(Holding)
    PROVE  Pf!ReturnsAreHonest(holdings)
<1> DEFINE h == holdings
           w == Pf!weightedIrr(h)
           D == {j \in DOMAIN h : h[j].irr # Withheld /\ h[j].committed > 0}
           recorded == {h[i].irr : i \in D}
           t == Pf!Kept(h, D)
<1>1. Pf!weightedIrr(Append(h, [irr |-> Withheld, committed |-> 7])) = w
    BY UnrecordedUnmoved
<1>2. ASSUME w # Withheld
      PROVE  Pf!Min(recorded) * w.capital <= w.sum /\ w.sum <= Pf!Max(recorded) * w.capital
    <2> DEFINE f == [i \in DOMAIN t |-> t[i].irr * t[i].committed]
               g == [i \in DOMAIN t |-> t[i].committed]
    <2>1. w = IF t = <<>> THEN Withheld ELSE [sum |-> Pf!SumOver(f), capital |-> Pf!SumOver(g)]
        <3>1. t = Pf!Kept(h, Scored(h))
            BY Zenon DEF Scored
        <3> HIDE DEF t
        <3> QED BY <3>1, ReturnIs, Zenon
    <2>2. t # <<>> /\ w.sum = Pf!SumOver(f) /\ w.capital = Pf!SumOver(g)
        <3> HIDE DEF w, t, f, g
        <3> QED BY <1>2, <2>1
    <2>3. t \in Seq(Holding) /\ Fetch(t, h, D)
        <3> HIDE DEF D
        <3>1. [x \in Holding |-> 1] \in [Holding -> Int]
            OBVIOUS
        <3> QED BY <3>1, KeptIs
    <2>4. \A i \in D : h[i] \in Holding /\ h[i].irr \in Int /\ h[i].committed > 0
        <3>1. \A i \in DOMAIN h : h[i] \in Holding
            OBVIOUS
        <3> QED BY <3>1 DEF Holding
    <2>5. IsFiniteSet(recorded) /\ \A x \in recorded : x \in Int
        <3>1. IsFiniteSet(D)
            <4>1. PICK n \in Nat : DOMAIN h = 1..n
                OBVIOUS
            <4>2. D \subseteq 1..n
                BY <4>1
            <4>3. IsFiniteSet(1..n)
                BY <4>1, FS_Interval
            <4> QED BY <4>2, <4>3, FS_Subset
        <3>2a. PICK c \in Nat : \E b : Numbers1(b, c, D)
            BY <3>1, Enumerated
        <3>2. PICK b : Numbers1(b, c, D)
            BY <3>2a
        <3>3. PICK v : v = [i \in 1..c |-> h[b[i]].irr]
            OBVIOUS
        <3>4. recorded = {v[i] : i \in 1..c}
            <4> HIDE DEF D
            <4> QED BY <3>2, <3>3 DEF Numbers1
        <3>5. IsFiniteSet(recorded)
            BY <3>4, ImageFinite
        <3>6. \A x \in recorded : x \in Int
            BY <2>4
        <3> QED BY <3>5, <3>6
    <2> HIDE DEF D, t
    <2>6. 1 \in DOMAIN t /\ \A j \in DOMAIN t : t[j] \in Holding /\ \E i \in D : t[j] = h[i]
        <3>1. 1 \in DOMAIN t
            BY <2>2, <2>3
        <3>2. \A j \in DOMAIN t : t[j] \in Holding
            BY <2>3
        <3>3. \A j \in DOMAIN t : \E i \in D : t[j] = h[i]
            BY <2>3, Zenon DEF Fetch
        <3> QED BY <3>1, <3>2, <3>3
    <2>7. recorded # {}
        BY <2>6
    <2>8. PICK lo, hi : lo = Pf!Min(recorded) /\ hi = Pf!Max(recorded)
        OBVIOUS
    <2>9. /\ lo \in Int /\ hi \in Int
          /\ \A x \in recorded : lo <= x /\ x <= hi
        <3> HIDE DEF recorded
        <3>1. lo \in recorded /\ \A x \in recorded : lo <= x
            BY <2>5, <2>7, <2>8, MinIs
        <3>2. hi \in recorded /\ \A x \in recorded : x <= hi
            BY <2>5, <2>7, <2>8, MaxIs
        <3> QED BY <2>5, <3>1, <3>2
    <2>10. \A i \in D : h[i] \in Ranged(lo, hi)
        BY <2>4, <2>9 DEF Ranged
    <2>11. PICK S : S = Ranged(lo, hi)
        OBVIOUS
    <2>12. t \in Seq(S)
        <3>1. \A j \in DOMAIN t : t[j] \in S
            BY <2>6, <2>10, <2>11
        <3>2. PICK n \in Nat : n = Len(t) /\ DOMAIN t = 1..n /\ t \in [1..n -> Holding]
            BY <2>3
        <3>3. t \in [1..n -> S]
            BY <3>1, <3>2
        <3> QED BY <3>3
    <2>13. lo * Pf!SumOver(g) <= Pf!SumOver(f) /\ Pf!SumOver(f) <= hi * Pf!SumOver(g)
        BY <2>9, <2>11, <2>12, WeightedBetween
    <2> HIDE DEF w, f, g, recorded
    <2> QED BY <2>2, <2>8, <2>13
<1> HIDE DEF w
<1> QED BY <1>1, <1>2, Zenon DEF Pf!ReturnsAreHonest, w

Priced(X) == \A t \in X : t.amount \in Int
TxMoney(X) == [t \in X |-> t.amount]
Received(X) == [t \in X |-> IF t.amount > 0 THEN t.amount ELSE 0]
ReceivedAs(X, class) == [t \in X |-> IF t.amount > 0 /\ t.class = class THEN t.amount ELSE 0]

AmountsIn(txs, D) == Pf!SumOver([i \in DOMAIN Pf!Kept(txs, D) |-> Pf!Kept(txs, D)[i].amount])

\* What a test of the transactions comes to.
LEMMA PassedIs ==
    ASSUME NEW X, Priced(X), NEW txs \in Seq(X), NEW D
    PROVE  /\ TxMoney(X) \in [X -> Int]
           /\ AmountsIn(txs, D) \in Int
           /\ Read([i \in DOMAIN Pf!Kept(txs, D) |-> Pf!Kept(txs, D)[i].amount], Pf!Kept(txs, D), TxMoney(X))
<1>1. PICK V : V = TxMoney(X) /\ V \in [X -> Int] /\ \A t \in X : V[t] = t.amount
    <2>1. TxMoney(X) \in [X -> Int] /\ \A t \in X : TxMoney(X)[t] = t.amount
        BY DEF TxMoney, Priced
    <2> QED BY <2>1, Zenon
<1>2. PICK k : k = Pf!Kept(txs, D) /\ k \in Seq(X)
    BY <1>1, KeptIs
<1>3. PICK g : g = [i \in DOMAIN k |-> k[i].amount]
    OBVIOUS
<1>4. Read(g, k, V)
    <2>1. \A i \in DOMAIN k : k[i] \in X
        BY <1>2
    <2> QED BY <1>1, <1>3, <2>1 DEF Read
<1>5. Pf!SumOver(g) \in Int
    BY <1>1, <1>2, <1>4, KeptTotal
<1> QED BY <1>1, <1>2, <1>3, <1>4, <1>5 DEF AmountsIn

LEMMA PassedTally ==
    ASSUME NEW X, Priced(X), NEW txs \in Seq(X), NEW D, NEW W \in [X -> Int],
           Counted(txs, D, TxMoney(X), W)
    PROVE  AmountsIn(txs, D) = Tally(txs, W)
<1>1. PICK V : V = TxMoney(X) /\ V \in [X -> Int]
    BY PassedIs
<1>2. PICK g : g = [i \in DOMAIN Pf!Kept(txs, D) |-> Pf!Kept(txs, D)[i].amount] /\ Read(g, Pf!Kept(txs, D), V)
    BY <1>1, PassedIs, Zenon
<1>3. txs \in Seq(X) /\ V \in [X -> Int] /\ W \in [X -> Int] /\ Counted(txs, D, V, W)
    BY <1>1
<1>4. Pf!SumOver(g) = Tally(txs, W)
    <2>1. Read(g, Pf!Kept(txs, D), V)
        BY <1>2, Zenon
    <2> QED BY <1>3, <2>1, KeptTally, SMTT(20)
<1> QED BY <1>2, <1>4 DEF AmountsIn

\* A paid cost not yet invoiced and an invoiced cost not yet paid exclude each other and differ as the bank and the ledger
\* do, and what is drawn with what nobody has explained is no more than what came in (reconcileCash, cash.ts).
THEOREM CashSplits ==
    ASSUME NEW X, Priced(X), NEW txs \in Seq(X), NEW committed \in Int
    PROVE  Pf!CashIsSplit(committed, txs)
<1> DEFINE r == Pf!reconcileCash(committed, txs)
           out == {i \in DOMAIN txs : txs[i].amount < 0}
           into == {i \in DOMAIN txs : txs[i].amount > 0}
           as(class) == {i \in DOMAIN txs : txs[i].amount > 0 /\ txs[i].class = class}
           paid == -AmountsIn(txs, out)
<1>1. r = [paid |-> paid, invoicedUnpaid |-> Pf!AtLeast0(committed - paid), paidUnbilled |-> Pf!AtLeast0(paid - committed),
           unclassifiedIn |-> AmountsIn(txs, as("unclassified")),
           drawn |-> IF txs = <<>> THEN committed ELSE AmountsIn(txs, as("drawdown")),
           source |-> IF txs = <<>> THEN "committed" ELSE "bank"]
    BY Zenon DEF Pf!reconcileCash, AmountsIn, Pf!Total, Pf!Where
<1>2. PICK x \in Int : x = paid
    <2>1. PICK y \in Int : y = AmountsIn(txs, out)
        <3>0. PICK E : E = out
            OBVIOUS
        <3>1. AmountsIn(txs, E) \in Int
            <4>1. txs \in Seq(X) /\ Priced(X)
                OBVIOUS
            <4> QED BY <4>1, PassedIs
        <3> HIDE DEF r
        <3> QED BY <3>0, <3>1, Zenon
    <2>2. -y \in Int /\ paid = -y
        <3> HIDE DEF r
        <3> QED BY <2>1
    <2> QED BY <2>2, Zenon
<1>3. PICK d, u : d = AmountsIn(txs, as("drawdown")) /\ u = AmountsIn(txs, as("unclassified"))
    OBVIOUS
<1>4. /\ r.paid = x /\ r.invoicedUnpaid = Pf!AtLeast0(committed - x) /\ r.paidUnbilled = Pf!AtLeast0(x - committed)
      /\ r.unclassifiedIn = u /\ (txs # <<>> => r.drawn = d)
      /\ (r.source = "bank" => txs # <<>>)
    <2> HIDE DEF r, paid, as
    <2> QED BY <1>1, <1>2, <1>3
<1>5. \A y \in Int : Pf!AtLeast0(y) = IF y > 0 THEN y ELSE 0
    <2> SUFFICES ASSUME NEW y \in Int PROVE Pf!AtLeast0(y) = IF y > 0 THEN y ELSE 0
        OBVIOUS
    <2>1. 0 \in Int /\ Pf!Max({0, y}) = IF 0 >= y THEN 0 ELSE y
        BY PfMax
    <2> QED BY <2>1 DEF Pf!AtLeast0
<1>6. d + u <= AmountsIn(txs, into)
    <2>1. /\ Received(X) \in [X -> Int]
          /\ ReceivedAs(X, "drawdown") \in [X -> Int] /\ ReceivedAs(X, "unclassified") \in [X -> Int]
        BY DEF Received, ReceivedAs, Priced
    <2>2. \A i \in 1..Len(txs) : txs[i] \in X /\ i \in DOMAIN txs
        OBVIOUS
    <2>3. Counted(txs, into, TxMoney(X), Received(X))
        BY <2>2 DEF Counted, TxMoney, Received
    <2>4. Counted(txs, as("drawdown"), TxMoney(X), ReceivedAs(X, "drawdown"))
        BY <2>2 DEF Counted, TxMoney, ReceivedAs
    <2>5. Counted(txs, as("unclassified"), TxMoney(X), ReceivedAs(X, "unclassified"))
        BY <2>2 DEF Counted, TxMoney, ReceivedAs
    <2> HIDE DEF into, as
    <2>20. txs \in Seq(X) /\ Priced(X)
        OBVIOUS
    <2>21. Received(X) \in [X -> Int]
        BY <2>1
    <2>22. ReceivedAs(X, "drawdown") \in [X -> Int]
        BY <2>1
    <2>23. ReceivedAs(X, "unclassified") \in [X -> Int]
        BY <2>1
    <2>6. AmountsIn(txs, into) = Tally(txs, Received(X))
        BY <2>20, <2>21, <2>3, PassedTally, SMTT(20)
    <2>7. d = Tally(txs, ReceivedAs(X, "drawdown"))
        <3>1. PICK E, W : /\ E = as("drawdown") /\ W = ReceivedAs(X, "drawdown") /\ W \in [X -> Int]
                          /\ Counted(txs, E, TxMoney(X), W)
            BY <2>22, <2>4
        <3>2. AmountsIn(txs, E) = Tally(txs, W)
            <4>1. W \in [X -> Int]
                BY <3>1
            <4>2. Counted(txs, E, TxMoney(X), W)
                BY <3>1
            <4> QED BY <2>20, <4>1, <4>2, PassedTally, SMTT(20)
        <3> HIDE DEF r
        <3> QED BY <1>3, <3>1, <3>2, Zenon
    <2>8. u = Tally(txs, ReceivedAs(X, "unclassified"))
        <3>1. PICK E, W : /\ E = as("unclassified") /\ W = ReceivedAs(X, "unclassified") /\ W \in [X -> Int]
                          /\ Counted(txs, E, TxMoney(X), W)
            BY <2>23, <2>5
        <3>2. AmountsIn(txs, E) = Tally(txs, W)
            <4>1. W \in [X -> Int]
                BY <3>1
            <4>2. Counted(txs, E, TxMoney(X), W)
                BY <3>1
            <4> QED BY <2>20, <4>1, <4>2, PassedTally, SMTT(20)
        <3> HIDE DEF r
        <3> QED BY <1>3, <3>1, <3>2, Zenon
    <2> HIDE DEF r
    <2>9. PICK V, W : V = ReceivedAs(X, "drawdown") /\ W = ReceivedAs(X, "unclassified") /\ V \in [X -> Int] /\ W \in [X -> Int]
        BY <2>22, <2>23
    <2>10. PICK Z : Z = Plus(V, W, X) /\ Z \in [X -> Int] /\ \A t \in X : Z[t] = V[t] + W[t]
        <3>1. Plus(V, W, X) \in [X -> Int] /\ \A t \in X : Plus(V, W, X)[t] = V[t] + W[t]
            BY <2>9 DEF Plus
        <3> QED BY <3>1, Zenon
    <2>11. Tally(txs, Z) = d + u
        <3>1. Tally(txs, Plus(V, W, X)) = Tally(txs, V) + Tally(txs, W)
            BY <2>9, <2>20, TallyPlus
        <3> QED BY <2>7, <2>8, <2>9, <2>10, <3>1
    <2>12. Tally(txs, Z) <= Tally(txs, Received(X))
        <3>1. \A t \in X : Z[t] <= Received(X)[t]
            BY <2>9, <2>10 DEF Received, ReceivedAs, Priced
        <3>2. PICK Y : Y = Received(X) /\ Y \in [X -> Int] /\ Z \in [X -> Int]
            BY <2>21, <2>10
        <3> QED BY <2>20, <3>1, <3>2, TallyMonotone
    <2> QED BY <2>6, <2>11, <2>12
<1> HIDE DEF r
<1>7. r.invoicedUnpaid - r.paidUnbilled = committed - r.paid
    BY <1>4, <1>5
<1>8. r.invoicedUnpaid = 0 \/ r.paidUnbilled = 0
    BY <1>4, <1>5
<1>9. r.source = "bank" => r.drawn + r.unclassifiedIn <= AmountsIn(txs, into)
    BY <1>4, <1>6
<1>10. Pf!CashIsSplit(committed, txs) =
          /\ r.invoicedUnpaid - r.paidUnbilled = committed - r.paid
          /\ r.invoicedUnpaid = 0 \/ r.paidUnbilled = 0
          /\ r.source = "bank" => r.drawn + r.unclassifiedIn <= AmountsIn(txs, into)
    BY Zenon DEF Pf!CashIsSplit, AmountsIn, Pf!Total, Pf!Where, r
<1> QED BY <1>7, <1>8, <1>9, <1>10

(* The cost plan of a job and its contractors. *)

SpreadOver(f, s, tag, V) ==
    /\ DOMAIN f = {tag[i] : i \in DOMAIN s}
    /\ \A c \in DOMAIN f : \E h : Read(h, Pf!Kept(s, {i \in DOMAIN s : tag[i] = c}), V) /\ f[c] = Pf!SumOver(h)

LEMMA SpreadAdds ==
    ASSUME NEW S, NEW s \in Seq(S), NEW V \in [S -> Int], NEW tag, NEW f, SpreadOver(f, s, tag, V)
    PROVE  Pf!SumOver(f) = Tally(s, V)
<1>1. PICK n \in Nat : n = Len(s) /\ DOMAIN s = 1..n
    OBVIOUS
<1>2. PICK g : g = Of(s, V) /\ \A i \in 1..n : g[i] = V[s[i]] /\ g[i] \in Int
    BY <1>1, OfInts
<1> DEFINE D(c) == {i \in DOMAIN s : tag[i] = c}
<1>3. ASSUME NEW c \in DOMAIN f PROVE f[c] = Summed(Keyed(g, tag, c, n), n)
    <2>1. PICK h : Read(h, Pf!Kept(s, D(c)), V) /\ f[c] = Pf!SumOver(h)
        BY Zenon DEF SpreadOver
    <2>2. PICK E : E = D(c) /\ Read(h, Pf!Kept(s, E), V)
        BY <2>1
    <2>3. PICK m : m = Masked(s, V, E) /\ Pf!SumOver(h) = Summed(m, n)
        <3>1. s \in Seq(S) /\ V \in [S -> Int] /\ Read(h, Pf!Kept(s, E), V)
            BY <2>2
        <3> HIDE DEF D
        <3> QED BY <1>1, <3>1, KeptTotal
    <2>4. PICK u : u = Keyed(g, tag, c, n)
        OBVIOUS
    <2>5. ASSUME NEW i \in 1..n PROVE m[i] = u[i] /\ m[i] \in Int
        <3>1. m[i] = IF i \in E THEN V[s[i]] ELSE 0
            BY <1>1, <2>3 DEF Masked
        <3>2. u[i] = IF tag[i] = c THEN g[i] ELSE 0
            BY <2>4 DEF Keyed
        <3>3. i \in E <=> tag[i] = c
            BY <1>1, <2>2
        <3>4. g[i] = V[s[i]] /\ g[i] \in Int
            BY <1>2
        <3> HIDE DEF D
        <3> QED BY <3>1, <3>2, <3>3, <3>4
    <2> HIDE DEF D
    <2>6. Summed(u, n) = Summed(m, n)
        BY <2>5, SumSame
    <2> QED BY <2>1, <2>3, <2>4, <2>6
<1> HIDE DEF D
<1>4. Groups(f, g, tag, n)
    <2>1. DOMAIN f = {tag[i] : i \in 1..n}
        BY <1>1 DEF SpreadOver
    <2> QED BY <1>3, <2>1 DEF Groups
<1>5. Pf!SumOver(f) = Summed(g, n)
    <2>1. \A i \in 1..n : g[i] \in Int
        BY <1>2
    <2> QED BY <1>4, <2>1, Regrouped
<1> QED BY <1>1, <1>2, <1>5 DEF Tally

Trading(P) == \A p \in P : /\ p.budget \in Int /\ p.committed \in Int /\ p.spent \in Int
                          /\ p.forecast \in Int /\ p.retentionPct \in Int
HeldNow(s) == Pf!SumOver([i \in DOMAIN s |-> Pf!Share(s[i].spent, s[i].retentionPct)])
HeldAtEnd(s) == Pf!SumOver([i \in DOMAIN s |-> Pf!Share(s[i].committed, s[i].retentionPct)])
BudgetOf(s) == Pf!SumOver([i \in DOMAIN s |-> s[i].budget])
ForecastOf(s) == Pf!SumOver([i \in DOMAIN s |-> s[i].forecast])

LEMMA TotalsAre ==
    ASSUME NEW s
    PROVE  /\ Pf!contractorTotals(s).retention = HeldNow(s)
           /\ Pf!contractorTotals(s).retentionAtCompletion = HeldAtEnd(s)
<1>1. Pf!contractorTotals(s) =
          [contractValue |-> Pf!SumOver([i \in DOMAIN s |-> s[i].committed]), retention |-> HeldNow(s),
           retentionAtCompletion |-> HeldAtEnd(s)]
    BY Zenon DEF Pf!contractorTotals, Pf!Total, HeldNow, HeldAtEnd
<1> QED BY <1>1

\* Whoever holds which package, what they hold adds up to what the job holds.
Holders(f, s, holder, V) ==
    /\ DOMAIN f = {holder[s[i].id] : i \in DOMAIN s}
    /\ \A c \in DOMAIN f : \E h : /\ Read(h, Pf!Kept(s, {i \in DOMAIN s : holder[s[i].id] = c}), V)
                                   /\ f[c] = Pf!SumOver(h)
LEMMA HoldersAdd ==
    ASSUME NEW P, NEW s \in Seq(P), NEW V \in [P -> Int], NEW holder, NEW f, NEW whole, Read(whole, s, V),
           Holders(f, s, holder, V)
    PROVE  Pf!SumOver(f) = Pf!SumOver(whole)
<1>1. PICK tag : tag = [i \in DOMAIN s |-> holder[s[i].id]]
    OBVIOUS
<1>2. SpreadOver(f, s, tag, V)
    <2>1. \A c : {i \in DOMAIN s : holder[s[i].id] = c} = {i \in DOMAIN s : tag[i] = c}
        BY <1>1
    <2>2. {holder[s[i].id] : i \in DOMAIN s} = {tag[i] : i \in DOMAIN s}
        BY <1>1
    <2> QED BY <2>1, <2>2, Zenon DEF SpreadOver, Holders
<1>3. Pf!SumOver(f) = Tally(s, V)
    BY <1>2, SpreadAdds
<1>4. Pf!SumOver(whole) = Tally(s, V)
    BY TallyAll
<1> QED BY <1>3, <1>4

\* The retentions of the contractors add up to the job's, now and at completion, whoever holds which package; and an overrun
\* costs profit only past the contingency while every pound of an underrun comes back (costRollup, cost-report.ts).
THEOREM CostsAdd ==
    ASSUME NEW P, Trading(P), NEW packages \in Seq(P), NEW appraised \in Int \cup {Unknown}, NEW contingency \in Nat, NEW holder
    PROVE  Pf!CostsAgree(packages, appraised, contingency, holder)
<1> DEFINE s == packages
           r == Pf!costRollup(s, appraised, contingency)
           everyone == {holder[s[i].id] : i \in DOMAIN s}
           HeldBy(c) == Pf!Kept(s, {i \in DOMAIN s : holder[s[i].id] = c})
           measured == appraised # Unknown /\ s # <<>>
           variance == ForecastOf(s) - appraised
<1>1. r = [packageBudgets |-> BudgetOf(s), committed |-> Pf!contractorTotals(s).contractValue,
           spent |-> Pf!SumOver([i \in DOMAIN s |-> s[i].spent]), forecast |-> ForecastOf(s),
           retentionHeld |-> Pf!contractorTotals(s).retention,
           retentionAtCompletion |-> Pf!contractorTotals(s).retentionAtCompletion,
           variance |-> IF measured THEN variance ELSE Unknown,
           profitImpact |-> IF ~measured THEN Unknown
                            ELSE IF variance > 0 THEN -Pf!AtLeast0(variance - contingency) ELSE -variance,
           unallocated |-> IF measured THEN appraised - BudgetOf(s) ELSE appraised]
    BY Zenon DEF Pf!costRollup, Pf!Total, BudgetOf, ForecastOf
<1>2. /\ r.packageBudgets = BudgetOf(s)
      /\ r.retentionHeld = HeldNow(s) /\ r.retentionAtCompletion = HeldAtEnd(s)
      /\ r.variance = IF measured THEN variance ELSE Unknown
      /\ r.profitImpact = IF ~measured THEN Unknown
                          ELSE IF variance > 0 THEN -Pf!AtLeast0(variance - contingency) ELSE -variance
      /\ r.unallocated = IF measured THEN appraised - BudgetOf(s) ELSE appraised
    <2> HIDE DEF r, measured, variance
    <2> QED BY <1>1, TotalsAre
<1>3. \A i \in DOMAIN s : s[i] \in P
    OBVIOUS
<1>4. ASSUME NEW c PROVE HeldBy(c) \in Seq(P) /\ \A i \in DOMAIN HeldBy(c) : HeldBy(c)[i] \in P
    <2>1. PICK E : E = {i \in DOMAIN s : holder[s[i].id] = c}
        OBVIOUS
    <2>2. [p \in P |-> 1] \in [P -> Int]
        OBVIOUS
    <2>3. PICK t : t = Pf!Kept(s, E) /\ t \in Seq(P)
        BY <2>2, KeptIs
    <2>4. \A i \in DOMAIN t : t[i] \in P
        BY <2>3
    <2> QED BY <2>1, <2>3, <2>4
<1> DEFINE Now == [p \in P |-> Pf!Share(p.spent, p.retentionPct)]
           End == [p \in P |-> Pf!Share(p.committed, p.retentionPct)]
<1>5. /\ \A p \in P : Now[p] = Pf!Share(p.spent, p.retentionPct) /\ Now[p] \in Int
      /\ \A p \in P : End[p] = Pf!Share(p.committed, p.retentionPct) /\ End[p] \in Int
    <2>1. \A x \in Int, y \in Int : Pf!Share(x, y) \in Int
        BY DEF Pf!Share
    <2> QED BY <2>1 DEF Trading
<1>6. Now \in [P -> Int] /\ End \in [P -> Int]
    BY <1>5
<1> HIDE DEF Now, End
<1>7. HeldNow(s) = Pf!SumOver([c \in everyone |-> HeldNow(HeldBy(c))])
    <2>1. PICK V : V = Now /\ V \in [P -> Int] /\ \A p \in P : V[p] = Pf!Share(p.spent, p.retentionPct)
        BY <1>5, <1>6
    <2>2. PICK whole : whole = [i \in DOMAIN s |-> Pf!Share(s[i].spent, s[i].retentionPct)]
        OBVIOUS
    <2>3. Read(whole, s, V)
        BY <1>3, <2>1, <2>2 DEF Read
    <2>4. PICK f : f = [c \in everyone |-> HeldNow(HeldBy(c))]
        OBVIOUS
    <2>5. ASSUME NEW c \in everyone PROVE \E h : Read(h, HeldBy(c), V) /\ f[c] = Pf!SumOver(h)
        <3>1. PICK t : t = HeldBy(c) /\ \A i \in DOMAIN t : t[i] \in P
            BY <1>4
        <3>2. PICK h : h = [i \in DOMAIN t |-> Pf!Share(t[i].spent, t[i].retentionPct)]
            OBVIOUS
        <3>3. Read(h, t, V)
            BY <2>1, <3>1, <3>2 DEF Read
        <3>4. f[c] = HeldNow(t)
            <4> HIDE DEF HeldBy, everyone
            <4> QED BY <2>4, <3>1
        <3>5. HeldNow(t) = Pf!SumOver(h)
            BY <3>2, Zenon DEF HeldNow
        <3> QED BY <3>1, <3>3, <3>4, <3>5, Zenon
    <2>6. DOMAIN f = everyone
        BY <2>4
    <2>7. Pf!SumOver(f) = Pf!SumOver(whole)
        <3>1. V \in [P -> Int]
            BY <2>1
        <3>2. Holders(f, s, holder, V)
            BY <2>5, <2>6, Zenon DEF Holders
        <3> QED BY <2>3, <3>1, <3>2, HoldersAdd
    <2> QED BY <2>2, <2>4, <2>7, Zenon DEF HeldNow
<1>8. HeldAtEnd(s) = Pf!SumOver([c \in everyone |-> HeldAtEnd(HeldBy(c))])
    <2>1. PICK V : V = End /\ V \in [P -> Int] /\ \A p \in P : V[p] = Pf!Share(p.committed, p.retentionPct)
        BY <1>5, <1>6
    <2>2. PICK whole : whole = [i \in DOMAIN s |-> Pf!Share(s[i].committed, s[i].retentionPct)]
        OBVIOUS
    <2>3. Read(whole, s, V)
        BY <1>3, <2>1, <2>2 DEF Read
    <2>4. PICK f : f = [c \in everyone |-> HeldAtEnd(HeldBy(c))]
        OBVIOUS
    <2>5. ASSUME NEW c \in everyone PROVE \E h : Read(h, HeldBy(c), V) /\ f[c] = Pf!SumOver(h)
        <3>1. PICK t : t = HeldBy(c) /\ \A i \in DOMAIN t : t[i] \in P
            BY <1>4
        <3>2. PICK h : h = [i \in DOMAIN t |-> Pf!Share(t[i].committed, t[i].retentionPct)]
            OBVIOUS
        <3>3. Read(h, t, V)
            BY <2>1, <3>1, <3>2 DEF Read
        <3>4. f[c] = HeldAtEnd(t)
            <4> HIDE DEF HeldBy, everyone
            <4> QED BY <2>4, <3>1
        <3>5. HeldAtEnd(t) = Pf!SumOver(h)
            BY <3>2, Zenon DEF HeldAtEnd
        <3> QED BY <3>1, <3>3, <3>4, <3>5, Zenon
    <2>6. DOMAIN f = everyone
        BY <2>4
    <2>7. Pf!SumOver(f) = Pf!SumOver(whole)
        <3>1. V \in [P -> Int]
            BY <2>1
        <3>2. Holders(f, s, holder, V)
            BY <2>5, <2>6, Zenon DEF Holders
        <3> QED BY <2>3, <3>1, <3>2, HoldersAdd
    <2> QED BY <2>2, <2>4, <2>7, Zenon DEF HeldAtEnd
<1>9. PICK budgets \in Int : budgets = BudgetOf(s)
    <2>1. PICK V : V \in [P -> Int] /\ \A p \in P : V[p] = p.budget
        <3>1. [p \in P |-> p.budget] \in [P -> Int] /\ \A p \in P : [q \in P |-> q.budget][p] = p.budget
            BY DEF Trading
        <3> QED BY <3>1, Zenon
    <2>2. PICK g : g = [i \in DOMAIN s |-> s[i].budget]
        OBVIOUS
    <2>3. Read(g, s, V)
        BY <1>3, <2>1, <2>2 DEF Read
    <2>4. Pf!SumOver(g) \in Int
        BY <2>1, <2>3, TotalOf
    <2> QED BY <2>2, <2>4, Zenon DEF BudgetOf
<1>10. PICK forecasts \in Int : forecasts = ForecastOf(s)
    <2>1. PICK V : V \in [P -> Int] /\ \A p \in P : V[p] = p.forecast
        <3>1. [p \in P |-> p.forecast] \in [P -> Int] /\ \A p \in P : [q \in P |-> q.forecast][p] = p.forecast
            BY DEF Trading
        <3> QED BY <3>1, Zenon
    <2>2. PICK g : g = [i \in DOMAIN s |-> s[i].forecast]
        OBVIOUS
    <2>3. Read(g, s, V)
        BY <1>3, <2>1, <2>2 DEF Read
    <2>4. Pf!SumOver(g) \in Int
        BY <2>1, <2>3, TotalOf
    <2> QED BY <2>2, <2>4, Zenon DEF ForecastOf
<1>11. ASSUME r.variance # Unknown
       PROVE  r.unallocated + r.packageBudgets = appraised /\ r.profitImpact + r.variance = Pf!Clamp(r.variance, 0, contingency)
    <2>1. measured /\ appraised \in Int
        <3> HIDE DEF r, variance
        <3> QED BY <1>2, <1>11
    <2>2. PICK v \in Int : v = variance
        BY <1>10, <2>1
    <2>3. /\ r.variance = v /\ r.unallocated = appraised - budgets /\ r.packageBudgets = budgets
          /\ r.profitImpact = IF v > 0 THEN -Pf!AtLeast0(v - contingency) ELSE -v
        <3> HIDE DEF r, measured, variance
        <3> QED BY <1>2, <1>9, <2>1, <2>2
    <2>4. v > 0 => Pf!AtLeast0(v - contingency) = IF 0 >= v - contingency THEN 0 ELSE v - contingency
        <3>1. 0 \in Int /\ v - contingency \in Int
            OBVIOUS
        <3> QED BY <3>1, PfMax DEF Pf!AtLeast0
    <2>5. Pf!Clamp(v, 0, contingency) = IF v <= 0 THEN 0 ELSE IF v <= contingency THEN v ELSE contingency
        BY ClampIs
    <2> HIDE DEF r, variance, measured
    <2> QED BY <2>1, <2>3, <2>4, <2>5
<1>12. \A c : /\ Pf!contractorTotals(HeldBy(c)).retention = HeldNow(HeldBy(c))
              /\ Pf!contractorTotals(HeldBy(c)).retentionAtCompletion = HeldAtEnd(HeldBy(c))
    <2> HIDE DEF HeldBy
    <2> QED BY TotalsAre
<1>13. /\ r.retentionHeld = Pf!SumOver([c \in everyone |-> Pf!contractorTotals(HeldBy(c)).retention])
       /\ r.retentionAtCompletion = Pf!SumOver([c \in everyone |-> Pf!contractorTotals(HeldBy(c)).retentionAtCompletion])
    <2> HIDE DEF r, HeldBy, everyone
    <2>1. [c \in everyone |-> Pf!contractorTotals(HeldBy(c)).retention] = [c \in everyone |-> HeldNow(HeldBy(c))]
        BY <1>12, Zenon
    <2>2. [c \in everyone |-> Pf!contractorTotals(HeldBy(c)).retentionAtCompletion] = [c \in everyone |-> HeldAtEnd(HeldBy(c))]
        BY <1>12, Zenon
    <2> QED BY <1>2, <1>7, <1>8, <2>1, <2>2, Zenon
<1>14. Pf!CostsAgree(s, appraised, contingency, holder) =
          /\ r.retentionHeld = Pf!SumOver([c \in everyone |-> Pf!contractorTotals(HeldBy(c)).retention])
          /\ r.retentionAtCompletion = Pf!SumOver([c \in everyone |-> Pf!contractorTotals(HeldBy(c)).retentionAtCompletion])
          /\ r.variance # Unknown =>
                /\ r.unallocated + r.packageBudgets = appraised
                /\ r.profitImpact + r.variance = Pf!Clamp(r.variance, 0, contingency)
    BY Zenon DEF Pf!CostsAgree, Pf!Where
<1> HIDE DEF r, everyone, HeldBy
<1> QED BY <1>11, <1>13, <1>14

-----------------------------------------------------------------------------
(***************************************************************************)
(* Two versions of an appraisal.                                           *)
(***************************************************************************)

\* A version, its fields and counts by name.
On(x, F) == x = [k \in F |-> x[k]]
Version(v, fields, counts) == On(v.scalars, fields) /\ On(v.counts, counts)
Mirrored(c) == <<CASE c[1] = "added" -> "removed" [] c[1] = "removed" -> "added" [] OTHER -> c[1], c[2]>>
Backwards(S) == {Mirrored(c) : c \in S}

\* What moved in a record of fields, and in two lists by their labels.
Moved(kind, x, y) == {<<kind, k>> : k \in {l \in DOMAIN x : x[l] # y[l]}}
Relabelled(x, y) ==
    {<<"removed", l>> : l \in DOMAIN x \ DOMAIN y} \cup {<<"added", l>> : l \in DOMAIN y \ DOMAIN x}
    \cup {<<"changed", l>> : l \in {k \in DOMAIN x \cap DOMAIN y : x[k] # y[k]}}

LEMMA BackwardsAll == \A S, T : Backwards(S \cup T) = Backwards(S) \cup Backwards(T)
    BY DEF Backwards

LEMMA MovedBackwards ==
    ASSUME NEW x, NEW y, DOMAIN x = DOMAIN y, NEW kind \in {"scalar", "count"}
    PROVE  Backwards(Moved(kind, x, y)) = Moved(kind, y, x)
<1>1. ASSUME NEW k PROVE Mirrored(<<kind, k>>) = <<kind, k>>
    BY DEF Mirrored
<1> QED BY <1>1 DEF Backwards, Moved

LEMMA RelabelledBackwards == \A x, y : Backwards(Relabelled(x, y)) = Relabelled(y, x)
<1> SUFFICES ASSUME NEW x, NEW y PROVE Backwards(Relabelled(x, y)) = Relabelled(y, x)
    OBVIOUS
<1>1. ASSUME NEW l
      PROVE  /\ Mirrored(<<"removed", l>>) = <<"added", l>> /\ Mirrored(<<"added", l>>) = <<"removed", l>>
             /\ Mirrored(<<"changed", l>>) = <<"changed", l>>
    BY DEF Mirrored
<1>2. ASSUME NEW c \in Relabelled(x, y) PROVE Mirrored(c) \in Relabelled(y, x)
    <2>1. CASE \E l \in DOMAIN x \ DOMAIN y : c = <<"removed", l>>
        BY <1>1, <2>1 DEF Relabelled
    <2>2. CASE \E l \in DOMAIN y \ DOMAIN x : c = <<"added", l>>
        BY <1>1, <2>2 DEF Relabelled
    <2>3. CASE \E l \in {k \in DOMAIN x \cap DOMAIN y : x[k] # y[k]} : c = <<"changed", l>>
        BY <1>1, <2>3 DEF Relabelled
    <2> QED BY <2>1, <2>2, <2>3 DEF Relabelled
<1>3. Relabelled(y, x) \subseteq Backwards(Relabelled(x, y))
    BY <1>1 DEF Backwards, Relabelled
<1>4. Backwards(Relabelled(x, y)) \subseteq Relabelled(y, x)
    BY <1>2 DEF Backwards
<1> QED BY <1>3, <1>4

\* Nothing moved means that they are the same.
LEMMA NothingMoved ==
    ASSUME NEW F, NEW x, NEW y, On(x, F), On(y, F), NEW kind
    PROVE  Moved(kind, x, y) = {} <=> x = y
<1>1. DOMAIN x = F /\ DOMAIN y = F
    BY DEF On
<1>2. (\A k \in F : x[k] = y[k]) => x = y
    BY DEF On
<1>3. Moved(kind, x, y) = {} <=> \A k \in F : x[k] = y[k]
    BY <1>1 DEF Moved
<1> QED BY <1>2, <1>3

LEMMA NothingRelabelled ==
    ASSUME NEW F, NEW G, NEW x, NEW y, On(x, F), On(y, G)
    PROVE  Relabelled(x, y) = {} <=> x = y
<1>1. DOMAIN x = F /\ DOMAIN y = G
    BY DEF On
<1>2. Relabelled(x, y) = {} => F = G /\ \A k \in F : x[k] = y[k]
    <2> SUFFICES ASSUME Relabelled(x, y) = {} PROVE F = G /\ \A k \in F : x[k] = y[k]
        OBVIOUS
    <2>1. \A l \in F \ G : <<"removed", l>> \in Relabelled(x, y)
        BY <1>1 DEF Relabelled
    <2>2. \A l \in G \ F : <<"added", l>> \in Relabelled(x, y)
        BY <1>1 DEF Relabelled
    <2>3. \A l \in F \cap G : x[l] # y[l] => <<"changed", l>> \in Relabelled(x, y)
        BY <1>1 DEF Relabelled
    <2>4. F = G
        BY <2>1, <2>2
    <2> QED BY <2>3, <2>4
<1>3. F = G /\ (\A k \in F : x[k] = y[k]) => x = y
    BY DEF On
<1>4. x = y => Relabelled(x, y) = {}
    BY DEF Relabelled
<1> QED BY <1>2, <1>3, <1>4

LabelsOf(s) == {s[i].label : i \in DOMAIN s}
LEMMA LinesOf == \A s, field : On(Pf!Lines(s, field), LabelsOf(s))
<1> SUFFICES ASSUME NEW s, NEW field PROVE On(Pf!Lines(s, field), LabelsOf(s))
    OBVIOUS
<1> DEFINE V(l) == s[Pf!Max({i \in DOMAIN s : s[i].label = l})][field]
<1>1. Pf!Lines(s, field) = [l \in LabelsOf(s) |-> V(l)]
    BY Zenon DEF Pf!Lines, LabelsOf
<1> HIDE DEF V
<1> QED BY <1>1 DEF On

LEMMA DifferencesAre ==
    \A b, a : Pf!compareAppraisals(b, a) =
        (((Moved("scalar", b.scalars, a.scalars)
        \cup Relabelled(Pf!Lines(b.units, "cap"), Pf!Lines(a.units, "cap")))
        \cup Relabelled(Pf!Lines(b.units, "count"), Pf!Lines(a.units, "count")))
        \cup Relabelled(Pf!Lines(b.costs, "rate"), Pf!Lines(a.costs, "rate")))
        \cup Moved("count", b.counts, a.counts)
    BY Zenon DEF Pf!compareAppraisals, Pf!diffByLabel, Moved, Relabelled

\* Read forwards and backwards the same changes are found between two versions, and there are none exactly when every
\* field, count, rate and label that is compared is the same, however many lines share a label (compareAppraisals,
\* compare.ts).
THEOREM DifferencesMirror ==
    ASSUME NEW fields, NEW counts, NEW b, NEW a, Version(b, fields, counts), Version(a, fields, counts)
    PROVE  Pf!DiffIsSymmetric(b, a)
<1> DEFINE caps(v) == Pf!Lines(v.units, "cap")
           numbers(v) == Pf!Lines(v.units, "count")
           rates(v) == Pf!Lines(v.costs, "rate")
           all(v, w) == (((Moved("scalar", v.scalars, w.scalars) \cup Relabelled(caps(v), caps(w)))
                          \cup Relabelled(numbers(v), numbers(w))) \cup Relabelled(rates(v), rates(w)))
                        \cup Moved("count", v.counts, w.counts)
<1>1. \A v, w : Pf!compareAppraisals(v, w) = all(v, w)
    BY DifferencesAre, Zenon
<1>2. /\ DOMAIN b.scalars = fields /\ DOMAIN a.scalars = fields
      /\ DOMAIN b.counts = counts /\ DOMAIN a.counts = counts
    BY DEF Version, On
<1>3. Backwards(all(b, a)) = all(a, b)
    <2>1. Backwards(Moved("scalar", b.scalars, a.scalars)) = Moved("scalar", a.scalars, b.scalars)
        BY <1>2, MovedBackwards
    <2>2. Backwards(Moved("count", b.counts, a.counts)) = Moved("count", a.counts, b.counts)
        BY <1>2, MovedBackwards
    <2>3. PICK S, T, U, V, W :
              /\ S = Moved("scalar", b.scalars, a.scalars) /\ T = Relabelled(caps(b), caps(a))
              /\ U = Relabelled(numbers(b), numbers(a)) /\ V = Relabelled(rates(b), rates(a))
              /\ W = Moved("count", b.counts, a.counts)
        OBVIOUS
    <2>4. all(b, a) = (((S \cup T) \cup U) \cup V) \cup W
        BY <2>3
    <2>5. Backwards(((S \cup T) \cup U) \cup V) \cup Backwards(W) = Backwards(all(b, a))
        BY <2>4, BackwardsAll
    <2>6. Backwards((S \cup T) \cup U) = (Backwards(S) \cup Backwards(T)) \cup Backwards(U)
        <3>1. Backwards((S \cup T) \cup U) = Backwards(S \cup T) \cup Backwards(U)
            BY BackwardsAll
        <3>2. Backwards(S \cup T) = Backwards(S) \cup Backwards(T)
            BY BackwardsAll
        <3> QED BY <3>1, <3>2
    <2>7. Backwards(((S \cup T) \cup U) \cup V) = Backwards((S \cup T) \cup U) \cup Backwards(V)
        BY BackwardsAll
    <2>8. /\ Backwards(S) = Moved("scalar", a.scalars, b.scalars) /\ Backwards(W) = Moved("count", a.counts, b.counts)
          /\ Backwards(T) = Relabelled(caps(a), caps(b)) /\ Backwards(U) = Relabelled(numbers(a), numbers(b))
          /\ Backwards(V) = Relabelled(rates(a), rates(b))
        BY <2>1, <2>2, <2>3, RelabelledBackwards
    <2> QED BY <2>5, <2>6, <2>7, <2>8
<1>4. ASSUME NEW s, NEW t, NEW field
      PROVE  Relabelled(Pf!Lines(s, field), Pf!Lines(t, field)) = {} <=> Pf!Lines(s, field) = Pf!Lines(t, field)
    <2>1. PICK x, y : x = Pf!Lines(s, field) /\ y = Pf!Lines(t, field)
        OBVIOUS
    <2>2. On(x, LabelsOf(s)) /\ On(y, LabelsOf(t))
        BY <2>1, LinesOf
    <2>3. Relabelled(x, y) = {} <=> x = y
        BY <2>2, NothingRelabelled
    <2> QED BY <2>1, <2>3, Zenon
<1>5. all(b, a) = {} <=> /\ b.scalars = a.scalars /\ b.counts = a.counts
                          /\ caps(b) = caps(a) /\ numbers(b) = numbers(a) /\ rates(b) = rates(a)
    <2>1. Moved("scalar", b.scalars, a.scalars) = {} <=> b.scalars = a.scalars
        <3>1. On(b.scalars, fields) /\ On(a.scalars, fields)
            BY Zenon DEF Version
        <3> QED BY <3>1, NothingMoved
    <2>2. Moved("count", b.counts, a.counts) = {} <=> b.counts = a.counts
        <3>1. On(b.counts, counts) /\ On(a.counts, counts)
            BY Zenon DEF Version
        <3> QED BY <3>1, NothingMoved
    <2>3. PICK S1, S2, S3, S4, S5 :
              /\ S1 = Moved("scalar", b.scalars, a.scalars) /\ S2 = Relabelled(caps(b), caps(a))
              /\ S3 = Relabelled(numbers(b), numbers(a)) /\ S4 = Relabelled(rates(b), rates(a))
              /\ S5 = Moved("count", b.counts, a.counts)
        OBVIOUS
    <2>4. all(b, a) = {} <=> S1 = {} /\ S2 = {} /\ S3 = {} /\ S4 = {} /\ S5 = {}
        BY <2>3
    <2> QED BY <1>4, <2>1, <2>2, <2>3, <2>4, Zenon
<1>6. Pf!compareAppraisals(a, b) = {Mirrored(c) : c \in Pf!compareAppraisals(b, a)}
    BY <1>1, <1>3, Zenon DEF Backwards
<1> DEFINE Compared(x) == [scalars |-> x.scalars, counts |-> x.counts,
                           rates |-> caps(x), units |-> numbers(x), costs |-> rates(x)]
<1>7. Pf!identical(b, a) <=> Compared(b) = Compared(a)
    <2>1. Pf!identical(b, a) <=> all(b, a) = {}
        BY <1>1, Zenon DEF Pf!identical
    <2> HIDE DEF all, caps, numbers, rates
    <2>2. Compared(b) = Compared(a) <=> /\ b.scalars = a.scalars /\ b.counts = a.counts
                                        /\ caps(b) = caps(a) /\ numbers(b) = numbers(a) /\ rates(b) = rates(a)
        OBVIOUS
    <2> HIDE DEF Compared
    <2> QED BY <1>5, <2>1, <2>2, Zenon
<1> QED BY <1>6, <1>7, Zenon DEF Pf!DiffIsSymmetric, Mirrored

-----------------------------------------------------------------------------
(***************************************************************************)
(* The finance of a scheme: how a joint venture shares what it makes, and  *)
(* what pays for its cost and its land.                                    *)
(***************************************************************************)

\* Parts of an amount are between nothing and all of it, and add up to it where they divide.
LEMMA PartsOf ==
    ASSUME NEW x \in Nat, NEW e \in Nat \ {0}, NEW g \in 0..e
    PROVE  (x * g) \div e \in 0..x
<1>1. g \in Nat /\ e \in Nat /\ g <= e
    OBVIOUS
<1>2. (x * g) \div e <= (x * e) \div e /\ (x * g) \div e \in Int
    BY <1>1, SharesRise
<1>3. (x * e) \div e = x
    BY WholeIs
<1>4. PICK u \in Nat : u = x * g
    BY <1>1
<1>5. u \div e >= 0
    BY DivBounds
<1> QED BY <1>2, <1>3, <1>4, <1>5

LEMMA PartsAdd ==
    ASSUME NEW x \in Nat, NEW e \in Nat \ {0}, NEW g \in 0..e, ((x * g) % e) = 0
    PROVE  (x * (e - g)) \div e + (x * g) \div e = x
<1>1. PICK k \in 0..x : k = (x * g) \div e
    BY PartsOf
<1>2. x * g = e * k
    <2>1. PICK u \in Int : u = x * g
        OBVIOUS
    <2>2. (u % e) = 0 /\ k = u \div e
        BY <1>1, <2>1
    <2>3. u = e * (u \div e) + (u % e)
        OBVIOUS
    <2>4. e * (u \div e) = e * k
        BY <2>2
    <2>5. e * k \in Int
        OBVIOUS
    <2> QED BY <2>1, <2>2, <2>3, <2>4, <2>5
<1>3. PICK j \in Nat : j = x - k
    BY <1>1
<1>4. x * (e - g) = j * e
    <2>1. x * (e - g) = x * e - x * g
        OBVIOUS
    <2>2. j * e = x * e - e * k
        BY <1>1, <1>3
    <2> QED BY <1>2, <2>1, <2>2
<1>5. (j * e) \div e = j
    BY WholeIs
<1> QED BY <1>1, <1>3, <1>4, <1>5

LEMMA PctPart == ASSUME NEW x \in Nat, NEW p \in 0..100 PROVE Dev!Pct(x, p) \in 0..x
<1>1. PICK h \in Nat, l \in 0..99 : h = x \div 100 /\ l = (x % 100) /\ x = 100 * h + l
    OBVIOUS
<1>2. PICK u \in Nat : u = h * p /\ u <= 100 * h
    <2>1. h * p <= h * 100 /\ h * p \in Int
        BY MulMono
    <2>2. h * p \in Nat
        OBVIOUS
    <2> QED BY <2>1, <2>2
<1>3. (l * p) \div 100 \in 0..l
    BY PartsOf
<1>4. Dev!Pct(x, p) = u + (l * p) \div 100
    BY <1>1, <1>2 DEF Dev!Pct, Dev!Ratio
<1>5. PICK v \in 0..l : v = (l * p) \div 100
    BY <1>3
<1> QED BY <1>1, <1>2, <1>4, <1>5

\* The terms of a joint venture, and what is left to share once the promote is taken.
Venture(equity, profit, pref, gpPct, promotePct) ==
    /\ equity \in Nat \ {0} /\ profit \in Int /\ pref \in Nat
    /\ gpPct \in 0..100 /\ promotePct \in 0..100
Promoted(profit, pref, promotePct) == profit - Dev!Pct(profit - pref, promotePct)

\* A joint venture's waterfall hands out the profit or the loss, all of it and once, and promotes nobody before the
\* preferred return is paid, where what is left to share divides between the partners (jvWaterfall, engine.ts).
THEOREM WaterfallWhole ==
    ASSUME NEW equity, NEW profit, NEW pref, NEW gpPct, NEW promotePct,
           Venture(equity, profit, pref, gpPct, promotePct),
           profit > pref => ((Promoted(profit, pref, promotePct) * Dev!Pct(equity, gpPct)) % equity) = 0
    PROVE  Dev!WaterfallSplitsAll(profit, pref, Dev!jvWaterfall(equity, profit, pref, gpPct, promotePct))
<1> DEFINE w == Dev!jvWaterfall(equity, profit, pref, gpPct, promotePct)
<1>1. equity \in Nat \ {0} /\ profit \in Int /\ pref \in Nat
    BY DEF Venture
<1>2. PICK g \in 0..equity : g = Dev!Pct(equity, gpPct)
    BY PctPart DEF Venture
<1>3. equity - g \in 0..equity /\ equity > 0
    BY <1>1, <1>2
<1>4. CASE profit <= pref
    <2>1. PICK u \in Int : u = profit * (equity - g)
        BY <1>1, <1>3
    <2>2. PICK lp \in Int : lp = u \div equity
        BY <1>1, <2>1
    <2>3. w.lp = lp /\ w.gp = profit - lp /\ w.promote = 0
        BY <1>2, <1>3, <1>4, <2>1, <2>2 DEF Dev!jvWaterfall
    <2>4. profit >= 0 => lp \in 0..profit
        BY <1>1, <1>3, <2>1, <2>2, PartsOf
    <2> HIDE DEF w
    <2>5. Dev!WaterfallSplitsAll(profit, pref, w)
        BY <1>1, <2>2, <2>3, <2>4 DEF Dev!WaterfallSplitsAll
    <2> QED BY <2>5 DEF w
<1>5. CASE profit > pref
    <2>1. PICK promote \in 0..(profit - pref) : promote = Dev!Pct(profit - pref, promotePct)
        <3>1. profit - pref \in Nat
            BY <1>1, <1>5
        <3> QED BY <3>1, PctPart DEF Venture
    <2>2. PICK x \in Nat : x = profit - promote /\ x = Promoted(profit, pref, promotePct)
                           /\ x = pref + ((profit - pref) - promote)
        BY <1>1, <2>1 DEF Promoted
    <2>3. ((x * g) % equity) = 0
        BY <1>2, <1>5, <2>2
    <2>4. PICK lp \in 0..x, gp \in 0..x : lp = (x * (equity - g)) \div equity /\ gp = (x * g) \div equity
        BY <1>1, <1>2, <1>3, <2>2, PartsOf
    <2>5. lp + gp = x
        BY <1>1, <1>2, <2>2, <2>3, <2>4, PartsAdd
    <2>6. w.lp = lp /\ w.gp = gp + promote /\ w.promote = promote
        BY <1>1, <1>2, <1>3, <1>5, <2>1, <2>2, <2>4 DEF Dev!jvWaterfall
    <2> HIDE DEF w
    <2>7. Dev!WaterfallSplitsAll(profit, pref, w)
        <3>1. promote \in Int /\ promote >= 0 /\ lp \in Int /\ lp >= 0 /\ gp \in Int /\ gp >= 0 /\ x = profit - promote
            BY <1>1, <1>5, <2>1, <2>2, <2>4
        <3>2. lp + (gp + promote) = profit /\ gp + promote >= promote
            BY <1>1, <3>1, <2>5
        <3> QED BY <1>5, <2>6, <3>1, <3>2 DEF Dev!WaterfallSplitsAll
    <2> QED BY <2>7 DEF w
<1> QED BY <1>1, <1>4, <1>5

\* The terms of a capital stack, and that its shares divide.
Stack(s) ==
    /\ s.ltcPct \in 0..100 /\ s.mezzTo \in Nat
    /\ s.facility \in Nat /\ s.constructionCost \in Nat /\ s.landGross \in Int
Funds(s, construction, mezzTo) ==
    /\ s.ltcPct > 0 => ((s.facility * 100) % s.ltcPct) = 0
    /\ ((construction * s.ltcPct) % 100) = 0 /\ ((construction * mezzTo) % 100) = 0

\* What a division that leaves nothing over comes to.
LEMMA Divided ==
    ASSUME NEW x \in Nat, NEW d \in Nat \ {0}, (x % d) = 0
    PROVE  x \div d \in Nat /\ (x \div d) * d = x
<1>1. PICK k \in Nat : k = x \div d
    <2>1. x \div d \in Int /\ x \div d >= 0
        BY DivBounds
    <2> QED BY <2>1
<1>2. x = d * (x \div d) + (x % d)
    OBVIOUS
<1>3. d * k = k * d /\ d * k \in Nat
    BY <1>1
<1>4. x = k * d
    BY <1>1, <1>2, <1>3
<1> QED BY <1>1, <1>4

LEMMA ConstructionIs ==
    ASSUME NEW s, Stack(s), s.ltcPct > 0 => ((s.facility * 100) % s.ltcPct) = 0
    PROVE  /\ Pf!capitalStack(s).construction \in Nat
           /\ s.ltcPct > 0 => Pf!capitalStack(s).construction * s.ltcPct = s.facility * 100
<1>1. CASE s.ltcPct > 0
    <2>1. PICK l \in Nat \ {0}, x \in Nat : l = s.ltcPct /\ x = s.facility * 100
        BY <1>1 DEF Stack
    <2>2. x \div l \in Nat /\ (x \div l) * l = x
        BY <1>1, <2>1, Divided, ZenonT(40)
    <2>3. Pf!capitalStack(s).construction = x \div l
        BY <1>1, <2>1 DEF Pf!capitalStack
    <2> QED BY <2>1, <2>2, <2>3
<1>2. CASE ~(s.ltcPct > 0)
    BY <1>2 DEF Stack, Pf!capitalStack
<1> QED BY <1>1, <1>2

\* The tranches of a scheme stack to the cost and the land they fund, the senior loan is the facility, and the
\* mezzanine is never negative, whether it and the land leave room for equity or none (capitalStack, stack.ts).
THEOREM StackFunds ==
    ASSUME NEW s, Stack(s), Funds(s, Pf!capitalStack(s).construction, Pf!Max({s.mezzTo, s.ltcPct}))
    PROVE  Pf!StackFundsScheme(s)
<1> DEFINE k == Pf!capitalStack(s)
<1>1. PICK c \in Nat : c = k.construction /\ (s.ltcPct > 0 => c * s.ltcPct = s.facility * 100)
    BY ConstructionIs DEF Funds
<1>2. PICK l \in 0..100, m \in Nat : l = s.ltcPct /\ m = Pf!Max({s.mezzTo, s.ltcPct}) /\ l <= m
    <2>1. PICK x \in Nat, y \in 0..100 : x = s.mezzTo /\ y = s.ltcPct
        BY DEF Stack
    <2>2. PICK z \in Nat : z = (IF x >= y THEN x ELSE y) /\ y <= z
        OBVIOUS
    <2>3. Pf!Max({x, y}) = z
        BY <2>2, PfMax
    <2> QED BY <2>1, <2>2, <2>3
<1>3. ((c * l) % 100) = 0 /\ ((c * m) % 100) = 0
    BY <1>1, <1>2 DEF Funds
<1>4. PICK a \in Nat, b \in Nat : c * l = 100 * a /\ c * m = 100 * b /\ a <= b
    <2>1. PICK u \in Nat, v \in Nat : u = c * l /\ v = c * m /\ u <= v
        <3>1. c * l <= c * m
            BY <1>2, MulMono
        <3>2. c * l \in Nat /\ c * m \in Nat
            OBVIOUS
        <3> QED BY <3>1, <3>2
    <2>2. (u % 100) = 0 /\ (v % 100) = 0
        BY <1>3, <2>1
    <2>3. PICK a \in Nat, b \in Nat : a = u \div 100 /\ b = v \div 100
        OBVIOUS
    <2>4. u = 100 * a /\ v = 100 * b /\ a <= b
        BY <2>1, <2>2, <2>3
    <2> QED BY <2>1, <2>3, <2>4
<1>5. c * (m - l) = 100 * (b - a) /\ c * (100 - m) = 100 * (c - b)
    <2>1. c * (m - l) = c * m - c * l /\ c * (100 - m) = c * 100 - c * m
        OBVIOUS
    <2> QED BY <2>1, <1>4
<1>6. Pf!Share(c, l) = a /\ Pf!Share(c, m - l) = b - a /\ Pf!Share(c, 100 - m) = c - b
    <2>1. \A z \in Int : (100 * z) \div 100 = z
        OBVIOUS
    <2>2. b - a \in Int /\ c - b \in Int /\ a \in Int
        OBVIOUS
    <2> QED BY <1>4, <1>5, <2>1, <2>2 DEF Pf!Share
<1>7. PICK g \in Int : g = s.landGross
    BY DEF Stack
<1>8. PICK e \in Int : e = Pf!AtLeast0(c - b + g) /\ e = IF c - b + g <= 0 THEN 0 ELSE c - b + g
    <2>1. PICK z \in Int : z = c - b + g
        OBVIOUS
    <2>2. Pf!Max({0, z}) = IF 0 >= z THEN 0 ELSE z
        BY PfMax
    <2> QED BY <2>1, <2>2 DEF Pf!AtLeast0
<1>9. /\ k.construction = c /\ k.senior = a /\ k.mezzanine = b - a /\ k.equity = e
      /\ k.total = (a + (b - a)) + e
    <2>1. Pf!capitalStack(s) =
            [construction |-> k.construction, senior |-> Pf!Share(k.construction, l),
             mezzanine |-> Pf!Share(k.construction, m - l),
             equity |-> Pf!AtLeast0(Pf!Share(k.construction, 100 - m) + g),
             total |-> Pf!Share(k.construction, l) + Pf!Share(k.construction, m - l)
                       + Pf!AtLeast0(Pf!Share(k.construction, 100 - m) + g)]
        BY <1>2, <1>7 DEF Pf!capitalStack
    <2> QED BY <1>1, <1>6, <1>8, <2>1
<1> HIDE DEF k
<1>10. l > 0 => a = s.facility
    <2>1. l > 0 => 100 * a = s.facility * 100 /\ s.facility \in Nat
        BY <1>1, <1>2, <1>4 DEF Stack
    <2> QED BY <2>1
<1>11. /\ k.mezzanine >= 0
       /\ (s.ltcPct > 0 => k.senior = s.facility)
       /\ (k.equity > 0 => k.total = k.construction + s.landGross)
       /\ k.total >= k.construction + s.landGross
    <2>1. (a + (b - a)) + e = b + e /\ b - a >= 0
        BY <1>4, <1>8
    <2>2. e > 0 => b + e = c + g
        BY <1>8
    <2>3. b + e >= c + g
        BY <1>8
    <2> QED BY <1>2, <1>7, <1>9, <1>10, <2>1, <2>2, <2>3
<1> QED BY <1>11, Zenon DEF Pf!StackFundsScheme, k

-----------------------------------------------------------------------------
(***************************************************************************)
(* A ledger by periods: what a period comes to is the difference of the    *)
(* running sums at its ends.                                               *)
(***************************************************************************)

\* What the months of a ledger come to.
NetOf(s) == Pf!SumOver([i \in DOMAIN s |-> s[i].net])
Nets(f, n) == [i \in 1..n |-> f[i].net]
Counts(g, N) == \A i \in 1..N : g[i] \in Int

LEMMA NetIs ==
    ASSUME NEW f, NEW n \in Nat, DOMAIN f = 1..n, Counts(Nets(f, n), n)
    PROVE  \E t : AddsUp(t, Nets(f, n), n) /\ NetOf(f) = t[n]
<1>1. PICK g : g = Nets(f, n)
    OBVIOUS
<1>2. g = [i \in 1..n |-> f[i].net] /\ \A i \in 1..n : g[i] \in Int
    BY <1>1 DEF Nets, Counts
<1>3. g = [i \in DOMAIN f |-> f[i].net] /\ DOMAIN g = 1..n
    BY <1>2
<1>4. NetOf(f) = Summed(g, n)
    <2>1. Pf!SumOver(g) = Summed(g, n)
        BY <1>2, <1>3, PfSums
    <2> QED BY <1>3, <2>1 DEF NetOf
<1>5. PICK w : AddsUp(w, g, n) /\ Summed(g, n) = w[n]
    BY <1>2, SumIs
<1> QED BY <1>1, <1>4, <1>5

\* The first n periods of N months, size to a period, end at month Ends(n).
Periods(N, size) == (N + size - 1) \div size
Ends(N, size, n) == IF n * size <= N THEN n * size ELSE N

LEMMA PeriodsAre ==
    ASSUME NEW N \in Nat, NEW size \in Nat \ {0}
    PROVE  /\ Periods(N, size) \in Nat /\ (N > 0 => Periods(N, size) > 0)
           /\ N <= Periods(N, size) * size
           /\ \A n \in 1..Periods(N, size) : (n - 1) * size \in Nat /\ (n - 1) * size < N
<1>1. PICK P \in Int : P = Periods(N, size) /\ size * P <= N + size - 1 /\ N + size - 1 < size * P + size /\ P >= 0
    BY DivBounds DEF Periods
<1>2. PICK u \in Int : u = size * P /\ u = P * size
    OBVIOUS
<1>3. N > 0 => P > 0
    BY <1>1, <1>2
<1>4. ASSUME NEW n \in 1..P PROVE (n - 1) * size \in Nat /\ (n - 1) * size < N
    <2>1. PICK v \in Int : v = size * (n - 1) /\ v = (n - 1) * size /\ v <= size * (P - 1)
        BY MulMono
    <2>2. size * (P - 1) = u - size
        BY <1>2
    <2>3. (n - 1) * size \in Nat
        OBVIOUS
    <2> QED BY <1>1, <1>2, <2>1, <2>2, <2>3
<1> QED BY <1>1, <1>2, <1>3, <1>4

LEMMA EndsAre ==
    ASSUME NEW N \in Nat, NEW size \in Nat \ {0}, NEW n \in 1..Periods(N, size)
    PROVE  /\ Ends(N, size, n - 1) \in Nat /\ Ends(N, size, n - 1) = (n - 1) * size
           /\ Ends(N, size, n) \in Nat /\ Ends(N, size, n) <= N /\ Ends(N, size, n - 1) < Ends(N, size, n)
           /\ Ends(N, size, n) <= (n - 1) * size + size
           /\ Ends(N, size, n) = N \/ Ends(N, size, n) = (n - 1) * size + size
<1>1. Periods(N, size) \in Nat /\ n \in Nat \ {0}
    BY PeriodsAre
<1>2. PICK u \in Nat : u = (n - 1) * size /\ u < N
    BY PeriodsAre
<1>3. n * size = u + size
    BY <1>1, <1>2
<1> QED BY <1>2, <1>3 DEF Ends

\* What the months from one to another come to is the difference of the running sums there.
Slice(h, g, lo, k) == \A i \in 1..k : h[i] = g[lo + i]
LEMMA SliceAdds ==
    ASSUME NEW N \in Nat, NEW g, Counts(g, N), NEW t, AddsUp(t, g, N), NEW lo \in Nat, NEW k \in Nat, lo + k <= N,
           NEW w, NEW h, AddsUp(w, h, k), Slice(h, g, lo, k)
    PROVE  w[k] = t[lo + k] - t[lo]
<1> DEFINE u == [m \in 0..k |-> t[lo + m] - t[lo]]
<1>1. \A m \in 0..k : lo + m \in 0..N /\ (m # 0 => lo + m \in 1..N /\ lo + m - 1 = lo + (m - 1) /\ m - 1 \in 0..k)
    OBVIOUS
<1>2. \A m \in 0..N : t[m] \in Int
    BY DEF AddsUp
<1>3. \A m \in 0..k : w[m] \in Int /\ u[m] \in Int
    BY <1>1, <1>2 DEF AddsUp
<1>4. w[0] = 0 /\ u[0] = 0
    BY <1>1, <1>2 DEF AddsUp
<1>5. ASSUME NEW m \in 1..k PROVE w[m] - w[m - 1] = u[m] - u[m - 1]
    <2>1. m \in 0..k /\ m - 1 \in 0..k /\ lo + m \in 1..N /\ lo + m - 1 = lo + (m - 1)
        BY <1>1
    <2>2. w[m] = w[m - 1] + h[m] /\ h[m] = g[lo + m]
        BY DEF AddsUp, Slice
    <2>3. t[lo + m] = t[lo + (m - 1)] + g[lo + m]
        BY <2>1 DEF AddsUp
    <2>4. u[m] = t[lo + m] - t[lo] /\ u[m - 1] = t[lo + (m - 1)] - t[lo]
        BY <2>1
    <2>5. t[lo] \in Int /\ t[lo + (m - 1)] \in Int /\ g[lo + m] \in Int /\ w[m - 1] \in Int
        BY <1>1, <1>2, <1>3, <2>1 DEF Counts
    <2> HIDE DEF u
    <2> QED BY <2>2, <2>3, <2>4, <2>5
<1>6. SameSteps(w, u, k)
    BY <1>3, <1>4, <1>5 DEF SameSteps
<1>7. w[k] = u[k]
    <2> HIDE DEF u
    <2> QED BY <1>6, Matched
<1>8. u[k] = t[lo + k] - t[lo]
    OBVIOUS
<1> QED BY <1>7, <1>8

\* The months of a period.
LEMMA ChunkIs ==
    ASSUME NEW R, NEW ledger \in Seq(R), NEW lo \in Nat, NEW hi \in Nat, lo < hi, hi <= Len(ledger)
    PROVE  /\ Len(SubSeq(ledger, lo + 1, hi)) = hi - lo /\ DOMAIN SubSeq(ledger, lo + 1, hi) = 1..(hi - lo)
           /\ \A j \in 1..(hi - lo) : SubSeq(ledger, lo + 1, hi)[j] = ledger[lo + j]
<1> DEFINE c == SubSeq(ledger, lo + 1, hi)
<1>1. Len(c) = hi - lo /\ c \in Seq(R)
    OBVIOUS
<1>2. DOMAIN c = 1..(hi - lo)
    BY <1>1
<1>3. \A j \in 1..(hi - lo) : c[j] = ledger[lo + 1 + j - 1]
    OBVIOUS
<1>4. \A j \in 1..(hi - lo) : lo + 1 + j - 1 = lo + j
    OBVIOUS
<1> QED BY <1>1, <1>2, <1>3, <1>4

Entry == [net : Int, cum : Int]
Ledger(ledger, size) == ledger \in Seq(Entry) /\ size \in Nat \ {0}
Net(ledger) == [i \in 1..Len(ledger) |-> ledger[i].net]

LEMMA LedgerIs ==
    ASSUME NEW ledger, NEW size, Ledger(ledger, size)
    PROVE  /\ Len(ledger) \in Nat /\ size \in Nat \ {0} /\ DOMAIN ledger = 1..Len(ledger) /\ DOMAIN Net(ledger) = 1..Len(ledger)
           /\ \A i \in 1..Len(ledger) : ledger[i].net \in Int /\ Net(ledger)[i] = ledger[i].net
           /\ Counts(Net(ledger), Len(ledger))
<1>1. ledger \in Seq(Entry) /\ size \in Nat \ {0}
    BY DEF Ledger
<1>2. Len(ledger) \in Nat /\ DOMAIN ledger = 1..Len(ledger) /\ \A i \in 1..Len(ledger) : ledger[i] \in Entry
    BY <1>1
<1>3. \A i \in 1..Len(ledger) : ledger[i].net \in Int
    BY <1>2 DEF Entry
<1>4. DOMAIN Net(ledger) = 1..Len(ledger) /\ \A i \in 1..Len(ledger) : Net(ledger)[i] = ledger[i].net
    BY DEF Net
<1> QED BY <1>1, <1>2, <1>3, <1>4 DEF Counts

SliceOf(c, ledger, lo, k) == DOMAIN c = 1..k /\ \A i \in 1..k : c[i] = ledger[lo + i]
LEMMA SliceNet ==
    ASSUME NEW ledger, NEW size, Ledger(ledger, size), NEW t, AddsUp(t, Net(ledger), Len(ledger)), NEW lo \in Nat,
           NEW hi \in Nat, lo < hi, hi <= Len(ledger), NEW c, NEW k \in Nat, lo + k = hi, SliceOf(c, ledger, lo, k)
    PROVE  NetOf(c) = t[hi] - t[lo]
<1> DEFINE N == Len(ledger)
           M == Net(ledger)
           g == Nets(c, k)
<1>1. N \in Nat /\ Counts(M, N) /\ \A i \in 1..N : ledger[i].net \in Int /\ M[i] = ledger[i].net
    BY LedgerIs
<1>2. AddsUp(t, M, N) /\ hi <= N
    OBVIOUS
<1> HIDE DEF N, M
<1>3. \A i \in 1..k : lo + i \in 1..N
    BY <1>1, <1>2
<1>4. \A i \in 1..k : g[i] = c[i].net /\ g[i] = M[lo + i] /\ g[i] \in Int
    BY <1>1, <1>3 DEF Nets, SliceOf
<1>5. DOMAIN c = 1..k /\ Counts(g, k)
    BY <1>4 DEF Counts, SliceOf
<1>6. PICK w : AddsUp(w, g, k) /\ NetOf(c) = w[k]
    BY <1>5, NetIs
<1> HIDE DEF g
<1>7. Slice(g, M, lo, k)
    BY <1>4 DEF Slice
<1>8. w[k] = t[lo + k] - t[lo]
    <2>1. lo + k <= N
        BY <1>2
    <2> QED BY <1>1, <1>2, <1>6, <1>7, <2>1, SliceAdds
<1> QED BY <1>6, <1>8

LEMMA ChunkNet ==
    ASSUME NEW ledger, NEW size, Ledger(ledger, size), NEW t, AddsUp(t, Net(ledger), Len(ledger)),
           NEW lo \in Nat, NEW hi \in Nat, lo < hi, hi <= Len(ledger)
    PROVE  NetOf(SubSeq(ledger, lo + 1, hi)) = t[hi] - t[lo]
<1>1. PICK k \in Nat : k = hi - lo /\ lo + k = hi
    OBVIOUS
<1>2. PICK c : c = SubSeq(ledger, lo + 1, hi)
    OBVIOUS
<1>3. SliceOf(c, ledger, lo, k)
    <2>1. ledger \in Seq(Entry)
        BY DEF Ledger
    <2>2. DOMAIN c = 1..(hi - lo) /\ \A j \in 1..(hi - lo) : c[j] = ledger[lo + j]
        BY <1>2, <2>1, ChunkIs
    <2> QED BY <1>1, <2>2 DEF SliceOf
<1>4. NetOf(c) = t[hi] - t[lo]
    BY <1>1, <1>3, SliceNet
<1> QED BY <1>2, <1>4

LEMMA PeriodIs ==
    ASSUME NEW ledger, NEW size, Ledger(ledger, size), NEW n \in 1..Periods(Len(ledger), size),
           NEW t, AddsUp(t, Net(ledger), Len(ledger)),
           NEW lo, lo = Ends(Len(ledger), size, n - 1), NEW hi, hi = Ends(Len(ledger), size, n)
    PROVE  /\ Pf!rollUpCashflow(ledger, size)[n].from = lo + 1 /\ Pf!rollUpCashflow(ledger, size)[n].to = hi
           /\ Pf!rollUpCashflow(ledger, size)[n].net = t[hi] - t[lo]
           /\ Pf!rollUpCashflow(ledger, size)[n].cum = ledger[hi].cum
<1> DEFINE N == Len(ledger)
           r == Pf!rollUpCashflow(ledger, size)[n]
           c == SubSeq(ledger, lo + 1, hi)
<1>1. /\ N \in Nat /\ size \in Nat \ {0} /\ Counts(Net(ledger), N)
      /\ \A i \in 1..N : ledger[i].net \in Int /\ Net(ledger)[i] = ledger[i].net
    BY LedgerIs
<1>2. /\ lo \in Nat /\ lo = (n - 1) * size /\ hi \in Nat /\ hi <= N /\ lo < hi
      /\ Periods(N, size) \in Nat /\ n \in Nat \ {0}
    <2>1. Periods(N, size) \in Nat
        BY <1>1, PeriodsAre
    <2>2. lo = Ends(N, size, n - 1) /\ hi = Ends(N, size, n) /\ n \in 1..Periods(N, size)
        OBVIOUS
    <2> HIDE DEF N
    <2> QED BY <1>1, <2>1, <2>2, EndsAre
<1>3. Pf!Min({n * size, N}) = hi
    <2>1. PICK x \in Int : x = n * size
        BY <1>1, <1>2
    <2> HIDE DEF N
    <2>2. Pf!Min({x, N}) = IF x <= N THEN x ELSE N
        BY <1>1, <2>1, PfMin
    <2> QED BY <2>1, <2>2 DEF Ends, N
<1>4. Len(c) = hi - lo /\ DOMAIN c = 1..(hi - lo) /\ \A j \in 1..(hi - lo) : c[j] = ledger[lo + j]
    <2>1. ledger \in Seq(Entry) /\ lo < hi /\ hi <= Len(ledger) /\ lo \in Nat /\ hi \in Nat
        BY <1>2 DEF Ledger
    <2> QED BY <2>1, ChunkIs
<1>5. r = [from |-> (n - 1) * size + 1, to |-> (n - 1) * size + Len(c), net |-> NetOf(c), cum |-> c[Len(c)].cum]
    <2>1. c = SubSeq(ledger, (n - 1) * size + 1, Pf!Min({n * size, N}))
        BY <1>2, <1>3
    <2> HIDE DEF c
    <2> QED BY <2>1, Zenon DEF Pf!rollUpCashflow, Pf!Total, NetOf, N, Periods
<1> HIDE DEF c, r
<1>6. r.from = lo + 1 /\ r.to = hi /\ r.net = NetOf(c) /\ r.cum = ledger[hi].cum
    <2>1. r.from = lo + 1 /\ r.to = lo + (hi - lo) /\ r.net = NetOf(c) /\ r.cum = c[hi - lo].cum
        BY <1>2, <1>4, <1>5
    <2>2. c[hi - lo] = ledger[lo + (hi - lo)] /\ lo + (hi - lo) = hi
        BY <1>2, <1>4, SMTT(15), ZenonT(30)
    <2> QED BY <2>1, <2>2
<1>7. NetOf(c) = t[hi] - t[lo]
    <2>1. lo \in Nat /\ hi \in Nat /\ lo < hi /\ hi <= Len(ledger)
        BY <1>2 DEF N
    <2>2. NetOf(SubSeq(ledger, lo + 1, hi)) = t[hi] - t[lo]
        BY <2>1, ChunkNet
    <2> QED BY <2>2 DEF c
<1> QED BY <1>6, <1>7 DEF r

\* Each month of the ledger is in one of its periods and no other.
LEMMA OnePeriod ==
    ASSUME NEW N \in Nat, NEW size \in Nat \ {0}, NEW m \in 1..N
    PROVE  \E k \in 1..Periods(N, size) : \A n \in 1..Periods(N, size) :
               Ends(N, size, n - 1) + 1 <= m /\ m <= Ends(N, size, n) <=> n = k
<1>1. PICK P \in Nat : P = Periods(N, size) /\ N <= P * size /\ size * P = P * size
    BY PeriodsAre
<1>2. PICK q \in Nat : size * q <= m - 1 /\ m - 1 < size * q + size
    <2>1. PICK x \in Int : x = m - 1 /\ x >= 0
        OBVIOUS
    <2>2. PICK q \in Int : q = x \div size /\ size * q <= x /\ x < size * q + size /\ q >= 0
        BY <2>1, DivBounds
    <2> QED BY <2>1, <2>2
<1>3. q < P
    <2>1. CASE q >= P
        <3>1. size * P <= size * q /\ size * P \in Int /\ size * q \in Int
            BY <2>1, MulMono
        <3> QED BY <1>1, <1>2, <3>1
    <2> QED BY <2>1
<1>4. ASSUME NEW n \in 1..P PROVE Ends(N, size, n - 1) + 1 <= m /\ m <= Ends(N, size, n) <=> n = q + 1
    <2>1. PICK a \in Nat, b \in Nat : /\ a = Ends(N, size, n - 1) /\ b = Ends(N, size, n)
                                      /\ a = (n - 1) * size /\ b <= a + size /\ (b = N \/ b = a + size)
        BY <1>1, EndsAre
    <2>2. PICK c \in Nat : c = size * q
        OBVIOUS
    <2>3. PICK v \in Int : v = size * (n - 1) /\ v = a
        BY <2>1
    <2>4. CASE n = q + 1
        <3>1. v = c
            BY <2>2, <2>3, <2>4
        <3> QED BY <1>2, <2>1, <2>2, <2>3, <2>4, <3>1
    <2>5. CASE n > q + 1
        <3>1. size * (q + 1) <= size * (n - 1) /\ size * (q + 1) = c + size
            BY <2>2, <2>5, MulMono
        <3> QED BY <1>2, <2>1, <2>2, <2>3, <2>5, <3>1
    <2>6. CASE n < q + 1
        <3>1. size * n <= size * q /\ size * n = v + size
            BY <2>3, <2>6, MulMono
        <3> QED BY <1>2, <2>1, <2>2, <2>3, <2>6, <3>1
    <2> QED BY <2>4, <2>5, <2>6
<1>5. q + 1 \in 1..P
    BY <1>3
<1> QED BY <1>1, <1>4, <1>5

\* A ledger read by quarter, half or year loses no month and counts none twice: the periods come to what the months
\* come to, each month is in one period, and the last period ends where the ledger does, however short it is
\* (rollUpCashflow, rollups.ts).
THEOREM PeriodsAdd ==
    ASSUME NEW ledger, NEW size, Ledger(ledger, size)
    PROVE  Pf!PeriodsAddBack(ledger, size)
<1> DEFINE N == Len(ledger)
           P == Periods(N, size)
           ps == Pf!rollUpCashflow(ledger, size)
           E(n) == Ends(N, size, n)
<1>1. /\ N \in Nat /\ size \in Nat \ {0} /\ DOMAIN ledger = 1..N
      /\ Counts(Net(ledger), N) /\ Net(ledger) = Nets(ledger, N)
    BY LedgerIs DEF Net, Nets
<1>2. P \in Nat /\ (N > 0 => P > 0) /\ N <= P * size
    <2> HIDE DEF N
    <2> QED BY <1>1, PeriodsAre
<1>3. DOMAIN ps = 1..P /\ Len(ps) = P
    <2>1. DOMAIN ps = 1..P
        BY DEF Pf!rollUpCashflow, Periods
    <2> HIDE DEF P, ps
    <2> QED BY <1>2, <2>1
<1>4. PICK t : AddsUp(t, Net(ledger), N) /\ NetOf(ledger) = t[N]
    <2> HIDE DEF N
    <2> QED BY <1>1, NetIs
<1>5. t[0] = 0 /\ \A m \in 0..N : t[m] \in Int
    BY <1>4 DEF AddsUp
<1>6. E(0) = 0 /\ E(P) = N /\ \A n \in 0..P : E(n) \in 0..N
    <2>1. ASSUME NEW n \in 1..P PROVE E(n) \in 0..N
        <3> HIDE DEF N
        <3> QED BY <1>1, EndsAre
    <2>2. E(0) = 0
        BY <1>1 DEF Ends
    <2>3. E(P) = N
        <3>1. PICK x \in Nat : x = P * size /\ N <= x
            BY <1>1, <1>2
        <3> HIDE DEF N, P
        <3> QED BY <1>1, <3>1 DEF Ends
    <2>4. \A n \in 0..P : n = 0 \/ n \in 1..P
        BY <1>2
    <2> HIDE DEF E, P
    <2> QED BY <1>1, <2>1, <2>2, <2>3, <2>4
<1>7. ASSUME NEW n \in 1..P
      PROVE  /\ ps[n].from = E(n - 1) + 1 /\ ps[n].to = E(n)
             /\ ps[n].net = t[E(n)] - t[E(n - 1)] /\ ps[n].cum = ledger[E(n)].cum
    BY <1>4, PeriodIs
<1> HIDE DEF ps
<1>8. NetOf(ps) = NetOf(ledger)
    <2> HIDE DEF P, E, N
    <2>1. \A n \in 1..P : n \in 0..P /\ n - 1 \in 0..P
        BY <1>2
    <2>2. \A n \in 1..P : Nets(ps, P)[n] = t[E(n)] - t[E(n - 1)]
        BY <1>7 DEF Nets
    <2>3. Counts(Nets(ps, P), P)
        BY <1>5, <1>6, <2>1, <2>2 DEF Counts
    <2>4. PICK w : AddsUp(w, Nets(ps, P), P) /\ NetOf(ps) = w[P]
        BY <1>2, <1>3, <2>3, NetIs
    <2> DEFINE u == [n \in 0..P |-> t[E(n)]]
    <2>5. SameSteps(w, u, P)
        <3>1. \A n \in 0..P : w[n] \in Int /\ u[n] \in Int
            BY <1>5, <1>6, <2>4 DEF AddsUp
        <3>2. w[0] = u[0]
            BY <1>2, <1>5, <1>6, <2>4 DEF AddsUp
        <3>3. ASSUME NEW n \in 1..P PROVE w[n] - w[n - 1] = u[n] - u[n - 1]
            <4>1. w[n] = w[n - 1] + Nets(ps, P)[n]
                BY <2>4 DEF AddsUp
            <4>2. u[n] = t[E(n)] /\ u[n - 1] = t[E(n - 1)] /\ n \in 0..P /\ n - 1 \in 0..P
                BY <2>1
            <4>3. Nets(ps, P)[n] = u[n] - u[n - 1]
                BY <2>2, <4>2
            <4> HIDE DEF u
            <4> QED BY <3>1, <4>1, <4>2, <4>3
        <3> HIDE DEF u
        <3> QED BY <3>1, <3>2, <3>3 DEF SameSteps
    <2>6. w[P] = u[P]
        <3> HIDE DEF u
        <3>1. \A n \in 0..P : w[n] = u[n]
            BY <1>2, <2>5, Matched
        <3> QED BY <1>2, <3>1
    <2>7. u[P] = t[N]
        BY <1>2, <1>6
    <2> QED BY <1>4, <2>4, <2>6, <2>7
<1>9. ASSUME NEW m \in 1..N PROVE Cardinality({n \in 1..P : m \in ps[n].from..ps[n].to}) = 1
    <2>1. PICK k \in 1..P : \A n \in 1..P : E(n - 1) + 1 <= m /\ m <= E(n) <=> n = k
        BY <1>1, OnePeriod
    <2>2. \A n \in 1..P : m \in ps[n].from..ps[n].to <=> n = k
        <3>1. \A n \in 1..P : E(n) \in Int /\ E(n - 1) \in Int
            <4>1. \A n \in 1..P : n \in 0..P /\ n - 1 \in 0..P
                BY <1>2
            <4> HIDE DEF P, E, N
            <4> QED BY <1>6, <4>1
        <3> HIDE DEF P, E
        <3> QED BY <1>7, <2>1, <3>1
    <2>3. {n \in 1..P : m \in ps[n].from..ps[n].to} = {k}
        BY <2>2
    <2> QED BY <2>3, FS_Singleton
<1>10. ledger # <<>> => ps[Len(ps)].cum = ledger[N].cum
    <2>1. ASSUME ledger # <<>> PROVE N > 0
        BY <2>1, <1>1 DEF Ledger
    <2>2. ASSUME ledger # <<>> PROVE P \in 1..P
        BY <1>2, <2>1, <2>2
    <2> HIDE DEF P, E, N
    <2> QED BY <1>3, <1>6, <1>7, <2>2
<1>11. \A S : Pf!Cardinality(S) = Cardinality(S)
    BY DEF Cardinality, Pf!Cardinality
<1>12. /\ Pf!Total(ps, LAMBDA p : p.net) = Pf!Total(ledger, LAMBDA r : r.net)
       /\ \A m \in DOMAIN ledger : Pf!Cardinality({n \in DOMAIN ps : m \in ps[n].from..ps[n].to}) = 1
       /\ ledger # <<>> => ps[Len(ps)].cum = ledger[Len(ledger)].cum
    <2>1. Pf!Total(ps, LAMBDA p : p.net) = Pf!Total(ledger, LAMBDA r : r.net)
        BY <1>8, Zenon DEF NetOf, Pf!Total
    <2>2. \A m \in DOMAIN ledger : Pf!Cardinality({n \in DOMAIN ps : m \in ps[n].from..ps[n].to}) = 1
        BY <1>1, <1>3, <1>9, <1>11
    <2> QED BY <1>10, <2>1, <2>2
<1> QED BY <1>12, Zenon DEF Pf!PeriodsAddBack, Pf!Total, ps

(***************************************************************************)
(* The questions of a run, each of the part of the engine it is put to, and *)
(* of the shape what is proved above is about.                              *)
(***************************************************************************)
SiteFields == {"part", "packages", "appraised", "contingency", "holder", "rates", "build", "weights", "elapsed", "actual",
               "progress", "stack", "committed", "txs", "covenant", "limits"}
LEMMA SiteIs ==
    /\ Site = [k \in SiteFields |-> Site[k]]
    /\ Site.part = "site" /\ Site.packages = <<>> /\ Site.appraised = 1000 /\ Site.contingency = 100
    /\ Site.rates = <<1, 1, 1>> /\ Site.build = 1000 /\ Site.weights = Dev!buildSpendProfile(4, "front")
    /\ Site.elapsed = 0 /\ Site.actual = 0 /\ Site.progress = 0 /\ Site.stack = Layers(0, 60, 100)
    /\ Site.committed = 300 /\ Site.txs = <<>>
    /\ Site.covenant = Loan(600, 0, 0, 0)
    /\ Site.limits = Limits(80)
<1> DEFINE w == Dev!buildSpendProfile(4, "front")
           l == Layers(0, 60, 100)
           h == <<1, 2>>
<1>1. Site = [part |-> "site", packages |-> <<>>, appraised |-> 1000, contingency |-> 100, holder |-> h,
         rates |-> <<1, 1, 1>>, build |-> 1000, weights |-> w, elapsed |-> 0,
         actual |-> 0, progress |-> 0, stack |-> l, committed |-> 300, txs |-> <<>>,
         covenant |-> Loan(600, 0, 0, 0), limits |-> Limits(80)]
    BY Zenon DEF Site, w, l, h
<1> HIDE DEF w, l, h
<1>2. Site = [k \in SiteFields |-> Site[k]]
    BY <1>1 DEF SiteFields
<1>3. Site.part = "site" /\ Site.packages = <<>> /\ Site.appraised = 1000 /\ Site.contingency = 100
    BY <1>1
<1>4. Site.rates = <<1, 1, 1>> /\ Site.build = 1000 /\ Site.weights = w
    BY <1>1
<1>5. Site.elapsed = 0 /\ Site.actual = 0 /\ Site.progress = 0 /\ Site.stack = l /\ Site.committed = 300 /\ Site.txs = <<>>
    BY <1>1
<1>6. /\ Site.covenant = Loan(600, 0, 0, 0)
      /\ Site.limits = Limits(80)
    BY <1>1
<1> QED BY <1>2, <1>3, <1>4, <1>5, <1>6, SMTT(15), ZenonT(30) DEF w, l

BookFields == {"part", "size", "positions", "rows", "units", "tenancies", "deals", "holdings"}
LEMMA BookIs ==
    /\ Book = [k \in BookFields |-> Book[k]]
    /\ Book.part = "book" /\ Book.size = 3 /\ Book.rows = <<>> /\ Book.units = <<>>
    /\ Book.tenancies = <<>> /\ Book.deals = <<>> /\ Book.holdings = <<>>
    /\ Book.positions = Lent(4, 2, "BH")
<1>1. Book = [part |-> "book", size |-> 3, positions |-> Lent(4, 2, "BH"),
         rows |-> <<>>, units |-> <<>>, tenancies |-> <<>>, deals |-> <<>>, holdings |-> <<>>]
    BY Zenon DEF Book
<1>2. Book = [k \in BookFields |-> Book[k]]
    BY <1>1 DEF BookFields
<1> QED BY <1>1, <1>2

\* What the theorems of each report ask of its figures.
Job == [id : Int, budget : Int, committed : Int, spent : Int, forecast : Int, retentionPct : Int]
Movement == [amount : Int, class : {"cost", "drawdown", "equity", "unclassified"}]
CostsFit(x) == x.packages \in Seq(Job) /\ x.appraised \in Int \cup {Unknown} /\ x.contingency \in Nat
PlanFits(x) == x.rates \in Seq(Nat) /\ x.build \in Nat
MonthsFit(x) == /\ x.weights \in Seq(Nat) /\ Dev!SumOver(x.weights) > 0
                /\ x.elapsed \in Int /\ x.actual \in Nat /\ x.progress \in Int
StackFunded(s) == Stack(s) /\ Funds(s, Pf!capitalStack(s).construction, Pf!Max({s.mezzTo, s.ltcPct}))
StackFits(x) == StackFunded(x.stack)
BankFits(x) == x.committed \in Int /\ x.txs \in Seq(Movement)
LoanFits(x) == Measured(x.covenant) /\ Set(x.limits)
SiteFits(x) == CostsFit(x) /\ PlanFits(x) /\ MonthsFit(x) /\ StackFits(x) /\ BankFits(x) /\ LoanFits(x)

LEMMA LayersFit ==
    \A mezz \in {0, 70, 100, 120}, ltc \in {0, 50, 60}, land \in {-50, 0, 100} : StackFunded(Layers(mezz, ltc, land))
<1> SUFFICES ASSUME NEW mezz \in {0, 70, 100, 120}, NEW ltc \in {0, 50, 60}, NEW land \in {-50, 0, 100}
             PROVE  StackFunded(Layers(mezz, ltc, land))
    OBVIOUS
<1> DEFINE s == Layers(mezz, ltc, land)
<1>1. /\ s.mezzTo = mezz /\ s.ltcPct = ltc /\ s.facility = 600 /\ s.constructionCost = 1200 /\ s.landGross = land
    BY DEF Layers
<1>2. Stack(s)
    BY <1>1 DEF Stack
<1>3. Pf!capitalStack(s).construction = IF s.ltcPct > 0 THEN (s.facility * 100) \div s.ltcPct ELSE s.constructionCost
    BY DEF Pf!capitalStack
<1>4. PICK c \in {1200, 1000} : c = Pf!capitalStack(s).construction
    BY <1>1, <1>3
<1>5. PICK m \in {0, 50, 60, 70, 100, 120} : m = Pf!Max({s.mezzTo, s.ltcPct})
    BY <1>1, PfMax
<1> HIDE DEF s
<1>6. Funds(s, Pf!capitalStack(s).construction, Pf!Max({s.mezzTo, s.ltcPct}))
    BY <1>1, <1>4, <1>5 DEF Funds
<1> QED BY <1>2, <1>6 DEF StackFunded, s

LEMMA ShortLists ==
    ASSUME NEW S
    PROVE  /\ <<>> \in Seq(S)
           /\ \A x \in S : <<x>> \in Seq(S)
           /\ \A x, y \in S : <<x, y>> \in Seq(S)
           /\ \A x, y, z \in S : <<x, y, z>> \in Seq(S)
           /\ \A x, y, z, w \in S : <<x, y, z, w>> \in Seq(S)
<1>1. <<>> \in Seq(S)
    OBVIOUS
<1>2. \A x \in S : <<x>> \in Seq(S)
    OBVIOUS
<1>3. \A x, y \in S : <<x, y>> \in Seq(S)
    OBVIOUS
<1>4. \A x, y, z \in S : <<x, y, z>> \in Seq(S)
    OBVIOUS
<1>5. \A x, y, z, w \in S : <<x, y, z, w>> \in Seq(S)
    OBVIOUS
<1> QED BY <1>1, <1>2, <1>3, <1>4, <1>5

LEMMA FirstFew == ASSUME NEW S, NEW x, NEW y, <<x, y>> \in Seq(S), NEW n \in 0..2 PROVE SubSeq(<<x, y>>, 1, n) \in Seq(S)
<1>1. CASE n = 0
    BY <1>1
<1>2. CASE n = 1
    BY <1>2
<1>3. CASE n = 2
    BY <1>3
<1> QED BY <1>1, <1>2, <1>3

LEMMA SiteItself == SiteFits(Site)
<1>1. CostsFit(Site)
    <2>1. Site.packages \in Seq(Job)
        BY SiteIs, ShortLists, ZenonT(40)
    <2>2. Site.appraised \in Int \cup {Unknown} /\ Site.contingency \in Nat
        BY SiteIs
    <2> QED BY <2>1, <2>2, Zenon DEF CostsFit
<1>2. PlanFits(Site)
    <2>1. <<1, 1, 1>> \in Seq(Nat) /\ 1000 \in Nat
        BY ShortLists
    <2> QED BY <2>1, SiteIs, ZenonT(40) DEF PlanFits
<1>3. MonthsFit(Site)
    <2>1. Dev!buildSpendProfile(4, "front") = [i \in 1..4 |-> 5 - i]
        BY DEF Dev!buildSpendProfile
    <2>2. \A i \in 1..4 : 5 - i \in Nat
        OBVIOUS
    <2>3. PICK w : w = Dev!buildSpendProfile(4, "front") /\ w \in Seq(Nat) /\ DOMAIN w = 1..4 /\ \A i \in 1..4 : w[i] = 5 - i
        <3> DEFINE w == [i \in 1..4 |-> 5 - i]
        <3>1. w \in Seq(Nat) /\ DOMAIN w = 1..4 /\ \A i \in 1..4 : w[i] = 5 - i
            BY <2>2
        <3> HIDE DEF w
        <3> QED BY <3>1, <2>1, Zenon DEF w
    <2>4. \A i \in 1..4 : w[i] \in Int
        BY <2>3
    <2>5. Dev!SumOver(w) = Summed(w, 4)
        BY <2>3, <2>4, FoldSums
    <2>6. PICK s : AddsUp(s, w, 4) /\ Summed(w, 4) = s[4]
        BY <2>4, SumIs
    <2>7. s[0] = 0 /\ s[1] = s[0] + w[1] /\ s[2] = s[1] + w[2] /\ s[3] = s[2] + w[3] /\ s[4] = s[3] + w[4]
        BY <2>6 DEF AddsUp
    <2>8. w[1] = 4 /\ w[2] = 3 /\ w[3] = 2 /\ w[4] = 1
        BY <2>3
    <2>9. s[4] = 10
        BY <2>7, <2>8
    <2>10. Dev!SumOver(w) > 0
        BY <2>5, <2>6, <2>9
    <2>11. Site.weights = w /\ Site.elapsed = 0 /\ Site.actual = 0 /\ Site.progress = 0
        BY <2>3, SiteIs
    <2> QED BY <2>3, <2>10, <2>11 DEF MonthsFit
<1>4. StackFits(Site)
    <2>1. StackFunded(Layers(0, 60, 100))
        BY LayersFit
    <2> QED BY <2>1, SiteIs, ZenonT(40) DEF StackFits
<1>5. BankFits(Site)
    <2>1. Site.committed \in Int /\ Site.txs = <<>>
        BY SiteIs
    <2> QED BY <2>1, ShortLists, Zenon DEF BankFits
<1>6. LoanFits(Site)
    BY SiteIs DEF LoanFits, Measured, Set, Limits, Loan
<1> QED BY <1>1, <1>2, <1>3, <1>4, <1>5, <1>6 DEF SiteFits

\* A site whose other figures are Site's.
SameBut(x, F) == \A k \in SiteFields \ F : x[k] = Site[k]

LEMMA RestFits ==
    ASSUME NEW x, NEW F, SameBut(x, F)
    PROVE  /\ "part" \notin F => x.part = "site"
           /\ F \cap {"packages", "appraised", "contingency"} = {} => CostsFit(x)
           /\ F \cap {"rates", "build"} = {} => PlanFits(x)
           /\ F \cap {"weights", "elapsed", "actual", "progress"} = {} => MonthsFit(x)
           /\ "stack" \notin F => StackFits(x)
           /\ F \cap {"committed", "txs"} = {} => BankFits(x)
           /\ F \cap {"covenant", "limits"} = {} => LoanFits(x)
<1>1. "part" \notin F => x.part = "site"
    <2>1. "part" \notin F => x.part = Site.part
        BY DEF SameBut, SiteFields
    <2> QED BY <2>1, SiteIs, ZenonT(40)
<1>2. F \cap {"packages", "appraised", "contingency"} = {} =>
          x.packages = Site.packages /\ x.appraised = Site.appraised /\ x.contingency = Site.contingency
    BY DEF SameBut, SiteFields
<1>3. F \cap {"rates", "build"} = {} => x.rates = Site.rates /\ x.build = Site.build
    BY DEF SameBut, SiteFields
<1>4. F \cap {"weights", "elapsed", "actual", "progress"} = {} =>
          x.weights = Site.weights /\ x.elapsed = Site.elapsed /\ x.actual = Site.actual /\ x.progress = Site.progress
    BY DEF SameBut, SiteFields
<1>5. "stack" \notin F => x.stack = Site.stack
    BY DEF SameBut, SiteFields
<1>6. F \cap {"committed", "txs"} = {} => x.committed = Site.committed /\ x.txs = Site.txs
    BY DEF SameBut, SiteFields
<1>7. F \cap {"covenant", "limits"} = {} => x.covenant = Site.covenant /\ x.limits = Site.limits
    BY DEF SameBut, SiteFields
<1> QED BY <1>1, <1>2, <1>3, <1>4, <1>5, <1>6, <1>7, SiteItself, Zenon
        DEF SiteFits, CostsFit, PlanFits, MonthsFit, StackFits, BankFits, LoanFits

LEMMA Changed ==
    ASSUME NEW rates, NEW build, NEW covenant, NEW limits, NEW packages, NEW appraised, NEW holder
    PROVE  /\ WithPackages(packages, appraised, holder).packages = packages
           /\ WithPackages(packages, appraised, holder).appraised = appraised
           /\ SameBut(WithPackages(packages, appraised, holder), {"packages", "appraised", "holder"})
           /\ WithRates(rates, build).rates = rates /\ WithRates(rates, build).build = build
           /\ SameBut(WithRates(rates, build), {"rates", "build"})
           /\ WithLoan(covenant, limits).covenant = covenant /\ WithLoan(covenant, limits).limits = limits
           /\ SameBut(WithLoan(covenant, limits), {"covenant", "limits"})
<1>1. Site = [k \in SiteFields |-> Site[k]]
    BY SiteIs
<1>2. /\ "packages" \in SiteFields /\ "appraised" \in SiteFields /\ "rates" \in SiteFields /\ "build" \in SiteFields
      /\ "covenant" \in SiteFields /\ "limits" \in SiteFields
    BY DEF SiteFields
<1>3. /\ WithPackages(packages, appraised, holder).packages = packages
      /\ WithPackages(packages, appraised, holder).appraised = appraised
      /\ SameBut(WithPackages(packages, appraised, holder), {"packages", "appraised", "holder"})
    BY <1>1, <1>2 DEF WithPackages, SameBut
<1>4. /\ WithRates(rates, build).rates = rates /\ WithRates(rates, build).build = build
      /\ SameBut(WithRates(rates, build), {"rates", "build"})
    BY <1>1, <1>2 DEF WithRates, SameBut
<1>5. /\ WithLoan(covenant, limits).covenant = covenant /\ WithLoan(covenant, limits).limits = limits
      /\ SameBut(WithLoan(covenant, limits), {"covenant", "limits"})
    BY <1>1, <1>2 DEF WithLoan, SameBut
<1> QED BY <1>3, <1>4, <1>5

LEMMA ChangedToo ==
    ASSUME NEW elapsed, NEW actual, NEW progress, NEW build, NEW stack, NEW committed, NEW txs
    PROVE  /\ WithSpend(elapsed, actual, progress, build).elapsed = elapsed
           /\ WithSpend(elapsed, actual, progress, build).actual = actual
           /\ WithSpend(elapsed, actual, progress, build).progress = progress
           /\ WithSpend(elapsed, actual, progress, build).build = build
           /\ SameBut(WithSpend(elapsed, actual, progress, build), {"elapsed", "actual", "progress", "build"})
           /\ WithStack(stack).stack = stack /\ SameBut(WithStack(stack), {"stack"})
           /\ WithBank(committed, txs).committed = committed /\ WithBank(committed, txs).txs = txs
           /\ SameBut(WithBank(committed, txs), {"committed", "txs"})
<1>1. Site = [k \in SiteFields |-> Site[k]]
    BY SiteIs
<1>2. /\ "elapsed" \in SiteFields /\ "actual" \in SiteFields /\ "progress" \in SiteFields /\ "build" \in SiteFields
      /\ "stack" \in SiteFields /\ "committed" \in SiteFields /\ "txs" \in SiteFields
    BY DEF SiteFields
<1>3. /\ WithSpend(elapsed, actual, progress, build).elapsed = elapsed
      /\ WithSpend(elapsed, actual, progress, build).actual = actual
      /\ WithSpend(elapsed, actual, progress, build).progress = progress
      /\ WithSpend(elapsed, actual, progress, build).build = build
      /\ SameBut(WithSpend(elapsed, actual, progress, build), {"elapsed", "actual", "progress", "build"})
    BY <1>1, <1>2 DEF WithSpend, SameBut
<1>4. WithStack(stack).stack = stack /\ SameBut(WithStack(stack), {"stack"})
    BY <1>1, <1>2 DEF WithStack, SameBut
<1>5. /\ WithBank(committed, txs).committed = committed /\ WithBank(committed, txs).txs = txs
      /\ SameBut(WithBank(committed, txs), {"committed", "txs"})
    BY <1>1, <1>2 DEF WithBank, SameBut
<1> QED BY <1>3, <1>4, <1>5

\* A site whose figures of one report fit, the others being Site's.
Fits(x) == x.part = "site" /\ SiteFits(x)
LEMMA OneReportFits ==
    /\ \A packages \in Seq(Job), appraised \in Int \cup {Unknown} : \A holder : Fits(WithPackages(packages, appraised, holder))
    /\ \A rates \in Seq(Nat), build \in Nat : Fits(WithRates(rates, build))
    /\ \A elapsed \in Int, actual \in Nat, progress \in Int, build \in Nat : Fits(WithSpend(elapsed, actual, progress, build))
    /\ \A stack : StackFunded(stack) => Fits(WithStack(stack))
    /\ \A committed \in Int, txs \in Seq(Movement) : Fits(WithBank(committed, txs))
    /\ \A covenant, limits : Measured(covenant) /\ Set(limits) => Fits(WithLoan(covenant, limits))
<1>1. ASSUME NEW packages \in Seq(Job), NEW appraised \in Int \cup {Unknown}, NEW holder
      PROVE  Fits(WithPackages(packages, appraised, holder))
    <2> DEFINE x == WithPackages(packages, appraised, holder)
    <2>1. x.packages = packages /\ x.appraised = appraised /\ SameBut(x, {"packages", "appraised", "holder"})
        BY Changed
    <2> HIDE DEF x
    <2>2. x.contingency = Site.contingency
        BY <2>1 DEF SameBut, SiteFields
    <2>3. CostsFit(x)
        BY <2>1, <2>2, SiteItself, Zenon DEF SiteFits, CostsFit
    <2>4. x.part = "site" /\ PlanFits(x) /\ MonthsFit(x) /\ StackFits(x) /\ BankFits(x) /\ LoanFits(x)
        BY <2>1, RestFits
    <2> QED BY <2>3, <2>4 DEF Fits, SiteFits, x
<1>2. ASSUME NEW rates \in Seq(Nat), NEW build \in Nat PROVE Fits(WithRates(rates, build))
    <2> DEFINE x == WithRates(rates, build)
    <2>1. x.rates = rates /\ x.build = build /\ SameBut(x, {"rates", "build"})
        BY Changed
    <2> HIDE DEF x
    <2>2. PlanFits(x)
        BY <2>1 DEF PlanFits
    <2>3. x.part = "site" /\ CostsFit(x) /\ MonthsFit(x) /\ StackFits(x) /\ BankFits(x) /\ LoanFits(x)
        BY <2>1, RestFits
    <2> QED BY <2>2, <2>3 DEF Fits, SiteFits, x
<1>3. ASSUME NEW elapsed \in Int, NEW actual \in Nat, NEW progress \in Int, NEW build \in Nat
      PROVE  Fits(WithSpend(elapsed, actual, progress, build))
    <2> DEFINE x == WithSpend(elapsed, actual, progress, build)
    <2>1. /\ x.elapsed = elapsed /\ x.actual = actual /\ x.progress = progress /\ x.build = build
          /\ SameBut(x, {"elapsed", "actual", "progress", "build"})
        BY ChangedToo
    <2> HIDE DEF x
    <2>2. x.rates = Site.rates /\ x.weights = Site.weights
        BY <2>1 DEF SameBut, SiteFields
    <2>3. PlanFits(x)
        BY <2>1, <2>2, SiteItself DEF SiteFits, PlanFits
    <2>4. MonthsFit(x)
        BY <2>1, <2>2, SiteItself DEF SiteFits, MonthsFit
    <2>5. x.part = "site" /\ CostsFit(x) /\ StackFits(x) /\ BankFits(x) /\ LoanFits(x)
        BY <2>1, RestFits
    <2> QED BY <2>3, <2>4, <2>5 DEF Fits, SiteFits, x
<1>4. ASSUME NEW stack, StackFunded(stack) PROVE Fits(WithStack(stack))
    <2> DEFINE x == WithStack(stack)
    <2>1. x.stack = stack /\ SameBut(x, {"stack"})
        BY ChangedToo
    <2> HIDE DEF x
    <2>2. StackFits(x)
        BY <1>4, <2>1 DEF StackFits
    <2>3. x.part = "site" /\ CostsFit(x) /\ PlanFits(x) /\ MonthsFit(x) /\ BankFits(x) /\ LoanFits(x)
        BY <2>1, RestFits
    <2> QED BY <2>2, <2>3 DEF Fits, SiteFits, x
<1>5. ASSUME NEW committed \in Int, NEW txs \in Seq(Movement) PROVE Fits(WithBank(committed, txs))
    <2> DEFINE x == WithBank(committed, txs)
    <2>1. x.committed = committed /\ x.txs = txs /\ SameBut(x, {"committed", "txs"})
        BY ChangedToo
    <2> HIDE DEF x
    <2>2. BankFits(x)
        BY <2>1 DEF BankFits
    <2>3. x.part = "site" /\ CostsFit(x) /\ PlanFits(x) /\ MonthsFit(x) /\ StackFits(x) /\ LoanFits(x)
        BY <2>1, RestFits
    <2> QED BY <2>2, <2>3 DEF Fits, SiteFits, x
<1>6. ASSUME NEW covenant, NEW limits, Measured(covenant), Set(limits) PROVE Fits(WithLoan(covenant, limits))
    <2> DEFINE x == WithLoan(covenant, limits)
    <2>1. x.covenant = covenant /\ x.limits = limits /\ SameBut(x, {"covenant", "limits"})
        BY Changed
    <2> HIDE DEF x
    <2>2. LoanFits(x)
        BY <1>6, <2>1 DEF LoanFits
    <2>3. x.part = "site" /\ CostsFit(x) /\ PlanFits(x) /\ MonthsFit(x) /\ StackFits(x) /\ BankFits(x)
        BY <2>1, RestFits
    <2> QED BY <2>2, <2>3 DEF Fits, SiteFits, x
<1> QED BY <1>1, <1>2, <1>3, <1>4, <1>5, <1>6

LEMMA ContractedFit == \A x \in Contracted : Fits(x)
<1> SUFFICES ASSUME NEW x \in Contracted PROVE Fits(x)
    OBVIOUS
<1>1. PICK n \in 0..2, f \in {400, 600, 900}, b \in {0, 700}, ap \in {Unknown, 1000}, h \in {1, 2} :
          x = WithPackages(Trades(n, f, b), ap, <<1, h>>)
    BY DEF Contracted
<1>2. Trades(n, f, b) \in Seq(Job)
    <2> DEFINE j == Package(1, 400, 300, 200, f, 5)
               k == Package(2, 600, b, 100, 500, 10)
    <2>1. f \in Int /\ b \in Int
        BY <1>1
    <2>2. j \in Job
        BY <2>1 DEF Package, Job
    <2>3. k \in Job
        BY <2>1 DEF Package, Job
    <2> HIDE DEF j, k
    <2>4. <<j, k>> \in Seq(Job)
        BY <2>2, <2>3, ShortLists
    <2>5. SubSeq(<<j, k>>, 1, n) \in Seq(Job)
        BY <1>1, <2>4, FirstFew
    <2>6. SubSeq(<<j, k>>, 1, n) = Trades(n, f, b)
        BY DEF j, k, Trades
    <2> QED BY <2>5, <2>6
<1>3. ap \in Int \cup {Unknown}
    BY <1>1
<1>4. Fits(WithPackages(Trades(n, f, b), ap, <<1, h>>))
    BY <1>2, <1>3, OneReportFits
<1> QED BY <1>1, <1>4

LEMMA RateCardsFit == RateCards \subseteq Seq(Nat)
<1> DEFINE none == <<>>
           two == <<0, 0>>
           three == <<1, 2, 4>>
           other == <<5, 1, 1>>
<1>1. none \in Seq(Nat) /\ two \in Seq(Nat) /\ three \in Seq(Nat) /\ other \in Seq(Nat)
    <2>1. none \in Seq(Nat)
        BY ShortLists
    <2>2. two \in Seq(Nat)
        BY ShortLists
    <2>3. three \in Seq(Nat)
        BY ShortLists
    <2>4. other \in Seq(Nat)
        BY ShortLists
    <2> QED BY <2>1, <2>2, <2>3, <2>4
<1>2. RateCards = {none, two, three, other}
    BY Zenon DEF RateCards
<1> HIDE DEF none, two, three, other
<1> QED BY <1>1, <1>2

LEMMA BudgetedFit == \A x \in Budgeted : Fits(x)
<1> SUFFICES ASSUME NEW x \in Budgeted PROVE Fits(x)
    OBVIOUS
<1>1. PICK rs \in RateCards, b \in {999, 1000, 1001} : x = WithRates(rs, b)
    BY DEF Budgeted
<1>2. rs \in Seq(Nat) /\ b \in Nat
    BY <1>1, RateCardsFit
<1>3. Fits(WithRates(rs, b))
    BY <1>2, OneReportFits
<1> QED BY <1>1, <1>3

LEMMA DatedFit == \A x \in Dated : Fits(x)
<1> SUFFICES ASSUME NEW x \in Dated PROVE Fits(x)
    OBVIOUS
<1>1. PICK e \in {-1, 0, 2, 5}, a \in {0, 449, 450, 550, 551}, p \in {0, 50, 120}, b \in {0, 1000} : x = WithSpend(e, a, p, b)
    BY DEF Dated
<1>2. e \in Int /\ a \in Nat /\ p \in Int /\ b \in Nat
    BY <1>1
<1>3. \A elapsed \in Int, actual \in Nat, progress \in Int, build \in Nat : Fits(WithSpend(elapsed, actual, progress, build))
    BY OneReportFits, ZenonT(40)
<1>4. Fits(WithSpend(e, a, p, b))
    BY <1>2, <1>3
<1> QED BY <1>1, <1>4

LEMMA GearedFit == \A x \in Geared : Fits(x)
<1> SUFFICES ASSUME NEW x \in Geared PROVE Fits(x)
    OBVIOUS
<1>1. PICK m \in {0, 70, 100, 120}, l \in {0, 50, 60}, g \in {-50, 0, 100} : x = WithStack(Layers(m, l, g))
    BY DEF Geared
<1>2. StackFunded(Layers(m, l, g))
    BY <1>1, LayersFit
<1> QED BY <1>1, <1>2, OneReportFits, Zenon

LEMMA AccountsFit == Accounts \subseteq Seq(Movement)
<1> DEFINE none == <<>>
           one == <<Tx(-100, "cost")>>
           four == <<Tx(-400, "cost"), Tx(500, "drawdown"), Tx(30, "unclassified"), Tx(60, "equity")>>
<1>1. /\ Tx(-100, "cost") \in Movement /\ Tx(-400, "cost") \in Movement /\ Tx(500, "drawdown") \in Movement
      /\ Tx(30, "unclassified") \in Movement /\ Tx(60, "equity") \in Movement
    BY DEF Tx, Movement
<1>2. none \in Seq(Movement) /\ one \in Seq(Movement)
    BY <1>1, ShortLists
<1>3. four \in Seq(Movement)
    BY <1>1, ShortLists
<1>4. Accounts = {none, one, four}
    BY Zenon DEF Accounts
<1> HIDE DEF none, one, four
<1> QED BY <1>2, <1>3, <1>4

LEMMA BankedFit == \A x \in Banked : Fits(x)
<1> SUFFICES ASSUME NEW x \in Banked PROVE Fits(x)
    OBVIOUS
<1>1. PICK c \in {0, 300}, t \in Accounts : x = WithBank(c, t)
    BY DEF Banked
<1>2. c \in Int /\ t \in Seq(Movement)
    BY <1>1, AccountsFit
<1>3. Fits(WithBank(c, t))
    BY <1>2, OneReportFits
<1> QED BY <1>1, <1>3, Zenon

LEMMA BoundFit == \A x \in Bound : Fits(x)
<1> SUFFICES ASSUME NEW x \in Bound PROVE Fits(x)
    OBVIOUS
<1>1. PICK f \in {600, 601}, c \in {0, 750, 751}, g \in {0, 1000}, p \in {149, 150}, l \in {80, Unknown} :
          x = WithLoan(Loan(f, c, g, p), Limits(l))
    BY DEF Bound
<1>2. Measured(Loan(f, c, g, p))
    <2>1. f \in Int /\ c \in Int /\ g \in Int /\ p \in Int
        BY <1>1
    <2> QED BY <2>1 DEF Measured, Loan
<1>3. Set(Limits(l))
    BY <1>1 DEF Set, Limits
<1>4. Fits(WithLoan(Loan(f, c, g, p), Limits(l)))
    BY <1>2, <1>3, OneReportFits
<1> QED BY <1>1, <1>4

LEMMA SitesFit == \A x \in Sites : Fits(x)
    BY ContractedFit, BudgetedFit, DatedFit, GearedFit, BankedFit, BoundFit, Zenon DEF Sites

\* The same of a book.
LoanMade == [facility : Nat, drawn : Int, asset : {"shop", "flat"}, region : {"BH", "SW"}]
BookFits(x) ==
    /\ x.part = "book"
    /\ x.positions \in Seq(LoanMade)
    /\ Ledger(x.rows, x.size) /\ x.units \in Seq(Unit) /\ x.tenancies \in Seq(Tenancy) /\ x.deals \in Seq(Deal)
    /\ x.holdings \in Seq(Holding)

BookBut(x, F) == \A k \in BookFields \ F : x[k] = Book[k]
LEMMA BookChanged ==
    ASSUME NEW positions, NEW rows, NEW size, NEW units, NEW tenancies, NEW deals, NEW holdings
    PROVE  /\ WithPositions(positions).positions = positions /\ BookBut(WithPositions(positions), {"positions"})
           /\ WithRows(rows, size).rows = rows /\ WithRows(rows, size).size = size
           /\ BookBut(WithRows(rows, size), {"rows", "size"})
           /\ WithUnits(units).units = units /\ BookBut(WithUnits(units), {"units"})
           /\ WithTenancies(tenancies, deals).tenancies = tenancies /\ WithTenancies(tenancies, deals).deals = deals
           /\ BookBut(WithTenancies(tenancies, deals), {"tenancies", "deals"})
           /\ WithHoldings(holdings).holdings = holdings /\ BookBut(WithHoldings(holdings), {"holdings"})
<1>1. Book = [k \in BookFields |-> Book[k]]
    BY BookIs
<1>2. /\ "positions" \in BookFields /\ "rows" \in BookFields /\ "size" \in BookFields /\ "units" \in BookFields
      /\ "tenancies" \in BookFields /\ "deals" \in BookFields /\ "holdings" \in BookFields
    BY DEF BookFields
<1>3. WithPositions(positions).positions = positions /\ BookBut(WithPositions(positions), {"positions"})
    BY <1>1, <1>2 DEF WithPositions, BookBut
<1>4. /\ WithRows(rows, size).rows = rows /\ WithRows(rows, size).size = size
      /\ BookBut(WithRows(rows, size), {"rows", "size"})
    BY <1>1, <1>2 DEF WithRows, BookBut
<1>5. WithUnits(units).units = units /\ BookBut(WithUnits(units), {"units"})
    BY <1>1, <1>2 DEF WithUnits, BookBut
<1>6. /\ WithTenancies(tenancies, deals).tenancies = tenancies /\ WithTenancies(tenancies, deals).deals = deals
      /\ BookBut(WithTenancies(tenancies, deals), {"tenancies", "deals"})
    BY <1>1, <1>2 DEF WithTenancies, BookBut
<1>7. WithHoldings(holdings).holdings = holdings /\ BookBut(WithHoldings(holdings), {"holdings"})
    BY <1>1, <1>2 DEF WithHoldings, BookBut
<1> QED BY <1>3, <1>4, <1>5, <1>6, <1>7

LEMMA LentFits == \A f \in Nat, d \in Int, r \in {"BH", "SW"} : Lent(f, d, r) \in Seq(LoanMade)
<1> SUFFICES ASSUME NEW f \in Nat, NEW d \in Int, NEW r \in {"BH", "SW"} PROVE Lent(f, d, r) \in Seq(LoanMade)
    OBVIOUS
<1>1. /\ Position(f, d, "shop", r) \in LoanMade /\ Position(3, 1, "flat", "BH") \in LoanMade
      /\ Position(4, 1, "flat", "SW") \in LoanMade
    BY DEF Position, LoanMade
<1> QED BY <1>1, ShortLists DEF Lent

LEMMA RowsFit == \A n \in 0..7 : RowsOf(n) \in Seq(Entry)
<1> SUFFICES ASSUME NEW n \in 0..7 PROVE RowsOf(n) \in Seq(Entry)
    OBVIOUS
<1>1. \A m \in 1..n : [net |-> m - 3, cum |-> (m * (m - 5)) \div 2] \in Entry
    <2> SUFFICES ASSUME NEW m \in 1..n PROVE [net |-> m - 3, cum |-> (m * (m - 5)) \div 2] \in Entry
        OBVIOUS
    <2>1. m * (m - 5) \in Int
        OBVIOUS
    <2>2. (m * (m - 5)) \div 2 \in Int
        BY <2>1, DivBounds
    <2> QED BY <2>2 DEF Entry
<1> QED BY <1>1 DEF RowsOf

LEMMA BookItself == BookFits(Book)
<1>1. Book.positions \in Seq(LoanMade)
    <2>1. Lent(4, 2, "BH") \in Seq(LoanMade)
        BY LentFits
    <2>2. Book.positions = Lent(4, 2, "BH")
        BY BookIs
    <2> QED BY <2>1, <2>2, Zenon
<1>2. Ledger(Book.rows, Book.size)
    <2>1. Book.rows = <<>> /\ Book.size = 3
        BY BookIs
    <2>2. <<>> \in Seq(Entry)
        BY ShortLists
    <2> QED BY <2>1, <2>2 DEF Ledger
<1>3. Book.units \in Seq(Unit) /\ Book.tenancies \in Seq(Tenancy) /\ Book.deals \in Seq(Deal) /\ Book.holdings \in Seq(Holding)
    BY BookIs, ShortLists, Zenon
<1> QED BY <1>1, <1>2, <1>3, BookIs DEF BookFits

\* A book whose figures of one report fit, the others being Book's.
LEMMA OneBookFits ==
    /\ \A positions \in Seq(LoanMade) : BookFits(WithPositions(positions))
    /\ \A rows, size : Ledger(rows, size) => BookFits(WithRows(rows, size))
    /\ \A units \in Seq(Unit) : BookFits(WithUnits(units))
    /\ \A tenancies \in Seq(Tenancy), deals \in Seq(Deal) : BookFits(WithTenancies(tenancies, deals))
    /\ \A holdings \in Seq(Holding) : BookFits(WithHoldings(holdings))
<1>1. ASSUME NEW positions \in Seq(LoanMade) PROVE BookFits(WithPositions(positions))
    <2> DEFINE x == WithPositions(positions)
    <2>1. x.positions = positions /\ BookBut(x, {"positions"})
        BY BookChanged
    <2> HIDE DEF x
    <2>2. /\ x.part = Book.part /\ x.rows = Book.rows /\ x.size = Book.size /\ x.units = Book.units
          /\ x.tenancies = Book.tenancies /\ x.deals = Book.deals /\ x.holdings = Book.holdings
        BY <2>1 DEF BookBut, BookFields
    <2> QED BY <2>1, <2>2, BookItself DEF BookFits, x
<1>2. ASSUME NEW rows, NEW size, Ledger(rows, size) PROVE BookFits(WithRows(rows, size))
    <2> DEFINE x == WithRows(rows, size)
    <2>1. x.rows = rows /\ x.size = size /\ BookBut(x, {"rows", "size"})
        BY BookChanged
    <2> HIDE DEF x
    <2>2. /\ x.part = Book.part /\ x.positions = Book.positions /\ x.units = Book.units
          /\ x.tenancies = Book.tenancies /\ x.deals = Book.deals /\ x.holdings = Book.holdings
        BY <2>1 DEF BookBut, BookFields
    <2> QED BY <1>2, <2>1, <2>2, BookItself DEF BookFits, x
<1>3. ASSUME NEW units \in Seq(Unit) PROVE BookFits(WithUnits(units))
    <2> DEFINE x == WithUnits(units)
    <2>1. x.units = units /\ BookBut(x, {"units"})
        BY BookChanged
    <2> HIDE DEF x
    <2>2. /\ x.part = Book.part /\ x.positions = Book.positions /\ x.rows = Book.rows /\ x.size = Book.size
          /\ x.tenancies = Book.tenancies /\ x.deals = Book.deals /\ x.holdings = Book.holdings
        BY <2>1 DEF BookBut, BookFields
    <2> QED BY <2>1, <2>2, BookItself DEF BookFits, x
<1>4. ASSUME NEW tenancies \in Seq(Tenancy), NEW deals \in Seq(Deal) PROVE BookFits(WithTenancies(tenancies, deals))
    <2> DEFINE x == WithTenancies(tenancies, deals)
    <2>1. x.tenancies = tenancies /\ x.deals = deals /\ BookBut(x, {"tenancies", "deals"})
        BY BookChanged
    <2> HIDE DEF x
    <2>2. /\ x.part = Book.part /\ x.positions = Book.positions /\ x.rows = Book.rows /\ x.size = Book.size
          /\ x.units = Book.units /\ x.holdings = Book.holdings
        BY <2>1 DEF BookBut, BookFields
    <2> QED BY <2>1, <2>2, BookItself DEF BookFits, x
<1>5. ASSUME NEW holdings \in Seq(Holding) PROVE BookFits(WithHoldings(holdings))
    <2> DEFINE x == WithHoldings(holdings)
    <2>1. x.holdings = holdings /\ BookBut(x, {"holdings"})
        BY BookChanged
    <2> HIDE DEF x
    <2>2. /\ x.part = Book.part /\ x.positions = Book.positions /\ x.rows = Book.rows /\ x.size = Book.size
          /\ x.units = Book.units /\ x.tenancies = Book.tenancies /\ x.deals = Book.deals
        BY <2>1 DEF BookBut, BookFields
    <2> QED BY <2>1, <2>2, BookItself DEF BookFits, x
<1> QED BY <1>1, <1>2, <1>3, <1>4, <1>5

LEMMA BooksFit == \A x \in Books : BookFits(x)
<1>1. ASSUME NEW x \in Lending PROVE BookFits(x)
    <2>1. PICK f \in {0, 4, 9}, d \in {2, 20}, r \in {"BH", "SW"} : x = WithPositions(Lent(f, d, r))
        BY DEF Lending
    <2>2. f \in Nat /\ d \in Int
        BY <2>1
    <2>3. Lent(f, d, r) \in Seq(LoanMade)
        BY <2>1, <2>2, LentFits
    <2>4. BookFits(WithPositions(Lent(f, d, r)))
        BY <2>3, OneBookFits
    <2> QED BY <2>1, <2>4
<1>2. ASSUME NEW x \in Ledgers PROVE BookFits(x)
    <2>1. PICK n \in 0..7, k \in {1, 3, 12} : x = WithRows(RowsOf(n), k)
        BY DEF Ledgers
    <2>2. Ledger(RowsOf(n), k)
        BY <2>1, RowsFit, SMTT(15), ZenonT(30) DEF Ledger
    <2>3. BookFits(WithRows(RowsOf(n), k))
        BY <2>2, OneBookFits
    <2> QED BY <2>1, <2>3
<1>3. ASSUME NEW x \in Selling PROVE BookFits(x)
    <2>1. PICK y \in {"AVAILABLE", "RESERVED", "HANDOVER"}, z \in {"AVAILABLE", "RESERVED", "COMPLETED"} :
              x = WithUnits(<<ForSale(y, 5, 1), ForSale(z, 2, 0)>>)
        BY DEF Selling
    <2>2. ForSale(y, 5, 1) \in Unit /\ ForSale(z, 2, 0) \in Unit
        BY <2>1 DEF ForSale, Unit, UnitStages
    <2>3. <<ForSale(y, 5, 1), ForSale(z, 2, 0)>> \in Seq(Unit)
        BY <2>2, ShortLists
    <2>4. BookFits(WithUnits(<<ForSale(y, 5, 1), ForSale(z, 2, 0)>>))
        BY <2>3, OneBookFits
    <2> QED BY <2>1, <2>4
<1>4. ASSUME NEW x \in Running PROVE BookFits(x)
    <2>1. PICK y \in {"OCCUPIED", "AVAILABLE"}, z \in {"OCCUPIED", "SIGNED"}, d \in {"CONSTRUCTION", "COMPLETED"} :
              x = WithTenancies(<<ToLet(y, 3, 1), ToLet(z, 1, 0)>>, <<Pipeline(d, 200, 50), Pipeline("CONSTRUCTION", 100, 100)>>)
        BY DEF Running
    <2>2. ToLet(y, 3, 1) \in Tenancy /\ ToLet(z, 1, 0) \in Tenancy
        BY <2>1 DEF ToLet, Tenancy, TenancyStages
    <2>3. Pipeline(d, 200, 50) \in Deal /\ Pipeline("CONSTRUCTION", 100, 100) \in Deal
        BY <2>1 DEF Pipeline, Deal, DealStages
    <2>4. <<ToLet(y, 3, 1), ToLet(z, 1, 0)>> \in Seq(Tenancy)
        BY <2>2, ShortLists
    <2>5. <<Pipeline(d, 200, 50), Pipeline("CONSTRUCTION", 100, 100)>> \in Seq(Deal)
        BY <2>3, ShortLists
    <2>6. BookFits(WithTenancies(<<ToLet(y, 3, 1), ToLet(z, 1, 0)>>, <<Pipeline(d, 200, 50), Pipeline("CONSTRUCTION", 100, 100)>>))
        BY <2>4, <2>5, OneBookFits
    <2> QED BY <2>1, <2>6
<1>5. ASSUME NEW x \in Invested PROVE BookFits(x)
    <2>1. PICK i \in {-4, 0, Withheld}, j \in {3, Withheld}, c \in {0, 1} : x = WithHoldings(<<Stake(i, 2), Stake(j, c)>>)
        BY DEF Invested
    <2>2. Stake(i, 2) \in Holding /\ Stake(j, c) \in Holding
        BY <2>1 DEF Stake, Holding
    <2>3. <<Stake(i, 2), Stake(j, c)>> \in Seq(Holding)
        BY <2>2, ShortLists
    <2>4. BookFits(WithHoldings(<<Stake(i, 2), Stake(j, c)>>))
        BY <2>3, OneBookFits
    <2> QED BY <2>1, <2>4
<1> QED BY <1>1, <1>2, <1>3, <1>4, <1>5, Zenon DEF Books

LEMMA PartOfQuestion ==
    /\ \A x \in Appraisals : x.part = "appraisal"
    /\ \A x \in Grids : x.part = "grid"
    /\ \A x \in Splits : x.part = "split"
    /\ \A x \in Samples : x.part = "sample"
    /\ \A x \in Lettings : x.part = "income"
    /\ \A x \in Sites : x.part = "site"
    /\ \A x \in Pools : x.part = "pool"
    /\ \A x \in Books : x.part = "book"
    /\ \A x \in Pairs : x.part = "diff"
<1>1. \A x \in Appraisals : x.part = "appraisal"
    BY DEF Appraisals
<1>2. \A x \in Grids : x.part = "grid"
    BY DEF Grids
<1>3. \A x \in Splits : x.part = "split"
    BY DEF Splits
<1>4. \A x \in Samples : x.part = "sample"
    BY DEF Samples
<1>5. \A x \in Lettings : x.part = "income"
    BY DEF Lettings
<1>6. \A x \in Sites : x.part = "site"
    BY SitesFit DEF Fits
<1>7. \A x \in Pools : x.part = "pool"
    BY DEF Pools
<1>8. \A x \in Books : x.part = "book"
    BY BooksFit DEF BookFits
<1>9. \A x \in Pairs : x.part = "diff"
    BY DEF Pairs
<1> QED BY <1>1, <1>2, <1>3, <1>4, <1>5, <1>6, <1>7, <1>8, <1>9

LEMMA PoolAsked ==
    ASSUME NEW x \in Pools
    PROVE  x.points \in Seq([org : Firms, value : Int]) /\ x.mine \in Int
<1>1. PICK n \in {0, 1, 3, 4}, v \in {<<1, 2, 3, 4>>, <<3, 1, 3, 1>>} : \E o \in [1..4 -> Firms] :
          x = [part |-> "pool", points |-> [i \in 1..n |-> Point(o[i], v[i])], mine |-> 2]
    BY DEF Pools
<1>2. PICK o : o \in [1..4 -> Firms]
               /\ x = [part |-> "pool", points |-> [i \in 1..n |-> Point(o[i], v[i])], mine |-> 2]
    BY <1>1
<1>3. \A i \in 1..4 : o[i] \in Firms /\ v[i] \in Int
    BY <1>2
<1>4. \A i \in 1..n : Point(o[i], v[i]) \in [org : Firms, value : Int]
    BY <1>3 DEF Point
<1>5. [i \in 1..n |-> Point(o[i], v[i])] \in Seq([org : Firms, value : Int])
    BY <1>4
<1> QED BY <1>2, <1>5

LEMMA PairAsked ==
    ASSUME NEW x \in Pairs
    PROVE  Version(x.b, {"ltcPct"}, {"phases"}) /\ Version(x.a, {"ltcPct"}, {"phases"})
<1>1. \A v \in Versions : Version(v, {"ltcPct"}, {"phases"})
    <2> SUFFICES ASSUME NEW v \in Versions PROVE Version(v, {"ltcPct"}, {"phases"})
        OBVIOUS
    <2>1. PICK z, c, d, r, p : v = Draft(z, c, d, r, p)
        BY DEF Versions
    <2>2. v.scalars = [ltcPct |-> r] /\ v.counts = [phases |-> p]
        BY <2>1 DEF Draft
    <2> QED BY <2>2 DEF Version, On
<1> QED BY <1>1 DEF Pairs

\* What is proved of every report, of the questions of a run: whoever asks of the pool, a site, a book or two versions, in
\* every behaviour the reports agree with each other and with what they are made from (benchmarks.ts, cost-report.ts,
\* drawdown.ts, stack.ts, cash.ts, covenants.ts, exposure.ts, rollups.ts, lp.ts and compare.ts).
THEOREM ReportsAgree == Figures => []PortfolioReports
<1>1. ASSUME asked \in Sites PROVE Pf!MonitoringAgrees(asked)
    <2>1. SiteFits(asked)
        BY <1>1, SitesFit DEF Fits
    <2>2. Pf!CostsAgree(asked.packages, asked.appraised, asked.contingency, asked.holder)
        <3>1. Trading(Job)
            BY DEF Trading, Job
        <3> QED BY <2>1, <3>1, CostsAdd DEF SiteFits, CostsFit
    <2>3. Pf!BudgetsAddUp(asked.rates, asked.build)
        BY <2>1, BudgetsAdd DEF SiteFits, PlanFits
    <2>4. Pf!DrawdownIsOrdered(asked.build, asked.weights, asked.elapsed, asked.actual, asked.progress)
        BY <2>1, DrawdownOrdered DEF SiteFits, PlanFits, MonthsFit
    <2>5. Pf!StackFundsScheme(asked.stack)
        BY <2>1, StackFunds DEF SiteFits, StackFits, StackFunded
    <2>6. Pf!CashIsSplit(asked.committed, asked.txs)
        <3>1. Priced(Movement)
            BY DEF Priced, Movement
        <3> QED BY <2>1, <3>1, CashSplits DEF SiteFits, BankFits
    <2>7. Pf!CovenantsAreMonotone(asked.covenant, asked.limits)
        BY <2>1, CovenantsMonotone DEF SiteFits, LoanFits
    <2> QED BY <2>2, <2>3, <2>4, <2>5, <2>6, <2>7, Zenon DEF Pf!MonitoringAgrees
<1>2. ASSUME asked \in Pools PROVE Pf!CohortsStayPrivate(asked.points, "us", asked.mine)
    <2>1. "us" \in Firms
        BY DEF Firms
    <2> QED BY <1>2, <2>1, PoolAsked, PoolPrivate
<1>3. ASSUME asked \in Books PROVE Pf!PortfolioHolds(asked)
    <2>1. BookFits(asked)
        BY <1>3, BooksFit
    <2>2. Pf!BookAddsBack(asked.positions)
        <3>1. \A p \in LoanMade : p.facility \in Nat
            BY DEF LoanMade
        <3> QED BY <2>1, <3>1, BookAdds DEF BookFits
    <2>3. Pf!PeriodsAddBack(asked.rows, asked.size)
        BY <2>1, PeriodsAdd DEF BookFits
    <2>4. \A i \in DOMAIN asked.units : Pf!StagesOnlyAdd(asked.units, i)
        BY <2>1, StagesAdd DEF BookFits
    <2>5. Pf!RollUpsAreAdditive(asked.tenancies, asked.tenancies, asked.deals)
        BY <2>1, RollUpsAdd DEF BookFits
    <2>6. Pf!ReturnsAreHonest(asked.holdings)
        BY <2>1, ReturnsBetween DEF BookFits
    <2> QED BY <2>2, <2>3, <2>4, <2>5, <2>6, Zenon DEF Pf!PortfolioHolds
<1>4. ASSUME asked \in Pairs PROVE Pf!DiffIsSymmetric(asked.b, asked.a)
    BY <1>4, PairAsked, DifferencesMirror
<1>5. Asking => PortfolioReports
    <2> SUFFICES ASSUME Asking PROVE PortfolioReports
        OBVIOUS
    <2>1. /\ asked.part = "site" => asked \in Sites
          /\ asked.part = "pool" => asked \in Pools
          /\ asked.part = "book" => asked \in Books
          /\ asked.part = "diff" => asked \in Pairs
        BY PartOfQuestion DEF Asking, Questions
    <2> QED BY <2>1, <1>1, <1>2, <1>3, <1>4 DEF PortfolioReports, SiteReportsAgree, PoolStaysPrivate, PortfolioAddsBack
<1>6. PortfolioReports /\ [Answering]_asked => PortfolioReports'
    BY DEF Answering, PortfolioReports, SiteReportsAgree, PoolStaysPrivate, PortfolioAddsBack
<1> QED BY <1>5, <1>6, PTL DEF Figures
==================================================================================
