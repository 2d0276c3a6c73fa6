--------------------------- MODULE SubscriptionsProofs ---------------------------
(***************************************************************************)
(* Type correctness of Subscriptions and everything its run checks of it,   *)
(* for any number of requests, checkouts, plans and subscriptions made by   *)
(* hand, and any bounds on what happens inside Stripe.                      *)
(***************************************************************************)
EXTENDS Subscriptions, FiniteSetTheorems, TLAPS

\* A checkout nobody can complete any more, and one whose subscription is over besides.
Shut(s) == sessions[s].status \in {"expired", "complete"}
Over(s) == Shut(s) /\ subs[s].status \notin Nonterminal

\* Somebody named a plan at Stripe.
Bought == \E s \in Sub : subs[s].plan # None

(* What is true at Stripe.  The sessions form a chain: each but the newest is *)
(* over, and each is what the key of the one before it answers, so a key that *)
(* answers nothing is the newest session's.                                   *)
StripeOK ==
    /\ \A s, t \in Session : s < t /\ t \in Created => Over(s)
    /\ \A s \in Session : s \in Created => key[IF s = 1 THEN None ELSE s - 1] = s
    /\ \A s \in Session : subs[s].status \in Nonterminal => sessions[s].status = "complete"
    /\ \A s \in Sub : subs[s].status = "none" => subs[s].plan = None
    /\ customer = "deleted" => Live = {} /\ Open = {}

(* What a request knows: the sessions up to the one it names were shut when   *)
(* it listed them and over when it looked again; a deletion that knew the     *)
(* customer has seen it deleted; a paid plan it carries was bought.           *)
RequestOK(r) ==
    /\ r.at \in {"recheck", "create"} /\ r.previous # None =>
          /\ r.previous \in Session
          /\ \A s \in Session : s <= r.previous => Shut(s) /\ (r.at = "create" => Over(s))
    /\ r.at = "erase" /\ r.billed => customer = "deleted"
    /\ r.mirror.plan # Trial => Bought
    /\ r.next.plan # Trial => Bought

\* Every callback in hand is of an event still owed.
EventsOK ==
    /\ IsFiniteSet(Callbacks)
    /\ Cardinality(Callbacks) <= events
    /\ events <= raised

(* The inductive invariant.                                                  *)
IInv ==
    /\ TypeOK
    /\ StripeOK
    /\ \A c \in Caller : RequestOK(proc[c])
    /\ org.mirror.plan # Trial => Bought
    /\ EventsOK

\* Nothing at Stripe is undone: what is shut or over stays so, a purchase stays made.
Forward ==
    /\ \A s \in Session : (Shut(s) => Shut(s)') /\ (Over(s) => Over(s)')
    /\ Bought => Bought'
    /\ customer = "deleted" => customer' = "deleted"

-------------------------------------------------------------------------------
LEMMA Constants ==
    /\ AnyPlan \in Paid /\ AnyPlan # None /\ Trial \in Plan /\ Paid \subseteq Plan /\ None \notin Plan
    /\ None \notin Session /\ Session \subseteq Sub /\ None \notin Sub
    /\ Unsubscribed \in Mirror /\ Unsubscribed.plan = Trial
    /\ \A s \in Session : s \in Nat \ {0}
    BY SubscriptionsAssumption DEF AnyPlan, Plan, Session, Sub, Unsubscribed, Mirror

LEMMA IdleRequest ==
    /\ Idle \in Request /\ Idle.at = "idle" /\ ~Idle.callback
    /\ Idle.mirror.plan = Trial /\ Idle.next.plan = Trial
<1>1. Idle = [at |-> "idle", plan |-> AnyPlan, previous |-> None,
              change |-> [plan |-> None, cancelling |-> FALSE], sub |-> None,
              mirror |-> Unsubscribed, next |-> Unsubscribed, billed |-> FALSE, callback |-> FALSE]
    BY DEF Idle
<1>2. [plan |-> None, cancelling |-> FALSE] \in Change
    BY DEF Change
<1> HIDE DEF Idle
<1> QED BY <1>1, <1>2, Constants DEF Request

LEMMA IdleIsOK == RequestOK(Idle)
    BY IdleRequest DEF RequestOK

\* A request is told as much after a step at Stripe as before it.
LEMMA ToldStays ==
    ASSUME Forward, NEW r, RequestOK(r)
    PROVE  RequestOK(r)'
    BY DEF Forward, RequestOK

LEMMA NothingForward ==
    ASSUME UNCHANGED <<customer, sessions, subs>>
    PROVE  Forward
    BY DEF Forward, Shut, Over, Bought

LEMMA StripeStays ==
    ASSUME StripeOK, UNCHANGED stripe
    PROVE  StripeOK'
    BY DEF StripeOK, stripe, Over, Shut, Created, Live, Open

\* How a request's step leaves the others, and itself.
LEMMA Going ==
    ASSUME IInv, Forward, NEW c \in Caller, NEW r \in Request, Go(c, r), RequestOK(r)'
    PROVE  /\ proc' \in [Caller -> Request]
           /\ \A d \in Caller : RequestOK(proc[d])'
           /\ \A d \in Caller \ {c} : proc'[d] = proc[d]
           /\ proc'[c] = r
<1>1. proc \in [Caller -> Request]
    BY DEF IInv, TypeOK
<1>2. proc'[c] = r /\ \A d \in Caller \ {c} : proc'[d] = proc[d]
    BY <1>1 DEF Go
<1>3. \A d \in Caller \ {c} : RequestOK(proc[d])'
    <2> SUFFICES ASSUME NEW d \in Caller \ {c} PROVE RequestOK(proc[d])'
        OBVIOUS
    <2> PICK q : q = proc[d]
        OBVIOUS
    <2>1. RequestOK(q)
        BY DEF IInv
    <2>2. RequestOK(q)'
        BY <2>1, ToldStays
    <2> QED BY <1>2, <2>2 DEF RequestOK
<1> QED BY <1>1, <1>2, <1>3 DEF Go, RequestOK

-------------------------------------------------------------------------------
(***************************************************************************)
(* Callbacks                                                                *)
(***************************************************************************)

\* A request that was no callback and becomes none, or ends as one that is not acknowledged.
LEMMA EventsStay ==
    ASSUME IInv, NEW c \in Caller, NEW r \in Request, Go(c, r), r.callback => proc[c].callback,
           \/ events' = events /\ raised' = raised
           \/ events' = events + 1 /\ raised' = raised + 1
           \/ proc[c].callback /\ ~r.callback /\ events' = events - 1 /\ raised' = raised
    PROVE  EventsOK' /\ events' \in Nat
<1>1. proc \in [Caller -> Request] /\ events \in Nat /\ raised \in Nat /\ EventsOK
    BY SubscriptionsAssumption DEF IInv, TypeOK
<1>2. Callbacks' = Callbacks \/ (proc[c].callback /\ Callbacks' = Callbacks \ {c})
    BY <1>1 DEF Callbacks, Go, Request
<1>3. Cardinality(Callbacks) \in Nat
    BY <1>1, FS_CardinalityType DEF EventsOK
<1>4. CASE proc[c].callback /\ ~r.callback
    <2>1. c \in Callbacks /\ Callbacks' = Callbacks \ {c}
        BY <1>1, <1>4 DEF Callbacks, Go, Request
    <2>2. IsFiniteSet(Callbacks') /\ Cardinality(Callbacks') = Cardinality(Callbacks) - 1
        BY <1>1, <2>1, FS_RemoveElement DEF EventsOK
    <2>3. Cardinality(Callbacks') \in Nat
        BY <2>2, FS_CardinalityType
    <2> QED BY <1>1, <1>3, <2>2, <2>3 DEF EventsOK
<1>5. CASE ~(proc[c].callback /\ ~r.callback)
    <2>1. Callbacks' = Callbacks
        BY <1>1, <1>5 DEF Callbacks, Go, Request
    <2> QED BY <1>1, <1>3, <1>5, <2>1 DEF EventsOK
<1> QED BY <1>4, <1>5

-------------------------------------------------------------------------------
(***************************************************************************)
(* Steps of a request that leave Stripe alone                               *)
(***************************************************************************)
LEMMA LocalStep ==
    ASSUME IInv, NEW c \in Caller, NEW r \in Request, Go(c, r), UNCHANGED <<stripe, bounds>>,
           org' \in Org, org'.mirror.plan # Trial => Bought, RequestOK(r),
           r.callback => proc[c].callback,
           events' = events \/ (proc[c].callback /\ ~r.callback /\ events' = events - 1)
    PROVE  IInv'
<1>1. Forward
    BY NothingForward DEF stripe
<1>2. RequestOK(r)' /\ (org'.mirror.plan # Trial => Bought')
    BY <1>1, ToldStays DEF Forward
<1>3. proc' \in [Caller -> Request] /\ \A d \in Caller : RequestOK(proc[d])'
    BY <1>1, <1>2, Going
<1>4. EventsOK' /\ events' \in Nat
    BY EventsStay DEF bounds
<1>5. TypeOK'
    BY <1>3, <1>4, SubscriptionsAssumption DEF IInv, TypeOK, stripe, bounds, EventsOK
<1>6. StripeOK'
    BY StripeStays DEF IInv
<1> QED BY <1>2, <1>3, <1>4, <1>5, <1>6 DEF IInv

\* The commonest kinds: the request ends, or goes on to another step with what it has.
LEMMA FinishStep ==
    ASSUME IInv, NEW c \in Caller, Finish(c), UNCHANGED <<org, stripe, events, bounds>>
    PROVE  IInv'
<1>1. org \in Org /\ (org.mirror.plan # Trial => Bought)
    BY DEF IInv, TypeOK
<1> QED BY <1>1, LocalStep, IdleRequest, IdleIsOK DEF Finish

LEMMA StepTo ==
    ASSUME IInv, NEW c \in Caller,
           NEW step \in {"live", "customer", "save", "open", "list", "sole", "change", "read", "fetch", "commit",
                         "closing", "expire", "delete"}
    PROVE  LET r == [proc[c] EXCEPT !.at = step]
           IN  r \in Request /\ RequestOK(r) /\ (r.callback => proc[c].callback)
<1>1. proc[c] \in Request /\ RequestOK(proc[c])
    BY DEF IInv, TypeOK
<1> DEFINE r == [proc[c] EXCEPT !.at = step]
<1>2. r \in Request /\ r.at = step /\ r.mirror = proc[c].mirror /\ r.next = proc[c].next /\ r.callback = proc[c].callback
    BY <1>1 DEF Request
<1> HIDE DEF r
<1>3. RequestOK(r)
    BY <1>1, <1>2 DEF RequestOK
<1> QED BY <1>2, <1>3 DEF r

LEMMA StepLocally ==
    ASSUME IInv, NEW c \in Caller,
           NEW step \in {"live", "customer", "save", "open", "list", "sole", "change", "read", "fetch", "commit",
                         "closing", "expire", "delete"},
           Step(c, step), UNCHANGED <<stripe, events, bounds>>,
           org' \in Org, org'.mirror.plan # Trial => Bought
    PROVE  IInv'
<1>1. [proc[c] EXCEPT !.at = step] \in Request /\ RequestOK([proc[c] EXCEPT !.at = step])
          /\ ([proc[c] EXCEPT !.at = step].callback => proc[c].callback)
    BY StepTo
<1> QED BY <1>1, LocalStep DEF Step

\* What a request arrives with.
Fresh(r) ==
    /\ r.at \in {"live", "customer", "sole", "read", "closing", "erase"}
    /\ r.mirror = Idle.mirror /\ r.next = Idle.next
    /\ r.at = "erase" => ~r.billed

LEMMA FreshIsOK ==
    ASSUME NEW r, Fresh(r)
    PROVE  RequestOK(r)
    BY IdleRequest DEF Fresh, RequestOK

LEMMA ArrivePreserves ==
    ASSUME IInv, NEW c \in Caller, Arrive(c), ~Callback(c)
    PROVE  IInv'
<1>0. Idle \in Request /\ ~Idle.callback
    BY IdleRequest
<1>1. PICK r \in Request : /\ Go(c, r) /\ Fresh(r) /\ ~r.callback
                           /\ UNCHANGED <<org, stripe, events, bounds>>
    <2>1. CASE \E p \in Paid : StartCheckout(c, p)
        <3> PICK p \in Paid : StartCheckout(c, p)
            BY <2>1
        <3> DEFINE s == IF org.customer THEN "live" ELSE "customer"
                   r == [Idle EXCEPT !.plan = p, !.at = s]
        <3>1. s \in {"live", "customer"}
            OBVIOUS
        <3>2. Go(c, r) /\ UNCHANGED <<org, stripe, events, bounds>>
            BY DEF StartCheckout
        <3> HIDE DEF s
        <3>3. r \in Request /\ Fresh(r) /\ ~r.callback
            BY <1>0, <3>1 DEF Request, Fresh
        <3> QED BY <3>2, <3>3
    <2>2. CASE \E ch \in Change : StartChange(c, ch)
        <3> PICK ch \in Change : StartChange(c, ch)
            BY <2>2
        <3> DEFINE r == [Idle EXCEPT !.at = "sole", !.change = ch]
        <3>1. Go(c, r) /\ UNCHANGED <<org, stripe, events, bounds>>
            BY DEF StartChange
        <3>2. r \in Request /\ Fresh(r) /\ ~r.callback
            BY <1>0 DEF Request, Fresh
        <3> QED BY <3>1, <3>2
    <2>3. CASE Sync(c)
        <3> DEFINE r == [Idle EXCEPT !.at = "read"]
        <3>1. Go(c, r) /\ UNCHANGED <<org, stripe, events, bounds>>
            BY <2>3 DEF Sync
        <3>2. r \in Request /\ Fresh(r) /\ ~r.callback
            BY <1>0 DEF Request, Fresh
        <3> QED BY <3>1, <3>2
    <2>4. CASE DeleteWorkspace(c)
        <3> DEFINE b == org.customer
                   s == IF org.customer THEN "closing" ELSE "erase"
                   r == [Idle EXCEPT !.billed = b, !.at = s]
        <3>1. b \in BOOLEAN /\ s \in {"closing", "erase"} /\ (s = "erase" => ~b)
            BY DEF IInv, TypeOK, Org
        <3>2. Go(c, r) /\ UNCHANGED <<org, stripe, events, bounds>>
            BY <2>4 DEF DeleteWorkspace
        <3> HIDE DEF s, b
        <3>3. r \in Request /\ Fresh(r) /\ ~r.callback
            BY <1>0, <3>1 DEF Request, Fresh
        <3> QED BY <3>2, <3>3
    <2>5. \A p \in Paid : [plan |-> p, cancelling |-> FALSE] \in Change
        BY DEF Change
    <2>6. \A f \in BOOLEAN : [plan |-> None, cancelling |-> f] \in Change
        BY DEF Change
    <2>7. ChangePlan(c) \/ CancelPlan(c) \/ ResumePlan(c) => \E ch \in Change : StartChange(c, ch)
        BY <2>5, <2>6 DEF ChangePlan, CancelPlan, ResumePlan
    <2> QED BY <2>1, <2>2, <2>3, <2>4, <2>7 DEF Arrive
<1>2. org \in Org /\ (org.mirror.plan # Trial => Bought)
    BY DEF IInv, TypeOK
<1> QED BY <1>1, <1>2, FreshIsOK, LocalStep

\* A callback takes one of the events still owed, or acknowledges one nobody remembers.
LEMMA CallbackPreserves ==
    ASSUME IInv, NEW c \in Caller, Callback(c)
    PROVE  IInv'
<1>1. proc \in [Caller -> Request] /\ events \in Nat /\ raised \in Nat /\ EventsOK
    BY SubscriptionsAssumption DEF IInv, TypeOK
<1>2. Cardinality(Callbacks) \in Nat /\ Cardinality(Callbacks) < events
    BY <1>1, FS_CardinalityType DEF EventsOK, Callback
<1>3. CASE org.there /\ org.customer
    <2> DEFINE r == [Idle EXCEPT !.at = "read", !.callback = TRUE]
    <2>1. r \in Request /\ r.at = "read" /\ r.callback /\ r.mirror = Idle.mirror /\ r.next = Idle.next
        BY IdleRequest DEF Request
    <2>2. Go(c, r) /\ UNCHANGED <<org, stripe, events, bounds>>
        BY <1>3 DEF Callback
    <2> HIDE DEF r
    <2>3. RequestOK(r)
        BY <2>1, IdleRequest DEF RequestOK
    <2>4. Forward
        BY <2>2, NothingForward DEF stripe
    <2>5. RequestOK(r)'
        BY <2>3, <2>4, ToldStays
    <2>6. proc' \in [Caller -> Request] /\ \A d \in Caller : RequestOK(proc[d])'
        BY <2>1, <2>2, <2>4, <2>5, Going
    <2>7. Callbacks' = Callbacks \cup {c}
        BY <1>1, <2>1, <2>2 DEF Callbacks, Go, Request
    <2>8. IsFiniteSet(Callbacks') /\ Cardinality(Callbacks') <= Cardinality(Callbacks) + 1
        BY <1>1, <1>2, <2>7, FS_AddElement DEF EventsOK
    <2>9. EventsOK'
        <3>1. Cardinality(Callbacks') \in Nat
            BY <2>8, FS_CardinalityType
        <3> QED BY <1>1, <1>2, <2>2, <2>8, <3>1 DEF EventsOK, bounds
    <2>10. TypeOK'
        BY <2>2, <2>6 DEF IInv, TypeOK, stripe, bounds
    <2>11. StripeOK' /\ (org'.mirror.plan # Trial => Bought')
        BY <2>2, <2>4, StripeStays DEF IInv, Forward
    <2> QED BY <2>6, <2>9, <2>10, <2>11 DEF IInv
<1>4. CASE ~(org.there /\ org.customer)
    <2>1. events' = events - 1 /\ UNCHANGED <<org, proc, stripe, bounds>>
        BY <1>4 DEF Callback
    <2>2. Callbacks' = Callbacks
        BY <2>1 DEF Callbacks
    <2>3. EventsOK' /\ events' \in 0..MaxEvents
            <3>1. events' \in Nat /\ events' <= events /\ Cardinality(Callbacks) <= events'
            BY <1>1, <1>2, <2>1
        <3>2. raised' = raised /\ events \in 0..MaxEvents /\ MaxEvents \in Nat
            BY <2>1, SubscriptionsAssumption DEF bounds, IInv, TypeOK
        <3>3. EventsOK'
            BY <1>1, <2>2, <3>1, <3>2 DEF EventsOK
        <3> QED BY <3>1, <3>2, <3>3
    <2>4. Forward
        BY <2>1, NothingForward DEF stripe
    <2>5. \A d \in Caller : RequestOK(proc[d])'
        <3> SUFFICES ASSUME NEW d \in Caller PROVE RequestOK(proc[d])'
            OBVIOUS
        <3> QED BY <2>1 DEF IInv, RequestOK, Shut, Over, Bought, stripe
    <2>6. TypeOK'
        BY <2>1, <2>3 DEF IInv, TypeOK, stripe, bounds
    <2>7. StripeOK' /\ (org'.mirror.plan # Trial => Bought')
        BY <2>1, <2>4, StripeStays DEF IInv, Forward
    <2> QED BY <2>3, <2>5, <2>6, <2>7 DEF IInv
<1> QED BY <1>3, <1>4

\* The list of sessions, with nothing open, shuts every one of them out; the second look
\* at the live subscriptions shows them over.
LEMMA ListPreserves ==
    ASSUME IInv, NEW c \in Caller, ListSessions(c)
    PROVE  IInv'
<1>1. proc[c] \in Request /\ RequestOK(proc[c]) /\ org \in Org /\ (org.mirror.plan # Trial => Bought)
          /\ sessions \in [Session -> Checkout]
    BY DEF IInv, TypeOK
<1>2. UNCHANGED <<org, stripe, events, bounds>>
    BY DEF ListSessions
<1>3. CASE Finish(c)
    BY <1>2, <1>3, FinishStep
<1>4. ASSUME NEW n \in Session \cup {None}, Go(c, [proc[c] EXCEPT !.at = "recheck", !.previous = n]),
             Open = {}, n # None => Newest(n)
      PROVE  IInv'
    <2> DEFINE r == [proc[c] EXCEPT !.at = "recheck", !.previous = n]
    <2>1. r \in Request /\ r.at = "recheck" /\ r.previous = n /\ r.mirror = proc[c].mirror
              /\ r.next = proc[c].next /\ r.callback = proc[c].callback
        BY <1>1 DEF Request
    <2>2. Go(c, r)
        BY <1>4
    <2> HIDE DEF r
    <2>3. ASSUME n # None, NEW s \in Session, s <= n PROVE Shut(s)
        <3>1. n \in Created /\ n \in Session
            BY <1>4, <2>3 DEF Newest, Created
        <3>2. s \in Created
            <4>1. CASE s = n
                BY <3>1, <4>1
            <4>2. CASE s # n
                BY <2>3, <3>1, <4>2 DEF IInv, StripeOK, Over, Shut, Created, Session
            <4> QED BY <4>1, <4>2
        <3>3. sessions[s].status # "open" /\ sessions[s].status # "none" /\ sessions[s] \in Checkout
            BY <1>1, <1>4, <3>2 DEF Open, Created
        <3> QED BY <3>3 DEF Shut, Checkout
    <2>4. RequestOK(r)
        BY <1>1, <2>1, <2>3 DEF RequestOK
    <2> QED BY <1>1, <1>2, <2>1, <2>2, <2>4, LocalStep
<1> QED BY <1>3, <1>4 DEF ListSessions, Newest, Created

LEMMA RecheckPreserves ==
    ASSUME IInv, NEW c \in Caller, Recheck(c)
    PROVE  IInv'
<1>1. proc[c] \in Request /\ RequestOK(proc[c]) /\ org \in Org /\ (org.mirror.plan # Trial => Bought)
    BY DEF IInv, TypeOK
<1>2. UNCHANGED <<org, stripe, events, bounds>>
    BY DEF Recheck
<1>3. CASE Finish(c)
    BY <1>2, <1>3, FinishStep
<1>4. CASE StillNone /\ Step(c, "create")
    <2> DEFINE r == [proc[c] EXCEPT !.at = "create"]
    <2>1. r \in Request /\ r.at = "create" /\ r.previous = proc[c].previous /\ r.mirror = proc[c].mirror
              /\ r.next = proc[c].next /\ r.callback = proc[c].callback
        BY <1>1 DEF Request
    <2>2. Go(c, r)
        BY <1>4 DEF Step
    <2> HIDE DEF r
    <2>3. \A s \in Session : subs[s].status \notin Nonterminal
        BY <1>4, Constants DEF StillNone, Live
    <2>4. RequestOK(r)
        BY <1>1, <2>1, <2>3 DEF RequestOK, Over, Recheck, At
    <2> QED BY <1>1, <1>2, <2>1, <2>2, <2>4, LocalStep
<1> QED BY <1>3, <1>4 DEF Recheck

LEMMA CheckingPreserves ==
    ASSUME IInv, NEW c \in Caller,
           CheckLive(c) \/ AssertOpen(c) \/ SaveCustomer(c) \/ ReadCustomer(c)
    PROVE  IInv'
<1>1. org \in Org /\ (org.mirror.plan # Trial => Bought)
    BY DEF IInv, TypeOK
<1>2. CASE CheckLive(c)
    BY <1>1, <1>2, FinishStep, StepLocally DEF CheckLive
<1>3. CASE AssertOpen(c)
    BY <1>1, <1>3, FinishStep, StepLocally DEF AssertOpen
<1>4. CASE SaveCustomer(c)
    <2>1. CASE org.there
        <3>1. org' = [org EXCEPT !.customer = TRUE]
            BY <1>4, <2>1 DEF SaveCustomer
        <3>2. org' \in Org /\ org'.mirror = org.mirror
            BY <1>1, <3>1 DEF Org
        <3> QED BY <1>1, <1>4, <2>1, <3>2, StepLocally DEF SaveCustomer
    <2>2. CASE ~org.there
        BY <1>4, <2>2, FinishStep DEF SaveCustomer
    <2> QED BY <2>1, <2>2
<1>5. CASE ReadCustomer(c)
    <2>1. CASE customer # "deleted"
        BY <1>1, <1>5, <2>1, StepLocally DEF ReadCustomer
    <2>2. CASE customer = "deleted"
        <3> DEFINE r == [proc[c] EXCEPT !.at = "erase"]
        <3>1. proc[c] \in Request /\ RequestOK(proc[c])
            BY DEF IInv, TypeOK
        <3>2. r \in Request /\ r.at = "erase" /\ r.mirror = proc[c].mirror
                  /\ r.next = proc[c].next /\ r.callback = proc[c].callback
            BY <3>1 DEF Request
        <3>3. Go(c, r) /\ UNCHANGED <<org, stripe, events, bounds>>
            BY <1>5, <2>2 DEF ReadCustomer, Step
        <3> HIDE DEF r
        <3>4. RequestOK(r)
            BY <2>2, <3>1, <3>2 DEF RequestOK
        <3> QED BY <1>1, <3>2, <3>3, <3>4, LocalStep
    <2> QED BY <2>1, <2>2
<1> QED BY <1>2, <1>3, <1>4, <1>5

LEMMA SolePreserves ==
    ASSUME IInv, NEW c \in Caller, SoleSubscription(c)
    PROVE  IInv'
<1>1. proc[c] \in Request /\ RequestOK(proc[c]) /\ org \in Org /\ (org.mirror.plan # Trial => Bought)
    BY DEF IInv, TypeOK
<1>2. UNCHANGED <<org, stripe, events, bounds>>
    BY DEF SoleSubscription
<1>3. CASE Finish(c)
    BY <1>2, <1>3, FinishStep
<1>4. CASE ~Finish(c)
    <2>1. PICK s \in Live : LET already == proc[c].change.plan # None /\ subs[s].plan = proc[c].change.plan IN
            Go(c, [proc[c] EXCEPT !.at = IF already /\ ~subs[s].cancelling THEN "read" ELSE "change",
                                  !.sub = s, !.change.plan = IF already THEN None ELSE @])
        BY <1>4 DEF SoleSubscription
    <2> DEFINE already == proc[c].change.plan # None /\ subs[s].plan = proc[c].change.plan
               step == IF already /\ ~subs[s].cancelling THEN "read" ELSE "change"
               ch == [proc[c].change EXCEPT !.plan = IF already THEN None ELSE proc[c].change.plan]
               r == [proc[c] EXCEPT !.at = step, !.sub = s, !.change = ch]
    <2>2. ch \in Change /\ step \in {"read", "change"} /\ s \in Sub
        BY <1>1 DEF Request, Change, Live
    <2>3. Go(c, r)
        BY <1>1, <2>1 DEF Request
    <2> HIDE DEF step, ch
    <2>4. r \in Request /\ r.at = step /\ r.mirror = proc[c].mirror
              /\ r.next = proc[c].next /\ r.callback = proc[c].callback
        BY <1>1, <2>2 DEF Request
    <2> HIDE DEF r
    <2>5. RequestOK(r)
        BY <1>1, <2>2, <2>4 DEF RequestOK
    <2> QED BY <1>1, <1>2, <2>3, <2>4, <2>5, LocalStep
<1> QED BY <1>3, <1>4

\* The mirror a reconciliation prepares grants a paid plan only where one was bought.
LEMMA ReflectedOK ==
    ASSUME IInv, NEW m \in Mirror, m.plan # Trial => Bought
    PROVE  Reflected(m) \in Mirror /\ (Reflected(m).plan # Trial => Bought)
<1>1. CASE Cardinality(Live) > 1 \/ Live = {}
    BY <1>1, Constants DEF Reflected
<1>2. CASE ~(Cardinality(Live) > 1) /\ Live # {}
    <2> DEFINE s == CHOOSE t \in Live : TRUE
               p == IF subs[s].status \notin Granting THEN Trial
                    ELSE IF subs[s].plan = None THEN m.plan ELSE subs[s].plan
    <2>1. s \in Sub /\ subs[s] \in Subscription /\ subs[s].status \in Nonterminal
        BY <1>2 DEF Live, IInv, TypeOK
    <2>2. Reflected(m) = [plan |-> p, sub |-> s, status |-> subs[s].status, cancelling |-> subs[s].cancelling]
        BY <1>2 DEF Reflected
    <2> HIDE DEF s
    <2>3. p \in Plan /\ (p # Trial => Bought)
        BY <2>1, Constants DEF Subscription, Mirror, Bought
    <2>4. subs[s].cancelling \in BOOLEAN
        BY <2>1 DEF Subscription
    <2> HIDE DEF p
    <2> QED BY <2>1, <2>2, <2>3, <2>4 DEF Mirror
<1> QED BY <1>1, <1>2

LEMMA ReconcilePreserves ==
    ASSUME IInv, NEW c \in Caller, ReadOrg(c) \/ FetchLive(c) \/ Commit(c)
    PROVE  IInv'
<1>1. proc[c] \in Request /\ RequestOK(proc[c]) /\ org \in Org /\ (org.mirror.plan # Trial => Bought)
          /\ proc[c].mirror \in Mirror /\ proc[c].next \in Mirror /\ org.mirror \in Mirror
    BY DEF IInv, TypeOK, Request, Org
<1>2. ASSUME NEW o \in Org, org' = o, o.mirror.plan # Trial => Bought, Finish(c), UNCHANGED <<stripe, bounds>>,
             events' = events \/ Answer(c)
      PROVE  IInv'
    <2>1. events' = events \/ (proc[c].callback /\ events' = events - 1)
        BY <1>2 DEF Answer
    <2> QED BY <1>2, <2>1, IdleRequest, IdleIsOK, LocalStep DEF Finish
<1>3. CASE ReadOrg(c)
    <2>1. CASE org.there /\ org.customer
        <3> DEFINE r == [proc[c] EXCEPT !.at = "fetch", !.mirror = org.mirror]
        <3>1. r \in Request /\ r.at = "fetch" /\ r.mirror = org.mirror
                  /\ r.next = proc[c].next /\ r.callback = proc[c].callback
            BY <1>1 DEF Request
        <3>2. Go(c, r) /\ UNCHANGED <<org, stripe, events, bounds>>
            BY <1>3, <2>1 DEF ReadOrg
        <3> HIDE DEF r
        <3>3. RequestOK(r)
            BY <1>1, <3>1 DEF RequestOK
        <3> QED BY <1>1, <3>1, <3>2, <3>3, LocalStep
    <2>2. CASE ~(org.there /\ org.customer)
        BY <1>1, <1>2, <1>3, <2>2 DEF ReadOrg
    <2> QED BY <2>1, <2>2
<1>4. CASE FetchLive(c)
    <2> DEFINE m == Reflected(proc[c].mirror)
               r == [proc[c] EXCEPT !.at = "commit", !.next = m]
    <2>1. m \in Mirror /\ (m.plan # Trial => Bought)
        BY <1>1, ReflectedOK DEF RequestOK
    <2>2. Go(c, r) /\ UNCHANGED <<org, stripe, events, bounds>>
        BY <1>4 DEF FetchLive
    <2> HIDE DEF m
    <2>3. r \in Request /\ r.at = "commit" /\ r.mirror = proc[c].mirror
              /\ r.next = m /\ r.callback = proc[c].callback
        BY <1>1, <2>1 DEF Request
    <2> HIDE DEF r
    <2>4. RequestOK(r)
        BY <1>1, <2>1, <2>3 DEF RequestOK
    <2> QED BY <1>1, <2>2, <2>3, <2>4, LocalStep
<1>5. CASE Commit(c)
    <2>1. CASE Unmoved(c)
        <3> DEFINE o == [org EXCEPT !.mirror = proc[c].next]
        <3>1. o \in Org /\ o.mirror = proc[c].next
            BY <1>1 DEF Org
        <3>2. org' = o
            BY <1>5, <2>1 DEF Commit
        <3> HIDE DEF o
        <3> QED BY <1>1, <1>2, <1>5, <2>1, <3>1, <3>2 DEF Commit, RequestOK
    <2>2. CASE ~Unmoved(c)
        BY <1>1, <1>2, <1>5, <2>2 DEF Commit
    <2> QED BY <2>1, <2>2
<1> QED BY <1>3, <1>4, <1>5

LEMMA ErasePreserves ==
    ASSUME IInv, NEW c \in Caller, Erase(c) \/ Fail(c)
    PROVE  IInv'
<1>1. org \in Org /\ (org.mirror.plan # Trial => Bought)
    BY DEF IInv, TypeOK
<1>2. CASE Erase(c)
    <2>1. org' \in Org /\ org'.mirror = org.mirror
        BY <1>1, <1>2 DEF Erase, Org
    <2> QED BY <1>1, <1>2, <2>1, IdleRequest, IdleIsOK, LocalStep DEF Erase, Finish
<1>3. CASE Fail(c)
    BY <1>3, FinishStep DEF Fail
<1> QED BY <1>2, <1>3

-------------------------------------------------------------------------------
(***************************************************************************)
(* Steps that change Stripe                                                 *)
(***************************************************************************)

\* What such a step leaves to show, whoever takes it.
LEMMA StripeStep ==
    ASSUME IInv, Forward, UNCHANGED org, StripeOK', EventsOK',
           proc' \in [Caller -> Request], \A c \in Caller : RequestOK(proc[c])',
           customer' \in {"none", "open", "deleted"}, sessions' \in [Session -> Checkout],
           key' \in [Session \cup {None} -> Session \cup {None}], subs' \in [Sub -> Subscription],
           changes' \in 0..MaxChanges, raised' \in 0..MaxEvents, events' \in Nat
    PROVE  IInv'
<1>1. TypeOK'
    BY SubscriptionsAssumption DEF IInv, TypeOK, EventsOK
<1>2. org'.mirror.plan # Trial => Bought'
    BY DEF IInv, Forward
<1> QED BY <1>1, <1>2 DEF IInv

\* A step of a request that goes on, or ends, with nothing new to know.
LEMMA RequestStep ==
    ASSUME IInv, Forward, UNCHANGED org, StripeOK', NEW c \in Caller, NEW r \in Request, Go(c, r), RequestOK(r)',
           r.callback => proc[c].callback,
           customer' \in {"none", "open", "deleted"}, sessions' \in [Session -> Checkout],
           key' \in [Session \cup {None} -> Session \cup {None}], subs' \in [Sub -> Subscription],
           changes' = changes,
           \/ events' = events /\ raised' = raised
           \/ events' = events + 1 /\ raised' = raised + 1 /\ raised < MaxEvents
    PROVE  IInv'
<1>1. proc' \in [Caller -> Request] /\ \A d \in Caller : RequestOK(proc[d])'
    BY Going
<1>2. EventsOK' /\ events' \in Nat
    BY EventsStay
<1>3. raised' \in 0..MaxEvents /\ changes' \in 0..MaxChanges
    BY SubscriptionsAssumption DEF IInv, TypeOK
<1> QED BY <1>1, <1>2, <1>3, StripeStep

\* A step of nobody's request.
LEMMA OutsideStep ==
    ASSUME IInv, Forward, UNCHANGED <<org, proc>>, StripeOK',
           customer' \in {"none", "open", "deleted"}, sessions' \in [Session -> Checkout],
           key' \in [Session \cup {None} -> Session \cup {None}], subs' \in [Sub -> Subscription],
           changes' \in 0..MaxChanges,
           \/ events' = events /\ raised' = raised
           \/ events' = events + 1 /\ raised' = raised + 1 /\ raised < MaxEvents
    PROVE  IInv'
<1>1. \A d \in Caller : RequestOK(proc[d])'
    <2> SUFFICES ASSUME NEW d \in Caller PROVE RequestOK(proc[d])'
        OBVIOUS
    <2> PICK q : q = proc[d]
        OBVIOUS
    <2>1. RequestOK(q)'
        BY ToldStays DEF IInv
    <2> QED BY <2>1 DEF RequestOK
<1>2. raised' \in 0..MaxEvents /\ events \in Nat /\ raised \in Nat /\ events' \in Nat
    BY SubscriptionsAssumption DEF IInv, TypeOK
<1>3. EventsOK'
    <2>1. Callbacks' = Callbacks
        BY DEF Callbacks
    <2>2. Cardinality(Callbacks) \in Nat
        BY FS_CardinalityType DEF EventsOK, IInv
    <2> QED BY <1>2, <2>1, <2>2 DEF EventsOK, IInv
<1>4. proc' \in [Caller -> Request]
    BY DEF IInv, TypeOK
<1> QED BY <1>1, <1>2, <1>3, <1>4, StripeStep

\* A new session is the one after the newest: whoever asks for it has seen every session
\* there is over, and the key it sends has answered nothing.
LEMMA CreateSessionPreserves ==
    ASSUME IInv, NEW c \in Caller, CreateSession(c)
    PROVE  IInv'
<1>1. /\ proc[c] \in Request /\ RequestOK(proc[c]) /\ sessions \in [Session -> Checkout]
      /\ key \in [Session \cup {None} -> Session \cup {None}] /\ subs \in [Sub -> Subscription]
      /\ customer \in {"none", "open", "deleted"} /\ StripeOK
    BY DEF IInv, TypeOK
<1>2. Go(c, Idle) /\ UNCHANGED <<org, customer, subs, events, bounds>>
    BY DEF CreateSession, Finish
<1>3. CASE UNCHANGED <<sessions, key>>
    BY <1>2, <1>3, FinishStep DEF Finish, stripe
<1>4. CASE ~UNCHANGED <<sessions, key>>
    <2>1. /\ Keyed(c) = {} /\ customer = "open" /\ proc[c].at = "create"
          /\ \E s \in Session \ Created :
                /\ \A t \in Session \ Created : s <= t
                /\ sessions' = [sessions EXCEPT ![s] = [status |-> "open", plan |-> proc[c].plan]]
                /\ key' = [key EXCEPT ![proc[c].previous] = s]
        BY <1>4 DEF CreateSession, At
    <2>2. PICK s \in Session \ Created :
                /\ \A t \in Session \ Created : s <= t
                /\ sessions' = [sessions EXCEPT ![s] = [status |-> "open", plan |-> proc[c].plan]]
                /\ key' = [key EXCEPT ![proc[c].previous] = s]
        BY <2>1
    <2> PICK n \in Session \cup {None}, p \in Paid : n = proc[c].previous /\ p = proc[c].plan
        BY <1>1 DEF Request
    <2>3. \A t \in Session : Shut(t) => t \in Created
        BY DEF Shut, Created
    <2>4. \A t \in Session : key[n] # t
        BY <2>1 DEF Keyed
    <2>5. n = IF s = 1 THEN None ELSE s - 1
        <3>1. CASE n = None
            <4>1. Sessions \in Nat \ {0} /\ 1 \in Session
                BY SubscriptionsAssumption DEF Session
            <4>2. 1 \notin Created
                BY <1>1, <2>4, <3>1, <4>1 DEF StripeOK
            <4> QED BY <2>2, <3>1, <4>1, <4>2 DEF Session
        <3>2. CASE n # None
            <4>1. n \in Session /\ \A t \in Session : t <= n => Over(t)
                BY <1>1, <2>1, <3>2 DEF RequestOK
            <4>2. s > n
                BY <2>2, <2>3, <4>1 DEF Over, Session
            <4>3. n + 1 \in Session /\ n + 1 # 1 /\ (n + 1) - 1 = n
                BY <4>1, <4>2, SubscriptionsAssumption DEF Session
            <4>4. n + 1 \notin Created
                BY <1>1, <2>4, <4>3 DEF StripeOK
            <4>5. s = n + 1
                BY <2>2, <4>1, <4>2, <4>3, <4>4 DEF Session
            <4> QED BY <4>3, <4>5, <4>1
        <3> QED BY <3>1, <3>2
    <2>6. \A t \in Session : t < s => Over(t)
        <3>1. CASE n = None
            BY <2>5, <3>1, Constants, SubscriptionsAssumption DEF Session
        <3>2. CASE n # None
            <4>1. s - 1 = n /\ \A t \in Session : t <= n => Over(t)
                BY <1>1, <2>1, <2>5, <3>2 DEF RequestOK
            <4> QED BY <4>1 DEF Session
        <3> QED BY <3>1, <3>2
    <2>7. \A t \in Created : t < s
        <3> SUFFICES ASSUME NEW t \in Created, ~(t < s) PROVE FALSE
            OBVIOUS
        <3>1. t \in Session /\ t # s /\ s < t
            BY DEF Created, Session
        <3>2. Over(s)
            BY <1>1, <3>1 DEF StripeOK
        <3> QED BY <2>3, <3>2 DEF Over
    <2>8. sessions' \in [Session -> Checkout]
        BY <1>1, <2>2 DEF Checkout
    <2>9. /\ \A t \in Session \ {s} : sessions'[t] = sessions[t]
          /\ sessions'[s].status = "open"
        BY <1>1, <2>2
    <2>10. key' \in [Session \cup {None} -> Session \cup {None}] /\ key'[n] = s
              /\ \A m \in Session \cup {None} : m # n => key'[m] = key[m]
        BY <1>1, <2>2
    <2>11. \A t \in Session \ {s} : Shut(t)' = Shut(t) /\ Over(t)' = Over(t)
        BY <1>2, <2>9 DEF Shut, Over
    <2>12. ~Shut(s)
        BY <2>3
    <2>13. Forward
        BY <1>2, <2>11, <2>12 DEF Forward, Over, Bought
    <2>14. Created' = Created \cup {s}
        BY <2>9 DEF Created
    <2>15. StripeOK'
        <3>1. \A t, u \in Session : t < u /\ u \in Created' => Over(t)'
            <4> SUFFICES ASSUME NEW t \in Session, NEW u \in Session, t < u, u \in Created' PROVE Over(t)'
                OBVIOUS
            <4>1. t < s
                BY <2>7, <2>14 DEF Session
            <4> QED BY <2>6, <2>11, <4>1 DEF Session
        <3>2. \A t \in Session : t \in Created' => key'[IF t = 1 THEN None ELSE t - 1] = t
            <4> SUFFICES ASSUME NEW t \in Session, t \in Created', t # s
                         PROVE  key'[IF t = 1 THEN None ELSE t - 1] = t
                BY <2>5, <2>10
            <4>1. t \in Created /\ key[IF t = 1 THEN None ELSE t - 1] = t
                BY <1>1, <2>14 DEF StripeOK
            <4> DEFINE m == IF t = 1 THEN None ELSE t - 1
            <4>2. m \in Session \cup {None}
                BY SubscriptionsAssumption DEF Session
            <4>3. m # n
                BY <2>4, <4>1
            <4> QED BY <2>10, <4>1, <4>2, <4>3
        <3>3. \A t \in Session : subs'[t].status \in Nonterminal => sessions'[t].status = "complete"
            <4> SUFFICES ASSUME NEW t \in Session, subs[t].status \in Nonterminal
                         PROVE  sessions'[t].status = "complete"
                BY <1>2
            <4>1. sessions[t].status = "complete"
                BY <1>1 DEF StripeOK
            <4>2. t # s
                BY <2>12, <4>1 DEF Shut
            <4> QED BY <2>9, <4>1, <4>2
        <3>4. \A t \in Sub : subs'[t].status = "none" => subs'[t].plan = None
            BY <1>1, <1>2 DEF StripeOK
        <3> QED BY <1>2, <2>1, <3>1, <3>2, <3>3, <3>4 DEF StripeOK
    <2>16. RequestOK(Idle)'
        BY <2>13, IdleIsOK, ToldStays
    <2> QED BY <1>1, <1>2, <2>8, <2>10, <2>13, <2>15, <2>16, IdleRequest, RequestStep DEF bounds
<1> QED BY <1>3, <1>4

\* A change of one subscription that is live, or was made by hand, touches no chain.
LEMMA SubscriptionChanges ==
    ASSUME IInv, UNCHANGED <<customer, sessions, key>>, NEW s \in Sub, NEW v \in Subscription,
           subs' = [subs EXCEPT ![s] = v], v.status # "none", subs[s].plan # None => v.plan # None,
           v.status \in Nonterminal => s \in Live \/ (s \notin Session /\ customer = "open")
    PROVE  Forward /\ StripeOK' /\ subs' \in [Sub -> Subscription]
<1>1. subs \in [Sub -> Subscription] /\ StripeOK
    BY DEF IInv, TypeOK
<1>2. subs' \in [Sub -> Subscription] /\ subs'[s] = v /\ \A t \in Sub : t # s => subs'[t] = subs[t]
    BY <1>1
<1>3. \A t \in Session : Shut(t)' = Shut(t)
    BY DEF Shut
<1>4. \A t \in Session : Over(t) => Over(t)'
    <2> SUFFICES ASSUME NEW t \in Session, Over(t) PROVE Over(t)'
        OBVIOUS
    <2>1. t \in Sub /\ t \notin Live
        BY Constants DEF Over, Live
    <2> QED BY <1>2, <1>3, <2>1 DEF Over
<1>5. Bought => Bought'
    <2> SUFFICES ASSUME Bought PROVE Bought'
        OBVIOUS
    <2>1. PICK t \in Sub : subs[t].plan # None
        BY DEF Bought
    <2>2. subs'[t].plan # None
        BY <1>2, <2>1
    <2> QED BY <2>2 DEF Bought
<1>6. Forward
    BY <1>3, <1>4, <1>5 DEF Forward
<1>7. StripeOK'
    <2>1. Created' = Created /\ Open' = Open
        BY DEF Created, Open
    <2>2. \A t, u \in Session : t < u /\ u \in Created' => Over(t)'
        BY <1>1, <1>4, <2>1 DEF StripeOK
    <2>3. \A t \in Session : t \in Created' => key'[IF t = 1 THEN None ELSE t - 1] = t
        BY <1>1, <2>1 DEF StripeOK
    <2>4. \A t \in Session : subs'[t].status \in Nonterminal => sessions'[t].status = "complete"
        <3> SUFFICES ASSUME NEW t \in Session, subs'[t].status \in Nonterminal
                     PROVE  subs[t].status \in Nonterminal
            BY <1>1 DEF StripeOK
        <3> QED BY <1>2, Constants DEF Live
    <2>5. \A t \in Sub : subs'[t].status = "none" => subs'[t].plan = None
        BY <1>1, <1>2 DEF StripeOK
    <2>6. customer' = "deleted" => Live' = {} /\ Open' = {}
        <3> SUFFICES ASSUME customer = "deleted", NEW t \in Sub, subs'[t].status \in Nonterminal PROVE FALSE
            BY <1>1, <2>1 DEF StripeOK, Live
        <3>1. Live = {}
            BY <1>1 DEF StripeOK
        <3> QED BY <1>2, <3>1 DEF Live
    <2> QED BY <2>2, <2>3, <2>4, <2>5, <2>6 DEF StripeOK
<1> QED BY <1>2, <1>6, <1>7

LEMMA ChangePreserves ==
    ASSUME IInv, NEW c \in Caller, ChangeSubscription(c)
    PROVE  IInv'
<1>1. /\ proc[c] \in Request /\ RequestOK(proc[c]) /\ sessions \in [Session -> Checkout]
      /\ key \in [Session \cup {None} -> Session \cup {None}] /\ subs \in [Sub -> Subscription]
      /\ customer \in {"none", "open", "deleted"} /\ StripeOK /\ org \in Org /\ (org.mirror.plan # Trial => Bought)
    BY DEF IInv, TypeOK
<1> DEFINE s == proc[c].sub
           ch == proc[c].change
           p == IF ch.plan = None THEN subs[s].plan ELSE ch.plan
           new == [subs[s] EXCEPT !.cancelling = ch.cancelling, !.plan = p]
<1>2. CASE UNCHANGED <<subs, events, bounds>>
    BY <1>1, <1>2, FinishStep, StepLocally DEF ChangeSubscription, stripe
<1>3. CASE ~UNCHANGED <<subs, events, bounds>>
    <2>1. /\ s \in Live /\ raised < MaxEvents /\ raised' = raised + 1 /\ events' = events + 1
          /\ subs' = [subs EXCEPT ![s] = new]
          /\ Step(c, "read") /\ UNCHANGED <<changes, org, customer, sessions, key>>
        BY <1>3 DEF ChangeSubscription, CanRaise, Raise
    <2>2. s \in Sub /\ subs[s] \in Subscription /\ ch \in Change /\ subs[s].status \in Nonterminal
        BY <1>1, <2>1 DEF Live, Request
    <2>3. p \in Paid \cup {None} /\ (subs[s].plan # None => p # None) /\ ch.cancelling \in BOOLEAN
        BY <2>2 DEF Subscription, Change
    <2> HIDE DEF p, ch, s
    <2>4. new \in Subscription /\ new.status = subs[s].status /\ new.plan = p
        BY <2>2, <2>3 DEF Subscription
    <2> HIDE DEF new
    <2>5. new.status # "none" /\ (subs[s].plan # None => new.plan # None)
        BY <2>2, <2>3, <2>4 DEF Nonterminal
    <2>6. Forward /\ StripeOK' /\ subs' \in [Sub -> Subscription]
        <3> PICK t \in Sub, v \in Subscription : t = s /\ v = new
            BY <2>2, <2>4
        <3> QED BY <2>1, <2>5, SubscriptionChanges
    <2>7. PICK r \in Request : r = [proc[c] EXCEPT !.at = "read"] /\ RequestOK(r) /\ (r.callback => proc[c].callback)
        BY StepTo
    <2>8. Go(c, r)
        BY <2>7, <2>1 DEF Step
    <2>9. RequestOK(r)'
        BY <2>6, <2>7, ToldStays
    <2> QED BY <1>1, <2>1, <2>6, <2>7, <2>8, <2>9, RequestStep
<1> QED BY <1>2, <1>3

LEMMA CreateCustomerPreserves ==
    ASSUME IInv, NEW c \in Caller, CreateCustomer(c)
    PROVE  IInv'
<1>1. /\ sessions \in [Session -> Checkout] /\ subs \in [Sub -> Subscription]
      /\ key \in [Session \cup {None} -> Session \cup {None}]
      /\ customer \in {"none", "open", "deleted"} /\ StripeOK
    BY DEF IInv, TypeOK
<1>2. /\ UNCHANGED <<org, sessions, key, subs, events, bounds>> /\ Step(c, "save")
      /\ customer' \in {"none", "open", "deleted"} /\ (customer' = "deleted" <=> customer = "deleted")
    BY <1>1 DEF CreateCustomer
<1>3. Forward
    BY <1>2 DEF Forward, Shut, Over, Bought
<1>4. StripeOK'
    BY <1>1, <1>2 DEF StripeOK, Over, Shut, Created, Live, Open
<1>5. PICK r \in Request : r = [proc[c] EXCEPT !.at = "save"] /\ RequestOK(r) /\ (r.callback => proc[c].callback)
    BY StepTo
<1>6. Go(c, r)
    BY <1>5, <1>2 DEF Step
<1>7. RequestOK(r)'
    BY <1>3, <1>5, ToldStays
<1> QED BY <1>1, <1>2, <1>3, <1>4, <1>5, <1>6, <1>7, RequestStep DEF bounds

\* Shutting sessions, and ending subscriptions with the customer.
LEMMA SessionsShut ==
    ASSUME IInv, UNCHANGED key, sessions' \in [Session -> Checkout], subs' \in [Sub -> Subscription],
           \A t \in Session : \/ sessions'[t] = sessions[t]
                              \/ sessions[t].status = "open" /\ sessions'[t].status = "expired",
           \A t \in Sub : subs'[t] = subs[t] \/ (subs'[t].status = "canceled" /\ subs'[t].plan = subs[t].plan),
           customer = "deleted" => customer' = "deleted",
           customer' = "deleted" => Live' = {} /\ Open' = {}
    PROVE  Forward /\ StripeOK'
<1>1. StripeOK
    BY DEF IInv
<1>2. \A t \in Session : Shut(t) => Shut(t)' /\ (t \in Created' <=> t \in Created)
    BY DEF Shut, Created
<1>3. \A t \in Session : t \in Created' <=> t \in Created
    BY DEF Created
<1>4. \A t \in Session : Over(t) => Over(t)'
    BY <1>2, Constants DEF Over, Nonterminal
<1>5. Bought => Bought'
    BY DEF Bought
<1>6. Forward
    BY <1>2, <1>4, <1>5 DEF Forward
<1>7. \A t \in Session : subs'[t].status \in Nonterminal => sessions'[t].status = "complete"
    <2> SUFFICES ASSUME NEW t \in Session, subs'[t].status \in Nonterminal
                 PROVE  sessions'[t].status = "complete"
        OBVIOUS
    <2>1. subs[t].status \in Nonterminal /\ t \in Sub
        BY Constants DEF Nonterminal
    <2> QED BY <1>1, <2>1 DEF StripeOK
<1>8. \A t \in Sub : subs'[t].status = "none" => subs'[t].plan = None
    <2> SUFFICES ASSUME NEW t \in Sub, subs'[t].status = "none" PROVE subs'[t].plan = None
        OBVIOUS
    <2>1. subs'[t] = subs[t]
        OBVIOUS
    <2> QED BY <1>1, <2>1 DEF StripeOK
<1>9. StripeOK'
    BY <1>1, <1>3, <1>4, <1>7, <1>8 DEF StripeOK
<1> QED BY <1>6, <1>9

LEMMA ExpirePreserves ==
    ASSUME IInv, NEW c \in Caller, ExpireSessions(c)
    PROVE  IInv'
<1>1. /\ sessions \in [Session -> Checkout] /\ subs \in [Sub -> Subscription]
      /\ key \in [Session \cup {None} -> Session \cup {None}]
      /\ customer \in {"none", "open", "deleted"} /\ StripeOK
    BY DEF IInv, TypeOK
<1>2. /\ UNCHANGED <<org, customer, key, subs, events, bounds>> /\ Step(c, "delete")
      /\ sessions' = [s \in Session |->
           IF s \in Open THEN [sessions[s] EXCEPT !.status = "expired"] ELSE sessions[s]]
    BY DEF ExpireSessions
<1>3. /\ sessions' \in [Session -> Checkout]
      /\ \A t \in Session : \/ sessions'[t] = sessions[t]
                            \/ sessions[t].status = "open" /\ sessions'[t].status = "expired"
      /\ Open' = {}
    BY <1>1, <1>2 DEF Checkout, Open
<1>4. Live' = Live
    BY <1>2 DEF Live
<1>5. Forward /\ StripeOK'
    BY <1>1, <1>2, <1>3, <1>4, SessionsShut DEF StripeOK
<1>6. PICK r \in Request : r = [proc[c] EXCEPT !.at = "delete"] /\ RequestOK(r) /\ (r.callback => proc[c].callback)
    BY StepTo
<1>7. Go(c, r)
    BY <1>6, <1>2 DEF Step
<1>8. RequestOK(r)'
    BY <1>5, <1>6, ToldStays
<1> QED BY <1>1, <1>2, <1>3, <1>5, <1>6, <1>7, <1>8, RequestStep DEF bounds

LEMMA DeleteCustomerPreserves ==
    ASSUME IInv, NEW c \in Caller, DeleteCustomer(c)
    PROVE  IInv'
<1>1. /\ proc[c] \in Request /\ RequestOK(proc[c]) /\ sessions \in [Session -> Checkout]
      /\ subs \in [Sub -> Subscription] /\ key \in [Session \cup {None} -> Session \cup {None}] /\ StripeOK
    BY DEF IInv, TypeOK
<1>2. /\ UNCHANGED <<org, key, events, bounds>> /\ Step(c, "erase") /\ customer' = "deleted"
      /\ subs' = [s \in Sub |-> IF s \in Live THEN [subs[s] EXCEPT !.status = "canceled"] ELSE subs[s]]
      /\ sessions' = [s \in Session |->
           IF s \in Open THEN [sessions[s] EXCEPT !.status = "expired"] ELSE sessions[s]]
    BY DEF DeleteCustomer, CloseCustomer
<1>3. /\ sessions' \in [Session -> Checkout]
      /\ \A t \in Session : \/ sessions'[t] = sessions[t]
                            \/ sessions[t].status = "open" /\ sessions'[t].status = "expired"
      /\ Open' = {}
    BY <1>1, <1>2 DEF Checkout, Open
<1>4. /\ subs' \in [Sub -> Subscription]
      /\ \A t \in Sub : subs'[t] = subs[t] \/ (subs'[t].status = "canceled" /\ subs'[t].plan = subs[t].plan)
      /\ Live' = {}
    BY <1>1, <1>2 DEF Subscription, Live, Nonterminal
<1>5. Forward /\ StripeOK'
    BY <1>2, <1>3, <1>4, SessionsShut
<1>6. PICK r \in Request : /\ r = [proc[c] EXCEPT !.at = "erase"]
                            /\ r.at = "erase" /\ r.mirror = proc[c].mirror
                            /\ r.next = proc[c].next /\ r.callback = proc[c].callback
    <2> DEFINE q == [proc[c] EXCEPT !.at = "erase"]
    <2>1. /\ q \in Request /\ q.at = "erase" /\ q.mirror = proc[c].mirror
          /\ q.next = proc[c].next /\ q.callback = proc[c].callback
        BY <1>1 DEF Request
    <2> HIDE DEF q
    <2> QED BY <2>1 DEF q
<1>7. Go(c, r)
    BY <1>2, <1>6 DEF Step
<1>8. RequestOK(r)'
    BY <1>1, <1>2, <1>5, <1>6 DEF RequestOK, Forward
<1>9. /\ UNCHANGED <<org, changes, raised, events>> /\ customer' \in {"none", "open", "deleted"}
      /\ key' \in [Session \cup {None} -> Session \cup {None}]
    BY <1>1, <1>2 DEF bounds
<1> QED BY <1>3, <1>4, <1>5, <1>6, <1>7, <1>8, <1>9, RequestStep

LEMMA OutsidePreserves ==
    ASSUME IInv,
           \/ \E s \in Session : CompleteCheckout(s) \/ SessionExpires(s)
           \/ \E s \in Sub : SubscriptionMoves(s) \/ MakeByHand(s)
    PROVE  IInv'
<1>1. /\ sessions \in [Session -> Checkout] /\ subs \in [Sub -> Subscription]
      /\ key \in [Session \cup {None} -> Session \cup {None}]
      /\ customer \in {"none", "open", "deleted"} /\ StripeOK /\ changes \in 0..MaxChanges /\ MaxChanges \in Nat
    BY SubscriptionsAssumption DEF IInv, TypeOK
<1>2. ASSUME NEW s \in Session, CompleteCheckout(s) PROVE IInv'
    <2>1. /\ sessions[s].status = "open" /\ customer = "open" /\ raised < MaxEvents
          /\ raised' = raised + 1 /\ events' = events + 1 /\ changes' = changes
          /\ UNCHANGED <<org, customer, key, proc>>
        BY <1>2 DEF CompleteCheckout, CanRaise, Raise
    <2> DEFINE v == [status |-> "active", plan |-> sessions[s].plan, cancelling |-> FALSE]
    <2>2. v \in Subscription /\ v.plan # None /\ v.status = "active"
        BY <1>1, Constants, SubscriptionsAssumption DEF Subscription, Checkout, Nonterminal, Plan
    <2>3. subs' = [subs EXCEPT ![s] = v] /\ sessions' = [sessions EXCEPT ![s].status = "complete"]
        BY <1>2 DEF CompleteCheckout
    <2> HIDE DEF v
    <2>4. s \in Sub /\ subs' \in [Sub -> Subscription] /\ subs'[s] = v /\ \A t \in Sub : t # s => subs'[t] = subs[t]
        BY <1>1, <2>2, <2>3, Constants
    <2>5. sessions' \in [Session -> Checkout] /\ sessions'[s].status = "complete"
              /\ \A t \in Session : t # s => sessions'[t] = sessions[t]
        BY <1>1, <2>3 DEF Checkout
    <2>6. ~Shut(s)
        BY <2>1 DEF Shut
    <2>7. \A t \in Session : t # s => Shut(t)' = Shut(t) /\ Over(t)' = Over(t)
        BY <2>4, <2>5, Constants DEF Shut, Over
    <2>8. Bought'
        BY <2>2, <2>4 DEF Bought
    <2>9. Forward
        BY <2>1, <2>6, <2>7, <2>8 DEF Forward, Over
    <2>10. Created' = Created
        BY <2>1, <2>5 DEF Created
    <2>11. StripeOK'
        <3>1. \A t, u \in Session : t < u /\ u \in Created' => Over(t)'
            BY <1>1, <2>9, <2>10 DEF StripeOK, Forward
        <3>2. \A t \in Session : t \in Created' => key'[IF t = 1 THEN None ELSE t - 1] = t
            BY <1>1, <2>1, <2>10 DEF StripeOK
        <3>3. \A t \in Session : subs'[t].status \in Nonterminal => sessions'[t].status = "complete"
            BY <1>1, <2>4, <2>5, Constants DEF StripeOK
        <3>4. \A t \in Sub : subs'[t].status = "none" => subs'[t].plan = None
            BY <1>1, <2>2, <2>4 DEF StripeOK
        <3> QED BY <2>1, <3>1, <3>2, <3>3, <3>4 DEF StripeOK
    <2> QED BY <1>1, <2>1, <2>4, <2>5, <2>9, <2>11, OutsideStep
<1>3. ASSUME NEW s \in Session, SessionExpires(s) PROVE IInv'
    <2>1. /\ sessions[s].status = "open" /\ sessions' = [sessions EXCEPT ![s].status = "expired"]
          /\ UNCHANGED <<org, customer, key, subs, events, proc, bounds>>
        BY <1>3 DEF SessionExpires
    <2>2. /\ sessions' \in [Session -> Checkout]
          /\ \A t \in Session : \/ sessions'[t] = sessions[t]
                                \/ sessions[t].status = "open" /\ sessions'[t].status = "expired"
        BY <1>1, <2>1 DEF Checkout
    <2>3. Live' = Live /\ (Open = {} => Open' = {})
        BY <2>1, <2>2 DEF Live, Open
    <2>4. Forward /\ StripeOK'
        BY <1>1, <2>1, <2>2, <2>3, SessionsShut DEF StripeOK
    <2> QED BY <1>1, <2>1, <2>2, <2>4, OutsideStep DEF bounds
<1>4. ASSUME NEW s \in Sub, SubscriptionMoves(s) PROVE IInv'
    <2>1. /\ changes < MaxChanges /\ raised < MaxEvents /\ s \in Live
          /\ changes' = changes + 1 /\ raised' = raised + 1 /\ events' = events + 1
          /\ UNCHANGED <<org, customer, sessions, key, proc>>
        BY <1>4 DEF SubscriptionMoves, CanRaise, Raise
    <2>2. PICK status \in {"active", "past_due", "unpaid", "canceled"} : subs' = [subs EXCEPT ![s].status = status]
        BY <1>4 DEF SubscriptionMoves
    <2> DEFINE v == [subs[s] EXCEPT !.status = status]
    <2>3. v \in Subscription /\ v.status = status /\ v.plan = subs[s].plan
        BY <1>1 DEF Subscription, Nonterminal
    <2>4. subs' = [subs EXCEPT ![s] = v]
        BY <2>2
    <2> HIDE DEF v
    <2>5. Forward /\ StripeOK' /\ subs' \in [Sub -> Subscription]
        BY <2>1, <2>3, <2>4, SubscriptionChanges
    <2>6. changes' \in 0..MaxChanges
        BY <1>1, <2>1
    <2> QED BY <1>1, <2>1, <2>5, <2>6, OutsideStep
<1>5. ASSUME NEW s \in Sub, MakeByHand(s) PROVE IInv'
    <2> DEFINE v == [status |-> "active", plan |-> None, cancelling |-> FALSE]
    <2>1. /\ s \in Manual /\ subs[s].status = "none" /\ customer = "open" /\ raised < MaxEvents
          /\ raised' = raised + 1 /\ events' = events + 1 /\ changes' = changes
          /\ subs' = [subs EXCEPT ![s] = v]
          /\ UNCHANGED <<org, customer, sessions, key, proc>>
        BY <1>5 DEF MakeByHand, CanRaise, Raise
    <2>2. v \in Subscription /\ v.status # "none" /\ s \notin Session /\ subs[s].plan = None
        BY <1>1, <2>1, SubscriptionsAssumption DEF Subscription, Nonterminal, StripeOK
    <2> HIDE DEF v
    <2>3. Forward /\ StripeOK' /\ subs' \in [Sub -> Subscription]
        BY <2>1, <2>2, SubscriptionChanges
    <2> QED BY <1>1, <2>1, <2>3, OutsideStep
<1> QED BY <1>2, <1>3, <1>4, <1>5

-------------------------------------------------------------------------------
LEMMA InitIInv == Init => IInv
<1> SUFFICES ASSUME Init PROVE IInv
    OBVIOUS
<1>1. /\ org = [there |-> TRUE, customer |-> FALSE, mirror |-> Unsubscribed]
      /\ customer = "none" /\ events = 0 /\ changes = 0 /\ raised = 0
      /\ sessions = [s \in Session |-> [status |-> "none", plan |-> AnyPlan]]
      /\ key = [s \in Session \cup {None} |-> None]
      /\ subs = [s \in Sub |-> [status |-> "none", plan |-> None, cancelling |-> FALSE]]
      /\ proc = [c \in Caller |-> Idle]
    BY DEF Init
<1>2. /\ org \in Org /\ org.mirror.plan = Trial
    BY <1>1, Constants DEF Org
<1>3. sessions \in [Session -> Checkout]
    BY <1>1, Constants DEF Checkout
<1>4. subs \in [Sub -> Subscription]
    BY <1>1 DEF Subscription
<1>5. TypeOK
    <2>1. /\ key \in [Session \cup {None} -> Session \cup {None}] /\ proc \in [Caller -> Request]
        BY <1>1, IdleRequest
    <2>2. 0 \in 0..MaxEvents /\ 0 \in 0..MaxChanges
        BY SubscriptionsAssumption
    <2> QED BY <1>1, <1>2, <1>3, <1>4, <2>1, <2>2 DEF TypeOK
<1>6. StripeOK
    BY <1>1, Constants DEF StripeOK, Created, Nonterminal
<1>7. EventsOK
    <2>1. Callbacks = {}
        BY <1>1, IdleRequest DEF Callbacks
    <2> QED BY <1>1, <2>1, FS_EmptySet DEF EventsOK
<1>8. \A c \in Caller : RequestOK(proc[c])
    BY <1>1, IdleIsOK
<1> QED BY <1>2, <1>5, <1>6, <1>7, <1>8 DEF IInv

LEMMA StepIInv == IInv /\ [Next]_vars => IInv'
<1> SUFFICES ASSUME IInv, [Next]_vars PROVE IInv'
    OBVIOUS
<1>1. CASE UNCHANGED vars
    <2>1. UNCHANGED <<customer, sessions, key, subs, events, changes, raised, proc, org>>
        BY <1>1 DEF vars, stripe, bounds
    <2>2. Forward
        BY <2>1, NothingForward
    <2>3. StripeOK'
        BY <2>1, StripeStays DEF IInv, stripe
    <2> QED BY <2>1, <2>2, <2>3, OutsideStep DEF IInv, TypeOK
<1>2. ASSUME NEW c \in Caller, Arrive(c) \/ Proceed(c) \/ Fail(c) PROVE IInv'
    <2>1. CASE Arrive(c)
        BY <2>1, ArrivePreserves, CallbackPreserves
    <2>2. CASE Proceed(c)
        BY <2>2, CheckingPreserves, CreateCustomerPreserves, ListPreserves, RecheckPreserves,
           CreateSessionPreserves, SolePreserves, ChangePreserves, ReconcilePreserves,
           ExpirePreserves, DeleteCustomerPreserves, ErasePreserves DEF Proceed
    <2>3. CASE Fail(c)
        BY <2>3, ErasePreserves
    <2> QED BY <1>2, <2>1, <2>2, <2>3
<1> QED BY <1>1, <1>2, OutsidePreserves DEF Next

(* The invariant: sessions form a chain, and requests know what they say.     *)
THEOREM Invariant == Spec => []IInv
    BY InitIInv, StepIInv, PTL DEF Spec

\* Every variable keeps its type, for any number of requests and any bounds.
THEOREM TypeCorrect == Spec => []TypeOK
<1>1. IInv => TypeOK
    BY DEF IInv
<1> QED BY <1>1, Invariant, PTL

\* A workspace's checkouts never leave two subscriptions billing at once, however many
\* tabs ask and however their steps interleave.
THEOREM OneSubscriptionBills == Spec => []NeverBilledTwice
<1>1. IInv => NeverBilledTwice
    <2> SUFFICES ASSUME IInv PROVE NeverBilledTwice
        OBVIOUS
    <2>1. ASSUME NEW s \in Live \cap Session, NEW t \in Live \cap Session, s < t PROVE FALSE
        <3>1. sessions[t].status = "complete" /\ subs[s].status \in Nonterminal
            BY <2>1 DEF Live, IInv, StripeOK
        <3>2. t \in Created
            BY <3>1 DEF Created
        <3> QED BY <2>1, <3>1, <3>2 DEF IInv, StripeOK, Over
    <2>2. \A s, t \in Live \cap Session : s = t
        BY <2>1 DEF Session
    <2>3. CASE Live \cap Session = {}
        BY <2>3, FS_EmptySet DEF NeverBilledTwice
    <2>4. CASE Live \cap Session # {}
        <3> PICK s : s \in Live \cap Session
            BY <2>4
        <3>1. Live \cap Session = {s}
            BY <2>2
        <3>2. Cardinality({s}) = 1
            BY FS_Singleton
        <3> QED BY <3>1, <3>2 DEF NeverBilledTwice
    <2> QED BY <2>3, <2>4
<1> QED BY <1>1, Invariant, PTL

\* A deletion that knew the workspace's customer forgets it only once nothing can bill it
\* again, whatever failed and was retried before.
THEOREM ErasureEndsBilling == Spec => []ClosedBeforeErasure
<1>1. IInv => ClosedBeforeErasure
    BY DEF IInv, StripeOK, RequestOK, ClosedBeforeErasure, At
<1> QED BY <1>1, Invariant, PTL

\* No reconciliation, however stale, gives a workspace paid features nobody named a plan for.
THEOREM PaidFeaturesAreBought == Spec => []PaidFeaturesWereBought
<1>1. IInv => PaidFeaturesWereBought
    BY DEF IInv, Bought, PaidFeaturesWereBought
<1> QED BY <1>1, Invariant, PTL
===============================================================================
