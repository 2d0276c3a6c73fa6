---------------------------- MODULE WebhookDelivery ----------------------------
(***************************************************************************)
(* Outbound webhooks: the queue, the drain that claims and posts, the       *)
(* retries and the parking of endpoints (apps/api/src/webhook-delivery.ts), *)
(* with the endpoint procedures of routers/org.ts.                          *)
(*                                                                          *)
(* A worker is one pass of drainWebhooks: every API process starts one on a *)
(* timer, and a pass outlives the interval, so that several run at once in  *)
(* one process or in many.  Every database call is a step of its own.       *)
(*                                                                          *)
(* Time is relative: due[d] and token[w] count down to the present, which   *)
(* is 0, and Tick takes one unit from each.  Under Prompt a unit is the     *)
(* interval of one process's timer (main.ts: fifteen seconds, a quarter of  *)
(* the lease), and each unit starts one pass and no more.                   *)
(***************************************************************************)
EXTENDS Integers, FiniteSets, FiniteSetsExt

CONSTANTS
    Worker,         \* drain passes that can run at once
    Endpoint,       \* identities an endpoint can have
    Deliveries,     \* bound on deliveries ever queued; ids 1..Deliveries, oldest first
    BatchSize,      \* take: 50
    Lease,          \* CLAIM_LEASE_MS
    MaxAttempts,    \* MAX_ATTEMPTS
    Delay,          \* retryDelayMs, by attempts made
    FailureLimit,   \* FAILURE_LIMIT
    Skew,           \* how far ahead each worker's clock is
    Outlive,        \* bound on how long a worker outlives its own claim
    MaxCrashes,     \* bound on processes that die
    Prompt,         \* whether one process alone drains, on a timer that fires once in a unit
    Unopenable,     \* endpoints whose secret was sealed with another key
    None

Delivery == 1..Deliveries

ASSUME WebhookAssumption ==
    /\ Deliveries \in Nat
    /\ BatchSize \in Nat \ {0} /\ Lease \in Nat \ {0}
    /\ MaxAttempts \in Nat \ {0} /\ FailureLimit \in Nat \ {0}
    /\ Delay \in [1..MaxAttempts -> Nat]
    /\ Skew \in [Worker -> Nat]
    /\ Outlive \in Int /\ MaxCrashes \in Nat /\ Prompt \in BOOLEAN
    /\ Unopenable \subseteq Endpoint
    /\ None \notin Endpoint /\ None \notin Delivery

VARIABLES
    rows,       \* the WebhookDelivery table
    due,        \* nextAttemptAt of a pending delivery, as time from now; 0 of any other
    endpoints,  \* the WebhookEndpoint table
    emitting,   \* endpoints an emitWebhook in flight has selected
    deleting,   \* endpoints whose deliveries deleteWebhook has just removed
    worker,     \* the locals of each drain pass
    token,      \* claimUntil of a pass between claim and outcome, as time from now; else 0
    fired,      \* under Prompt: the timer has fired and its pass is still to start
    crashes     \* processes that died

vars == <<rows, due, endpoints, emitting, deleting, worker, token, fired, crashes>>

Row == [status : {"none", "pending", "delivered", "failed", "removed"},
        endpoint : Endpoint \cup {None}, attempts : 0..MaxAttempts]
Hook == [stage : {"none", "there", "gone"}, active : BOOLEAN, failures : 0..FailureLimit]
Snapshot == [id : Delivery, attempts : 0..MaxAttempts, endpoint : Endpoint, failures : 0..FailureLimit]
Pass == [step : {"idle", "claim", "post", "complete", "record"},
         batch : SUBSET Snapshot, cur : Snapshot \cup {None}, ok : BOOLEAN]

Idle == [step |-> "idle", batch |-> {}, cur |-> None, ok |-> FALSE]

\* A row that has been deleted.
Removed == [status |-> "removed", endpoint |-> None, attempts |-> 0]

\* Nothing compares a time further back than this.
Floor == -1 - (IF Outlive > 0 THEN Outlive ELSE 0)

Pending == {d \in Delivery : rows[d].status = "pending"}
Queued == {d \in Delivery : rows[d].status \notin {"none", "removed"}}
Unused == {d \in Delivery : rows[d].status = "none"}
InFlight == {w \in Worker : worker[w].step \in {"post", "complete"}}

TypeOK ==
    /\ rows \in [Delivery -> Row]
    /\ due \in [Delivery -> Int]
    /\ endpoints \in [Endpoint -> Hook]
    /\ emitting \in SUBSET Endpoint
    /\ deleting \in SUBSET Endpoint
    /\ worker \in [Worker -> Pass]
    /\ token \in [Worker -> Int]
    /\ fired \in BOOLEAN
    /\ crashes \in 0..MaxCrashes

Init ==
    /\ rows = [d \in Delivery |-> [status |-> "none", endpoint |-> None, attempts |-> 0]]
    /\ due = [d \in Delivery |-> 0]
    /\ endpoints = [e \in Endpoint |-> [stage |-> "none", active |-> TRUE, failures |-> 0]]
    /\ emitting = {}
    /\ deleting = {}
    /\ worker = [w \in Worker |-> Idle]
    /\ token = [w \in Worker |-> 0]
    /\ fired = FALSE
    /\ crashes = 0

(***************************************************************************)
(* Endpoints: createWebhook, resumeWebhook, deleteWebhook.                  *)
(***************************************************************************)
CreateWebhook(e) ==
    /\ endpoints[e].stage = "none"
    /\ endpoints' = [endpoints EXCEPT ![e].stage = "there"]
    /\ UNCHANGED <<rows, due, emitting, deleting, worker, token, fired, crashes>>

ResumeWebhook(e) ==
    /\ endpoints[e].stage = "there"
    /\ endpoints' = [endpoints EXCEPT ![e].active = TRUE, ![e].failures = 0]
    /\ UNCHANGED <<rows, due, emitting, deleting, worker, token, fired, crashes>>

\* Two statements and no transaction: the deliveries go first.
DeleteDeliveries(e) ==
    /\ endpoints[e].stage = "there"
    /\ deleting' = deleting \cup {e}
    /\ LET gone == {d \in Queued : rows[d].endpoint = e}
       IN  /\ rows' = [d \in Delivery |-> IF d \in gone THEN Removed ELSE rows[d]]
           /\ due' = [d \in Delivery |-> IF d \in gone THEN 0 ELSE due[d]]
    /\ UNCHANGED <<endpoints, emitting, worker, token, fired, crashes>>

\* Refused by the foreign key when an event was queued in between.
DeleteWebhook(e) ==
    /\ e \in deleting
    /\ deleting' = deleting \ {e}
    /\ endpoints' = [endpoints EXCEPT ![e].stage = IF \E d \in Queued : rows[d].endpoint = e THEN @ ELSE "gone"]
    /\ UNCHANGED <<rows, due, emitting, worker, token, fired, crashes>>

(***************************************************************************)
(* emitWebhook: the endpoints are read, then one statement creates a        *)
(* delivery for each; the foreign key fails it for all of them when one has *)
(* gone, and the error is swallowed.  A workspace whose plan has no API, or *)
(* whose endpoints asked for other events, emits nothing.                   *)
(***************************************************************************)
EmitRead(es) ==
    /\ emitting = {}
    /\ es # {}
    /\ es \subseteq {e \in Endpoint : endpoints[e].stage = "there" /\ endpoints[e].active}
    /\ Cardinality(es) <= Cardinality(Unused)
    /\ emitting' = es
    /\ UNCHANGED <<rows, due, endpoints, deleting, worker, token, fired, crashes>>

\* The next ids, one for each endpoint of the event.
NewRows == {d \in Unused : Cardinality({x \in Unused : x < d}) < Cardinality(emitting)}

Emit ==
    /\ emitting # {}
    /\ emitting' = {}
    /\ IF \A e \in emitting : endpoints[e].stage = "there"
       THEN \E f \in [NewRows -> emitting] :
              /\ \A d, x \in NewRows : f[d] = f[x] => d = x
              /\ rows' = [d \in Delivery |->
                             IF d \in NewRows THEN [status |-> "pending", endpoint |-> f[d], attempts |-> 0]
                             ELSE rows[d]]
              /\ due' = [d \in Delivery |-> IF d \in NewRows THEN 0 ELSE due[d]]
       ELSE UNCHANGED <<rows, due>>
    /\ UNCHANGED <<endpoints, deleting, worker, token, fired, crashes>>

(***************************************************************************)
(* drainWebhooks.                                                           *)
(***************************************************************************)
\* What is due by w's clock, oldest first, with the endpoint as it is now.
Candidates(w) ==
    LET ready == {d \in Pending : rows[d].attempts < MaxAttempts /\ due[d] <= Skew[w]}
    IN  {[id |-> d, attempts |-> rows[d].attempts, endpoint |-> rows[d].endpoint,
          failures |-> endpoints[rows[d].endpoint].failures] :
            d \in {x \in ready : Cardinality({y \in ready : y < x}) < BatchSize}}

\* The pass goes on to the rest of its batch, or ends.
Continue(w, batch) ==
    worker' = [worker EXCEPT ![w] = IF batch = {} THEN Idle
                                    ELSE [Idle EXCEPT !.step = "claim", !.batch = batch]]

\* A firing of the timer is one pass, whether or not it finds anything to do.
Drain(w) ==
    /\ worker[w].step = "idle"
    /\ Prompt => fired
    /\ fired' = FALSE
    /\ Continue(w, Candidates(w))
    /\ UNCHANGED <<rows, due, endpoints, emitting, deleting, token, crashes>>

\* As if the claim trusted the selection for what is due.
ClaimOnceSelected(w, s) ==
    rows[s.id].status = "pending" /\ rows[s.id].attempts = s.attempts

\* where id, status pending, attempts as selected, and still due
Claimable(w, s) ==
    /\ rows[s.id].status = "pending"
    /\ rows[s.id].attempts = s.attempts
    /\ due[s.id] <= Skew[w]

(* The claim, then openFor: a secret that does not open throws out of the    *)
(* pass and leaves the claim to run out.                                     *)
Claim(w) ==
    /\ worker[w].step = "claim"
    /\ \E s \in worker[w].batch :
          /\ \A x \in worker[w].batch : s.id <= x.id
          /\ \/ /\ Claimable(w, s)
                /\ due' = [due EXCEPT ![s.id] = Skew[w] + Lease]
                /\ IF s.endpoint \in Unopenable
                   THEN worker' = [worker EXCEPT ![w] = Idle] /\ UNCHANGED token
                   ELSE /\ worker' = [worker EXCEPT ![w] =
                               [step |-> "post", batch |-> @.batch \ {s}, cur |-> s, ok |-> FALSE]]
                        /\ token' = [token EXCEPT ![w] = Skew[w] + Lease]
             \/ /\ ~Claimable(w, s)
                /\ Continue(w, worker[w].batch \ {s})
                /\ UNCHANGED <<due, token>>
    /\ UNCHANGED <<rows, endpoints, emitting, deleting, fired, crashes>>

\* publicHttpsFetch answers a 2xx, or another status, or throws within ten seconds.
PostWebhook(w) ==
    /\ worker[w].step = "post"
    /\ \E ok \in BOOLEAN : worker' = [worker EXCEPT ![w].step = "complete", ![w].ok = ok]
    /\ UNCHANGED <<rows, due, endpoints, emitting, deleting, token, fired, crashes>>

\* As if one attempt too many were allowed.
OutcomeOneMore(ok, made) ==
    IF ok THEN "delivered" ELSE IF made > MaxAttempts THEN "failed" ELSE "pending"

Outcome(ok, made) ==
    IF ok THEN "delivered" ELSE IF made >= MaxAttempts THEN "failed" ELSE "pending"

\* As if the outcome were written by id.
RecordableById(w, s) == rows[s.id].status # "removed"

\* As if the outcome were recorded on any row still pending.
RecordableOnRow(w, s) == rows[s.id].status = "pending"

\* where id, status pending, attempts as selected, and this pass's own claim
Recordable(w, s) ==
    /\ rows[s.id].status = "pending"
    /\ rows[s.id].attempts = s.attempts
    /\ due[s.id] = token[w]

Complete(w) ==
    /\ worker[w].step = "complete"
    /\ LET s == worker[w].cur
           made == s.attempts + 1
           st == Outcome(worker[w].ok, made)
       IN  \/ /\ Recordable(w, s)
              /\ rows' = [rows EXCEPT ![s.id].attempts = @ + 1, ![s.id].status = st]
              /\ due' = [due EXCEPT ![s.id] = IF st = "pending" THEN Skew[w] + Delay[made] ELSE 0]
              /\ worker' = [worker EXCEPT ![w].step = "record"]
           \/ /\ ~Recordable(w, s)
              /\ Continue(w, worker[w].batch)
              /\ UNCHANGED <<rows, due>>
    /\ token' = [token EXCEPT ![w] = 0]
    /\ UNCHANGED <<endpoints, emitting, deleting, fired, crashes>>

(* recordAttempt: the count is an atomic increment, saturated here at the    *)
(* limit, which is all it is compared with; the decision to park reads the   *)
(* count the pass loaded.  An endpoint that has gone throws out of the pass. *)
RecordAttempt(w) ==
    /\ worker[w].step = "record"
    /\ LET s == worker[w].cur
       IN  IF endpoints[s.endpoint].stage = "there"
           THEN /\ endpoints' = [endpoints EXCEPT
                       ![s.endpoint].failures = IF worker[w].ok THEN 0 ELSE Min({@ + 1, FailureLimit}),
                       ![s.endpoint].active = @ /\ (worker[w].ok \/ s.failures + 1 < FailureLimit)]
                /\ Continue(w, worker[w].batch)
           ELSE /\ worker' = [worker EXCEPT ![w] = Idle]
                /\ UNCHANGED endpoints
    /\ UNCHANGED <<rows, due, emitting, deleting, token, fired, crashes>>

\* pruneWebhookDeliveries: terminal rows thirty days old, which is no bound here.
Prune(d) ==
    /\ rows[d].status \in {"delivered", "failed"}
    /\ rows' = [rows EXCEPT ![d] = Removed]
    /\ UNCHANGED <<due, endpoints, emitting, deleting, worker, token, fired, crashes>>

(***************************************************************************)
(* The process of a pass dies.                                              *)
(***************************************************************************)
Crash(w) ==
    /\ worker[w].step # "idle"
    /\ crashes < MaxCrashes
    /\ crashes' = crashes + 1
    /\ worker' = [worker EXCEPT ![w] = Idle]
    /\ token' = [token EXCEPT ![w] = 0]
    /\ UNCHANGED <<rows, due, endpoints, emitting, deleting, fired>>

(* A unit of time passes; a pass in flight outlives its claim by Outlive at   *)
(* most.  Under Prompt the pass of the last firing has started by then, if    *)
(* one of Worker is free for it, and only receivers keep a pass for longer:   *)
(* a call of the database is back within the interval.                        *)
Tick ==
    /\ \A w \in InFlight : token[w] > -Outlive
    /\ Prompt => /\ fired => \A w \in Worker : worker[w].step # "idle"
                 /\ \A w \in Worker : worker[w].step \in {"idle", "post"}
    /\ Prompt \/ \E d \in Pending : due[d] > Floor
    /\ fired' = Prompt
    /\ due' = [d \in Delivery |-> IF d \in Pending /\ due[d] > Floor THEN due[d] - 1 ELSE due[d]]
    /\ token' = [w \in Worker |-> IF w \in InFlight THEN token[w] - 1 ELSE token[w]]
    /\ UNCHANGED <<rows, endpoints, emitting, deleting, worker, crashes>>

DrainStep(w) ==
    Drain(w) \/ Claim(w) \/ PostWebhook(w) \/ Complete(w) \/ RecordAttempt(w)

Next ==
    \/ \E w \in Worker : DrainStep(w) \/ Crash(w)
    \/ \E e \in Endpoint : CreateWebhook(e) \/ ResumeWebhook(e) \/ DeleteDeliveries(e) \/ DeleteWebhook(e)
    \/ \E es \in SUBSET Endpoint : EmitRead(es)
    \/ Emit
    \/ \E d \in Delivery : Prune(d)
    \/ Tick

Spec == Init /\ [][Next]_vars

(* Time passes, a pass the timer has fired for starts, and a pass that runs  *)
(* goes on.  Nobody has to use the procedures, and a process dies at most    *)
(* MaxCrashes times.                                                         *)
Fairness == WF_vars(Tick) /\ \A w \in Worker : WF_vars(DrainStep(w))

FairSpec == Spec /\ Fairness
(***************************************************************************)
(* Properties.                                                              *)
(***************************************************************************)

(* Two passes are between claim and outcome of the same attempt only when    *)
(* the second claimed it after the first's lease had run out, whatever their *)
(* clocks say: what they hold is a lease apart (CLAIM_LEASE_MS).             *)
LeasesDisjoint ==
    \A w, x \in InFlight :
        (w # x /\ worker[w].cur.id = worker[x].cur.id /\ worker[w].cur.attempts = worker[x].cur.attempts)
        => token[w] - token[x] >= Lease \/ token[x] - token[w] >= Lease

(* Of all the passes that hold a delivery, one at most can record an outcome. *)
OneRecorder ==
    \A w, x \in InFlight :
        (w # x /\ Recordable(w, worker[w].cur) /\ Recordable(x, worker[x].cur))
        => worker[w].cur.id # worker[x].cur.id

(* A delivery that was delivered or given up on is never taken back by a pass *)
(* that claimed it earlier; it only goes with its endpoint or its age.        *)
TerminalIsFinal ==
    [][\A d \in Delivery :
          rows[d].status \in {"delivered", "failed"}
          => rows'[d] \in {rows[d], Removed}]_vars

\* A delivery that waits for an outcome and whose endpoint can be signed for.
Signable(d) == d \in Pending /\ rows[d].endpoint \notin Unopenable

\* The older deliveries that end every pass which claims them, and are never given up on.
Blockers(d) == {x \in Pending : x < d /\ rows[x].endpoint \in Unopenable}

(* A pass that dies after its claim costs time and nothing else, and so does  *)
(* a pass that is ended by a secret that does not open, while fewer older     *)
(* deliveries end passes than passes start within a lease: the delivery they  *)
(* stand before is delivered, given up on or removed.                         *)
EverySignableSettles ==
    \A d \in Delivery :
        (Signable(d) /\ Cardinality(Blockers(d)) < Lease) ~> d \notin Pending

(***************************************************************************)
(* What the repository says of this code and the code does not do.          *)
(***************************************************************************)

(* webhook-delivery.ts:142-146: the lease runs out and the row is due again,  *)
(* so that nothing holds an event up for ever.  As many older deliveries of   *)
(* an endpoint whose secret does not open as passes start within a lease do.  *)
NeverHeldForEver == \A d \in Delivery : Signable(d) ~> d \notin Pending

(* webhook-delivery.ts:264-265: a run of failures parks the endpoint and one *)
(* success clears the count.                                                 *)
ParkedAfterRun ==
    [][\A e \in Endpoint :
          endpoints[e].active /\ ~endpoints'[e].active => endpoints'[e].failures = FailureLimit]_vars

(* org.ts:969-970: an endpoint that does not answer should stop being posted *)
(* to.  A delivery selected while its endpoint is parked is not claimed.     *)
ParkedNotClaimed ==
    [][\A w \in Worker :
          worker[w].step = "idle" /\ worker'[w].step = "claim"
          => \A s \in worker'[w].batch : endpoints[s.endpoint].active]_vars

(* webhook-delivery.ts:193: an event is queued for every endpoint that asked *)
(* for it, those that still exist when it is.                                *)
QueuedForAll ==
    [][\A e \in emitting :
          (emitting' = {} /\ endpoints[e].stage = "there")
          => \E d \in Delivery : rows[d].status = "none" /\ rows'[d].status = "pending" /\ rows'[d].endpoint = e]_vars

=============================================================================
