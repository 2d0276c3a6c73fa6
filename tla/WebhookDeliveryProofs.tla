------------------------- MODULE WebhookDeliveryProofs -------------------------
(***************************************************************************)
(* The claim of a delivery is exclusive for its lease and one pass at most   *)
(* records an outcome, for any number of passes whose clocks differ in any   *)
(* way, any lease, retry schedule and number of crashes.                     *)
(***************************************************************************)
EXTENDS WebhookDelivery, TLAPS

Rows == [status : {"none", "pending", "delivered", "failed", "removed"},
         endpoint : Endpoint \cup {None}, attempts : Nat]
Hooks == [stage : {"none", "there", "gone"}, active : BOOLEAN, failures : Int]
Snapshots == [id : Delivery, attempts : 0..(MaxAttempts - 1), endpoint : Endpoint \cup {None}, failures : Int]
Passes == [step : {"idle", "claim", "post", "complete", "record"},
           batch : SUBSET Snapshots, cur : Snapshots \cup {None}, ok : BOOLEAN]

\* The part of the types the argument needs.
Shape ==
    /\ rows \in [Delivery -> Rows]
    /\ due \in [Delivery -> Int]
    /\ token \in [Worker -> Int]
    /\ endpoints \in [Endpoint -> Hooks]
    /\ emitting \in SUBSET Endpoint
    /\ worker \in [Worker -> Passes]
    /\ \A d \in Pending : rows[d].endpoint \in Endpoint

\* What a pass between claim and outcome knows of its delivery.
Holds(w) ==
    /\ worker[w].cur \in Snapshots
    /\ rows[worker[w].cur.id].status # "none"
    /\ rows[worker[w].cur.id].status = "pending" =>
          worker[w].cur.attempts <= rows[worker[w].cur.id].attempts
    /\ (rows[worker[w].cur.id].status = "pending"
          /\ worker[w].cur.attempts = rows[worker[w].cur.id].attempts)
       => token[w] <= due[worker[w].cur.id]

(* A claim never exceeds the row's own due time while the attempt is open, so *)
(* that whoever finds the row due finds every earlier claim run out.          *)
IInv ==
    /\ Shape
    /\ \A w \in InFlight : Holds(w)
    /\ LeasesDisjoint

-------------------------------------------------------------------------------

LEMMA FailureCount ==
    ASSUME NEW n \in Int PROVE Min({n + 1, FailureLimit}) \in Int
<1>1. FailureLimit \in Int
    BY WebhookAssumption
<1>2. CASE n + 1 <= FailureLimit
    BY <1>1, <1>2 DEF Min
<1>3. CASE FailureLimit <= n + 1
    BY <1>1, <1>3 DEF Min
<1> QED BY <1>1, <1>2, <1>3

(* A step that changes neither the queue nor a pass in flight.                *)
LEMMA AsidePreserves ==
    ASSUME IInv, UNCHANGED <<rows, due>>, Shape',
           \A w \in InFlight' :
               w \in InFlight /\ worker'[w].cur = worker[w].cur /\ token'[w] = token[w]
    PROVE  IInv'
<1>1. \A w \in InFlight' : Holds(w)'
    BY DEF IInv, Holds
<1>2. LeasesDisjoint'
    BY DEF IInv, LeasesDisjoint
<1> QED BY <1>1, <1>2 DEF IInv

LEMMA EndpointsPreserve ==
    ASSUME IInv, NEW e \in Endpoint, CreateWebhook(e) \/ ResumeWebhook(e) \/ DeleteWebhook(e)
    PROVE  IInv'
<1>1. endpoints[e] \in Hooks
    BY DEF IInv, Shape
<1>2. PICK h \in Hooks : endpoints' = [endpoints EXCEPT ![e] = h]
    <2>1. CASE CreateWebhook(e)
        <3>1. [endpoints[e] EXCEPT !.stage = "there"] \in Hooks
            BY <1>1 DEF Hooks
        <3>2. endpoints' = [endpoints EXCEPT ![e] = [endpoints[e] EXCEPT !.stage = "there"]]
            BY <2>1 DEF CreateWebhook, IInv, Shape
        <3> QED BY <3>1, <3>2
    <2>2. CASE ResumeWebhook(e)
        <3>1. [endpoints[e] EXCEPT !.active = TRUE, !.failures = 0] \in Hooks
            BY <1>1, TRUE \in BOOLEAN, 0 \in Int DEF Hooks
        <3>2. endpoints' = [endpoints EXCEPT ![e] = [endpoints[e] EXCEPT !.active = TRUE, !.failures = 0]]
            BY <2>2 DEF ResumeWebhook, IInv, Shape
        <3> QED BY <3>1, <3>2
    <2>3. CASE DeleteWebhook(e)
        <3> DEFINE st == IF \E d \in Queued : rows[d].endpoint = e THEN endpoints[e].stage ELSE "gone"
        <3>1. st \in {"none", "there", "gone"}
            BY <1>1 DEF Hooks
        <3>2. endpoints' = [endpoints EXCEPT ![e] = [endpoints[e] EXCEPT !.stage = st]]
            BY <2>3 DEF DeleteWebhook, IInv, Shape
        <3> HIDE DEF st
        <3>3. [endpoints[e] EXCEPT !.stage = st] \in Hooks
            BY <1>1, <3>1 DEF Hooks
        <3> QED BY <3>2, <3>3
    <2> QED BY <2>1, <2>2, <2>3
<1>3. UNCHANGED <<rows, due, emitting, worker, token>>
    BY DEF CreateWebhook, ResumeWebhook, DeleteWebhook
<1>4. Shape'
    BY <1>2, <1>3 DEF IInv, Shape, Pending
<1> QED BY <1>3, <1>4, AsidePreserves DEF InFlight

LEMMA EmitReadPreserves ==
    ASSUME IInv, NEW es \in SUBSET Endpoint, EmitRead(es) PROVE IInv'
<1>1. Shape'
    BY DEF IInv, Shape, Pending, EmitRead
<1> QED BY <1>1, AsidePreserves DEF EmitRead, InFlight

(* Rows that go, with their endpoint or their age, free their holders.        *)
LEMMA RemovalPreserves ==
    ASSUME IInv, (\E e \in Endpoint : DeleteDeliveries(e)) \/ (\E d \in Delivery : Prune(d))
    PROVE  IInv'
<1>1. /\ UNCHANGED <<token, worker, endpoints, emitting>>
      /\ rows' \in [Delivery -> Rows] /\ due' \in [Delivery -> Int]
      /\ \A d \in Delivery : (rows'[d] = rows[d] /\ due'[d] = due[d]) \/ rows'[d].status = "removed"
    <2>1. Removed \in Rows /\ Removed.status = "removed"
        BY DEF Removed, Rows
    <2> HIDE DEF Removed
    <2> QED BY <2>1 DEF IInv, Shape, DeleteDeliveries, Prune, Queued
<1>2. Shape'
    BY <1>1 DEF IInv, Shape, Pending
<1>3. InFlight' = InFlight
    BY <1>1 DEF InFlight
<1>4. \A w \in InFlight' : Holds(w)'
    BY <1>1, <1>3 DEF IInv, Shape, Holds, Snapshots
<1>5. LeasesDisjoint'
    BY <1>1, <1>3 DEF IInv, LeasesDisjoint
<1> QED BY <1>2, <1>4, <1>5 DEF IInv

(* New rows come from unused ids, which nobody holds.                         *)
LEMMA EmitPreserves ==
    ASSUME IInv, Emit PROVE IInv'
<1>1. /\ rows' \in [Delivery -> Rows]
      /\ due' \in [Delivery -> Int]
      /\ \A d \in Delivery : rows[d].status # "none" => rows'[d] = rows[d] /\ due'[d] = due[d]
      /\ \A d \in Delivery : rows'[d] # rows[d] => rows'[d].endpoint \in Endpoint
      /\ UNCHANGED <<token, worker, endpoints>>
      /\ emitting' \in SUBSET Endpoint
    <2>1. CASE UNCHANGED <<rows, due>>
        BY <2>1 DEF IInv, Shape, Emit
    <2>2. CASE \E f \in [NewRows -> emitting] :
              /\ rows' = [d \in Delivery |->
                             IF d \in NewRows THEN [status |-> "pending", endpoint |-> f[d], attempts |-> 0]
                             ELSE rows[d]]
              /\ due' = [d \in Delivery |-> IF d \in NewRows THEN 0 ELSE due[d]]
        <3> PICK f \in [NewRows -> emitting] :
              /\ rows' = [d \in Delivery |->
                             IF d \in NewRows THEN [status |-> "pending", endpoint |-> f[d], attempts |-> 0]
                             ELSE rows[d]]
              /\ due' = [d \in Delivery |-> IF d \in NewRows THEN 0 ELSE due[d]]
            BY <2>2
        <3>1. \A d \in NewRows : f[d] \in Endpoint /\ rows[d].status = "none"
            BY DEF IInv, Shape, NewRows, Unused
        <3> QED BY <3>1 DEF IInv, Shape, Emit, Rows
    <2> QED BY <2>1, <2>2 DEF Emit
<1>2. Shape'
    BY <1>1 DEF IInv, Shape, Pending
<1>3. InFlight' = InFlight
    BY <1>1 DEF InFlight
<1>4. \A w \in InFlight' : Holds(w)'
    BY <1>1, <1>3 DEF IInv, Shape, Holds, Snapshots
<1>5. LeasesDisjoint'
    BY <1>1, <1>3 DEF IInv, LeasesDisjoint
<1> QED BY <1>2, <1>4, <1>5 DEF IInv

LEMMA DrainPreserves ==
    ASSUME IInv, NEW w \in Worker, Drain(w) PROVE IInv'
<1>1. Candidates(w) \in SUBSET Snapshots
    <2>1. \A d \in Pending : rows[d] \in Rows /\ endpoints[rows[d].endpoint] \in Hooks
        BY DEF IInv, Shape, Pending
    <2>2. \A d \in Pending : rows[d].attempts < MaxAttempts =>
             [id |-> d, attempts |-> rows[d].attempts, endpoint |-> rows[d].endpoint,
              failures |-> endpoints[rows[d].endpoint].failures] \in Snapshots
        BY <2>1, WebhookAssumption DEF Pending, Rows, Hooks, Snapshots
    <2> HIDE DEF Snapshots
    <2> QED BY <2>2 DEF Candidates
<1>2. Idle \in Passes /\ [Idle EXCEPT !.step = "claim", !.batch = Candidates(w)] \in Passes
    BY <1>1 DEF Idle, Passes
<1>3. Shape'
    BY <1>2 DEF IInv, Shape, Drain, Continue, Pending
<1>4. \A x \in InFlight' : x \in InFlight /\ worker'[x].cur = worker[x].cur
    BY DEF IInv, Shape, Drain, Continue, InFlight, Idle
<1> QED BY <1>3, <1>4, AsidePreserves DEF Drain

(* A pass that goes on to the rest of its batch holds nothing.                *)
LEMMA ContinueShape ==
    ASSUME Shape, NEW w \in Worker, NEW b \in SUBSET Snapshots, Continue(w, b)
    PROVE  /\ worker' \in [Worker -> Passes]
           /\ worker'[w].step \in {"idle", "claim"}
           /\ \A x \in Worker : x # w => worker'[x] = worker[x]
    BY DEF Shape, Continue, Idle, Passes

LEMMA LeavesFlight ==
    ASSUME Shape, NEW w \in Worker, worker'[w].step \in {"idle", "claim", "record"},
           \A x \in Worker : x # w => worker'[x] = worker[x]
    PROVE  \A x \in InFlight' : x \in InFlight /\ x # w /\ worker'[x].cur = worker[x].cur
    BY DEF InFlight

LEMMA PostPreserves ==
    ASSUME IInv, NEW w \in Worker, PostWebhook(w) PROVE IInv'
<1>1. worker[w] \in Passes
    BY DEF IInv, Shape
<1>2. PICK ok \in BOOLEAN : worker' = [worker EXCEPT ![w] = [worker[w] EXCEPT !.step = "complete", !.ok = ok]]
    BY DEF IInv, Shape, PostWebhook
<1>3. /\ [worker[w] EXCEPT !.step = "complete", !.ok = ok] \in Passes
      /\ [worker[w] EXCEPT !.step = "complete", !.ok = ok].cur = worker[w].cur
    BY <1>1 DEF Passes
<1>4. Shape'
    BY <1>2, <1>3 DEF IInv, Shape, PostWebhook, Pending
<1>5. \A x \in InFlight' : x \in InFlight /\ worker'[x].cur = worker[x].cur
    BY <1>2, <1>3 DEF IInv, Shape, PostWebhook, InFlight
<1> QED BY <1>4, <1>5, AsidePreserves DEF PostWebhook

LEMMA CrashPreserves ==
    ASSUME IInv, NEW w \in Worker, Crash(w) PROVE IInv'
<1>1. Shape'
    BY DEF IInv, Shape, Crash, Pending, Idle, Passes
<1>2. \A x \in InFlight' :
          x \in InFlight /\ worker'[x].cur = worker[x].cur /\ token'[x] = token[x]
    BY DEF IInv, Shape, Crash, InFlight, Idle
<1> QED BY <1>1, <1>2, AsidePreserves DEF Crash

LEMMA RecordPreserves ==
    ASSUME IInv, NEW w \in Worker, RecordAttempt(w) PROVE IInv'
<1>1. worker[w].batch \in SUBSET Snapshots
    BY DEF IInv, Shape, Passes
<1>2. /\ worker' \in [Worker -> Passes]
      /\ worker'[w].step \in {"idle", "claim"}
      /\ \A x \in Worker : x # w => worker'[x] = worker[x]
    <2>1. CASE Continue(w, worker[w].batch)
        BY <1>1, <2>1, ContinueShape DEF IInv
    <2>2. CASE worker' = [worker EXCEPT ![w] = Idle]
        BY <2>2 DEF IInv, Shape, Idle, Passes
    <2> QED BY <2>1, <2>2 DEF RecordAttempt
<1>3. endpoints' \in [Endpoint -> Hooks]
    <2> DEFINE e == worker[w].cur.endpoint
               n == IF worker[w].ok THEN 0 ELSE Min({endpoints[e].failures + 1, FailureLimit})
               a == endpoints[e].active /\ (worker[w].ok \/ worker[w].cur.failures + 1 < FailureLimit)
               h == [endpoints[e] EXCEPT !.failures = n, !.active = a]
    <2>1. CASE e \notin Endpoint
        BY <2>1 DEF IInv, Shape, RecordAttempt
    <2>2. CASE e \in Endpoint
        <3>1. endpoints[e] \in Hooks
            BY <2>2 DEF IInv, Shape
        <3>2. n \in Int
            BY <3>1, FailureCount DEF Hooks
        <3>3. a \in BOOLEAN
            BY <3>1, Zenon DEF Hooks
        <3>4. endpoints' = [endpoints EXCEPT ![e] = h] \/ UNCHANGED endpoints
            BY <2>2 DEF IInv, Shape, RecordAttempt
        <3> HIDE DEF n, a
        <3>5. h \in Hooks
            BY <3>1, <3>2, <3>3 DEF Hooks
        <3> QED BY <3>4, <3>5 DEF IInv, Shape
    <2> QED BY <2>1, <2>2
<1>4. Shape'
    BY <1>2, <1>3 DEF IInv, Shape, RecordAttempt, Pending
<1>5. \A x \in InFlight' : x \in InFlight /\ worker'[x].cur = worker[x].cur
    BY <1>2, LeavesFlight DEF IInv
<1> QED BY <1>4, <1>5, AsidePreserves DEF RecordAttempt

(* A claim starts when every earlier claim of the attempt has run out.        *)
LEMMA ClaimPreserves ==
    ASSUME IInv, NEW w \in Worker, Claim(w) PROVE IInv'
<1> PICK s \in worker[w].batch :
        \/ /\ Claimable(w, s)
           /\ due' = [due EXCEPT ![s.id] = Skew[w] + Lease]
           /\ \/ worker' = [worker EXCEPT ![w] = Idle] /\ UNCHANGED token
              \/ /\ worker' = [worker EXCEPT ![w] =
                        [step |-> "post", batch |-> worker[w].batch \ {s}, cur |-> s, ok |-> FALSE]]
                 /\ token' = [token EXCEPT ![w] = Skew[w] + Lease]
        \/ Continue(w, worker[w].batch \ {s}) /\ UNCHANGED <<due, token>>
    BY DEF Claim
<1>1. /\ worker[w].batch \in SUBSET Snapshots /\ s \in Snapshots
      /\ s.id \in Delivery /\ s.attempts \in Nat
    BY WebhookAssumption DEF IInv, Shape, Passes, Snapshots
<1>2. CASE Continue(w, worker[w].batch \ {s}) /\ UNCHANGED <<due, token>>
    <2>1. worker[w].batch \ {s} \in SUBSET Snapshots
        BY <1>1
    <2>2. Shape'
        BY <1>2, <2>1, ContinueShape DEF IInv, Shape, Claim, Pending
    <2>3. \A x \in InFlight' : x \in InFlight /\ worker'[x].cur = worker[x].cur
        BY <1>2, <2>1, ContinueShape, LeavesFlight DEF IInv
    <2> QED BY <1>2, <2>2, <2>3, AsidePreserves DEF Claim
<1>3. CASE /\ Claimable(w, s)
           /\ due' = [due EXCEPT ![s.id] = Skew[w] + Lease]
           /\ \/ worker' = [worker EXCEPT ![w] = Idle] /\ UNCHANGED token
              \/ /\ worker' = [worker EXCEPT ![w] =
                        [step |-> "post", batch |-> worker[w].batch \ {s}, cur |-> s, ok |-> FALSE]]
                 /\ token' = [token EXCEPT ![w] = Skew[w] + Lease]
    <2>1. Skew[w] \in Nat /\ Lease \in Nat /\ Lease > 0
        BY WebhookAssumption
    <2>2. /\ due' \in [Delivery -> Int] /\ due'[s.id] = Skew[w] + Lease
          /\ \A d \in Delivery : d # s.id => due'[d] = due[d]
          /\ token' \in [Worker -> Int]
          /\ \A x \in Worker : x # w => token'[x] = token[x]
        BY <1>1, <1>3, <2>1 DEF IInv, Shape
    <2>3. UNCHANGED <<rows, endpoints, emitting>>
        BY DEF Claim
    <2>4. /\ worker' \in [Worker -> Passes]
          /\ \A x \in Worker : x # w => worker'[x] = worker[x]
          /\ \/ worker'[w].step = "idle"
             \/ worker'[w].step = "post" /\ worker'[w].cur = s /\ token'[w] = Skew[w] + Lease
        <3>1. Idle \in Passes /\ Idle.step = "idle"
            BY DEF Idle, Passes
        <3>2. [step |-> "post", batch |-> worker[w].batch \ {s}, cur |-> s, ok |-> FALSE] \in Passes
            BY <1>1 DEF Passes
        <3> HIDE DEF Idle
        <3>3. CASE worker' = [worker EXCEPT ![w] = Idle]
            BY <3>1, <3>3 DEF IInv, Shape
        <3>4. CASE /\ worker' = [worker EXCEPT ![w] =
                          [step |-> "post", batch |-> worker[w].batch \ {s}, cur |-> s, ok |-> FALSE]]
                   /\ token' = [token EXCEPT ![w] = Skew[w] + Lease]
            BY <3>2, <3>4 DEF IInv, Shape
        <3> QED BY <1>3, <3>3, <3>4
    <2>5. Shape'
        BY <2>2, <2>3, <2>4 DEF IInv, Shape, Pending
    <2>6. \A x \in InFlight' : x # w => x \in InFlight /\ worker'[x].cur = worker[x].cur
        BY <2>4 DEF InFlight
    <2>7. w \in InFlight' => worker'[w].cur = s /\ token'[w] = Skew[w] + Lease
        BY <2>4 DEF InFlight
    <2>8. /\ rows[s.id].status = "pending" /\ rows[s.id].attempts = s.attempts /\ due[s.id] <= Skew[w]
          /\ due[s.id] \in Int
        BY <1>1, <1>3 DEF Claimable, IInv, Shape
    <2>9. ASSUME NEW x \in InFlight', x # w, worker[x].cur.id = s.id, worker[x].cur.attempts = s.attempts
          PROVE  token[x] <= Skew[w] /\ token[x] \in Int
        BY <2>1, <2>6, <2>8, <2>9 DEF IInv, Holds, Shape, InFlight
    <2>10. ASSUME NEW x \in InFlight' PROVE Holds(x)'
        <3>1. CASE x = w
            BY <1>1, <2>1, <2>2, <2>3, <2>7, <2>8, <2>10, <3>1 DEF Holds
        <3>2. CASE x # w /\ worker[x].cur.id = s.id
            <4>1. Holds(x) /\ x \in Worker /\ worker'[x].cur = worker[x].cur
                BY <2>6, <2>10, <3>2 DEF IInv, InFlight
            <4>2. worker[x].cur.attempts = s.attempts => token[x] <= Skew[w] /\ token[x] \in Int
                BY <2>9, <2>10, <3>2
            <4> QED BY <2>1, <2>2, <2>3, <2>8, <3>2, <4>1, <4>2 DEF Holds
        <3>3. CASE x # w /\ worker[x].cur.id # s.id
            BY <2>2, <2>3, <2>6, <2>10, <3>3 DEF IInv, Holds, InFlight, Snapshots
        <3> QED BY <3>1, <3>2, <3>3
    <2>11. LeasesDisjoint'
        <3> SUFFICES ASSUME NEW x \in InFlight', NEW y \in InFlight', x # y,
                            worker'[x].cur.id = worker'[y].cur.id,
                            worker'[x].cur.attempts = worker'[y].cur.attempts
                     PROVE  token'[x] - token'[y] >= Lease \/ token'[y] - token'[x] >= Lease
            BY DEF LeasesDisjoint
        <3>1. CASE x # w /\ y # w
            BY <2>2, <2>6, <3>1 DEF IInv, LeasesDisjoint, InFlight
        <3>2. CASE x = w
            BY <2>1, <2>2, <2>6, <2>7, <2>9, <3>2 DEF InFlight
        <3>3. CASE y = w
            BY <2>1, <2>2, <2>6, <2>7, <2>9, <3>3 DEF InFlight
        <3> QED BY <3>1, <3>2, <3>3
    <2> QED BY <2>5, <2>10, <2>11 DEF IInv
<1> QED BY <1>2, <1>3

(* The outcome is recorded under the latest claim only, and closes the        *)
(* attempt for whoever else holds one.                                        *)
LEMMA CompletePreserves ==
    ASSUME IInv, NEW w \in Worker, Complete(w) PROVE IInv'
<1> DEFINE s == worker[w].cur
           made == s.attempts + 1
<1>1. w \in InFlight /\ s \in Snapshots /\ s.id \in Delivery /\ s.attempts \in Nat
    BY SMTT(30) DEF IInv, Holds, Complete, InFlight, Snapshots
<1>2. CASE /\ Recordable(w, s) /\ worker' = [worker EXCEPT ![w].step = "record"]
           /\ due' = [due EXCEPT ![s.id] = IF Outcome(worker[w].ok, made) = "pending"
                                           THEN Skew[w] + Delay[made] ELSE 0]
           /\ rows' = [rows EXCEPT ![s.id].attempts = @ + 1, ![s.id].status = Outcome(worker[w].ok, made)]
    <2> DEFINE st == Outcome(worker[w].ok, made)
               old == rows[s.id]
               n == old.attempts + 1
               r == [old EXCEPT !.attempts = n, !.status = st]
    <2>1. rows' = [rows EXCEPT ![s.id] = r]
        BY <1>1, <1>2 DEF IInv, Shape
    <2>2. st \in {"delivered", "failed", "pending"}
        BY DEF Outcome
    <2>3. /\ old \in Rows /\ old.endpoint \in Endpoint /\ rows[s.id] = old
          /\ old.status = "pending" /\ worker[w] \in Passes
        BY <1>1, <1>2 DEF IInv, Shape, Recordable, Pending
    <2>11. n \in Nat
        BY <2>3 DEF Rows
    <2> HIDE DEF st, old, n
    <2>4. r \in Rows /\ r.status # "none" /\ r.endpoint \in Endpoint /\ r.attempts = n
        BY <2>2, <2>3, <2>11 DEF Rows
    <2> HIDE DEF r
    <2>5. due' \in [Delivery -> Int] /\ \A d \in Delivery : d # s.id => due'[d] = due[d]
        <3>1. Skew[w] \in Nat /\ made \in 1..MaxAttempts /\ Delay \in [1..MaxAttempts -> Nat]
            BY <1>1, WebhookAssumption DEF Snapshots
        <3>2. PICK at \in Int : at = IF st = "pending" THEN Skew[w] + Delay[made] ELSE 0
            BY <3>1
        <3>3. due' = [due EXCEPT ![s.id] = at]
            BY <1>2, <3>2 DEF st
        <3> QED BY <1>1, <3>3 DEF IInv, Shape
    <2>6. Shape'
        BY <1>1, <1>2, <2>1, <2>3, <2>4, <2>5 DEF IInv, Shape, Complete, Pending, Passes
    <2>7. /\ worker'[w].step = "record" /\ \A x \in Worker : x # w => worker'[x] = worker[x]
          /\ \A x \in Worker : x # w => token'[x] = token[x]
        BY <1>2 DEF IInv, Shape, Complete, Passes
    <2>8. \A x \in InFlight' : x \in InFlight /\ x # w /\ worker'[x].cur = worker[x].cur
        BY <2>7, LeavesFlight DEF IInv
    <2>9. ASSUME NEW x \in InFlight' PROVE Holds(x)'
        <3>1. x \in InFlight /\ x # w /\ worker'[x].cur = worker[x].cur /\ Holds(x) /\ token'[x] = token[x]
            BY <2>7, <2>8, <2>9 DEF IInv, InFlight
        <3>2. CASE worker[x].cur.id = s.id
            <4>1. n = old.attempts + 1 /\ old.attempts \in Nat /\ rows'[s.id] = r /\ old = rows[s.id]
                BY <1>1, <2>1, <2>3 DEF n, IInv, Shape, Rows
            <4>2. worker[x].cur.attempts \in Nat
                BY <3>1, WebhookAssumption DEF Holds, Snapshots
            <4> QED BY <2>3, <2>4, <3>1, <3>2, <4>1, <4>2 DEF Holds
        <3>3. CASE worker[x].cur.id # s.id
            BY <2>1, <2>5, <3>1, <3>3 DEF IInv, Shape, Holds, Snapshots
        <3> QED BY <3>2, <3>3
    <2>10. LeasesDisjoint'
        BY <2>7, <2>8 DEF IInv, LeasesDisjoint, InFlight
    <2> QED BY <2>6, <2>9, <2>10 DEF IInv
<1>3. CASE Continue(w, worker[w].batch) /\ UNCHANGED <<rows, due>>
    <2>1. worker[w].batch \in SUBSET Snapshots
        BY DEF IInv, Shape, Passes
    <2>2. Shape'
        BY <1>3, <2>1, ContinueShape DEF IInv, Shape, Complete, Pending
    <2>3. \A x \in InFlight' : x \in InFlight /\ x # w /\ worker'[x].cur = worker[x].cur
        BY <1>3, <2>1, ContinueShape, LeavesFlight DEF IInv
    <2>4. \A x \in Worker : x # w => token'[x] = token[x]
        BY DEF IInv, Shape, Complete
    <2> QED BY <1>3, <2>2, <2>3, <2>4, AsidePreserves DEF Complete, InFlight
<1> QED BY <1>2, <1>3 DEF Complete

(* Time passes for a row and for the claims on it alike; a row held at Floor  *)
(* is further back than any claim a pass in flight still has.                 *)
LEMMA TickPreserves ==
    ASSUME IInv, Tick PROVE IInv'
<1>1. /\ UNCHANGED <<rows, endpoints, emitting, worker>>
      /\ due' = [d \in Delivery |-> IF d \in Pending /\ due[d] > Floor THEN due[d] - 1 ELSE due[d]]
      /\ token' = [w \in Worker |-> IF w \in InFlight THEN token[w] - 1 ELSE token[w]]
      /\ \A w \in InFlight : token[w] > -Outlive
    BY DEF Tick
<1>2. Floor \in Int /\ Floor < -Outlive /\ -Outlive \in Int
    BY WebhookAssumption DEF Floor
<1>3. due' \in [Delivery -> Int] /\ token' \in [Worker -> Int]
    BY <1>1 DEF IInv, Shape
<1>4. Shape'
    BY <1>1, <1>3 DEF IInv, Shape, Pending
<1>5. InFlight' = InFlight
    BY <1>1 DEF InFlight
<1>6. ASSUME NEW w \in InFlight' PROVE Holds(w)'
    <2>1. w \in InFlight /\ w \in Worker /\ Holds(w) /\ worker[w].cur.id \in Delivery
        BY <1>5, <1>6 DEF IInv, Holds, InFlight, Snapshots
    <2>2. token[w] \in Int /\ token'[w] = token[w] - 1 /\ token[w] > -Outlive
        BY <1>1, <2>1 DEF IInv, Shape
    <2>3. CASE /\ rows[worker[w].cur.id].status = "pending"
               /\ worker[w].cur.attempts = rows[worker[w].cur.id].attempts
        <3>1. token[w] <= due[worker[w].cur.id] /\ worker[w].cur.id \in Pending
            BY <2>1, <2>3 DEF Holds, Pending
        <3>2. due[worker[w].cur.id] \in Int /\ due[worker[w].cur.id] > Floor
            BY <1>2, <2>1, <2>2, <3>1 DEF IInv, Shape
        <3>3. token'[w] <= due'[worker[w].cur.id]
            BY <1>1, <2>1, <2>2, <3>1, <3>2
        <3> QED BY <1>1, <2>1, <3>3 DEF Holds
    <2> QED BY <1>1, <2>1, <2>3 DEF Holds
<1>7. LeasesDisjoint'
    BY <1>1, <1>5 DEF IInv, Shape, LeasesDisjoint, InFlight
<1> QED BY <1>4, <1>6, <1>7 DEF IInv

-------------------------------------------------------------------------------

LEMMA InitInvariant == Init => IInv
<1> SUFFICES ASSUME Init PROVE IInv
    OBVIOUS
<1>1. InFlight = {} /\ Pending = {}
    BY DEF Init, InFlight, Pending, Idle
<1>2. Shape
    BY <1>1 DEF Init, Shape, Rows, Hooks, Passes, Idle
<1> QED BY <1>1, <1>2 DEF IInv, LeasesDisjoint

LEMMA StepInvariant == IInv /\ [Next]_vars => IInv'
<1> SUFFICES ASSUME IInv, [Next]_vars PROVE IInv'
    OBVIOUS
<1>1. CASE UNCHANGED vars
    BY <1>1 DEF vars, IInv, Shape, Holds, LeasesDisjoint, InFlight, Pending, Recordable
<1>2. CASE \E w \in Worker : DrainStep(w) \/ Crash(w)
    BY <1>2, DrainPreserves, ClaimPreserves, PostPreserves, CompletePreserves, RecordPreserves,
       CrashPreserves DEF DrainStep
<1>3. CASE \E e \in Endpoint : CreateWebhook(e) \/ ResumeWebhook(e) \/ DeleteDeliveries(e) \/ DeleteWebhook(e)
    BY <1>3, EndpointsPreserve, RemovalPreserves
<1>4. CASE (\E es \in SUBSET Endpoint : EmitRead(es)) \/ Emit \/ Tick
    BY <1>4, EmitReadPreserves, EmitPreserves, TickPreserves
<1>5. CASE \E d \in Delivery : Prune(d)
    BY <1>5, RemovalPreserves
<1> QED BY <1>1, <1>2, <1>3, <1>4, <1>5 DEF Next

(* The inductive invariant of the claims holds in every reachable state.      *)
THEOREM Invariant == Spec => []IInv
BY InitInvariant, StepInvariant, PTL DEF Spec

(* Any two passes that hold the same attempt of a delivery claimed it a lease *)
(* apart, whatever their clocks, crashes and stalls (CLAIM_LEASE_MS).         *)
THEOREM ClaimsAreALeaseApart == Spec => []LeasesDisjoint
<1>1. IInv => LeasesDisjoint
    BY DEF IInv
<1> QED BY <1>1, Invariant, PTL

(* The outcome of an attempt is recorded under one claim: no two passes can   *)
(* both find the row as they claimed it.                                      *)
THEOREM OneRecords == Spec => []OneRecorder
<1>1. IInv => OneRecorder
    <2> SUFFICES ASSUME IInv, NEW w \in InFlight, NEW x \in InFlight, w # x,
                        Recordable(w, worker[w].cur), Recordable(x, worker[x].cur),
                        worker[w].cur.id = worker[x].cur.id
                 PROVE  FALSE
        BY DEF OneRecorder
    <2>1. worker[w].cur.attempts = worker[x].cur.attempts /\ token[w] = token[x]
        BY DEF Recordable
    <2>2. token[w] \in Int /\ Lease \in Nat /\ Lease > 0
        BY WebhookAssumption DEF IInv, Shape, InFlight
    <2> QED BY <2>1, <2>2 DEF IInv, LeasesDisjoint
<1> QED BY <1>1, Invariant, PTL
=============================================================================
