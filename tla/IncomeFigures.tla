---------------------------- MODULE IncomeFigures ----------------------------
(***************************************************************************)
(* The valuation of let space in packages/appraisal-engine/src/engine.ts:  *)
(* the rent analysis and the three ways of capitalising it, the growth     *)
(* explicit cash flow over a hold, and the matrix of growth against exit   *)
(* yield.  The two yields found by bisection are left out.                 *)
(*                                                                         *)
(* Rates are given in parts of Whole, so that a yield of 1 is one half; as *)
(* in DevelopmentFigures the instances take amounts every division divides. *)
(***************************************************************************)
EXTENDS Integers, Sequences, FiniteSetsExt

Whole == 2

Total(s, Value(_)) == MapThenSumSet(LAMBDA i : Value(s[i]), DOMAIN s)

ypPerpetuity(x, i) == IF i > 0 THEN (x * Whole) \div i ELSE 0
pvOfPound(x, n, i) == (x * Whole^n) \div (Whole + i)^n
ypYears(x, n, i) == IF i > 0 THEN ypPerpetuity(x - pvOfPound(x, n, i), i) ELSE x * n
Grown(x, n, g) == (x * (Whole + g)^n) \div Whole^n

-----------------------------------------------------------------------------
(* The rent roll r: its lines, the method, the percentages and the fixed    *)
(* deductions, which the lines bear in proportion to the rent each passes.  *)

AfterVoid(rent, l) == (l.area * rent * (100 - l.voidPct)) \div 100
Passing(r) == Total(r.lines, LAMBDA l : AfterVoid(l.rent, l))
netRent(r) == Passing(r) - (Passing(r) * r.nonRecoverablePct) \div 100 - r.deductions

\* Mutation: every line bears all the deductions.
NetOfUnshared(r, l, afterVoid) == (afterVoid * (100 - r.nonRecoverablePct)) \div 100 - r.deductions

\* Rent less its own irrecoverables and the line's share of the deductions.
NetOf(r, l, afterVoid) ==
    (afterVoid * (100 - r.nonRecoverablePct)) \div 100
    - (IF Passing(r) > 0 THEN (r.deductions * AfterVoid(l.rent, l)) \div Passing(r) ELSE 0)

\* A line of given net rents, now and at its review.
Valued(r, l, passing, erv) ==
    LET reversionary == r.method # "perpetuity" /\ l.toReview > 0 /\ erv # passing
        reversionYield == IF r.reversionYield = 0 THEN l.yield ELSE r.reversionYield
        Deferred(x) == pvOfPound(ypPerpetuity(x, reversionYield), l.toReview, reversionYield)
    IN  [passing |-> passing, erv |-> erv, toReview |-> l.toReview,
         term |-> IF reversionary /\ r.method = "termReversion"
                  THEN ypYears(passing, l.toReview, l.yield) ELSE ypPerpetuity(passing, l.yield),
         reversion |-> IF ~reversionary THEN 0
                       ELSE Deferred(IF r.method = "termReversion" THEN erv ELSE erv - passing)]

LineValue(r, l) == Valued(r, l, NetOf(r, l, AfterVoid(l.rent, l)), NetOf(r, l, AfterVoid(l.erv, l)))

capitaliseIncome(r) ==
    LET Costed(lines, gross, beforeCosts) ==
            [lines |-> lines, gross |-> gross, beforeCosts |-> beforeCosts,
             net |-> (beforeCosts * 100) \div (100 + r.purchaserPct)]
        Summed(lines, gross) == Costed(lines, gross, gross - (netRent(r) * r.letUpMonths) \div 12)
        Added(lines) == Summed(lines, Total(lines, LAMBDA l : l.term + l.reversion))
    IN  Added([i \in DOMAIN r.lines |-> LineValue(r, r.lines[i])])

-----------------------------------------------------------------------------
(* The cash flow over a hold: d has the years held, the review cycle, the   *)
(* growth, the discount rate, the exit yield and the exit costs.            *)

\* A line passes its rent until its first review, then the rental value grown
\* to the last review.
FirstReview(l, d) == IF l.toReview > 0 THEN l.toReview ELSE d.cycle
LastReview(l, d, t) == FirstReview(l, d) + ((t - FirstReview(l, d)) \div d.cycle) * d.cycle
LineRent(l, d, t) ==
    IF t < FirstReview(l, d) THEN l.passing ELSE Grown(l.erv, LastReview(l, d, t), d.growth)
rentIn(cap, d, t) == Total(cap.lines, LAMBDA l : LineRent(l, d, t))
reviewed(cap, d, t) ==
    \E i \in DOMAIN cap.lines : /\ t >= FirstReview(cap.lines[i], d)
                                /\ t = LastReview(cap.lines[i], d, t)

\* The buyer at the exit capitalises the rent of the year after the hold.
discountedCashflow(r, d) ==
    LET exitNet(gross) == gross - (gross * d.exitCostsPct) \div 100
        Flow(cap, exitGross) ==
            [cap |-> cap, exitGross |-> exitGross,
             npv |-> MapThenSumSet(LAMBDA t : pvOfPound(rentIn(cap, d, t), t, d.discount), 1..d.years)
                     + pvOfPound(exitNet(exitGross), d.years, d.discount)]
        Valuation(cap) == Flow(cap, ypPerpetuity(rentIn(cap, d, d.years + 1), d.exitYield))
    IN  Valuation(capitaliseIncome(r))

\* The matrix: steps added to the growth and to the exit yield, which is held
\* at a nominal least yield.
LeastYield == 1
dcfSensitivity(r, d, growthSteps, yieldSteps) ==
    [g \in growthSteps, y \in yieldSteps |->
        discountedCashflow(r, [d EXCEPT !.growth = @ + g,
                                        !.exitYield = IF @ + y < LeastYield THEN LeastYield ELSE @ + y]).npv]

-----------------------------------------------------------------------------
(* Properties                                                              *)

\* The lines add back to the roll, so that no deduction is charged twice or to
\* nobody, and a line whose rent is its rental value has nothing to revert to.
LinesAddBack(r) ==
    LET lines == capitaliseIncome(r).lines
    IN  /\ Passing(r) > 0 => Total(lines, LAMBDA l : l.passing) = netRent(r)
        /\ \A i \in DOMAIN lines : r.lines[i].rent = r.lines[i].erv => lines[i].reversion = 0

\* Where one yield values both halves, slicing a rent upright or across gives
\* the same value; and a rent with nothing to revert to is worth its perpetuity
\* whatever the method.
MethodsAgree(r) ==
    LET By(method) == [r EXCEPT !.method = method, !.reversionYield = 0]
        Flat == [r EXCEPT !.lines = [i \in DOMAIN @ |-> [@[i] EXCEPT !.erv = r.lines[i].rent]]]
    IN  /\ capitaliseIncome(By("termReversion")).gross = capitaliseIncome(By("layer")).gross
        /\ \A method \in {"termReversion", "layer"} :
              capitaliseIncome([Flat EXCEPT !.method = method]).gross
                = capitaliseIncome([Flat EXCEPT !.method = "perpetuity"]).gross

\* The rent of the cash flow moves only in a year that says it was reviewed,
\* and never falls where values grow and no rent is above its rental value.
RentMovesAtReviews(r, d) ==
    LET cap == capitaliseIncome(r)
        under == \A i \in DOMAIN cap.lines : 0 <= cap.lines[i].passing /\ cap.lines[i].passing <= cap.lines[i].erv
    IN  \A t \in 1..d.years :
           /\ ~reviewed(cap, d, t + 1) => rentIn(cap, d, t + 1) = rentIn(cap, d, t)
           /\ under => rentIn(cap, d, t + 1) >= rentIn(cap, d, t)

\* The same roll at one rate throughout, with no growth and no costs.
AtOneRate(r, d, rate) ==
    << [r EXCEPT !.method = "termReversion", !.reversionYield = 0, !.purchaserPct = 0, !.letUpMonths = 0,
                 !.lines = [i \in DOMAIN @ |-> [@[i] EXCEPT !.yield = rate]]],
       [d EXCEPT !.growth = 0, !.discount = rate, !.exitYield = rate, !.exitCostsPct = 0] >>
Reconciles(r, d, rate) ==
    LET one == AtOneRate(r, d, rate)
    IN  discountedCashflow(one[1], one[2]).npv = capitaliseIncome(one[1]).net

\* With no growth and one rate for everything, a cash flow over any hold is
\* worth what capitalising the same rent is, where no rent is to change.
RackRentReconciles(r, d, rate) ==
    (\A i \in DOMAIN r.lines : r.lines[i].rent = r.lines[i].erv) => Reconciles(r, d, rate)

\* A sharper exit yield never takes value off, nor does more growth.
MatrixFalls(r, d, growthSteps, yieldSteps) ==
    LET npv == dcfSensitivity(r, d, growthSteps, yieldSteps)
        positive == \A i \in DOMAIN r.lines : capitaliseIncome(r).lines[i].erv >= 0
                                              /\ capitaliseIncome(r).lines[i].passing >= 0
    IN  positive => \A a, b \in DOMAIN npv : a[1] >= b[1] /\ a[2] <= b[2] => npv[a] >= npv[b]

-----------------------------------------------------------------------------
(* Refuted                                                                 *)

\* engine.ts says of the cash flow that the two methods reconcile.  A rent that
\* has a review to come does not: the valuation passes it for all the years to
\* the review, the cash flow steps it up in the review's own year.
MethodsReconcile(r, d, rate) ==
    (\A i \in DOMAIN r.lines : r.lines[i].rent # r.lines[i].erv => r.lines[i].toReview \in 1..d.years)
        => Reconciles(r, d, rate)
=============================================================================
