-------------------------- MODULE PortfolioFigures --------------------------
(***************************************************************************)
(* What the engine makes of a scheme that is on site: the cost plan and    *)
(* its variance (cost-report.ts), spend against programme and works        *)
(* (drawdown.ts), the capital stack (stack.ts), the bank against the       *)
(* ledger (cash.ts) and the covenants (covenants.ts); and of many schemes   *)
(* or many versions: the cohorts of the benchmark pool (benchmarks.ts),     *)
(* the exposure of a loan book (exposure.ts), the roll-ups of sales,        *)
(* tenancies, deals and months (rollups.ts), an investor's return (lp.ts)  *)
(* and the difference between two versions of an appraisal (compare.ts).    *)
(*                                                                         *)
(* Amounts are integers; a percentage is applied as the code applies it,   *)
(* to amounts the instances choose so that it divides.                     *)
(***************************************************************************)
EXTENDS Integers, Sequences, FiniteSets, FiniteSetsExt

CONSTANTS MinContributors, MinPoints, \* the floors of a published cohort
          Withheld,                   \* no cohort, no rank, no return recorded
          Unknown                     \* the null the screens print as a dash

SumOver(f) == MapThenSumSet(LAMBDA i : f[i], DOMAIN f)
Total(s, Value(_)) == SumOver([i \in DOMAIN s |-> Value(s[i])])

\* What is at the places of D, and what passes a test, in the order of s.
Kept(s, D) ==
    LET kept[n \in 0..Len(s)] ==
            IF n = 0 THEN <<>> ELSE IF n \in D THEN Append(kept[n - 1], s[n]) ELSE kept[n - 1]
    IN  kept[Len(s)]
Where(s, Test(_)) == Kept(s, {i \in DOMAIN s : Test(s[i])})
Round(n, d) == (2 * n + d) \div (2 * d)
Share(amount, pct) == (amount * pct) \div 100
AtLeast0(n) == Max({0, n})
Clamp(v, lo, hi) == Max({lo, Min({v, hi})})
DistanceFrom0(n) == Max({n, -n})
Sorted(s) == CHOOSE t \in {[i \in DOMAIN s |-> s[p[i]]] : p \in
                              {q \in [DOMAIN s -> DOMAIN s] : \A i, j \in DOMAIN s : i # j => q[i] # q[j]}} :
                \A i \in 1..(Len(s) - 1) : t[i] <= t[i + 1]

-----------------------------------------------------------------------------
(* The cost plan: packages with budget, committed, spent, forecast and      *)
(* retention, against what the scheme was appraised at.                     *)

contractorTotals(packages) ==
    [contractValue |-> Total(packages, LAMBDA p : p.committed),
     retention |-> Total(packages, LAMBDA p : Share(p.spent, p.retentionPct)),
     retentionAtCompletion |-> Total(packages, LAMBDA p : Share(p.committed, p.retentionPct))]

costRollup(packages, appraised, contingency) ==
    LET budgets == Total(packages, LAMBDA p : p.budget)
        forecast == Total(packages, LAMBDA p : p.forecast)
        all == contractorTotals(packages)
        measured == appraised # Unknown /\ packages # <<>>
        variance == forecast - appraised
    IN  [packageBudgets |-> budgets, committed |-> all.contractValue,
         spent |-> Total(packages, LAMBDA p : p.spent), forecast |-> forecast,
         retentionHeld |-> all.retention, retentionAtCompletion |-> all.retentionAtCompletion,
         variance |-> IF measured THEN variance ELSE Unknown,
         profitImpact |-> IF ~measured THEN Unknown
                          ELSE IF variance > 0 THEN -AtLeast0(variance - contingency) ELSE -variance,
         unallocated |-> IF measured THEN appraised - budgets ELSE appraised]

\* Mutation: the last trade's budget is rounded like the others.
RoundedBudgets(rates, build) ==
    [i \in DOMAIN rates |-> Round(build * rates[i], Max({1, Total(rates, LAMBDA r : r)}))]

\* The budgets a scheme starts from: a share of the build for each trade rate,
\* rounded, and whatever is left for the last.
tradeBudgets(rates, build) ==
    LET all == Total(rates, LAMBDA r : r)
        n == Len(rates)
        early == [i \in 1..(n - 1) |-> Round(build * rates[i], IF all = 0 THEN 1 ELSE all)]
    IN  IF rates = <<>> THEN <<>> ELSE early \o <<build - Total(early, LAMBDA b : b)>>

-----------------------------------------------------------------------------
(* Drawdown: weights are those of buildSpendProfile, before division.       *)

Tolerance == 5
spendAgainstProgramme(total, weights, elapsed, actual, progressPct) ==
    LET months == Clamp(elapsed, 0, Len(weights))
        whole == Total(weights, LAMBDA w : w)
        byProgramme == (total * MapThenSumSet(LAMBDA i : weights[i], 1..months)) \div whole
        byWorks == Share(total, Clamp(progressPct, 0, 100))
        over == actual - byWorks
    IN  [byProgramme |-> byProgramme, byWorks |-> byWorks, over |-> over,
         status |-> CASE (months = 0 /\ actual = 0) \/ total <= 0 -> "not started"
                      [] OTHER -> IF DistanceFrom0(over) * 100 <= total * Tolerance THEN "on budget"
                                  ELSE IF over > 0 THEN "overspending" ELSE "underspending"]

\* s: the gearing of the senior loan and of the mezzanine above it, 0 where
\* there is none, and the figures of the appraisal.
capitalStack(s) ==
    LET mezzTo == Max({s.mezzTo, s.ltcPct})
        construction == IF s.ltcPct > 0 THEN (s.facility * 100) \div s.ltcPct ELSE s.constructionCost
        senior == Share(construction, s.ltcPct)
        mezzanine == Share(construction, mezzTo - s.ltcPct)
        equity == AtLeast0(Share(construction, 100 - mezzTo) + s.landGross)
    IN  [construction |-> construction, senior |-> senior, mezzanine |-> mezzanine,
         equity |-> equity, total |-> senior + mezzanine + equity]

\* txs: the transactions of the deal's accounts, none where no feed is mapped.
reconcileCash(committed, txs) ==
    LET In(class) == Total(Where(txs, LAMBDA t : t.amount > 0 /\ t.class = class), LAMBDA t : t.amount)
        paid == -Total(Where(txs, LAMBDA t : t.amount < 0), LAMBDA t : t.amount)
    IN  [paid |-> paid, invoicedUnpaid |-> AtLeast0(committed - paid),
         paidUnbilled |-> AtLeast0(paid - committed), unclassifiedIn |-> In("unclassified"),
         drawn |-> IF txs = <<>> THEN committed ELSE In("drawdown"),
         source |-> IF txs = <<>> THEN "committed" ELSE "bank"]

\* m: facility, cost, value and profit; a limit that is not set is Unknown.
testCovenants(m, limits) ==
    LET Room(limit, part, of, dir) == dir * (limit * of - part * 100)
        tests == { t \in { [key |-> "ltgdv", limit |-> limits.ltgdv, part |-> m.facility, of |-> m.gdv, dir |-> 1],
                           [key |-> "ltc", limit |-> limits.ltc, part |-> m.facility, of |-> m.totalCost, dir |-> 1],
                           [key |-> "profitOnCost", limit |-> limits.profitOnCost, part |-> m.profit,
                            of |-> m.totalCost, dir |-> -1] } : t.of > 0 /\ t.limit # Unknown }
    IN  [tests |-> {t.key : t \in tests},
         breaches |-> {t.key : t \in {x \in tests : Room(x.limit, x.part, x.of, x.dir) < 0}},
         untested |-> tests = {}]

-----------------------------------------------------------------------------
(* Cohorts: points of a value and the firm that contributed it.             *)

\* Mutation: a firm's own points count towards what it is shown.
Everybody(points, me) == points

Eligible(points, me) == Where(points, LAMBDA p : p.org # me)
Contributors(points) == Cardinality({points[i].org : i \in DOMAIN points})
Published(points) == Contributors(points) >= MinContributors /\ Len(points) >= MinPoints

\* The quantile at q per cent, times 100.
quantile(sorted, q) ==
    LET pos == (Len(sorted) - 1) * q
        at == pos \div 100 + 1
    IN  sorted[at] * 100 + (IF pos % 100 = 0 THEN 0 ELSE (sorted[at + 1] - sorted[at]) * (pos % 100))

Quantiles == {5, 25, 50, 75, 95}
cohortStats(points, me) ==
    LET others == Eligible(points, me)
        sorted == Sorted([i \in DOMAIN others |-> others[i].value])
    IN  IF ~Published(others) THEN Withheld ELSE [q \in Quantiles |-> quantile(sorted, q)]

\* The rank of a value, in per cent, against the cohort of the same points.
rankWithin(points, value, me) ==
    LET others == Eligible(points, me)
    IN  IF ~Published(others) THEN Withheld
        ELSE (200 * Len(Where(others, LAMBDA p : p.value <= value)) + Len(others)) \div (2 * Len(others))

-----------------------------------------------------------------------------
(* Loan books, sales, tenancies, deals and months.                          *)

groupBy(positions, dimension) ==
    [k \in {positions[i][dimension] : i \in DOMAIN positions} |->
        Total(Where(positions, LAMBDA p : p[dimension] = k), LAMBDA p : p.facility)]

\* The largest share of the book on any dimension, as what is lent on it.
aggregateExposure(positions) ==
    LET Facility(p) == p.facility
        Drawn(p) == p.drawn
        byAsset == groupBy(positions, "asset")
        byRegion == groupBy(positions, "region")
        facility == Total(positions, Facility)
        lent == {positions[i].facility : i \in DOMAIN positions}
                  \cup {byAsset[k] : k \in DOMAIN byAsset} \cup {byRegion[k] : k \in DOMAIN byRegion}
    IN  [facility |-> facility, byAsset |-> byAsset, byRegion |-> byRegion,
         undrawn |-> Max({0, facility - Total(positions, Drawn)}),
         largest |-> IF facility > 0 THEN Max(lent) ELSE 0]

Sold == {"EXCHANGED", "COMPLETED", "HANDOVER"}
salesRollup(units) ==
    LET Is(S) == Where(units, LAMBDA u : u.status \in S)
    IN  [realised |-> Total(Is(Sold), LAMBDA u : u.agreed),
         appraised |-> Total(units, LAMBDA u : u.appraised),
         deposits |-> Total(Is(Sold \cup {"RESERVED"}), LAMBDA u : u.deposit),
         sold |-> Len(Is(Sold)), total |-> Len(units)]

lettingsRollup(tenancies) ==
    LET Is(status) == Where(tenancies, LAMBDA t : t.status = status)
    IN  [rentRoll |-> 12 * Total(Is("OCCUPIED"), LAMBDA t : t.agreed), erv |-> 12 * Total(tenancies, LAMBDA t : t.erv),
         arrears |-> Total(tenancies, LAMBDA t : t.arrears), void |-> Len(Is("AVAILABLE")), total |-> Len(tenancies)]

portfolioRollup(deals) ==
    LET active == Where(deals, LAMBDA d : d.stage # "COMPLETED")
    IN  [gdv |-> Total(active, LAMBDA d : d.gdv), count |-> Len(active),
         weighted |-> Total(active, LAMBDA d : (d.gdv * d.probability) \div 100)]

\* Mutation: a last period that is not full is left out.
FullPeriods(rows, size) ==
    [n \in 1..(Len(rows) \div size) |->
        LET chunk == SubSeq(rows, (n - 1) * size + 1, n * size)
        IN  [from |-> (n - 1) * size + 1, to |-> n * size,
             net |-> Total(chunk, LAMBDA r : r.net), cum |-> chunk[size].cum]]

\* Rows of a flow and its running balance, in periods of so many months.
rollUpCashflow(rows, size) ==
    [n \in 1..((Len(rows) + size - 1) \div size) |->
        LET chunk == SubSeq(rows, (n - 1) * size + 1, Min({n * size, Len(rows)}))
        IN  [from |-> (n - 1) * size + 1, to |-> (n - 1) * size + Len(chunk),
             net |-> Total(chunk, LAMBDA r : r.net), cum |-> chunk[Len(chunk)].cum]]

\* The capital weighted return of the holdings that have one recorded, as the
\* weighted sum and the capital it is divided by.
weightedIrr(holdings) ==
    LET scored == Where(holdings, LAMBDA h : h.irr # Withheld /\ h.committed > 0)
    IN  IF scored = <<>> THEN Withheld
        ELSE [sum |-> Total(scored, LAMBDA h : h.irr * h.committed), capital |-> Total(scored, LAMBDA h : h.committed)]

-----------------------------------------------------------------------------
(* The difference between two versions: scalars field by field, lines by    *)
(* their label, the last line of a label standing for all of it; phases and *)
(* the rent roll by how many they are.                                      *)

Lines(s, field) ==
    [label \in {s[i].label : i \in DOMAIN s} |-> s[Max({i \in DOMAIN s : s[i].label = label})][field]]
diffByLabel(before, after, field) ==
    LET b == Lines(before, field)
        a == Lines(after, field)
    IN  {<<"removed", l>> : l \in DOMAIN b \ DOMAIN a} \cup {<<"added", l>> : l \in DOMAIN a \ DOMAIN b}
        \cup {<<"changed", l>> : l \in {x \in DOMAIN b \cap DOMAIN a : b[x] # a[x]}}

compareAppraisals(b, a) ==
    {<<"scalar", f>> : f \in {x \in DOMAIN b.scalars : b.scalars[x] # a.scalars[x]}}
    \cup diffByLabel(b.units, a.units, "cap")
    \cup diffByLabel(b.units, a.units, "count")
    \cup diffByLabel(b.costs, a.costs, "rate")
    \cup {<<"count", f>> : f \in {x \in DOMAIN b.counts : b.counts[x] # a.counts[x]}}

identical(b, a) == compareAppraisals(b, a) = {}

-----------------------------------------------------------------------------
(* Properties                                                              *)

\* A cost plan made from an appraisal adds up to its build cost to the penny,
\* however its shares round, and no trade but the last is off its share.
BudgetsAddUp(rates, build) ==
    LET b == tradeBudgets(rates, build)
        all == Total(rates, LAMBDA r : r)
    IN  rates # <<>> =>
           /\ Total(b, LAMBDA x : x) = build
           /\ all > 0 => \A i \in 1..(Len(b) - 1) : DistanceFrom0(2 * (b[i] * all - build * rates[i])) <= all

\* The report of a job agrees with itself and with its contractors: whoever
\* holds which package, their retentions add up to the job's; an overrun costs
\* profit only past the contingency, and every pound of an underrun is back.
CostsAgree(packages, appraised, contingency, holder) ==
    LET r == costRollup(packages, appraised, contingency)
        Of(c) == contractorTotals(Where(packages, LAMBDA p : holder[p.id] = c))
        everyone == {holder[packages[i].id] : i \in DOMAIN packages}
    IN  /\ r.retentionHeld = SumOver([c \in everyone |-> Of(c).retention])
        /\ r.retentionAtCompletion = SumOver([c \in everyone |-> Of(c).retentionAtCompletion])
        /\ r.variance # Unknown =>
              /\ r.unallocated + r.packageBudgets = appraised
              /\ r.profitImpact + r.variance = Clamp(r.variance, 0, contingency)

\* Spend moves with the works and the calendar in one direction only: a status
\* never improves from over to under by spending more, and a programme that has
\* run its months expects the whole.
DrawdownIsOrdered(total, weights, elapsed, actual, progressPct) ==
    LET At(e, a) == spendAgainstProgramme(total, weights, e, a, progressPct)
        rank == [s \in {"underspending", "on budget", "overspending"} |->
                    CASE s = "underspending" -> 1 [] s = "on budget" -> 2 [] OTHER -> 3]
        now == At(elapsed, actual)
        more == At(elapsed, actual + 1)
    IN  /\ At(Len(weights) + 1, actual).byProgramme = total
        /\ At(elapsed + 1, actual).byProgramme >= now.byProgramme
        /\ now.status \in DOMAIN rank => more.status \in DOMAIN rank /\ rank[more.status] >= rank[now.status]

\* The tranches stack to the cost and the land they fund, the senior loan being
\* the facility, unless the mezzanine and the land leave no room for equity.
StackFundsScheme(s) ==
    LET k == capitalStack(s)
    IN  /\ k.mezzanine >= 0 /\ (s.ltcPct > 0 => k.senior = s.facility)
        /\ k.equity > 0 => k.total = k.construction + s.landGross
        /\ k.total >= k.construction + s.landGross

\* The two sides of an account are exclusive and differ by what separates bank
\* and ledger, and a receipt is drawn, unexplained or explained otherwise.
CashIsSplit(committed, txs) ==
    LET c == reconcileCash(committed, txs)
    IN  /\ c.invoicedUnpaid - c.paidUnbilled = committed - c.paid
        /\ c.invoicedUnpaid = 0 \/ c.paidUnbilled = 0
        /\ c.source = "bank" =>
              c.drawn + c.unclassifiedIn <= Total(Where(txs, LAMBDA t : t.amount > 0), LAMBDA t : t.amount)

\* A covenant that passes keeps passing with less debt and more profit, and one
\* that cannot be measured is not reported as kept.
CovenantsAreMonotone(m, limits) ==
    LET now == testCovenants(m, limits)
        safer == testCovenants([m EXCEPT !.facility = @ - 1, !.profit = @ + 1], limits)
    IN  /\ safer.breaches \subseteq now.breaches
        /\ now.breaches \subseteq now.tests
        /\ m.gdv <= 0 => "ltgdv" \notin now.tests

MonitoringAgrees(c) ==
    /\ CostsAgree(c.packages, c.appraised, c.contingency, c.holder)
    /\ BudgetsAddUp(c.rates, c.build)
    /\ DrawdownIsOrdered(c.build, c.weights, c.elapsed, c.actual, c.progress)
    /\ StackFundsScheme(c.stack)
    /\ CashIsSplit(c.committed, c.txs)
    /\ CovenantsAreMonotone(c.covenant, c.limits)

\* What a firm is shown of the pool never holds a point of its own, never rests
\* on fewer other firms or points than the floors, is in order, and its rank is
\* withheld exactly when its cohort is; no further point of its own moves it.
CohortsStayPrivate(points, me, mine) ==
    LET s == cohortStats(points, me)
    IN  /\ s # Withheld =>
              /\ Contributors(Eligible(points, me)) >= MinContributors
              /\ Len(Eligible(points, me)) >= MinPoints
              /\ \A p, q \in Quantiles : p <= q => s[p] <= s[q]
        /\ cohortStats(Append(points, [org |-> me, value |-> mine]), me) = s
        /\ (rankWithin(points, mine, me) = Withheld) = (s = Withheld)

\* The periods of a ledger cover each month once, lose nothing and close on its running balance.
PeriodsAddBack(rows, size) ==
    LET periods == rollUpCashflow(rows, size)
    IN  /\ Total(periods, LAMBDA p : p.net) = Total(rows, LAMBDA r : r.net)
        /\ \A m \in DOMAIN rows : Cardinality({n \in DOMAIN periods : m \in periods[n].from..periods[n].to}) = 1
        /\ rows # <<>> => periods[Len(periods)].cum = rows[Len(rows)].cum

\* Regrouping a book loses nothing: every dimension adds back to the facility,
\* and the largest concentration is above every one of them.
BookAddsBack(positions) ==
    LET e == aggregateExposure(positions)
    IN  /\ SumOver(e.byAsset) = e.facility /\ SumOver(e.byRegion) = e.facility
        /\ \A k \in DOMAIN e.byAsset : e.byAsset[k] <= e.largest
        /\ \A k \in DOMAIN e.byRegion : e.byRegion[k] <= e.largest

\* A stage moved forward never takes a sale, its deposit or its value back.
StagesOnlyAdd(units, i) ==
    LET now == salesRollup(units)
        later == salesRollup([units EXCEPT ![i].status = "EXCHANGED"])
    IN  units[i].status \in {"AVAILABLE", "RESERVED"} =>
            /\ later.realised = now.realised + units[i].agreed /\ later.sold = now.sold + 1
            /\ later.deposits >= now.deposits /\ later.appraised = now.appraised

\* Two lists rolled up apart add to what they roll up to together, and a scheme
\* that completes leaves the pipeline with all it brought.
RollUpsAreAdditive(x, y, deals) ==
    LET all == lettingsRollup(x \o y)
    IN  /\ \A f \in DOMAIN all : all[f] = lettingsRollup(x)[f] + lettingsRollup(y)[f]
        /\ \A i \in DOMAIN deals :
              LET done == portfolioRollup([deals EXCEPT ![i].stage = "COMPLETED"])
              IN  deals[i].stage # "COMPLETED" => portfolioRollup(deals).gdv = done.gdv + deals[i].gdv

\* A holding nobody recorded a return for moves nothing, a recorded loss counts,
\* and the return lies between the worst and the best recorded.
ReturnsAreHonest(holdings) ==
    LET w == weightedIrr(holdings)
        recorded == {holdings[i].irr : i \in {j \in DOMAIN holdings : holdings[j].irr # Withheld /\ holdings[j].committed > 0}}
    IN  /\ weightedIrr(Append(holdings, [irr |-> Withheld, committed |-> 7])) = w
        /\ w # Withheld => /\ Min(recorded) * w.capital <= w.sum
                           /\ w.sum <= Max(recorded) * w.capital

\* Read forwards and backwards the same changes are found; every scalar, count,
\* rate and label that moved is reported, and nothing that did not.
DiffIsSymmetric(b, a) ==
    LET Mirror(kind) == CASE kind = "added" -> "removed" [] kind = "removed" -> "added" [] OTHER -> kind
        Compared(x) == [scalars |-> x.scalars, counts |-> x.counts,
                        rates |-> Lines(x.units, "cap"), units |-> Lines(x.units, "count"), costs |-> Lines(x.costs, "rate")]
    IN  /\ compareAppraisals(a, b) = {<<Mirror(c[1]), c[2]>> : c \in compareAppraisals(b, a)}
        /\ identical(b, a) <=> Compared(b) = Compared(a)

PortfolioHolds(c) ==
    /\ BookAddsBack(c.positions) /\ PeriodsAddBack(c.rows, c.size)
    /\ \A i \in DOMAIN c.units : StagesOnlyAdd(c.units, i)
    /\ RollUpsAreAdditive(c.tenancies, c.tenancies, c.deals)
    /\ ReturnsAreHonest(c.holdings)

-----------------------------------------------------------------------------
(* Refuted                                                                 *)

\* compare.ts promises that identical is true when two versions carry identical
\* inputs, and the screen then says that no inputs differ: the area of a unit,
\* though it makes the value with the rate and the count, is never compared.
IdenticalMeansIdentical(b, a) == identical(b, a) => b = a
=============================================================================
