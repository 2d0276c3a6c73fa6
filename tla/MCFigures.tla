------------------------------ MODULE MCFigures ------------------------------
(***************************************************************************)
(* The calculation engine over small inputs.  A state is one question put  *)
(* to the engine; answering it moves nothing, as the engine keeps no state, *)
(* so a run checks every answer of Questions.  The amounts are multiples   *)
(* of Lot, which every division of the inputs below divides.               *)
(***************************************************************************)
EXTENDS Integers, Sequences, FiniteSets

CONSTANTS MinContributors, MinPoints, Withheld, Unknown

Dev == INSTANCE DevelopmentFigures
Inc == INSTANCE IncomeFigures
Pf == INSTANCE PortfolioFigures

ASSUME FiguresAssumption ==
    MinPoints \in Nat \ {0} /\ Withheld \notin Int /\ Withheld \notin [Pf!Quantiles -> Int]

VARIABLE asked

-----------------------------------------------------------------------------
(* Development appraisals                                                   *)

Lot == 276480
Homes(n) == <<[count |-> n, area |-> 1, cap |-> Lot]>>
Window(start, months, profile) == [start |-> start, months |-> months, profile |-> profile]
Cost(x, timing) == [rate |-> x, amount |-> x, timing |-> timing]
NotHeld == [area |-> 0, value |-> 0]

Plain == [mode |-> "profit", land |-> Lot, acqPct |-> 0, disposalPct |-> 0, targetPct |-> 50,
          ltcPct |-> 100, ratePct |-> 1200, arrangementPct |-> 50, period |-> 4, sales |-> 2,
          perMonth |-> 0, profile |-> "scurve", efficiency |-> 0, feePct |-> 0, contPct |-> 50,
          units |-> Homes(3), held |-> NotHeld, phases |-> <<>>,
          trades |-> <<Cost(Lot, Dev!NoTiming)>>, other |-> <<>>]

\* One profile over the build, and every way of funding and selling it.
Unphased ==
    { [Plain EXCEPT !.mode = m, !.profile = w, !.ltcPct = l, !.ratePct = r, !.sales = n, !.perMonth = u,
                    !.held = h, !.disposalPct = d, !.acqPct = d + d] :
        m \in {"profit", "residual"}, w \in {"front", "scurve"}, l \in {50, 100}, r \in {0, 1200},
        n \in {0, 2}, u \in {0, 2}, h \in {NotHeld, [area |-> 1, value |-> 6 * Lot]}, d \in {0, 50} }

\* Lines with windows of their own, inside the build, past it and past the end.
Timings == {Dev!NoTiming} \cup {Window(s, n, p) : s \in {0, 2, 5, 9}, n \in {1, 3}, p \in {"scurve", "back"}}
Timed ==
    { [Plain EXCEPT !.trades = <<Cost(Lot, t), Cost(2 * Lot, Dev!NoTiming)>>, !.other = <<Cost(Lot, o)>>, !.feePct = f] :
        t \in Timings, o \in Timings, f \in {0, 50} }

Phase(start, build, sales, trades, other, pct) ==
    [units |-> Homes(1), start |-> start, build |-> build, sales |-> sales, perMonth |-> 0,
     trades |-> trades, other |-> other, feePct |-> pct, contPct |-> Dev!Inherit]

\* Two phases that overlap, follow or leave a gap, at rates of their own.
Phased ==
    { [Plain EXCEPT !.phases = <<Phase(s, b, n, t, o, p), Phase(2, 2, 1, <<>>, <<>>, Dev!Inherit)>>,
                    !.held = h, !.ltcPct = l, !.mode = IF l = 50 THEN "residual" ELSE "profit"] :
        s \in {0, 1, 4}, b \in {1, 3}, n \in {1, 3}, l \in {50, 100}, p \in {50, Dev!Inherit},
        t \in {<<>>, <<Cost(3 * Lot, Dev!NoTiming)>>, <<Cost(2 * Lot, Window(2, 2, "even")), Cost(Lot, Dev!NoTiming)>>},
        o \in {<<>>, <<Cost(Lot, Window(3, 3, "back"))>>},
        h \in {NotHeld, [area |-> 1, value |-> 6 * Lot]} }

\* More homes than 24 months sell.
Slow == { [Plain EXCEPT !.units = Homes(n), !.perMonth = 1, !.ratePct = 0] : n \in {1, 24, 25} }

Appraisals == { [part |-> "appraisal", a |-> a] : a \in Unphased \cup Timed \cup Phased \cup Slow }

\* Small amounts, as the returns of a grid are compared as cross products.
Grids ==
    { [part |-> "grid", a |-> [Plain EXCEPT !.mode = m, !.land = 32, !.acqPct = d, !.disposalPct = d \div 2,
                               !.ratePct = r, !.profile = "even", !.sales = 1, !.contPct = c, !.arrangementPct = 100,
                               !.units = <<[count |-> 2, area |-> 1, cap |-> v]>>,
                               !.trades = <<Cost(32, Dev!NoTiming)>>]] :
        m \in {"profit", "residual"}, d \in {0, 100}, r \in {0, 1200}, c \in {0, 100}, v \in {32, 256} }

Splits == { [part |-> "split", profit |-> f, w |-> Dev!jvWaterfall(1000, f, p, g, m), pref |-> p] :
              f \in {-500, 0, 100, 200, 300, 1200}, p \in {0, 200, 400}, g \in {0, 10, 100}, m \in {0, 20, 100} }

Ascending(n) == {s \in [1..n -> 0..4] : \A i \in 1..(n - 1) : s[i] <= s[i + 1]}
Samples == { [part |-> "sample", s |-> s, bins |-> b] : s \in Ascending(1) \cup Ascending(3) \cup Ascending(5), b \in {1, 3, 25} }

-----------------------------------------------------------------------------
(* Let space                                                                *)

RentLine(rent, erv, n, yield, void) ==
    [area |-> 1, rent |-> rent, erv |-> erv, toReview |-> n, yield |-> yield, voidPct |-> void]
Rents == 20736
Rolls ==
    { [lines |-> ls, method |-> m, nonRecoverablePct |-> 0, deductions |-> x, letUpMonths |-> 3,
       purchaserPct |-> 0, reversionYield |-> 0] :
        m \in {"perpetuity", "termReversion", "layer"}, x \in {0, Rents},
        ls \in { <<RentLine(r, e, n, y, v), RentLine(2 * Rents, 2 * Rents, 0, y, 0)>> :
                    r \in {0, 2 * Rents}, e \in {2 * Rents, 4 * Rents}, n \in {0, 1, 2}, y \in {1, 2}, v \in {0, 50} } }
Holds == { [years |-> n, cycle |-> c, growth |-> g, discount |-> 2, exitYield |-> 1, exitCostsPct |-> 50] :
             n \in {1, 3}, c \in {1, 2}, g \in {0, 2} }
Lettings == { [part |-> "income", r |-> r, d |-> d] : r \in Rolls, d \in Holds }

-----------------------------------------------------------------------------
(* Schemes on site                                                          *)

Package(id, budget, committed, spent, forecast, pct) ==
    [id |-> id, budget |-> budget, committed |-> committed, spent |-> spent, forecast |-> forecast, retentionPct |-> pct]
Trades(n, f, b) == SubSeq(<<Package(1, 400, 300, 200, f, 5), Package(2, 600, b, 100, 500, 10)>>, 1, n)
Layers(mezz, ltc, land) == [mezzTo |-> mezz, ltcPct |-> ltc, facility |-> 600, constructionCost |-> 1200, landGross |-> land]
Tx(amount, class) == [amount |-> amount, class |-> class]
Loan(facility, cost, gdv, profit) == [facility |-> facility, totalCost |-> cost, gdv |-> gdv, profit |-> profit]
Limits(ltc) == [ltgdv |-> 60, ltc |-> ltc, profitOnCost |-> 20]
Site == [part |-> "site", packages |-> <<>>, appraised |-> 1000, contingency |-> 100, holder |-> <<1, 2>>,
         rates |-> <<1, 1, 1>>, build |-> 1000, weights |-> Dev!buildSpendProfile(4, "front"), elapsed |-> 0,
         actual |-> 0, progress |-> 0, stack |-> Layers(0, 60, 100), committed |-> 300, txs |-> <<>>,
         covenant |-> Loan(600, 0, 0, 0), limits |-> Limits(80)]

\* A site differs from Site in the figures of one report.
WithPackages(packages, appraised, holder) ==
    [Site EXCEPT !.packages = packages, !.appraised = appraised, !.holder = holder]
Contracted ==
    { WithPackages(Trades(n, f, b), ap, <<1, h>>) :
        n \in 0..2, f \in {400, 600, 900}, b \in {0, 700}, ap \in {Unknown, 1000}, h \in {1, 2} }
WithRates(rates, build) == [Site EXCEPT !.rates = rates, !.build = build]
RateCards == {<<>>, <<0, 0>>, <<1, 2, 4>>, <<5, 1, 1>>}
Budgeted == { WithRates(rs, b) : rs \in RateCards, b \in {999, 1000, 1001} }
WithSpend(elapsed, actual, progress, build) ==
    [Site EXCEPT !.elapsed = elapsed, !.actual = actual, !.progress = progress, !.build = build]
Dated ==
    { WithSpend(e, a, p, b) : e \in {-1, 0, 2, 5}, a \in {0, 449, 450, 550, 551}, p \in {0, 50, 120}, b \in {0, 1000} }
WithStack(stack) == [Site EXCEPT !.stack = stack]
Geared == { WithStack(Layers(m, l, g)) : m \in {0, 70, 100, 120}, l \in {0, 50, 60}, g \in {-50, 0, 100} }
WithBank(committed, txs) == [Site EXCEPT !.committed = committed, !.txs = txs]
Accounts == {<<>>, <<Tx(-100, "cost")>>,
             <<Tx(-400, "cost"), Tx(500, "drawdown"), Tx(30, "unclassified"), Tx(60, "equity")>>}
Banked == { WithBank(c, t) : c \in {0, 300}, t \in Accounts }
WithLoan(covenant, limits) == [Site EXCEPT !.covenant = covenant, !.limits = limits]
Bound ==
    { WithLoan(Loan(f, c, g, p), Limits(l)) :
        f \in {600, 601}, c \in {0, 750, 751}, g \in {0, 1000}, p \in {149, 150}, l \in {80, Unknown} }
Sites == Contracted \cup Budgeted \cup Dated \cup Geared \cup Banked \cup Bound

-----------------------------------------------------------------------------
(* Many schemes                                                             *)

Firms == {"us", "a", "b"}
Point(o, v) == [org |-> o, value |-> v]
Pools == { [part |-> "pool", points |-> [i \in 1..n |-> Point(o[i], v[i])], mine |-> 2] :
             n \in {0, 1, 3, 4}, o \in [1..4 -> Firms], v \in {<<1, 2, 3, 4>>, <<3, 1, 3, 1>>} }
Position(f, d, a, r) == [facility |-> f, drawn |-> d, asset |-> a, region |-> r]
Lent(f, d, r) == <<Position(f, d, "shop", r), Position(3, 1, "flat", "BH"), Position(4, 1, "flat", "SW")>>
Book == [part |-> "book", size |-> 3,
         positions |-> Lent(4, 2, "BH"), rows |-> <<>>, units |-> <<>>, tenancies |-> <<>>, deals |-> <<>>, holdings |-> <<>>]

\* A book differs from Book in the figures of one report.
WithPositions(positions) == [Book EXCEPT !.positions = positions]
Lending == { WithPositions(Lent(f, d, r)) : f \in {0, 4, 9}, d \in {2, 20}, r \in {"BH", "SW"} }
RowsOf(n) == [m \in 1..n |-> [net |-> m - 3, cum |-> (m * (m - 5)) \div 2]]
WithRows(rows, size) == [Book EXCEPT !.rows = rows, !.size = size]
Ledgers == { WithRows(RowsOf(n), k) : n \in 0..7, k \in {1, 3, 12} }
ForSale(status, agreed, deposit) == [status |-> status, agreed |-> agreed, appraised |-> agreed + 1, deposit |-> deposit]
WithUnits(units) == [Book EXCEPT !.units = units]
Selling ==
    { WithUnits(<<ForSale(x, 5, 1), ForSale(y, 2, 0)>>) :
        x \in {"AVAILABLE", "RESERVED", "HANDOVER"}, y \in {"AVAILABLE", "RESERVED", "COMPLETED"} }
ToLet(status, agreed, arrears) == [status |-> status, agreed |-> agreed, erv |-> agreed + 1, arrears |-> arrears]
Pipeline(stage, gdv, probability) == [stage |-> stage, gdv |-> gdv, probability |-> probability]
WithTenancies(tenancies, deals) == [Book EXCEPT !.tenancies = tenancies, !.deals = deals]
Running ==
    { WithTenancies(<<ToLet(x, 3, 1), ToLet(y, 1, 0)>>, <<Pipeline(d, 200, 50), Pipeline("CONSTRUCTION", 100, 100)>>) :
        x \in {"OCCUPIED", "AVAILABLE"}, y \in {"OCCUPIED", "SIGNED"}, d \in {"CONSTRUCTION", "COMPLETED"} }
Stake(irr, committed) == [irr |-> irr, committed |-> committed]
WithHoldings(holdings) == [Book EXCEPT !.holdings = holdings]
Invested == { WithHoldings(<<Stake(i, 2), Stake(j, c)>>) : i \in {-4, 0, Withheld}, j \in {3, Withheld}, c \in {0, 1} }
Books == Lending \cup Ledgers \cup Selling \cup Running \cup Invested

Draft(area, cap, twice, rate, phases) ==
    [scalars |-> [ltcPct |-> rate], counts |-> [phases |-> phases],
     units |-> <<[label |-> "flat", area |-> area, cap |-> cap, count |-> 1]>>
               \o (IF twice THEN <<[label |-> "shop", area |-> 1, cap |-> 1, count |-> 2]>> ELSE <<>>),
     costs |-> <<[label |-> "piling", rate |-> rate]>>]
Versions == { Draft(x, c, t, r, p) : x \in {1, 2}, c \in {1, 2}, t \in BOOLEAN, r \in {1, 2}, p \in {0, 2} }
Pairs == { [part |-> "diff", b |-> b, a |-> a] : b \in Versions, a \in Versions }

-----------------------------------------------------------------------------
Questions == Appraisals \cup Grids \cup Splits \cup Samples \cup Lettings \cup Sites \cup Pools \cup Books \cup Pairs

\* An appraisal keeps every pound: its months hold its costs and receipts, its
\* cash pages end where its profit does, and the facility covers its balance.
AppraisalBalances ==
    asked.part = "appraisal" =>
        LET r == Dev!computeAppraisal(asked.a, Dev!BaseCase)
        IN  /\ Dev!EveryPoundPlaced(r)
            /\ Dev!CashReconciles(asked.a, r)
            /\ Dev!FacilityCoversBalance(r)

\* What is derived from an appraisal is true of it: the metric a grid calls
\* pinned is, a waterfall splits the whole profit, a histogram has every run.
DerivedIsTrue ==
    /\ asked.part = "grid" => Dev!StructureIsTrue(asked.a, {-50, 0, 50})
    /\ asked.part = "split" => Dev!WaterfallSplitsAll(asked.profit, asked.pref, asked.w)
    /\ asked.part = "sample" => Dev!SampleIsWhole(asked.s, asked.bins)

\* The ways of valuing let space agree where they must.
ValuationsAgree ==
    asked.part = "income" =>
        /\ Inc!LinesAddBack(asked.r)
        /\ Inc!MethodsAgree(asked.r)
        /\ Inc!RentMovesAtReviews(asked.r, asked.d)
        /\ Inc!RackRentReconciles(asked.r, asked.d, 2)
        /\ Inc!MatrixFalls(asked.r, asked.d, {-1, 0, 1}, {0, 1})

\* The reports of a scheme on site agree with its packages, its bank and its loan.
SiteReportsAgree == asked.part = "site" => Pf!MonitoringAgrees(asked)

\* No firm reads its own points, or a cohort below the floors, in the pool.
PoolStaysPrivate == asked.part = "pool" => Pf!CohortsStayPrivate(asked.points, "us", asked.mine)

\* Books, ledgers, returns and the differences of versions add back.
PortfolioAddsBack ==
    /\ asked.part = "book" => Pf!PortfolioHolds(asked)
    /\ asked.part = "diff" => Pf!DiffIsSymmetric(asked.b, asked.a)

-----------------------------------------------------------------------------
(* Checked                                                                  *)

\* The engine: an appraisal keeps every pound, and what is derived from one is true of it.
AppraisalFigures == AppraisalBalances /\ DerivedIsTrue

\* Reports: packages, bank and loan of a site agree with each other, cohorts give
\* nobody away, and books, ledgers and the differences of versions add back.
PortfolioReports == SiteReportsAgree /\ PoolStaysPrivate /\ PortfolioAddsBack

\* Refuted: two versions are called identical only if their inputs are.
IdenticalVersions == asked.part = "diff" => Pf!IdenticalMeansIdentical(asked.b, asked.a)

\* Refuted: a cash flow and a capitalisation at the same rates reconcile.
MethodsReconcile == asked.part = "income" => Inc!MethodsReconcile(asked.r, asked.d, 2)

\* Refuted: what is sold is received.
ReceiptsArrive ==
    asked.part = "appraisal" => Dev!AllReceiptsArrive(Dev!computeAppraisal(asked.a, Dev!BaseCase))

Asking == asked \in Questions
Answering == UNCHANGED asked
Figures == Asking /\ [][Answering]_asked
=============================================================================
