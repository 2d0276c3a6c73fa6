------------------------- MODULE DevelopmentFigures -------------------------
(***************************************************************************)
(* The development appraisal of packages/appraisal-engine/src/engine.ts:   *)
(* computeAppraisal with its programme, its month by month spread of costs *)
(* and receipts, the facility that funds them and the two ways of solving  *)
(* for land or profit; the grid, the waterfall and the histogram that read *)
(* its results.                                                            *)
(*                                                                         *)
(* The engine computes in floating point; here every amount is an integer  *)
(* and every division is written where the code divides.  The instances    *)
(* take amounts that all those divisions divide, so the results are the    *)
(* exact ones: what is checked is the arithmetic, not the rounding.        *)
(***************************************************************************)
EXTENDS Integers, Sequences, FiniteSets, FiniteSetsExt

\* A cost with no timing of its own, and a phase that keeps the scheme's rate.
NoTiming == [start |-> 0]
Inherit == -1

\* (x * n) \div d in two parts, so that it stays inside TLC's integers; a series
\* of n months as a tuple, so that TLC computes each month once.
Ratio(x, n, d) == (x \div d) * n + ((x % d) * n) \div d
Pct(x, p) == Ratio(x, p, 100)
Series(n, Of(_)) == SubSeq([m \in 1..n |-> Of(m)], 1, n)
Clamp(v, lo, hi) == Max({lo, Min({v, hi})})
OrElse(v, default) == IF v = 0 THEN default ELSE v
Ceiling(n, d) == (n + d - 1) \div d
SumOver(f) == MapThenSumSet(LAMBDA i : f[i], DOMAIN f)
Total(s, Value(_)) == SumOver([i \in DOMAIN s |-> Value(s[i])])

-----------------------------------------------------------------------------
(* Programme: how long a scheme builds and sells, and what falls when.     *)

\* Spend weights before they are divided by their sum.  The s-curve takes the
\* increments of t*t*(3 - 2*t), here over the common denominator n^3.
buildSpendProfile(n, profile) ==
    LET Smooth(i) == i * i * (3 * n - 2 * i)
    IN  [i \in 1..n |-> CASE profile \in {"even", "linear"} -> 1
                          [] profile = "front" -> n - i + 1
                          [] profile = "back" -> i
                          [] OTHER -> Smooth(i) - Smooth(i - 1)]

\* The months a number of units takes to sell, never above 24, and the part
\* of the receipts, out of the whole, that each of those months brings.
absorptionShare(count, perMonth, fallback, cap) ==
    IF perMonth > 0 /\ count > 0
    THEN LET n == Clamp(Ceiling(count, perMonth), 1, 24)
         IN  [months |-> n, whole |-> count,
              share |-> [k \in 1..n |-> Min({perMonth, count - perMonth * (k - 1)})]]
    ELSE LET n == Clamp(OrElse(fallback, 1), 1, cap)
         IN  [months |-> n, whole |-> n, share |-> [k \in 1..n |-> 1]]

Units(a) == IF a.phases = <<>> THEN a.units ELSE FoldSet(LAMBDA i, s : s \o a.phases[i].units, <<>>, DOMAIN a.phases)
Count(units) == Total(units, LAMBDA u : u.count)
Area(units) == Total(units, LAMBDA u : u.count * u.area)
Value(units) == Total(units, LAMBDA u : u.count * u.area * u.cap)
Rate(trades) == Total(trades, LAMBDA t : t.rate)

\* opts: the sales and build multipliers of a sensitivity run, in per cent.
phaseCalc(a, opts, p) ==
    LET trades == IF p.trades = <<>> THEN a.trades ELSE p.trades
        sale == absorptionShare(Count(p.units), p.perMonth, p.sales, 24)
        start == Clamp(OrElse(p.start, 1), 1, 240)
        months == Clamp(OrElse(p.build, 12), 1, 60)
        gia == (Area(p.units) * 100) \div OrElse(a.efficiency, 100)
        build == Pct(Rate(trades) * gia, opts.build)
        feePct == IF p.feePct = Inherit THEN a.feePct ELSE p.feePct
        contPct == IF p.contPct = Inherit THEN a.contPct ELSE p.contPct
    IN  [start |-> start, months |-> months, completion |-> start + months - 1,
         end |-> start + months + sale.months - 1, sale |-> sale, gia |-> gia,
         gdv |-> Pct(Value(p.units), opts.sales),
         trades |-> trades, onCosts |-> 100 + feePct + contPct, build |-> build,
         fees |-> Pct(build, feePct), cont |-> Pct(build, contPct),
         other |-> p.other]

\* The totals of a scheme: those of its phases, which may each carry a rate of
\* their own, and of the floor area that is in no phase.
Scheme(a, opts) ==
    LET Totals(phases, gia, rate, loose, investment, gdv, sale, P) ==
            [phases |-> phases, gia |-> gia, rate |-> rate, loose |-> loose,
             investment |-> investment, gdv |-> gdv, sale |-> sale, P |-> P,
             total |-> IF phases = <<>> THEN P + sale.months
                       ELSE Max({phases[i].end : i \in DOMAIN phases}),
             saleCosts |-> Pct(gdv, a.disposalPct),
             build |-> Total(phases, LAMBDA p : p.build) + rate * loose,
             fees |-> Total(phases, LAMBDA p : p.fees) + Pct(rate * loose, a.feePct),
             cont |-> Total(phases, LAMBDA p : p.cont) + Pct(rate * loose, a.contPct),
             other |-> Total(a.other, LAMBDA o : o.amount)
                         + Total(phases, LAMBDA p : Total(p.other, LAMBDA o : o.amount))]
        Phased(phases, gia, investment) ==
            Totals(phases, gia, Pct(Rate(a.trades), opts.build), gia - Total(phases, LAMBDA p : p.gia),
                   investment, Pct(Value(Units(a)), opts.sales) + investment,
                   absorptionShare(Count(Units(a)), a.perMonth, a.sales, 8),
                   IF phases = <<>> THEN Clamp(OrElse(a.period, 12), 4, 22)
                   ELSE Max({phases[i].completion : i \in DOMAIN phases}))
    IN  Phased([i \in DOMAIN a.phases |-> phaseCalc(a, opts, a.phases[i])],
               ((Area(Units(a)) + a.held.area) * 100) \div OrElse(a.efficiency, 100),
               Pct(a.held.value, opts.sales))

Construction(s) == s.build + s.fees + s.cont + s.other

-----------------------------------------------------------------------------
(* The months.  A cost line is an amount, its first month, its number of   *)
(* months and its profile.                                                 *)

Line(amount, start, months, profile) ==
    [amount |-> amount, start |-> start, months |-> months, profile |-> profile]

\* Mutation: the window is not shortened at the end of the programme.
PlacedUnclipped(total, amount, from, months, profile) ==
    Line(amount, Clamp(from, 1, total), Max({1, months}), profile)

\* A line whose window is brought inside the programme first.
Placed(total, amount, from, months, profile) ==
    LET start == Clamp(from, 1, total)
    IN  Line(amount, start, Clamp(months, 1, total - start + 1), profile)

Profile(a, timing) == IF timing = NoTiming THEN a.profile ELSE timing.profile
StartOf(timing) == IF timing = NoTiming THEN 1 ELSE timing.start
MonthsOf(timing, default) == IF timing = NoTiming THEN default ELSE timing.months

\* What falls in month m of a line; nothing falls outside the programme.
Falls(line, total, m) ==
    LET w == buildSpendProfile(line.months, line.profile)
        i == m - line.start + 1
    IN  IF i \in DOMAIN w /\ m \in 1..total THEN Ratio(line.amount, w[i], SumOver(w)) ELSE 0

\* A phase with no timed trade spends its whole cost over its own window; a
\* timed trade carries its fees and contingency, and its start is relative to
\* the phase, as is that of the phase's other costs.
PhaseLines(a, opts, s, p) ==
    LET Own(amount, timing) == Placed(s.total, amount, p.start + StartOf(timing) - 1,
                                      MonthsOf(timing, p.months), Profile(a, timing))
    IN  (IF \E i \in DOMAIN p.trades : p.trades[i].timing # NoTiming
         THEN [i \in DOMAIN p.trades |->
                 Own(Pct(Pct(p.trades[i].rate * p.gia, opts.build), p.onCosts), p.trades[i].timing)]
         ELSE <<Line(p.build + p.fees + p.cont, p.start, p.months, a.profile)>>)
        \o [i \in DOMAIN p.other |-> Own(p.other[i].amount, p.other[i].timing)]

\* The lines of no phase: the costs of the scheme itself and the floor area that
\* is in no phase; without phases one line for it all, or one of each trade when
\* anything is timed.
SchemeLines(a, opts, s) ==
    LET onCosts == 100 + a.feePct + a.contPct
        Own(amount, timing) ==
            Placed(s.total, amount, StartOf(timing), MonthsOf(timing, s.P), Profile(a, timing))
        others == [i \in DOMAIN a.other |-> Own(a.other[i].amount, a.other[i].timing)]
        timed == \E lines \in {a.trades, a.other} :
                    \E i \in DOMAIN lines : lines[i].timing # NoTiming
    IN  IF s.phases # <<>>
        THEN others \o (IF s.loose > 0 THEN <<Line(Pct(s.rate * s.loose, onCosts), 1, s.P, a.profile)>> ELSE <<>>)
        ELSE IF ~timed THEN <<Line(Construction(s), 1, s.P, a.profile)>>
        ELSE [i \in DOMAIN a.trades |->
                Own(Pct(Pct(a.trades[i].rate * s.gia, opts.build), onCosts), a.trades[i].timing)]
             \o others

\* What falls in month m of a list of lines.
InMonth(lines, total, m) == Total(lines, LAMBDA l : Falls(l, total, m))

constrSeries(a, opts, s) ==
    LET phases == [i \in DOMAIN s.phases |-> PhaseLines(a, opts, s, s.phases[i])]
        scheme == SchemeLines(a, opts, s)
    IN  Series(s.total, LAMBDA m : Total(phases, LAMBDA lines : InMonth(lines, s.total, m)) + InMonth(scheme, s.total, m))

\* Each phase sells as it completes; the held element is realised over the
\* months left once everything is complete.
revSeries(a, s) ==
    LET Net(gdv) == Pct(gdv, 100 - a.disposalPct)
        Sold(sale, gdv, k) ==
            IF k \in 1..sale.months THEN Ratio(Net(gdv), sale.share[k], sale.whole) ELSE 0
        Received(m) == IF s.phases = <<>> THEN Sold(s.sale, s.gdv, m - s.P)
                       ELSE Total(s.phases, LAMBDA p : Sold(p.sale, p.gdv, m - p.completion))
                            + (IF m > s.P THEN Net(s.investment) \div (s.total - s.P) ELSE 0)
    IN  Series(s.total, Received)

\* The facility: interest on the balance, the financed part of the month's
\* spend, then what the month's receipts repay.  The peak is a closing balance.
Facility(a, constr, rev) ==
    LET f[m \in 0..Len(constr)] ==
            IF m = 0 THEN [bal |-> 0, intr |-> 0, draw |-> 0, peak |-> 0]
            ELSE LET last == f[m - 1]
                     intr == Pct(last.bal, a.ratePct \div 12)
                     draw == Pct(constr[m], a.ltcPct)
                     due == last.bal + intr + draw
                     bal == IF rev[m] > 0 THEN due - Min({rev[m], due}) ELSE due
                 IN  [bal |-> bal, intr |-> intr, draw |-> draw, peak |-> Max({last.peak, bal})]
    IN  Series(Len(constr), LAMBDA m : f[m])

-----------------------------------------------------------------------------
(* The appraisal, and what reads it.                                       *)

BaseCase == [sales |-> 100, build |-> 100]

\* A scheme, its months and its facility solved for the land or for the profit.
Solved(a, s, constr, rev, f) ==
    LET interest == SumOver([m \in 1..s.total |-> f[m].intr])
        facility == f[s.total].peak
        arrangement == Pct(facility, a.arrangementPct)
        outlay == s.saleCosts + Construction(s) + interest + arrangement
        target == Pct(s.gdv, a.targetPct)
        residual == IF a.mode = "residual"
                    THEN Ratio(s.gdv - outlay - target, 100, 100 + a.acqPct) ELSE a.land
        landGross == Pct(residual, 100 + a.acqPct)
    IN  [s |-> s, constr |-> constr, rev |-> rev, f |-> f, facility |-> facility,
         interest |-> interest, arrangement |-> arrangement,
         drawn |-> SumOver([m \in 1..s.total |-> f[m].draw]),
         residualNet |-> residual, landGross |-> landGross,
         profit |-> IF a.mode = "residual" THEN target ELSE s.gdv - (outlay + landGross),
         totalCost |-> outlay + landGross]

computeAppraisal(a, opts) ==
    LET Financed(s, constr, rev) == Solved(a, s, constr, rev, Facility(a, constr, rev))
        Spread(s) == Financed(s, constrSeries(a, opts, s), revSeries(a, s))
    IN  Spread(Scheme(a, opts))

\* The cash page: the land is bought in month 1, and the net of a month is
\* what it received less what it spent and the interest it bore.
cashRows(r) ==
    [m \in 1..r.s.total |->
        r.rev[m] - (r.constr[m] + (IF m = 1 THEN r.landGross ELSE 0)) - r.f[m].intr]

\* The flows the two internal rates of return are computed from, with the land
\* in month 0: those of the project, and those of the equity once each month's
\* receipts have served the debt.
cfU(r) == [m \in 0..r.s.total |-> IF m = 0 THEN -r.landGross ELSE r.rev[m] - r.constr[m]]

cfE(a, r) ==
    LET debt[m \in 0..r.s.total] ==
            IF m = 0 THEN r.drawn + r.interest ELSE LET owed == debt[m - 1] IN owed - Min({r.rev[m], owed})
    IN  [m \in 0..r.s.total |->
            IF m = 0 THEN -r.landGross
            ELSE r.rev[m] - (debt[m - 1] - debt[m]) - Pct(r.constr[m], 100 - a.ltcPct)]

\* What a shock to values (sales) or to costs (build) does to each metric.
sensitivityStructure(mode) ==
    IF mode = "residual" THEN [roc |-> "pinned", profit |-> "gdvOnly", residual |-> "varies"]
    ELSE [roc |-> "varies", profit |-> "varies", residual |-> "pinned"]

sensitivityGrid(a, steps) ==
    [gd \in steps, bd \in steps |-> computeAppraisal(a, [sales |-> 100 + gd, build |-> 100 + bd])]

\* The waterfall of a joint venture; pref is the compounded preferred return.
jvWaterfall(equity, profit, pref, gpPct, promotePct) ==
    LET gpCo == Pct(equity, gpPct)
        residual == profit - pref
        promote == Pct(residual, promotePct)
        Split(amount, part) == IF equity > 0 THEN (amount * part) \div equity ELSE 0
    IN  IF profit <= pref
        THEN LET lp == Split(profit, equity - gpCo)
             IN  [lp |-> lp, gp |-> profit - lp, promote |-> 0]
        ELSE [lp |-> Split(pref + residual - promote, equity - gpCo),
              gp |-> Split(pref + residual - promote, gpCo) + promote, promote |-> promote]

\* Mutation: the last bin is half open as the others are.
BinnedHalfOpen(sorted, bins) ==
    LET lo == sorted[1]
        range == sorted[Len(sorted)] - lo
    IN  IF range = 0 THEN <<Len(sorted)>>
        ELSE [b \in 1..bins |-> Cardinality({i \in DOMAIN sorted : ((sorted[i] - lo) * bins) \div range = b - 1})]

\* The histogram of a sorted sample: equal bins over its range, the maximum in
\* the last of them, and one bin when every run came out the same.
binned(sorted, bins) ==
    LET lo == sorted[1]
        range == sorted[Len(sorted)] - lo
        BinOf(v) == Min({bins - 1, ((v - lo) * bins) \div range})
    IN  IF sorted = <<>> THEN <<>>
        ELSE IF range = 0 THEN <<Len(sorted)>>
        ELSE [b \in 1..bins |-> Cardinality({i \in DOMAIN sorted : BinOf(sorted[i]) = b - 1})]

\* The p-th percentile of a sorted sample, times 100.
percentile(sorted, q) ==
    LET pos == (Len(sorted) - 1) * q
        lo == sorted[pos \div 100 + 1]
        hi == sorted[Ceiling(pos, 100) + 1]
    IN  lo * 100 + (hi - lo) * (pos % 100)

-----------------------------------------------------------------------------
(* Properties of an appraisal                                              *)

\* Units that sell slower than 24 months are cut off with their receipts.
Absorbed(s) == \A sale \in {s.sale} \cup {s.phases[i].sale : i \in DOMAIN s.phases} :
                   SumOver(sale.share) = sale.whole

\* Spreading an appraisal over its months loses and invents nothing: whatever
\* the phases, the windows of single lines and the profiles, the months hold
\* the whole construction cost, and the whole net proceeds once everything
\* sells within the 24 months absorption allows.
EveryPoundPlaced(r) ==
    /\ SumOver(r.constr) = Construction(r.s)
    /\ Absorbed(r.s) => SumOver(r.rev) = r.s.gdv - r.s.saleCosts
    /\ \A m \in DOMAIN r.constr : r.constr[m] >= 0 /\ r.rev[m] >= 0

\* Value is cost plus profit in both modes, and the three cash pages agree with
\* them: the net of all rows is the profit before the arrangement fee, the
\* flows of the project are that net before interest, and those of the equity
\* are after the debt has been served as far as the receipts reach.
CashReconciles(a, r) ==
    LET received == SumOver(r.rev)
        lost == r.s.gdv - r.s.saleCosts - received
        served == Min({received, r.drawn + r.interest})
    IN  /\ r.profit + r.totalCost = r.s.gdv
        /\ SumOver(cashRows(r)) = r.profit + r.arrangement - lost
        /\ SumOver(cfU(r)) = SumOver(cashRows(r)) + r.interest
        /\ SumOver(cfE(a, r)) = SumOver(cfU(r)) + r.drawn - served

\* The facility never runs negative, is never above its peak, is never above
\* what was drawn and what it cost, and is repaid as far as the receipts reach.
FacilityCoversBalance(r) ==
    /\ \A m \in DOMAIN r.constr : r.f[m].bal \in 0..r.facility
    /\ \A m \in DOMAIN r.constr :
          r.f[m].bal <= SumOver([k \in 1..m |-> r.f[k].draw + r.f[k].intr])
    /\ r.f[Len(r.constr)].bal >= r.drawn + r.interest - SumOver(r.rev)

\* What the screen says of a grid is true of it: a pinned metric is the same in
\* every cell, and one that follows values alone does not move with costs.
StructureIsTrue(a, steps) ==
    LET grid == sensitivityGrid(a, steps)
        \* return on cost as a cross product, so that it needs no division
        Same(metric, r, q) ==
            CASE metric = "roc" -> r.profit * q.totalCost = q.profit * r.totalCost
              [] metric = "profit" -> r.profit = q.profit
              [] metric = "residual" -> r.residualNet = q.residualNet
    IN  \A metric \in {"roc", "profit", "residual"}, c, d \in DOMAIN grid :
            LET response == sensitivityStructure(a.mode)[metric]
            IN  \/ response = "varies"
                \/ response = "gdvOnly" /\ c[1] # d[1]
                \/ Same(metric, grid[c], grid[d])

\* A waterfall hands out the profit or the loss, all of it and once, and the
\* promote is never paid before the preferred return is covered.
WaterfallSplitsAll(profit, pref, w) ==
    /\ w.lp + w.gp = profit
    /\ w.promote > 0 => profit > pref
    /\ profit >= 0 => w.lp >= 0 /\ w.gp >= w.promote

\* No run of a simulation is missing from its histogram, and its percentiles
\* are in order and inside its range.
SampleIsWhole(sorted, bins) ==
    /\ SumOver(binned(sorted, bins)) = Len(sorted)
    /\ \A p, q \in {0, 10, 50, 90, 100} :
          p <= q => percentile(sorted, p) <= percentile(sorted, q)
    /\ percentile(sorted, 0) = 100 * sorted[1] /\ percentile(sorted, 100) = 100 * sorted[Len(sorted)]

-----------------------------------------------------------------------------
(* Refuted                                                                 *)

\* types.ts says that with an absorption rate the receipts arrive as the units
\* actually sell: those of units that sell after the 24th month never arrive,
\* while the value of the scheme still counts them.
AllReceiptsArrive(r) == SumOver(r.rev) = r.s.gdv - r.s.saleCosts
=============================================================================
