-------------------------- MODULE ReportRendering --------------------------
(***************************************************************************)
(* The PDFs one server process prints (reports.ts): the browser its jobs   *)
(* share (report-browser.ts) and the slots that bound them                 *)
(* (report-capacity.ts), while contexts and the browser open late, hang,   *)
(* fail to close or go away.                                               *)
(*                                                                         *)
(* What is printed is left out.  Whatever waits on the browser may wait    *)
(* for ever; the deadline of a job does not.                               *)
(***************************************************************************)
EXTENDS Integers, FiniteSets

CONSTANTS
    Job,              \* requests for a PDF
    MAX_ACTIVE_REPORTS,
    MaxBrowser        \* bound on browsers launched

VARIABLES
    current,     \* the browser of browserPromise; 0 when none
    launched,    \* browsers launched
    up,          \* browsers that run
    active,      \* the two counters
    publicActive,
    job          \* each request

vars == <<current, launched, up, active, publicActive, job>>
browsers == <<current, launched, up>>
counters == <<active, publicActive>>

\* "step" is where the work is, "cleanup" where its one clean-up is, "context" whether it has one open.
NewJob == [step |-> "new", public |-> FALSE, browser |-> 0, context |-> FALSE, cleanup |-> "none",
           expired |-> FALSE, released |-> FALSE, answer |-> "none"]

ReportJob ==
    [step : {"new", "browser", "opening", "rendering", "done", "over"}, public : BOOLEAN, browser : 0..MaxBrowser,
     context : BOOLEAN, cleanup : {"none", "context", "browser", "over", "failed"}, expired : BOOLEAN,
     released : BOOLEAN, answer : {"none", "no browser", "busy", "error", "too long", "pdf"}]

TypeOK ==
    /\ current \in 0..MaxBrowser /\ launched \in 0..MaxBrowser /\ up \subseteq 1..MaxBrowser
    /\ active \in Int /\ publicActive \in Int
    /\ job \in [Job -> ReportJob]

Init ==
    /\ current = 0 /\ launched = 0 /\ up = {}
    /\ active = 0 /\ publicActive = 0
    /\ job = [j \in Job |-> NewJob]

-----------------------------------------------------------------------------
(* The browser                                                              *)

\* getReportBrowser: the one there is, a new one, or none to be had.
getReportBrowser(j) ==
    /\ job[j].step = "new"
    /\ \E public \in BOOLEAN :
       \/ /\ current # 0
          /\ job' = [job EXCEPT ![j].step = "browser", ![j].public = public, ![j].browser = current]
          /\ UNCHANGED browsers
       \/ /\ current = 0 /\ launched < MaxBrowser
          /\ launched' = launched + 1 /\ current' = launched + 1 /\ up' = up \cup {launched + 1}
          /\ job' = [job EXCEPT ![j].step = "browser", ![j].public = public, ![j].browser = launched + 1]
       \/ /\ current = 0
          /\ job' = [job EXCEPT ![j].step = "over", ![j].answer = "no browser"]
          /\ UNCHANGED browsers
    /\ UNCHANGED counters

\* A browser that goes takes its contexts with it, and is forgotten.
Gone(jobs, b) == [k \in Job |-> IF jobs[k].browser = b THEN [jobs[k] EXCEPT !.context = FALSE] ELSE jobs[k]]
Forget(b) == up' = up \ {b} /\ current' = (IF current = b THEN 0 ELSE current) /\ UNCHANGED launched

Disconnect ==
    /\ \E b \in up : Forget(b) /\ job' = Gone(job, b)
    /\ UNCHANGED counters

-----------------------------------------------------------------------------
(* A job                                                                    *)

Busy(j) == active >= MAX_ACTIVE_REPORTS \/ (job[j].public /\ publicActive >= 1)

withReportContext(j) ==
    /\ job[j].step = "browser"
    /\ IF Busy(j)
       THEN /\ job' = [job EXCEPT ![j].step = "over", ![j].answer = "busy"] /\ UNCHANGED counters
       ELSE /\ job' = [job EXCEPT ![j].step = "opening"]
            /\ active' = active + 1
            /\ publicActive' = IF job[j].public THEN publicActive + 1 ELSE publicActive
    /\ UNCHANGED browsers

\* The slot goes back once.
Release(j) ==
    IF job[j].released THEN UNCHANGED counters
    ELSE active' = active - 1 /\ publicActive' = IF job[j].public THEN publicActive - 1 ELSE publicActive

\* newContext, which may come after the deadline, or not at all.
ContextOpens(j) ==
    /\ job[j].step = "opening" /\ job[j].browser \in up
    /\ job' = [job EXCEPT ![j].context = TRUE,
                          ![j].step = IF job[j].expired THEN "done" ELSE "rendering",
                          ![j].cleanup = IF job[j].expired THEN "context" ELSE @]
    /\ UNCHANGED <<browsers, counters>>

ContextFails(j) ==
    /\ job[j].step = "opening"
    /\ Release(j)
    /\ job' = [job EXCEPT ![j].step = "over", ![j].released = TRUE,
                          ![j].answer = IF @ = "none" THEN "error" ELSE @]
    /\ UNCHANGED browsers

\* The PDF is there, or the page broke: either way the context is closed, by whoever is first to say so.
render(j) ==
    /\ job[j].step = "rendering"
    /\ job' = [job EXCEPT ![j].step = "done", ![j].cleanup = IF @ = "none" THEN "context" ELSE @]
    /\ UNCHANGED <<browsers, counters>>

\* As if the deadline gave the slot back without waiting for the context.
GivesBack(j) == active' = active - 1 /\ publicActive' = IF job[j].public THEN publicActive - 1 ELSE publicActive

\* The deadline keeps it.
KeepsSlot(j) == UNCHANGED counters

\* setTimeout: the request is answered, and a context that is open is closed.
Deadline(j) ==
    /\ job[j].answer = "none" /\ job[j].step \in {"opening", "rendering", "done"}
    /\ KeepsSlot(j)
    /\ job' = [job EXCEPT ![j].expired = TRUE, ![j].answer = "too long",
                          ![j].cleanup = IF job[j].step # "opening" /\ @ = "none" THEN "context" ELSE @]
    /\ UNCHANGED browsers

\* close: the context, or the whole browser when it does not close.
ContextCloses(j) ==
    /\ job[j].cleanup = "context"
    /\ Release(j)
    /\ job' = [job EXCEPT ![j].context = FALSE, ![j].cleanup = "over", ![j].released = TRUE]
    /\ UNCHANGED browsers

ContextStaysOpen(j) ==
    /\ job[j].cleanup = "context"
    /\ job' = [job EXCEPT ![j].cleanup = "browser"]
    /\ UNCHANGED <<browsers, counters>>

BrowserCloses(j) ==
    /\ job[j].cleanup = "browser"
    /\ Forget(job[j].browser)
    /\ Release(j)
    /\ job' = [Gone(job, job[j].browser) EXCEPT ![j].cleanup = "over", ![j].released = TRUE]

\* Neither closes: the slot is kept.
BrowserStaysOpen(j) ==
    /\ job[j].cleanup = "browser"
    /\ job' = [job EXCEPT ![j].cleanup = "failed"]
    /\ UNCHANGED <<browsers, counters>>

\* The work settles when its clean-up has; the first of it and the deadline answers.
Settle(j) ==
    /\ job[j].step = "done" /\ job[j].cleanup \in {"over", "failed"}
    /\ \E answer \in {"pdf", "error"} :
         job' = [job EXCEPT ![j].step = "over", ![j].answer = IF @ = "none" THEN answer ELSE @]
    /\ UNCHANGED <<browsers, counters>>

Next ==
    \/ Disconnect
    \/ \E j \in Job :
         \/ getReportBrowser(j) \/ withReportContext(j) \/ ContextOpens(j) \/ ContextFails(j)
         \/ render(j) \/ Deadline(j) \/ ContextCloses(j) \/ ContextStaysOpen(j)
         \/ BrowserCloses(j) \/ BrowserStaysOpen(j) \/ Settle(j)

Spec == Init /\ [][Next]_vars

-----------------------------------------------------------------------------
(* Properties                                                               *)

\* Contexts that are open, or that the browser may still open.
Occupied(jobs) == {j \in jobs : job[j].context \/ job[j].step = "opening"}

\* However jobs end - in time, too late, before their context is there, with one that does not close, or
\* with the browser - the browser never has more contexts than there are slots, or public ones than one,
\* and a counter never goes below what is in use.
SlotsBound ==
    /\ Cardinality(Occupied(Job)) <= active /\ active <= MAX_ACTIVE_REPORTS
    /\ Cardinality(Occupied({j \in Job : job[j].public})) <= publicActive /\ publicActive <= 1

\* Who has a slot: a job whose context is, or may come to be, open, for good when nothing closes it.
Holds(j) == ~job[j].released /\ (job[j].step \in {"opening", "rendering", "done"} \/ job[j].cleanup = "failed")
Holders == {j \in Job : Holds(j)}
PublicHolders == {j \in Holders : job[j].public}

\* A clean-up is of a job that has its slot still, and no context outlives it.
CleanUpHolds(j) ==
    /\ job[j].step \in {"new", "browser", "opening"} => ~job[j].released /\ job[j].cleanup = "none" /\ ~job[j].context
    /\ job[j].cleanup \in {"context", "browser"} => ~job[j].released /\ job[j].step # "over"
    /\ job[j].cleanup = "failed" => ~job[j].released
    /\ job[j].cleanup = "over" => job[j].released
    /\ job[j].released => ~job[j].context /\ (job[j].cleanup = "over" \/ job[j].step = "over")
    /\ job[j].step = "over" /\ job[j].cleanup # "failed" => ~job[j].context

\* The counters are the slots that are taken.
SlotsCounted ==
    /\ IsFiniteSet(Holders)
    /\ active = Cardinality(Holders) /\ publicActive = Cardinality(PublicHolders)
    /\ active <= MAX_ACTIVE_REPORTS /\ publicActive <= 1

IInv == TypeOK /\ (\A j \in Job : CleanUpHolds(j)) /\ SlotsCounted

\* Refuted: a slot comes back when the browser goes.  The clean-up has failed for good by then
\* (report-capacity.ts:67).
SlotsComeBack == (\A j \in Job : job[j].step \in {"new", "over"}) /\ up = {} => active = 0
=============================================================================
