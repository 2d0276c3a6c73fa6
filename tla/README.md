# PlotMerit (apex-appraise): a verification project

PlotMerit is a workspace for property developers: deals, appraisals that are reviewed and
signed, terms of engagement that clients sign, plots that are sold and paid for, files, and
the integrations around them. It is a Fastify and tRPC server over a relational database
(`apps/api`), a React application (`apps/web`) and a pure calculation engine
(`packages/appraisal-engine`).

Its tests are many and sequential. What they hardly reach is what happens *between* two
statements: a row read, awaited and written; two requests, two processes or two passes of a
timer at once; a process that dies; a callback that comes twice. This project models the
parts whose correctness depends on that.

Two facts shape every module. A handler is a sequence of `await`s, and only what stands in
one statement or one `$transaction` is atomic; so every module gives a request a step per
awaited call and keeps what it read in its locals. And the code protects itself almost
everywhere with one idiom, a conditional write (`updateMany` whose `where` repeats what was
read); so most properties ask whether the condition is strong enough, and most of what TLC
refutes is a write by id where the condition is missing.

Contents: [components](#components), [plan](#plan), [modules and
code](#modules-and-the-code), [runs](#runs), [bounds](#bounds), [fairness](#fairness),
[proofs](#proofs), [disagreements](#where-the-code-and-its-comments-disagree),
[assumptions](#assumptions), [not modelled](#what-is-not-modelled).

## Components

For each: the state it keeps, its operations, what it touches, what is hard, and what makes
it correct. Paths are under `apps/api/src` unless they start with `apps` or `packages`.

| Component | State | Operations | Interacts with | Hard | Correct when |
|---|---|---|---|---|---|
| **Appraisal versions and review** `routers/appraisal.ts`, `current-appraisal.ts`, `optimistic.ts`, `approval-pin.ts` | the `Appraisal` rows of a deal, the headline on the deal card | save (first, branch, field allowance, in place), submitForReview, review, restore, applyToAppraisal, draftNarrative | webhooks (`appraisal.approved`), benchmark pool, deal card | rows read in one step and written in another; a `@updatedAt` used as a version | one current version; what is signed is what was listed to its reviewer, is signed once and stays; no save is lost |
| **Outbound webhooks** `webhook-delivery.ts`, `routers/org.ts` | endpoints, the delivery queue, claim leases | emit, drain (select, claim, post, complete, record), create, resume, delete, prune | every component that announces | passes of several processes with clocks of their own, crashes between claim and outcome, retries | one recorder per attempt, leases apart, final is final, what can be signed settles though others stand before it |
| **Buyer payments** `payments.ts`, `routers/portal.ts`, `routers/sales.ts`, `webhooks.ts`, `packages/appraisal-engine/src/deposits.ts` | `Payment`, the plot, PaymentIntents at Stripe | myUnit, pay, confirmPayment, Stripe's callback, demo payment, upsertUnit, advanceMilestone, deleteUnit | Stripe, activity trail | the browser and the callback settle at once; the price moves; the plot goes | one receipt, one intent, nothing settled uncharged, money reaches the ledger and stays |
| **Workspace subscription** `billing.ts`, `routers/billing.ts`, `webhooks.ts`, `routers/org.ts` | the organisation's mirror of a Stripe subscription | checkout, changePlan, cancelPlan, resumePlan, sync, callback, deleteWorkspace | Stripe, entitlements | reconciliations out of order, checkouts racing completions, deletion | billed once; closed before it is erased; the mirror is current |
| **Terms of engagement** `routers/engagement.ts`, `optimistic.ts` | one `EngagementTerms` row, a signing link | get, save, issue, revokeLink, accept, sign, withdraw | activity trail, e-mail | five writers by id and one conditional, a public link | one signature, never typed over; a dead link stays dead; no unseen text replaced |
| **Uploaded files and their erasure** `uploads.ts`, `upload-owner.ts`, `upload-erasure.ts`, `org-delete.ts`, `routers/ops.ts` | files on disk, rows that name them, the `UploadErasure` outbox | three uploads, refusal, discard, photos.remove, clearLogo, deleteWorkspace, the drain | every tenant on one disk | streams that outlive a workspace, shared urls, unlinks that fail, drains in several processes | no live file erased, none forgotten, what is queued goes |
| **Sign-in, sessions, recovery** `routers/auth.ts`, `auth/*`, `sso.ts`, `context.ts` | `AuthThrottle`, `sessionsValidFrom`, reset tokens, break-glass codes | login, register, reset, changePassword, recoveryLogin, SSO | e-mail, audit | attempts across processes; single-use tokens; a session cut off while a request runs | a lock holds, a token and a code work once, a reset ends older sessions |
| **Benchmark pool** `benchmark-feed.ts`, `routers/benchmarks.ts`, `routers/deals.ts` | contributed points of all firms, a firm's consent | feedApproved, feedOutturn, retractOutturn, setContribution, setStage | review, deals | delete and re-create outside a transaction; consent read earlier than the write | no point without consent, one point per deal and period, out-turn only of completed deals |
| **Accounting and bank feeds** `xero.ts`, `open-banking.ts` | OAuth connections with rotating refresh tokens, imported rows | connect, accessTokenFor, syncXero, syncBank, disconnect | external providers, cost packages | two refreshes with one token; an answer lost, or a write failing, after the token was retired; overlapping imports | the stored token lives unless its successor was lost; a transaction is imported once |
| **Field photo queue** `apps/web/src/lib/photo-queue.ts`, `photo-drain.ts`, `photo-store.ts`, `apps/web/src/routes/FieldApp.tsx`, `routers/inspections.ts` | the queue on a device, the inspection that names the photographs | put, drainOnce, bringForward, forgetAttributed, save | uploads | offline, retries whose first try succeeded, a send while a photograph uploads | a photograph is kept until an inspection names it; it is uploaded in the end |
| **Report rendering** `report-capacity.ts`, `reports.ts` | two slots, one public | withReportContext | a headless browser | a deadline racing a close | slots are given back once, the public one never takes both |
| **Tasks and activity** `routers/ops.ts`, `audit.ts`, `FieldFollowups.tsx` | tasks, the activity trail | create (replayed by request id), update, toggle, remove | inspections, the version that captures them | a retry of a create while the first still runs | one task per submission, of what its author reviewed |
| **Deals, comparables, scenarios, cost packages** `routers/deals.ts`, `ops.ts`, `sales.ts` | rows of a deal | reads, edits | entitlements | limits counted before the insert | a row is the firm's own, the plan's limit holds |
| **Workspace, members, entitlements** `routers/org.ts`, `entitlements.ts`, `trial.ts` | members, roles, keys, policy | invite, remove, roles, keys, export, deleteWorkspace | billing, files, webhooks | the last admin, limits | one admin is left, limits hold |
| **Investor register** `routers/portal.ts` | the investor, holdings, cash-flow lines, a login | setHolding, fund, remove, invite | reports | money recorded between a look and a delete | money keeps its investor; a holding is what was typed |
| **Public API, share links** `public-api.ts`, `api-keys.ts`, `share.ts`, `download-token.ts` | keys, shares, a cursor | authenticate, page, open, revoke | appraisals, reports | rows move between pages; a link withdrawn while it renders | a walk is whole, an opening is counted |
| **Open data, maps, tiles** `opendata*.ts`, `staticmap.ts`, `tiles.ts` | caches | cached, refresh, prune | external sources | stampedes | stale is served, never wrong |
| **Extraction and narrative** `routers/appraisal.ts`, `extraction-receipt.ts`, `narrative-guard.ts` | receipts (signed, not stored) | extract, draft | a language model | deadlines | inputs only, validated |
| **Calculation engine** `packages/appraisal-engine/src` | none | pure functions | everything | rounding, edges | golden fixtures |
| **Errors, health, limits, sweeps** `errors.ts`, `health.ts`, `security.ts`, `row-sweeper.ts`, `main.ts` | a bounded log, counters | capture, sweep | all | captures at once of a full log | bounded, and each workspace sees its own |
| **Secrets, outbound calls** `secret-box.ts`, `sealed-fields.ts`, `outbound.ts` | none | seal, open, fetch | webhooks, feeds | none of its own | fails closed |
| **Data room** `routers/ops.ts`, `uploads.ts`, `routers/portal.ts` | documents, links between revisions, what a plot's buyer is shown and has signed | expect, upload, setRevision, shareWithBuyer, sign, invite, deleteUnit | extraction, payments | links made and undone over time; a check and a write by id apart | following revisions ends; a buyer signs only what the plot was offered |
| **Cost record** `routers/ops.ts`, `xero.ts` | packages, contractors, weeks, site photographs | upsert, applyPlan, remove, timesheets, syncXero | engine, feeds | patches and refreshes from rows read earlier | a figure is what was entered or came from the ledger |
| **Web application** `apps/web/src` | an editor, grids, drawers, the query cache | screens over the procedures above | everything | an answer that comes late | what a screen says is so; what was typed stays or is saved |
| **MCP server, types, tokens, seeds, infrastructure** | none | | API | | |

The first six are modelled whole. Of the others the part that keeps state between two steps is
modelled and the rest is left out, as `PROJECT.json` says of each; the calculation engine is
modelled as operators. Secrets and outbound calls, the MCP server, types, tokens, seeds and
infrastructure are not modelled.

## Plan

Modelled in this order, because this is the order in which a mistake costs most.

1. `AppraisalVersions` with the abstract `VersionHistory`: done; every checked property proved,
   the refinement too.
2. `WebhookDelivery`: done; every checked safety property proved.
3. `Payments`: done; every checked safety property proved.
4. `Subscriptions`: done; every checked property proved.
5. `EngagementTerms`: done; every checked property proved.
6. `FileErasure`: done; every checked safety property proved.
7. `DataRoom`: done; every checked property proved.
8. `FieldWork`: the queue of a device composed with the upload, the inspection and a desk; done,
   with liveness; its safety proved.
9. The records and feeds: `CostMonitoring`, `InvestorRegister`, `XeroConnection`, `BankFeed`,
   `SourceCache` and `DealListing` done and proved.
10. The screens: `SourceReview`, `FollowUps`, `SalesOffice`, `AppraisalEditor` and `EvidenceGrid` done
    and proved.
11. Ways in: `WorkspaceAccess`, `SignInThrottle`, `SharedReports`: done and proved.
12. What is shared and bounded: `BenchmarkPool`, `ReportRendering`, `ErrorLog` and `MapTiles`: done
    and proved.
13. The engine: `DevelopmentFigures`, `IncomeFigures`, `PortfolioFigures`: done; most of what the
    first promises and all of what the last does proved for all inputs, the whole run on small ones.

Left: the policy of a firm (`savePolicy`, `routers/org.ts:343-430`), the sample deal a new
workspace loads, the other endpoints of the public API, the refresh of a bank's token.

Every safety property of these is proved but two of the figures, whose parts are theorems where
they hold of all inputs. Abstract specifications worth stating next: a settlement that
happens once (for `Payments`), a set of files that only shrinks through the outbox (for
`FileErasure`), a pool that is a function of consent and signatures (for `BenchmarkPool`).

Each component has a module and a `.cfg` per run; an `MC` module where its instance needs what a
`.cfg` cannot write; and, where something is proved, a `Proofs` module that extends it or the `MC`
module it is part of: `RecordsProofs`; `ValuationProofs`, which has `FieldWork` and the appraisals of
the engine beside `MCValuation`; and `MoneyProofs`, which has `Payments` and the rest of the engine. No component module
declares a `RECURSIVE` operator, so that any of them can be proved about. Composition is by
shared actions: `deleteWorkspace` appears in `Subscriptions` with its billing and in
`FileErasure` with its files, `emitWebhook` in `WebhookDelivery` as a queue and in
`AppraisalVersions` as a count of announcements, and `deleteUnit` in `Payments` with the
money of a plot and in `DataRoom` with its documents and its login. `FieldWork` and `FollowUps`
each take a screen and the server together.

## Modules and the code

**`AppraisalVersions`** (`routers/appraisal.ts`). `rows` is the `Appraisal` table of one
deal, `opened` what a person's screen was given, and `pc`, `seen`, `seenId`, `work`
the locals of a request. An editor is given inputs (`EditorCopy`); the list of versions, which
a reviewer decides from, holds a stamp and a headline and no inputs (`ListedCopy`). `listed`
remembers the inputs the row had when it was listed; no action reads it. Each procedure is a read (`SaveInPlaceRead`) and a write
(`SaveInPlace`) with the `where` of the code (`StillAsOpened`). Inputs are abstracted to a
schedule (`mix`) and a cap, which is what the allowances and `applyToAppraisal` tell apart;
cached results and pins are the inputs they were computed from. `Later` is
`Math.max(Date.now(), updatedAt + 1)`: a clock may stand still or go back. `Crash` drops a
request between two steps.

**`VersionHistory`** is what that promises a reader: versions are added, one is current,
each is moved through its review by single decisions, what is signed stays signed. The
property `ImplementsHistory` maps `rows` to `stage`, `current` and `signed` and lets TLC check
every step.

**`WebhookDelivery`** (`webhook-delivery.ts`). `rows` is the queue, `worker` a pass of
`drainWebhooks` in any process, `due` and `token` the two times the code compares, kept
relative to the present so that `Tick` can let time pass for ever. `Drain` selects a batch,
`Claim` is the conditional lease, `PostWebhook` the call, `Complete` the conditional outcome,
`RecordAttempt` the endpoint's count and its parking. A secret that does not open ends the pass
that claimed it and counts no attempt (in `Claim`). `Skew` gives each process a clock. Under
`Prompt` one process drains and its timer fires once in a unit of time: `fired` says that the
pass of the last firing is still to start, and there is one pass a firing.

**`Payments`** (`payments.ts`, `routers/portal.ts`, `sales.ts`, `webhooks.ts`). `proc` holds
a request in flight; `OpenPortal`, `LoadPayments` and `EnsureRow` are the page load that keeps
the schedule in step with the plot; `Pay` to `StoreIntent` is `intentFor`; `AskStripe`,
`Settle` and `WriteReceipt` settle; `DeleteUnit` to `PurgeUnit` is `deleteUnit`. Stripe is
external: intents, an idempotency key per payment, events that are resent.

**`Subscriptions`** (`billing.ts`, `routers/billing.ts`, `org.ts`). `org.mirror` is the row's
copy of the subscription, `subs` and `sessions` are Stripe's. `StartCheckout` to
`CreateSession` is the checkout with its list and recheck, `ReadOrg`, `FetchLive` and `Commit`
are `reconcileSubscription`, `ReadCustomer` to `Erase` the deletion.

**`EngagementTerms`** (`routers/engagement.ts`). `row` is the row; `text` names the version of
its wording and `stamp` its `updatedAt`; `form` is the stamp a screen holds. Each procedure
is a read that refuses or goes on and a write; `WriteSign` is the only conditional one.
`period` counts the times the terms became signable and exists for `OneSignature`.

**`FileErasure`** (`uploads.ts`, `upload-erasure.ts`, `org-delete.ts`). `disk` is the directory,
`refs` the rows that name files, `jobs` the outbox (its `nextAttemptAt` kept as due now or
later), `up` an upload request and `drain` a pass. `Commit` and `DeleteWorkspace` are one step
each because both lock the organisation's row first. `lost` collects what the code leaves on
disk with nobody to answer for it: what a death leaves (`infra/DEPLOY.md:486` says so) and
the bytes of removed photographs and replaced logos; it exists for `EveryFileAccounted`.

**`DataRoom`** (`routers/ops.ts`, `uploads.ts`, `routers/portal.ts`, `sales.ts`). `doc` holds the
documents of a deal in upload order, each with the one that replaces it (`next`) and the plot it
is offered to. `setRevision` compares the link it read; everything else looks and then writes by
id. `offered` and `signers` remember what each plot was offered and who pressed sign.

**`FieldWork`** (`lib/photo-store.ts`, `photo-queue.ts`, `photo-drain.ts`, `FieldApp.tsx`,
`Workbench.tsx`, `routers/inspections.ts`). `kept` is the queue record of a photograph in
IndexedDB, which outlives the page; `screen` what a page holds, which does not. `drain` is a pass
over the queue, `save` a save of the inspection from a device or a desk under a stamp.
A photograph carries who took it (`by`), which is the device it is kept on. `named` remembers which
photographs an accepted save has named.

**`CostMonitoring`** (`routers/ops.ts`, `xero.ts`): packages, contractors, weeks and photographs,
with `entered` and `logged` remembering what people were told was kept. **`InvestorRegister`**
(`routers/portal.ts`): one investor, holdings and lines, with `typed` likewise. In both
`overlapped` says whether two requests were ever under way at once, so that what holds only of
requests in turn is stated as that.

**`XeroConnection`** (`xero.ts`): the pair of tokens a row stores, the pair of each consent Xero
honours (`live`), the consents it ended because a retired token came back (`dead`) and each
process's `inFlight`. `postToken` is answered, is refused, never arrives, or times out after Xero
has retired the token; the write of the new pair may fail, and a process may die before it: `lost`
are the consents whose newest pair nobody could store.
**`BankFeed`** (`open-banking.ts`): syncs that repeat their window, rows found or made, and what
people classified (`said`). **`SourceCache`** (`opendata-cache.ts`): one key, several processes,
a source that is there or not, `coolingOff` and `refreshing` in each process, the sweep.
**`DealListing`** (`public-api.ts`): pages behind a cursor while deals are added and move;
`steady` is what was in the filter all the time.

**`AppraisalEditor`** (`DevelopmentAppraisal.tsx`, `App.tsx`, `AutoAppraisal.tsx`): `cache` is what
the query client holds, `fetching` a read whose answer is still to come, `ed` the editor with its
stamp and its unsaved inputs, `req` the one mutation. Inputs are numbers: a new one for every
edit. **`SourceReview`** (`AutoAppraisal.tsx`, `appraisal.ts`): `run` is the result on the page,
made anew by every answer; `acceptedRun` the one the box was ticked for.
**`EvidenceGrid`** (`Comparables.tsx`, `Scenarios.tsx`): `edits` is the overlay a screen lays over
the row, `queue` its saves. **`FollowUps`** (`FieldFollowups.tsx`, `ops.ts`): `form` is what is open,
`shown` the version of the inspection a submission was drafted from. **`SalesOffice`**
(`SalesCrm.tsx`, `sales.ts`): `list` is the record as each drawer last fetched it and `held` the
stamp it sends, which come from different answers.

**`WorkspaceAccess`** (`org.ts`, `auth.ts`, `auth/sso-recovery.ts`): accounts, mailed links, the
identity provider (`door`) and the codes for when it is down; `call` is a request between its look
and its write. **`SignInThrottle`** (`auth/password.ts`): the three statements of `recordFailure`,
which others run between but whose written row is locked (`owner`). **`SharedReports`**
(`reports.ts`, `share.ts`, `download-token.ts`): links and tokens checked before a rendering
that takes seconds.

**`BenchmarkPool`** (`benchmark-feed.ts`, `benchmarks.ts`, `deals.ts`): feeds as a list of
statements still to do; a point carries whether its feed began before consent was withdrawn
(`late`). **`ReportRendering`** (`reports.ts`, `report-browser.ts`, `report-capacity.ts`): a job has a
`step`, a `context` and one `cleanup`; the deadline may pass at any of them. **`MapTiles`**
(`tiles.ts`, `staticmap.ts`): a cache in insertion order and its count of bytes.
**`ErrorLog`** (`errors.ts`): `capture` is a request folding its fault into the log and pruning it.

**`DevelopmentFigures`**, **`IncomeFigures`** and **`PortfolioFigures`**, which holds the cost report
too (`packages/appraisal-engine/src`), are operators, one for each function of the engine, over integers;
each ends with what a result must satisfy and the reference it is compared with. `MCFigures` asks
them a finite set of questions, a state being one question (`asked`), and `Figures` is the behaviours
that ask one and keep its answer.

**`MCRecords`** takes the data room and the eleven machines of a workspace's records, feeds and ways
in; **`MCValuation`** the seven a valuation passes through. The machines of one share no state: `part`
(or `desk`) says which one a behaviour is of, `x1` to `x11` (`y1` to `y14`) are its variables, and the
conjuncts of the properties are guarded by it. It is a way of checking them together, and of proving
about them in one module, and not a composition. **`MCWorkspace`** runs both at once, one of the two
idle: a behaviour of `MCSpec` is one of `RecordsSpec` and of `ValuationSpec`, which is what the
theorems are about.

`MC` modules hold model values, definitions a `.cfg` cannot write, and symmetries.

## Runs

| Run | Asks | Result |
|---|---|---|
| `appraisal_branches` | Can branches, restores, saves and reviews of up to three versions leave two current ones, lose a save, or take a step the history has not? | no |
| `appraisal_review` | Can two reviewers, a re-submission and edits announce an approval twice, take it back, or sign other inputs than those listed to the reviewer? | no; approved figures are changed by the two writes by id alone |
| `webhook_lease` | Can three passes, skewed clocks, crashes and passes that outlive their claims record one attempt twice or undo an outcome? | no |
| `webhook_settles` | Does a delivery whose endpoint can be signed for settle, though a process dies and another endpoint's secret ends every pass it meets? | yes, behind fewer older deliveries of that endpoint than passes start within a lease; behind as many, never (`NeverHeldForEver`) |
| `payment_settlement` | Can two requests of any kind write two receipts, make two intents, settle the uncharged or lose a charge? | no |
| `subscriptions` | Can checkouts leave two subscriptions billing, or a deletion erase an open customer, or a plan appear that nobody bought? | no |
| `engagement_signing` | Can requests sign twice, type over a signature, revive a link or replace unseen text? | no |
| `erasure` | Can drains, uploads and deletions that race, fail and die erase a live file, forget one, or never erase what is queued? | no |
| `figures` | Does a cost, a receipt or a loan get lost or counted twice in an appraisal, an income valuation, a cost report, a stack or a cohort? | no, over some 6000 appraisals, valuations, reports and portfolios |
| `field_work` | Can a photograph be lost between the shutter and the inspection that names it, or never go up? | no |
| `workspace` | Nineteen machines (`MCRecords`, `MCValuation`), a question or two of each; see below | they hold |
| `admin_removed` | Does one admin always survive? | **no** (`removeMember`) |

The properties of `workspace`:

| Property | Holds of | Says |
|---|---|---|
| `RoomSound` | `DataRoom` | following `supersededById` ends, whoever links and unlinks at once; a buyer is shown and signs only what was offered to an existing plot |
| `CostRecordSound` | `CostMonitoring` | a figure is what somebody entered or the ledger gave, field by field |
| `RegisterSound` | `InvestorRegister`, `SalesOffice` | money keeps its investor; a form keeps what was not typed, no deposit is recorded before it falls due |
| `FeedsSound` | `XeroConnection`, `BankFeed`, `SourceCache`, `DealListing` | the stored token is the one Xero honours, or its successor is on its way to the row or was lost, and no request is about to end the consent with it unless another process is saving the next; a booking counts once; nothing is told that no source published; a walk is whole |
| `EditorSound` | `AppraisalEditor`, `EvidenceGrid` | "Saved" is so, no edit goes without a word; a colleague's columns stay |
| `AcceptedIsRecorded` | `SourceReview` | the review recorded is of the very result somebody accepted |
| `FollowUpsSound` | `FollowUps` | one task a submission, of what was reviewed, in a status somebody asked for |
| `WithdrawalReachesAll` | `BenchmarkPool` | a withdrawal deletes every point of a feed that was not under way |
| `BoundsHold` | `ReportRendering`, `ErrorLog` | slots are given back once and never taken beyond their number; the log comes down to its bound |
| `CountsAddUp` | `MapTiles`, `ErrorLog` | the bytes held fit their bound; a row of the log counts what happened in its own workspace |
| `WaysInHold` | `WorkspaceAccess`, `SignInThrottle`, `SharedReports` | a code and a link work once, failures add up to a lock that stands, an opening is counted |

Deadlock is checked in `figures` alone, where nothing ever ends: every other module bounds
something (versions, stamps, deliveries, sessions, writes, faults), so that a behaviour really
ends when the bound is spent and everything has settled.

For every property of a passing run, `PROJECT.json` names a plausible bug in the code (a
condition that drops a column, a reset that is forgotten, a check that is trusted from
earlier) under which TLC finds the property violated. In the modules these are the operators
introduced by "as if".

## Bounds

| Run | Instance | Why it is enough |
|---|---|---|
| `appraisal_branches` | 2 requests, 3 versions, 1 schedule, 2 caps, 3 stamps | a race needs a reader and an overtaker; a lost update needs a third row to be current; the field allowance needs one edit between read and flip |
| `appraisal_review` | 2 requests, 1 version, 4 inputs, 4 stamps | submit, edit, decide and decide again is four stamps on one row |
| `webhook_lease` | 3 passes, 1 delivery, lease of 2 units, 2 attempts, one clock a unit ahead, one pass a unit late, one crash | two passes collide, a third takes over after both |
| `webhook_settles` | 1 process, 2 endpoints, 3 deliveries, batch of 2, lease of 2 units, which is 2 passes, 1 crash | one delivery stands behind one that ends the pass, and the third is in front, behind, or a second of either kind; with two in front the property's condition fails, and `NeverHeldForEver` shows that it has to |
| `payment_settlement` | 2 requests, 1 payment, 2 intents, 2 prices, 2 plot changes, 1 failure | the second intent would be the duplicate; both prices are seen by one page load |
| `subscriptions` | 2 requests, 2 sessions, one subscription made by hand, 1 plan, 1 change, 3 events | two sessions are two tabs; the third subscription is nobody's |
| `engagement_signing` | 2 requests, 2 names, 5 writes, 2 links | draft, issue, accept, sign, issue again |
| `erasure` | 2 workspaces sharing a url, 3 files (one whose url names none), 1 upload, 2 drains, 1 fault | two drains hold one file, the fault is anywhere between them |
| `figures` | amounts are multiples of one number that every division divides; builds of up to 4 months, up to 25 homes, 2 phases, 2 rent lines, holds of 3 years, 4 points of a cohort | windows that overlap, leave gaps or run past the programme; each way of funding and selling |
| `field_work` | 1 device, 1 desk, 1 photograph, 3 rows of it, 2 saves, 1 failure, 1 page closed | an answer is lost, the upload repeated, and the desk saves in between |
| `workspace` | 2 requests or people of each machine unless below | a race needs a reader and an overtaker |
| `admin_removed` | 2 requests, 2 addresses, 1 link, 1 code | each removes the other |

Of `workspace`: the data room has 2 documents and 2 plots (and no login once the last document
has come: revisions look at no login and signatures at no revision); the cost record 2 packages
and 1 contractor; Xero 2 processes, 2 consents and 3 refreshes; the bank 1 account, 2 bookings
and 2 rows; the register 1 deal, 2 lines and 2 holdings opened in turn; the editor 3 stamps and
3 inputs; the source review 1 document, 3 results and 2 revisions; access 2 addresses, 2 seats,
2 links and 1 code; the throttle 3 requests, a limit of 2 and 4 units of time; the pool 1 deal,
2 quarters and 3 points; rendering 3 jobs, 2 slots and 1 browser; the map cache 2 requests, 3
keys and 4 bytes; follow-ups 2 people, 2 requests in flight and 3 sent, 1 submission, 2 tasks
and 2 versions of the inspection; the grids 2 columns, 2 figures, 3 typed and 1 failed save; the
source cache 2 processes, 2 versions and 3 units of time; shared reports 1 link, 2 views and 2
days; the sales office 2 agents and 2 requests sent, with one status of each kind; the listing 4
identifiers, 2 stages and 1 move; the log of faults 2 workspaces, 2 faults, 3 requests, 2 rows
and 4 occurrences.

Symmetry is used over identities that no property orders (requests, versions, schedules,
endpoints, plots) and never in a run with a liveness property. `workspace` has symmetry over people
and units alone; `subscriptions`, whose module names the subscription made by hand, has none.

## Fairness

`AppraisalVersions`, `Subscriptions`, `EngagementTerms` and the machines of `workspace` state no
fairness: a person need not press anything and a request may die, and their properties are all
safety.

`WebhookDelivery!FairSpec` assumes that time passes and that a pass which can go on does. A unit
of time is an interval of the timer, fifteen seconds (`main.ts:152`): under `Prompt` it fires once
in each, which is one pass, started before the next firing, and a call of the database comes back
within the interval. A lease is four of these in the code and two in the instance: as many passes
start within it, and no more. A post is aborted after ten seconds, so that no pass outlives its
lease (`Timely`); the run for leases assumes neither. At most `MaxCrashes` processes die.

`Payments!FairSpec` assumes that a request in flight goes on (or dies: `Fail` is not fair and
bounded) and that Stripe redelivers an event until it is acknowledged, strongly fair because a
server that is busy each time does take it in the end.

`FileErasure!FairSpec` assumes that the minute timer starts passes that go on and that the
backoff passes. Uploads, people, failures and deaths are not fair; failures are bounded.

`FieldWork!FairSpec` assumes that the surveyor opens the app again, that its timers fire and that
an upload which is sent ends, well or not. Failures and closed pages are bounded and not fair;
neither is anything a person does at a desk.

## Proofs

TLAPS proves these for every value of the constants that satisfies the modules' assumptions,
that is for any number of requests, people, versions, passes, files and failures.

| Theorem | What it says |
|---|---|
| `AppraisalVersionsProofs!TypeCorrect`, `Invariant`, `HistoryInvariant` | the type invariant and the two inductive ones |
| `AppraisalVersionsProofs!OneCurrentVersion` | a deal with an appraisal has one current version |
| `AppraisalVersionsProofs!AnnouncedOnce`, `ApprovalStands`, `ApprovedIsLeftAlone` | an approval is announced once, with what was signed; it is never taken back; only the two writes by id touch its figures |
| `AppraisalVersionsProofs!ApprovalsSignWhatWasListed`, `SavesLoseNothing` | what is signed is what the version held when it was listed to the reviewer; no save replaces what its author had not seen |
| `AppraisalVersionsProofs!HistoryImplemented` | every behaviour is one of `VersionHistory` |
| `WebhookDeliveryProofs!ClaimsAreALeaseApart`, `OneRecords` | passes that hold one attempt claimed it a lease apart; one of them can record |
| `SubscriptionsProofs!TypeCorrect`, `Invariant`, `OneSubscriptionBills`, `ErasureEndsBilling`, `PaidFeaturesAreBought` | everything the run checks |
| `EngagementTermsProofs!Typed`, `SignedOnce`, `SignatureOutlivesAccept`, `DeadLinks`, `SavesWhatItSaw` | everything the run checks |
| `FileErasureProofs!Typed`, `RowsKeepTheirFiles`, `RowsHaveOwners`, `FilesAccounted` | everything the run checks but the liveness |
| `RecordsProofs!TypeCorrect`, `RoomStands` | the types of the data room; `RoomSound` |
| `RecordsProofs!CostRecordStands`, `RegisterStands`, `FollowUpsHoldUp` | `CostRecordSound`, `RegisterSound`, `FollowUpsSound` |
| `RecordsProofs!FeedsStand`, `WaysInAreHeld` | `FeedsSound`, `WaysInHold` |
| `ValuationProofs!TypeCorrect`, `Invariant`, `PhotographsKept`, `RoomsAreReal` | of `FieldWork`: everything the run checks but the liveness |
| `ValuationProofs!WithdrawalHolds`, `ReviewsWereAccepted`, `BoundsAreKept`, `EditorTells` | `WithdrawalReachesAll`, `AcceptedIsRecorded`, `BoundsHold`, `EditorSound` |
| `ValuationProofs!WhatIsAddedUp` | `CountsAddUp` |
| `MoneyProofs!SettlesOnce`, `SettlesTheCharged`, `OneIntent`, `SettledStays` | one receipt, nothing settled uncharged, one intent, nothing unpaid again |
| `ValuationProofs!FacilityCovered`, `CostsPlaced`, `CashPagesAgree` | for any appraisal, the months hold its construction cost whole; the balance of its facility stays between nothing and its peak and is repaid as far as the receipts reach; its cash pages end where its profit does |
| `MoneyProofs!WaterfallWhole`, `StackFunds`, `SampleWhole` | for any joint venture, stack or simulation, all the profit is handed out, the tranches fund the scheme, and every run is counted |
| `MoneyProofs!CostsAdd`, `BudgetsAdd`, `CashSplits`, `DrawdownOrdered`, `CovenantsMonotone` | for any scheme on site, the retentions of its contractors add up to the job's, the budgets to the build cost, cash and ledger differ as what is paid and invoiced does, spend moves one way, and a covenant that passes keeps passing |
| `MoneyProofs!OwnPointsUnseen`, `PoolPrivate` | for any pool and floors, a firm's own points move nothing it is shown, and what it is shown is in order and rests on enough others |
| `MoneyProofs!BookAdds`, `StagesAdd`, `RollUpsAdd`, `ReturnsBetween`, `PeriodsAdd`, `DifferencesMirror` | for any book, units, rent rolls, holdings, ledger and two versions, groups add back, exchanging adds one sale, rolls add up, a return is between the worst and the best, periods add up, and differences are the same read backwards |
| `MoneyProofs!ReportsAgree` | `PortfolioReports`: the theorems above, of the questions of the run |

Each rests on an inductive invariant `IInv`, stronger than the property, whose extra conjuncts
are the argument:

- *Appraisals.* A flip is conditional on `isCurrent`, and a request that will flip holds a row
  that exists (`SeenSane`, `Prepared`); so the one current row is replaced by one current row.
  `OneCurrent` alone is not inductive: it says nothing of what requests have read. What is signed
  and what a save replaces need more (`HInv`): what a request or a screen was told is what the
  row said under that stamp (`RequestTold`, `ScreenTold`, which holds what was `listed` too),
  which is true because every write advances the stamp of the row it finds, whatever the clock
  does (`Dated`).
- *Refinement.* A step of the code adds a version, rewrites the row its request holds, or leaves the
  table (`Added`, `Rewritten`, `Quiet`); each of the three is a step of the history or a stutter.
- *Webhooks.* A pass between claim and outcome holds a row whose `due` is its own token or was
  moved later by somebody (`Holds`); two holders of one attempt are therefore ordered by their
  leases, and the outcome's condition on `nextAttemptAt` picks the last.
- *Payments.* A receipt is unwritten, in the hands of the one request that won the
  compare-and-set, or written (`ReceiptOnce`); an intent a payment names is that payment's
  (`Owned`); a request that goes to settle has seen the charge (`Charged`).
- *Subscriptions.* Nothing at Stripe is undone: a session that is shut stays shut, a subscription
  that is over stays over (`Forward`); so what a request learned of either is still so when it acts,
  however old (`RequestOK`), and a session that is made when all others are shut or over is the
  only one that can bill.
- *Terms.* The status, the signature and the token move together (`RowInv`); a signature on the
  trail is of a period that is over or signed (`TrailInv`), and a request that has still to
  record one owns its period (`PendingInv`).
- *Files.* Names are never repeated, so a file has one holder at a time: an upload, rows, or the
  outbox and its drains (`HandInv`); once no row holds a file, none ever will again, which is why
  counting the references before the unlink is enough (`DrainInv`).
- *Data room.* Every link, and every link a request is about to make, runs forward in upload order
  (`Forward`); the last document of a set, which a finite set has by well-founded induction over
  the numbers, therefore leads outside it (`LastOfSome`). What a plot is shown it was offered
  (`OfferedNow`), and a request that is about to stamp was let through for it (`LetThrough`).
- *Cost record, register.* Of any requests, a row is as its figures were entered; of requests in
  turn, what one has read is still so when it writes (`ReadsStand`, under `OneAtATime`), which
  is all that the looks and writes apart rely on.
- *Sales office.* A form carries a stamp from another answer than the list it was filled from; it
  is harmless as long as a list that has the stamp of the record has the record (`ListsHold`) and
  a form whose stamp is the record's says what the record says but for what was typed (`Tells`).
- *Follow-ups.* A task is told by its identifier and by its submission (`NamesTell`: the unique key
  of the request id), and whoever toggles had asked for that (`ScreensHold`, `CallsHold`).
- *Xero.* A consent is redeemed once (`SpentOnce`), so the pairs under a grant have one line of descent;
  the stored pair is the newest of it, or its successor is in the hands of the one request that is
  about to store it (`WriterIsLast`, `TokenLives`). A process knows the refresh it has under way
  (`OneInFlight`), so that whoever is about to present the stored pair while its successor is being
  stored is in another. `lost` and `dead` are part of it: an answer that does not arrive, a write that
  fails and a retired token that comes back each end the line, in the code too.
- *Bank, sources, listing.* A line is of a booking nobody else has and says what people said
  (`LinesTell`); whatever is held of a source, it had published by the date it is held under
  (`AllPublished`, which `version` and `since` record); and what a walk has given is beyond its
  cursor, no deal twice, while what is beyond the cursor and stayed was given (`GivenBeyond`). A page
  is `Highest` of what is below the cursor: that it misses nothing above its lowest deal is a lemma
  on cardinalities of finite sets (`ListingHighest`, `ListingEnds`).
- *Ways in.* A code or a link that is still held has done nothing yet, and a link is of one account
  and for one thing (`CodesUnspent`, `LinksUnspent`); what has left by a link and what is about to
  was counted (`ViewsCover`, with the cardinality of the set of requests that send); and the row of
  the throttle counts the failures, and is locked when nobody is between its writes (`RowTells`,
  `OwnerWrites`). `Tells` is an action property: it follows step by step from that invariant.
- *Editor.* What was written under a stamp stays so, and stamps only grow (`EditorGrew`); the server,
  the query and an answer each know of a stamp what was written under it (`Known`), and a request
  was sent with what the editor held then, which is how an answer tells what was typed since
  (`RequestHolds`). An allowance is put beside the query's inputs, and they are the editor's because
  it is not dirty and the query is of its version.
- *Grid.* Nobody has on a screen or under way a column in which they typed nothing (`OwnColumns`);
  while evidence is applied its own save is the only one under way, and once that is written the row
  is as it was sent but for what a colleague wrote since (`FlushHolds`).
- *Photographs.* What an inspection, a save or a screen names the server made (`RoomsReal`), a
  row that is known was uploaded (`UploadsReal`), and a record leaves the queue only when it is
  named (`NamedFirst`).
- *Pool, review, renders, log.* Whoever may still write without consent began before its withdrawal
  (`WritersAreLate`); what counts as accepted is the result that was ticked (`PageAgrees`); the
  counters are the slots held (`SlotsCounted`); and of captures that count and delete at once, one
  that has counted last will leave no more than the bound, whichever others fail (`ComesDown`).
- *What is added up.* What the rows of a workspace tell of a fault and what captures under way have
  still to count together have occurred (`CountsInv`: `Told` alone is not inductive); a tile put is
  counted before others are let go, so that the count is never below what is held and its bound is
  a bound on that (`MapTiles!IInv`). A sum is a recursive function, and what it does one step at a
  time is carried to any length by the least number it would fail at, which the well-founded order
  of the numbers gives without an induction theorem.
- *The engine.* Its sums fold an operator over a set, with an element chosen at each step. There is
  such a fold for every finite set of numbers, it may take the elements in any order, and over
  months 1 to n it is the running sum (`FoldThere` to `SumIs`), so that two pages agree when they
  move alike from each month to the next (`Matched`). A facility bears its balance month by month; a
  waterfall's tiers are parts of what is left; a period is the difference of the running sums at its
  ends. The months hold the construction cost (`CostsPlaced`) because the window of each bill is
  brought inside the programme before it is spread, a profile hands out the whole of its bill over
  its window and nothing outside, the sum of a table by months is its sum by bills, and the
  area in no phase is a line beside the phases. Amounts are integers, so that what is exact only
  where a percentage divides has that as a hypothesis: in `CostsDivide` and `Divides` that the inputs
  are typed and that the percentages and profiles divide their amounts, and never that a sum is kept;
  `Funds` and the remainder in `WaterfallWhole` likewise. Every question of `MCFigures` meets them;
  a facility, budgets, histograms, spend and covenants need none.
- *Reports.* A list filtered one item after another is the list read through the places that pass
  (`Fetch`), so that two filters that pass the same items give one list, and what it adds up to is the
  whole list with nothing in the other places (`KeptTally`). Every figure of a report is such a tally
  (`Tally`): it changes by one item when one item does, two lists add up apart, and grouped by a tag it
  adds back, as each item is in the group of its tag (`Regrouped`). A cohort can be put in order, least
  value first (`Sortable`), so that the list the quantiles read is one and theirs are the percentiles of
  it. `ReportsAgree` puts them together: a question of the run is of the shape its theorem is about
  (`SitesFit`, `BooksFit`, `PoolAsked`, `PairAsked`).

The type invariants, `MoneyProofs!SettlesTheCharged` (what is settled was charged),
`FileErasureProofs!RowsHaveOwners` (a row's workspace exists) and `ValuationProofs!RoomsAreReal` are
proved and not run on their own.

Only model-checked:

- of `AppraisalFigures`: that receipts are placed in months without loss, and what a grid of
  sensitivities says of itself, a comparison of whole appraisals; its other parts are theorems;
- `ValuationsAgree`: the valuations of let space, whose compounded percentages are exact at the yields
  of the instance and not in general;
- `EverySignableSettles`, `ChargeReachesLedger`, `QueuedIsErased` and `PhotographArrives`: liveness
  under fairness, which the prover does not reach.

## Where the code and its comments disagree

One run shows a disagreement between the code and what the repository says of it, and is a finding
in `PROJECT.json` with the line it contradicts: `removeMember` and `setRole` look at the caller and
not at who is left, so that two administrators who remove or demote each other at once leave a
workspace without one, where `routers/org.ts:709` says that one always survives.

The modules state others at their end, under a heading or a comment that says they are refuted; TLC
refutes each in the same instances, and none is kept as a run.

| Module | Refuted |
|---|---|
| `AppraisalVersions` | `ApprovedImmutable` (`applyToAppraisal` and `draftNarrative` write approved figures by id), `DraftHasNoPin` (restore keeps `approvalPin`), `ReviewerShownWhatIsSigned` (apply leaves the cached headline under review), `CardShowsCurrent` (the deal card is synced after the transaction) |
| `WebhookDelivery` | `NeverHeldForEver` (as many older deliveries of an endpoint whose secret does not open as passes start within a lease: each ends the pass that claims it, outside its `try`, and is due again as the next goes in), `ParkedAfterRun` (decided on a count read earlier), `ParkedNotClaimed` (what was queued before the parking is still posted), `QueuedForAll` (a deleted endpoint fails the insert for all) |
| `Payments` | `MoneyIsNotDeleted` (`deleteUnit`), `ReceiptNotRewritten` and `StatedIsCharged` (a price that moved while an intent or a page load was open), `OneChargePerDeposit` (two first page loads), `FreshIntent` (a cancelled intent under the same idempotency key) |
| `Subscriptions` | `MirrorIsCurrent` (reconciliations that overtake each other), `ErasedIsNotBilled` (a checkout in flight while the workspace is deleted) |
| `EngagementTerms` | `OneAcceptance`, `AcceptedNotEdited`, `AcceptedWasIssued` (writes that overtake a signature) |
| `DataRoom` | `SignedByItsBuyer` (the stamp stays when a document is offered to another plot), `LoginsOpenSomething` |
| `CostMonitoring`, `InvestorRegister` | `OnePlan`, `RecordStands`, `PositionStands`, `LoginHasInvestor` (a look and a write apart; the first two hold of requests in turn) |
| `XeroConnection`, `BankFeed` | `RefreshIsShared` (a request that read the row during a refresh and looks once it is over presents the retired token; a second process may at any time), `OnlyConsentReplaces` (a refresh saves over a new consent), `DisconnectEndsFeed` (accounts refer to the connection and restrict its deletion) |
| `FieldWork` | `NamedPhotosHeld`, `NamedStays`, `OneRowEach` (a photograph removed once named; another save wins; an upload repeated) |
| `AppraisalEditor`, `SourceReview` | `ClaimsFollowEditor`, `OpensOnAccepted`, `RecordedIsCurrent` |
| `EvidenceGrid`, `FollowUps` | `LastTypedStays`, `OnlyMoved` (an overlay cleared by the wrong answer, or never), `AnsweredWithOriginal`, `EditorsAreOfTasks` |
| `SalesOffice` | `FormIsAsStamped`, `StageKept`, `NoDebtDeleted`, `AgreedStands`, `ReservationStands` (a form of the list under the stamp of an answer; writes of what was read) |
| `WorkspaceAccess` | `NoCodeWithoutDoor`, `EnforcedWasProven` (a save that is minting, or had seen the door proven, while it is taken away), `SeatsHold` (counted before the insert) |
| `SharedReports` | `WithdrawnOpensNothing`, `TokensEndWithSessions` (checked before the rendering), `WithdrawnOnce` |
| `BenchmarkPool` | `WithdrawnIsGone`, `OnePerQuarter`, `OutturnOfComplete` (a feed outside a transaction) |
| `ReportRendering`, `MapTiles` | `SlotsComeBack` (a clean-up that failed for good), `CountIsExact` (an image put over itself) |
| `SourceCache`, `DealListing` | `CoolingIsOutage`, `NewerStays`, `PrunedUnread`; `GivenFits`, `RevokedShowsNothing` |
| `ErrorLog` | `OneRowEach`, `OldestGoes`, `StaysFull` (captures that find, count and delete the same rows) |
| `MCFigures` | `IdenticalVersions` (the area of a unit is never compared), `MethodsReconcile` (a review to come is passed for all the years to it in one and stepped up in its own year in the other), `ReceiptsArrive` (units that sell after the 24th month) |

Hazards met and left out of the forty of `PROJECT.json`, because a property above refutes them
or none covers them: the deal card synced after the transaction, parking on a stale count, an
endpoint deleted before the insert for all, deposit rows made twice, an intent of an older
price, the deletion of a plot with money on it, overlapping reconciliations, a customer saved
while a workspace is deleted, the write of `sign` that looks at no token, the bytes of removed
photographs, the 24 months of a pool's points, an
upload that outlives its workspace, the inputs a field allowance is merged into, and a tile
whose bytes are counted twice.

## Assumptions

- A statement of the database is atomic, a `$transaction` with a conditional write or a row
  lock is one step, and a serialisation failure is a refusal (the code retries the first save).
- Two unconditional writes of one row do not share a millisecond. `optimistic.ts` accepts that
  window in so many words; conditional writes do not need the assumption.
- One deal, one plot, one workspace's subscription, one set of terms, one investor: rows of
  different owners meet only on the disk, which `FileErasure` models with two workspaces, and in the webhook
  queue, which has several endpoints.
- Stripe: an idempotency key answers its first result, an event is resent until acknowledged,
  a customer that is deleted is not billed, a list contains what was created before it.
- A `randomUUID` and a token are never repeated.
- Of the constants the theorems assume what the code has: bounds and limits are natural numbers;
  what stands for nothing (`Nobody`, `None`) is no plot, device, version or subscription; a device is
  not a desk, a subscription made by hand is none of a checkout's, the trial is not a plan that is
  paid for, and the requests that capture faults are finitely many. `RecordsAssumption` adds for the
  ways in and the feeds that times, codes, grants and deals are counted, that a lock takes at least
  one failure, that a page holds at least one deal and that there is a first link and a first
  version of a source; `ValuationAssumption`, for the editor and the grid, that stamps and inputs are
  counted, that no figure is 0, which stands for none, that nobody is called `"nobody"`, and that the
  sizes of tiles and the bound of their cache are counted in bytes; `FiguresAssumption`, that a cohort
  needs at least one point and that what is withheld is neither a number nor a list of quantiles.

## What is not modelled

Cryptography, address checks, formatting, page layout, the wording of documents, prompts and audit
rows, e-mail; floating-point error and irrational powers in the engine (golden fixtures cover them;
TLC has no floats). Secrets and outbound calls, the MCP server, types, tokens, seeds, migrations
and infrastructure keep no state that two steps can disagree about. Reads that only report
(`list`, `get`, exports) appear only where a screen's copy is used later, and procedures that patch
the free text of one row, owner-checked, are left out where a modelled one has the same form.

By lines, the map covers about a seventh of the implementation. More than half of the
implementation is what a screen looks like, what a report is laid out as, seeds and pages of prose,
and has nothing a definition could translate; what remains outside the map with a state of its
own is the list under [Plan](#plan).
