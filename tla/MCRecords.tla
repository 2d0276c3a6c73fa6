------------------------------ MODULE MCRecords ------------------------------
(***************************************************************************)
(* The records a workspace keeps, its feeds and the ways into it: the data  *)
(* room, extended, and the modules below.  They share no state, so each is  *)
(* taken on its own: part says which, and the variables of all but the data *)
(* room live in the same places.                                            *)
(***************************************************************************)
EXTENDS DataRoom, Sequences

CONSTANTS
    Server, Package, Contractor, Account, Booking, Line, Deal, NoDeal, User, Founder,
    Attempt, ShareLink, Chosen

\* The bounds of the modules, and the limits they take from the code, each by its own name but where two
\* modules share one.
CONSTANTS
    MaxBills, MaxWeeks,                              \* CostMonitoring
    MaxGrant, MaxRefresh,                            \* XeroConnection
    MaxOpened,                                       \* InvestorRegister
    MaxMembers, MaxLink, MaxCode,                    \* WorkspaceAccess
    MAX_FAILURES, LOCK, MaxLocked,                   \* SignInThrottle
    MaxSubmission, MaxTask, MaxSave, MaxSent,        \* FollowUps
    SourceTTL, COOLOFF_MS, Retention, MaxFetched, MaxVersion,   \* SourceCache
    Days, LinkTTL, MaxViews, MaxShown,               \* SharedReports
    MaxSold,                                         \* SalesOffice
    MaxId, MAX_LIMIT, DEFAULT_LIMIT, MaxMoved        \* DealListing

\* What counts or times can be counted, deals and links are numbered from 1, and the values that stand for nobody and
\* nothing are nobody's.
ASSUME RecordsAssumption ==
    /\ MaxGrant \in Nat /\ LOCK \in Nat /\ Days \in Nat /\ MaxCode \in Nat /\ MaxId \in Nat /\ DEFAULT_LIMIT \in Nat
    /\ MAX_FAILURES \in Nat \ {0} /\ MaxLink \in Nat \ {0} /\ MaxVersion \in Nat \ {0} /\ MAX_LIMIT \in Nat \ {0}
    /\ "nobody" \notin Attempt /\ "none" \notin Booking /\ 0 \notin ShareLink
    /\ NoDeal \notin 1..MaxId /\ NoDeal \notin Unit

VARIABLES part, x1, x2, x3, x4, x5, x6, x7, x8, x9, x10, x11

Cost == INSTANCE CostMonitoring WITH
    pkg <- x1, firm <- x2, photo <- x3, ledger <- x4, linked <- x5, call <- x6, entered <- x7,
    overlapped <- x8, logged <- x9, dropped <- x10

Xero == INSTANCE XeroConnection WITH
    Process <- Server,
    conn <- x1, live <- x2, states <- x3, used <- x4, inFlight <- x5, call <- x6, lost <- x7,
    dead <- x8

Bank == INSTANCE BankFeed WITH
    OnAccount <- [b \in Booking |-> CHOOSE a \in Account : TRUE],
    conn <- x1, acct <- x2, tx <- x3, call <- x4, said <- x5, mapped <- x6, refused <- x7

Register == INSTANCE InvestorRegister WITH
    inv <- x1, holding <- x2, opened <- x3, line <- x4, login <- x5, call <- x6, typed <- x7,
    overlapped <- x8, dropped <- x9

Access == INSTANCE WorkspaceAccess WITH
    user <- x1, signedIn <- x2, links <- x3, door <- x4, codes <- x5, unused <- x6, trials <- x7,
    opened <- x8, followed <- x9, call <- x10

Throttle == INSTANCE SignInThrottle WITH
    Process <- Attempt, MaxNow <- MaxLocked,
    now <- x1, row <- x2, owner <- x3, call <- x4, failed <- x5

FollowUps == INSTANCE FollowUps WITH
    Person <- Client, Call <- Unit, NoCall <- NoDeal,
    inspection <- x1, tasks <- x2, made <- x3, listed <- x4, form <- x5, status <- x6, waits <- x7,
    sent <- x8, call <- x9, shown <- x10, past <- x11

Sources == INSTANCE SourceCache WITH
    Server <- Unit, Reader <- Client, TTL <- SourceTTL, MaxNow <- MaxFetched,
    now <- x1, source <- x2, version <- x3, since <- x4, row <- x5, coolingOff <- x6, refreshing <- x7, reader <- x8

Shares == INSTANCE SharedReports WITH
    Link <- ShareLink, Request <- Client, TTL <- LinkTTL, MaxNow <- MaxShown,
    now <- x1, share <- x2, member <- x3, validFrom <- x4, token <- x5, request <- x6, panel <- x7, opens <- x8,
    withdrawn <- x9

Sales == INSTANCE SalesOffice WITH
    Agent <- Client, NoRecord <- NoDeal, MaxSent <- MaxSold,
    kind <- x1, row <- x2, stamp <- x3, list <- x4, held <- x5, call <- x6, sent <- x7

Listing == INSTANCE DealListing WITH
    Stage <- Unit, Absent <- NoDeal, Key <- Account,
    deals <- x1, moved <- x2, keys <- x3, plan <- x4, walk <- x5, steady <- x6, request <- x7

-----------------------------------------------------------------------------
\* The places a machine leaves empty.
From11 == x11 = 0
From10 == x10 = 0 /\ From11
From9 == x9 = 0 /\ From10
From8 == x8 = 0 /\ From9
From7 == x7 = 0 /\ From8
From6 == x6 = 0 /\ From7
From5 == x5 = 0 /\ From6
From1 == x1 = 0 /\ x2 = 0 /\ x3 = 0 /\ x4 = 0 /\ From5

RecordsIdle == Init /\ part = "none" /\ From1

RecordsInit ==
    /\ Init
    /\ \/ part = "Room" /\ From1
       \/ part = "Cost" /\ Cost!Init /\ From11
       \/ part = "Xero" /\ Xero!Init /\ From9
       \/ part = "Bank" /\ Bank!Init /\ From8
       \/ part = "Register" /\ Register!Init /\ From10
       \/ part = "Access" /\ Access!Init /\ From11
       \/ part = "Throttle" /\ Throttle!Init /\ From6
       \/ part = "FollowUps" /\ FollowUps!Init
       \/ part = "Sources" /\ Sources!Init /\ From9
       \/ part = "Shares" /\ Shares!Init /\ From10
       \/ part = "Sales" /\ Sales!Init /\ From8
       \/ part = "Listing" /\ Listing!Init /\ From8

slots == <<x1, x2, x3, x4, x5, x6, x7, x8, x9, x10, x11>>

\* Once the last document has come, no plot has a login: revisions look at no login and signing
\* at no revision, so every step of either is taken.
RoomStep == Next /\ (count' = MaxDoc => login' = {})

RecordsNext ==
    \/ part = "Room" /\ RoomStep /\ UNCHANGED <<part, slots>>
    \/ part = "Cost" /\ Cost!Next /\ UNCHANGED <<part, vars, x11>>
    \/ part = "Xero" /\ Xero!Next /\ UNCHANGED <<part, vars, x9, x10, x11>>
    \/ part = "Bank" /\ Bank!Next /\ UNCHANGED <<part, vars, x8, x9, x10, x11>>
    \/ part = "Register" /\ Register!Next /\ UNCHANGED <<part, vars, x10, x11>>
    \/ part = "Access" /\ Access!Next /\ UNCHANGED <<part, vars, x11>>
    \/ part = "Throttle" /\ Throttle!Next /\ UNCHANGED <<part, vars, x6, x7, x8, x9, x10, x11>>
    \/ part = "FollowUps" /\ FollowUps!Next /\ UNCHANGED <<part, vars>>
    \/ part = "Sources" /\ Sources!Next /\ UNCHANGED <<part, vars, x9, x10, x11>>
    \/ part = "Shares" /\ Shares!Next /\ UNCHANGED <<part, vars, x10, x11>>
    \/ part = "Sales" /\ Sales!Next /\ UNCHANGED <<part, vars, x8, x9, x10, x11>>
    \/ part = "Listing" /\ Listing!Next /\ UNCHANGED <<part, vars, x8, x9, x10, x11>>

records == <<part, vars, slots>>
RecordsSpec == (RecordsInit \/ RecordsIdle) /\ [][RecordsNext]_records

-----------------------------------------------------------------------------
(* Properties: what each module says of its machine.                         *)

\* Revisions of documents do not go round, and what a buyer is shown and signs was offered (DataRoom).
RoomSound == RevisionsEnd /\ OffersAreReal

\* Cost packages, contractors and weeks through edits of several people and Xero (CostMonitoring).
CostRecordSound == part = "Cost" => Cost!CostRecordSound

\* Holdings and cash flows of investors, likewise, and the plots and tenancies in the drawers of a sales office
\* (InvestorRegister, SalesOffice).
RegisterSound == (part = "Register" => Register!RegisterSound) /\ (part = "Sales" => Sales!SalesSound)

\* The feeds from outside: the stored token of a Xero consent stays usable until an answer or a write of it is lost or
\* a retired token is presented, a bank's booking is counted once, what a public source is said to have found it has
\* published, and an integrator who pages to the end of the deals has seen them all (XeroConnection, BankFeed,
\* SourceCache, DealListing).
FeedsSound ==
    /\ part = "Xero" => Xero!StoredTokenLives
    /\ part = "Bank" => Bank!CountedOnce
    /\ part = "Sources" => Sources!SourcesTold
    /\ part = "Listing" => Listing!WalkIsWhole

\* One task of each submission, of what its author reviewed, in the status somebody asked for (FollowUps).
FollowUpsSound == part = "FollowUps" => FollowUps!FollowUpsSound

\* Ways in: codes and links are used once, what a link to a report showed is counted, and failed sign-ins add
\* up to a lock that stands (WorkspaceAccess, SharedReports, SignInThrottle).
WaysInHold ==
    /\ [](part = "Access" => Access!UsedOnce)
    /\ [](part = "Shares" => Shares!OpensAreCounted)
    /\ [][part = "Throttle" => Throttle!Tells]_slots
=============================================================================
