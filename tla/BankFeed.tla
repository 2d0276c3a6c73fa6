------------------------------ MODULE BankFeed ------------------------------
(***************************************************************************)
(* The bank feed of a workspace (open-banking.ts and bankRouter of         *)
(* routers/ops.ts): a consent of ninety days, a pair of tokens, the        *)
(* accounts it opens, and the transactions imported from them, which people *)
(* classify.  The provider repeats a window of transactions on every sync. *)
(***************************************************************************)
EXTENDS Integers, FiniteSets

CONSTANTS
    Client,      \* requests in flight
    Account,     \* accounts of the customer at the bank
    Booking,     \* transactions the bank has booked, each on an account
    OnAccount,   \* the account of each booking
    Line         \* ids of transaction rows

VARIABLES
    conn,        \* the BankConnection row: "none", "live" or "lapsed" once its consent ran out
    acct,        \* the deal each account row funds: "absent", "unmapped" or "mapped"
    tx,          \* transaction rows: the booking and what it was classified as
    call,        \* the locals of each request
    said,        \* what people said each booking is
    mapped,      \* the accounts an administrator mapped to a deal
    refused      \* a disconnect that ended in an error

vars == <<conn, acct, tx, call, said, mapped, refused>>

Classes == {"drawdown", "equity"}
NoLine == [of |-> "none", class |-> "unclassified"]
Idle == [at |-> "idle", line |-> CHOOSE l \in Line : TRUE, todo |-> {}, of |-> "none"]

Init ==
    /\ conn = "none"
    /\ acct = [a \in Account |-> "absent"]
    /\ tx = [l \in Line |-> NoLine]
    /\ call = [c \in Client |-> Idle]
    /\ said = [b \in Booking |-> "unclassified"]
    /\ mapped = {} /\ refused = FALSE

Rest(c) == call' = [call EXCEPT ![c] = Idle]
Go(c, locals) == call[c] = Idle /\ call' = [call EXCEPT ![c] = locals]
Opened == {a \in Account : acct[a] # "absent"}

-----------------------------------------------------------------------------
(* The connection and its accounts                                          *)

\* complete: the row is made or renewed, its consent clock with it; then account by account.
complete(c) ==
    /\ Go(c, [Idle EXCEPT !.at = "accounts", !.todo = Account])
    /\ conn' = "live"
    /\ UNCHANGED <<acct, tx, said, mapped, refused>>

\* As if an upsert started the account afresh.
Afresh(a) == "unmapped"

\* An account the workspace has keeps the deal it is mapped to.
Upserted(a) == IF acct[a] = "absent" THEN "unmapped" ELSE acct[a]

AddAccount(c) ==
    /\ call[c].at = "accounts"
    /\ \E a \in call[c].todo :
         /\ acct' = [acct EXCEPT ![a] = IF conn = "none" THEN @ ELSE Upserted(a)]
         /\ call' = [call EXCEPT ![c] = IF @.todo = {a} \/ conn = "none" THEN Idle
                                              ELSE [call[c] EXCEPT !.todo = @ \ {a}]]
    /\ UNCHANGED <<conn, tx, said, mapped, refused>>

mapAccount(a, deal) ==
    /\ a \in Opened
    /\ acct' = [acct EXCEPT ![a] = deal]
    /\ mapped' = IF deal = "mapped" THEN mapped \cup {a} ELSE mapped \ {a}
    /\ UNCHANGED <<conn, tx, call, said, refused>>

Lapse ==
    /\ conn = "live" /\ conn' = "lapsed"
    /\ UNCHANGED <<acct, tx, call, said, mapped, refused>>

\* disconnect deletes the connection; accounts refer to it, and the reference restricts.
MayDelete == Opened = {}

disconnect ==
    /\ conn # "none"
    /\ conn' = IF MayDelete THEN "none" ELSE conn
    /\ refused' = ~MayDelete
    /\ UNCHANGED <<acct, tx, call, said, mapped>>

-----------------------------------------------------------------------------
(* Transactions                                                             *)

Imported(b) == \E l \in Line : tx[l].of = b

\* syncBank goes by the accounts it read, once the consent is found good and a token had.
StartSync(c) ==
    /\ conn = "live" /\ Opened # {}
    /\ Go(c, [Idle EXCEPT !.at = "sync", !.todo = {b \in Booking : OnAccount[b] \in Opened}])
    /\ UNCHANGED <<conn, acct, tx, said, mapped, refused>>

\* Each booking is looked up by the provider's id, and skipped when it is held;
Look(c) ==
    /\ call[c].at = "sync"
    /\ IF call[c].todo = {} THEN Rest(c)
       ELSE \E b \in call[c].todo :
              call' = [call EXCEPT ![c].todo = @ \ {b}, ![c].of = b, ![c].at = IF Imported(b) THEN "sync" ELSE "create"]
    /\ UNCHANGED <<conn, acct, tx, said, mapped, refused>>

\* As if no key stopped a create.
Unkeyed(b) == b = "none"

\* a row for it breaks the unique key if another sync has made one, and ends this sync.
Held(b) == Imported(b)

syncBank(c) ==
    /\ call[c].at = "create"
    /\ IF Held(call[c].of) THEN Rest(c) /\ UNCHANGED tx
       ELSE /\ \E l \in {l \in Line : tx[l] = NoLine} : tx' = [tx EXCEPT ![l].of = call[c].of]
            /\ call' = [call EXCEPT ![c].at = "sync"]
    /\ UNCHANGED <<conn, acct, said, mapped, refused>>

\* classify reads the line it owns, and writes what it is by its id.
classify(c) ==
    \/ /\ \E l \in Line : tx[l] # NoLine /\ Go(c, [Idle EXCEPT !.at = "classify", !.line = l])
       /\ UNCHANGED <<conn, acct, tx, said, mapped, refused>>
    \/ /\ call[c].at = "classify"
       /\ \E k \in Classes :
            /\ tx' = [tx EXCEPT ![call[c].line].class = k]
            /\ said' = [said EXCEPT ![tx[call[c].line].of] = k]
       /\ Rest(c) /\ UNCHANGED <<conn, acct, mapped, refused>>

Next ==
    \/ \E c \in Client : complete(c) \/ AddAccount(c) \/ StartSync(c) \/ Look(c) \/ syncBank(c) \/ classify(c)
    \/ \E a \in Account, d \in {"mapped", "unmapped"} : mapAccount(a, d)
    \/ Lapse \/ disconnect

Spec == Init /\ [][Next]_vars

-----------------------------------------------------------------------------
(* Properties                                                               *)

\* However syncs overlap, fail half way and repeat their window, a booking is counted once and
\* under what people said it is; and connecting anew loses no account's deal.
CountedOnce ==
    /\ \A b \in Booking : Cardinality({l \in Line : tx[l].of = b}) <= 1
    /\ \A l \in Line : tx[l] # NoLine => tx[l].class = said[tx[l].of]
    /\ \A a \in Opened : acct[a] = "mapped" <=> a \in mapped

-----------------------------------------------------------------------------
(* The inductive invariant.                                                 *)

Class == Classes \cup {"unclassified"}
TypeOK ==
    /\ acct \in [Account -> {"absent", "unmapped", "mapped"}] /\ mapped \subseteq Account
    /\ tx \in [Line -> [of : Booking \cup {"none"}, class : Class]] /\ said \in [Booking -> Class]
    /\ call \in [Client -> [at : {"idle", "accounts", "sync", "create", "classify"}, line : Line \cup {Idle.line},
                            todo : SUBSET (Account \cup Booking), of : Booking \cup {"none"}]]

\* A line is of a booking, of which there is no other, and says of it what people said; of one that has none nothing
\* was said.
LinesTell ==
    /\ \A l \in Line : tx[l].of = "none" => tx[l] = NoLine
    /\ \A l, m \in Line : tx[l].of # "none" /\ tx[l].of = tx[m].of => l = m
    /\ \A l \in Line : tx[l].of # "none" => tx[l].class = said[tx[l].of]
    /\ \A b \in Booking : ~Imported(b) => said[b] = "unclassified"

\* What a request is about to write is of a booking, or of a line that is there.
CallsHold == \A c \in Client :
    /\ call[c].at = "accounts" => call[c].todo \subseteq Account
    /\ call[c].at \in {"sync", "create"} => call[c].todo \subseteq Booking
    /\ call[c].at = "create" => call[c].of \in Booking
    /\ call[c].at = "classify" => call[c].line \in Line /\ tx[call[c].line].of # "none"

\* An account that was ever given a deal has one.
DealsStay == \A a \in Account : acct[a] = "mapped" <=> a \in mapped

IInv == TypeOK /\ LinesTell /\ CallsHold /\ DealsStay

-----------------------------------------------------------------------------
(* Refuted *)

\* Refuted: an administrator who disconnects the feed is rid of its tokens.
DisconnectEndsFeed == ~refused
=============================================================================
