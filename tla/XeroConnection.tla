--------------------------- MODULE XeroConnection ---------------------------
(***************************************************************************)
(* The tokens of a workspace's Xero connection (accessTokenFor of xero.ts, *)
(* connect, complete and disconnect of xeroRouter).  Xero retires a refresh *)
(* token when it is used, and ends the consent when a retired one comes     *)
(* back: whoever loses the pair it was answered with, or comes second, has  *)
(* lost the connection for good.  Requests run in server processes, each    *)
(* with an inFlight map of its own; a process may die at any step, an       *)
(* answer may be lost on its way, and the write that follows it may fail.   *)
(***************************************************************************)
EXTENDS Integers

CONSTANTS
    Client,      \* requests that need a token
    Process,     \* server processes
    MaxGrant,    \* bound on consents given
    MaxRefresh   \* bound on refreshes of one consent

VARIABLES
    conn,        \* the XeroConnection row: its id, the consent and generation of its pair, its age
    live,        \* at Xero: the generation of each consent whose refresh token is not retired
    dead,        \* at Xero: the consents it has ended, having been shown a retired token
    states,      \* of each process: consent states handed out and not yet redeemed
    used,        \* consent states ever handed out
    inFlight,    \* of each process: the connections, by id, whose refresh is under way
    call,        \* the locals of each request
    lost         \* consents whose newest pair Xero gave and nobody could store (read by no action)

vars == <<conn, live, dead, states, used, inFlight, call, lost>>

None == [id |-> 0, grant |-> 0, pair |-> 0, aged |-> FALSE]
Idle(p) == [at |-> "idle", in |-> p, had |-> None]

Init ==
    /\ conn = None
    /\ live = [g \in 1..MaxGrant |-> 0] /\ dead = {} /\ lost = {}
    /\ states = [p \in Process |-> {}] /\ used = {}
    /\ inFlight = [p \in Process |-> {}]
    /\ call \in [Client -> {Idle(p) : p \in Process}]

Go(c, at) == call' = [call EXCEPT ![c].at = at]
Rest(c) == call' = [call EXCEPT ![c] = Idle(@.in)]

-----------------------------------------------------------------------------
(* Consent                                                                  *)

\* connect hands out a state; a restart forgets those of its process.
connect(p) ==
    /\ \E g \in (1..MaxGrant) \ used : used' = used \cup {g} /\ states' = [states EXCEPT ![p] = @ \cup {g}]
    /\ UNCHANGED <<conn, live, dead, inFlight, call, lost>>

\* complete redeems a state, whatever the exchange of the code then comes to.
Redeem(c) ==
    /\ call[c].at = "idle"
    /\ \E g \in states[call[c].in] :
         /\ states' = [states EXCEPT ![call[c].in] = @ \ {g}]
         /\ call' = [call EXCEPT ![c].at = "exchange", ![c].had = [None EXCEPT !.grant = g]]
    /\ UNCHANGED <<conn, live, dead, used, inFlight, lost>>

complete(c) ==
    /\ call[c].at = "exchange"
    /\ \/ LET g == call[c].had.grant IN
          /\ live' = [live EXCEPT ![g] = 1]
          /\ conn' = [id |-> IF conn = None THEN g ELSE conn.id, grant |-> g, pair |-> 1, aged |-> FALSE]
       \/ UNCHANGED <<live, conn>>                      \* refused, or no organisation granted
    /\ Rest(c) /\ UNCHANGED <<dead, states, used, inFlight, lost>>

disconnect ==
    /\ conn # None /\ conn' = None
    /\ UNCHANGED <<live, dead, states, used, inFlight, call, lost>>

-----------------------------------------------------------------------------
(* accessTokenFor                                                           *)

\* The access token comes within a minute of its end.
Age ==
    /\ conn # None /\ ~conn.aged /\ conn.pair < MaxRefresh
    /\ conn' = [conn EXCEPT !.aged = TRUE]
    /\ UNCHANGED <<live, dead, states, used, inFlight, call, lost>>

\* A request that finds the stored token good has it and is done: nothing changes.
ReadConnection(c) ==
    /\ call[c].at = "idle" /\ conn.aged
    /\ call' = [call EXCEPT ![c].at = "read", ![c].had = conn]
    /\ UNCHANGED <<conn, live, dead, states, used, inFlight, lost>>

\* Without a pause between them: the look at inFlight, and the entry made there.
Join(c) ==
    LET p == call[c].in
        id == call[c].had.id IN
    /\ call[c].at = "read"
    /\ IF id \in inFlight[p]
       THEN Go(c, "waiting") /\ UNCHANGED inFlight
       ELSE Go(c, "post") /\ inFlight' = [inFlight EXCEPT ![p] = @ \cup {id}]
    /\ UNCHANGED <<conn, live, dead, states, used, lost>>

\* The promise ends, well or ill, for the request and for those that share it.
Settle(c) ==
    LET Shares(d) == call[d].at = "waiting" /\ call[d].in = call[c].in /\ call[d].had.id = call[c].had.id IN
    /\ inFlight' = [inFlight EXCEPT ![call[c].in] = @ \ {call[c].had.id}]
    /\ call' = [d \in Client |-> IF d = c \/ Shares(d) THEN Idle(call[d].in) ELSE call[d]]

Good(g, pair) == live[g] = pair /\ g \notin dead

\* Xero answers a good refresh token with the next pair, and retires it whether or not the answer
\* arrives within its twenty seconds; a retired one ends the consent.
postToken(c) ==
    LET g == call[c].had.grant
        good == Good(g, call[c].had.pair) IN
    /\ call[c].at = "post"
    /\ \/ good /\ live' = [live EXCEPT ![g] = @ + 1] /\ Go(c, "write") /\ UNCHANGED <<dead, inFlight, lost>>
       \/ good /\ live' = [live EXCEPT ![g] = @ + 1] /\ lost' = lost \cup {g} /\ Settle(c) /\ UNCHANGED dead
       \/ ~good /\ dead' = dead \cup {g} /\ Settle(c) /\ UNCHANGED <<live, lost>>
       \/ Settle(c) /\ UNCHANGED <<live, dead, lost>>     \* it never reached Xero
    /\ UNCHANGED <<conn, states, used>>

\* As if only the access token were renewed.
AccessOnly(h) == [h EXCEPT !.aged = FALSE]

\* The new pair in the row it was read from, whatever consent that row is of by now.
NewPair(h) == [h EXCEPT !.pair = @ + 1, !.aged = FALSE]

\* The pair is saved before it is returned; the update fails on a row disconnected meanwhile, or
\* because the database does.
SavePair(c) ==
    LET h == call[c].had IN
    /\ call[c].at = "write"
    /\ \/ conn.id = h.id /\ conn' = NewPair(h) /\ UNCHANGED lost
       \/ lost' = lost \cup {h.grant} /\ UNCHANGED conn
    /\ Settle(c) /\ UNCHANGED <<live, dead, states, used>>

\* A process dies: its requests, its map and its states are gone.
Crash(p) ==
    /\ lost' = lost \cup {call[c].had.grant : c \in {d \in Client : call[d].in = p /\ call[d].at = "write"}}
    /\ inFlight' = [inFlight EXCEPT ![p] = {}]
    /\ call' = [c \in Client |-> IF call[c].in = p THEN Idle(p) ELSE call[c]]
    /\ states' = [states EXCEPT ![p] = {}] /\ UNCHANGED <<conn, live, dead, used>>

Next ==
    \/ disconnect \/ Age
    \/ \E p \in Process : connect(p) \/ Crash(p)
    \/ \E c \in Client : Redeem(c) \/ complete(c) \/ ReadConnection(c) \/ Join(c) \/ postToken(c) \/ SavePair(c)

Spec == Init /\ [][Next]_vars

-----------------------------------------------------------------------------
(* Properties                                                               *)

Gone(g) == g \in lost \/ g \in dead
Saving(c, h) == call[c].at = "write" /\ call[c].had = h

\* Of a consent that has not come to grief, the stored pair is one Xero still honours, or its
\* successor is on its way to the row.  And nobody is about to end it with the pair that is still
\* in the row, unless another process is saving the next: within a process a refresh is shared.
StoredTokenLives ==
    /\ conn = None \/ Gone(conn.grant) \/ Good(conn.grant, conn.pair) \/ \E c \in Client : Saving(c, conn)
    /\ \A c \in Client : call[c].at = "post" /\ call[c].had = conn /\ ~Gone(conn.grant) =>
         Good(conn.grant, conn.pair) \/ \E d \in Client : Saving(d, conn) /\ call[d].in # call[c].in

-----------------------------------------------------------------------------
(* The inductive invariant.                                                 *)

Pair == [id : Nat, grant : 0..MaxGrant, pair : Nat, aged : BOOLEAN]
TypeOK ==
    /\ conn \in Pair /\ live \in [1..MaxGrant -> Nat] /\ dead \subseteq 1..MaxGrant /\ lost \subseteq 1..MaxGrant
    /\ inFlight \in [Process -> SUBSET Nat]
    /\ used \subseteq 1..MaxGrant /\ states \in [Process -> SUBSET used]
    /\ call \in [Client -> [at : {"idle", "exchange", "read", "waiting", "post", "write"}, in : Process, had : Pair]]

\* A consent is redeemed once, and what is known of it is known after that.
Holds(c) == call[c].at \in {"read", "waiting", "post", "write"}
Exchanging(c, g) == call[c].at = "exchange" /\ call[c].had.grant = g
Unspent(g) == g \notin used \/ (\E p \in Process : g \in states[p]) \/ (\E c \in Client : Exchanging(c, g))
SpentOnce == \A g \in 1..MaxGrant :
    /\ \A p, q \in Process : g \in states[p] /\ g \in states[q] => p = q
    /\ \A c, d \in Client : Exchanging(c, g) /\ Exchanging(d, g) => c = d
    /\ \A c \in Client : Exchanging(c, g) => g \in used /\ \A p \in Process : g \notin states[p]
    /\ Unspent(g) => conn.grant # g /\ \A c \in Client : Holds(c) => call[c].had.grant # g

\* A pair that is held was stored, once, and Xero has answered with none before it since.
PairsKnown ==
    /\ conn = None \/ (conn.id > 0 /\ conn.grant > 0 /\ conn.pair <= live[conn.grant])
    /\ \A c \in Client : call[c].at = "exchange" => call[c].had.grant > 0
    /\ \A c \in Client : Holds(c) =>
         /\ call[c].had.id > 0 /\ call[c].had.grant > 0 /\ call[c].had.aged
         /\ call[c].had.pair <= live[call[c].had.grant]
         /\ conn.grant = call[c].had.grant /\ conn.pair = call[c].had.pair => conn = call[c].had

\* The successor of a pair is on its way to the row in one request, and nobody has it yet.
WriterIsLast == \A c \in Client : call[c].at = "write" =>
    LET h == call[c].had IN
    /\ live[h.grant] = h.pair + 1
    /\ conn.grant = h.grant => conn.pair <= h.pair
    /\ \A d \in Client : Holds(d) /\ call[d].had.grant = h.grant => call[d].had.pair <= h.pair /\ (call[d].at = "write" => c = d)

\* A process has one refresh of a connection under way, and knows it.
Refreshes(c) == call[c].at \in {"post", "write"}
OneInFlight ==
    /\ \A c \in Client : Refreshes(c) => call[c].had.id \in inFlight[call[c].in]
    /\ \A c, d \in Client :
         Refreshes(c) /\ Refreshes(d) /\ call[c].in = call[d].in /\ call[c].had.id = call[d].had.id => c = d

\* The stored pair is the last of its consent, or one request holds the pair that follows it.
TokenLives == conn = None \/ Gone(conn.grant) \/ Good(conn.grant, conn.pair) \/ \E c \in Client : Saving(c, conn)

IInv == TypeOK /\ SpentOnce /\ PairsKnown /\ WriterIsLast /\ OneInFlight /\ TokenLives

-----------------------------------------------------------------------------
(* Refuted *)

\* Refuted, in one process too: "one refresh happens and both callers wait for it" (xero.ts:99) holds of callers that
\* meet; one that read the row while a refresh was under way, and looks at inFlight when it has ended, presents the
\* retired token, and the consent whose new pair was stored just before is over.
RefreshIsShared == conn # None /\ conn.grant \notin lost => conn.grant \notin dead

\* Refuted: a refresh under way when an administrator connects anew saves the tokens of the
\* consent before over those just given.
OnlyConsentReplaces ==
    [][conn'.grant \notin {conn.grant, 0} => \E c \in Client : call[c].at = "exchange" /\ call'[c].at = "idle"]_vars
=============================================================================
