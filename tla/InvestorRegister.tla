-------------------------- MODULE InvestorRegister --------------------------
(***************************************************************************)
(* One investor of a workspace (investorsRouter and portalAccessRouter of  *)
(* routers/portal.ts): the row, its holding in each deal, its cash-flow    *)
(* lines and its portal login.  Nothing here runs in a transaction: money  *)
(* may be recorded between the look at it and the delete that relied on it. *)
(***************************************************************************)
EXTENDS Integers, FiniteSets

CONSTANTS
    Client,      \* requests in flight
    Deal,        \* deals of the workspace
    Line,        \* ids of cash-flow lines
    NoDeal,      \* the null of a line's deal
    MaxOpened    \* bound on the holdings ever opened

VARIABLES
    inv,         \* the investor row exists
    holding,     \* the holding in each deal: its id, 0 for none, and its figures
    opened,      \* holdings opened so far
    line,        \* cash-flow lines: "none" before they are made, "gone" once deleted
    login,       \* a portal login names the investor
    call,        \* the locals of each request
    typed,       \* what was last typed for each holding, while it is there
    overlapped,  \* two requests have been under way at once; until then:
    dropped      \* deals whose holding went with money on it

vars == <<inv, holding, opened, line, login, call, typed, overlapped, dropped>>
rows == <<inv, holding, opened, line, login, typed, dropped>>

NoHolding == [id |-> 0, committed |-> 0, moved |-> 0]
NoLine == [kind |-> "none", deal |-> NoDeal, funded |-> FALSE]
AnyDeal == CHOOSE d \in Deal : TRUE
Idle == [op |-> "idle", deal |-> AnyDeal, id |-> 0, line |-> CHOOSE l \in Line : TRUE, patch |-> {}]

Init ==
    /\ inv = TRUE
    /\ holding = [d \in Deal |-> NoHolding] /\ opened = 0
    /\ line = [l \in Line |-> NoLine]
    /\ login = FALSE
    /\ call = [c \in Client |-> Idle]
    /\ typed = [d \in Deal |-> NoHolding]
    /\ overlapped = FALSE /\ dropped = {}

Begin(c, locals) ==
    /\ call[c] = Idle /\ call' = [call EXCEPT ![c] = locals]
    /\ overlapped' = (overlapped \/ \E d \in Client : call[d] # Idle)
Asked(c, op) == Begin(c, [Idle EXCEPT !.op = op]) /\ UNCHANGED rows
End(c) == call' = [call EXCEPT ![c] = Idle] /\ UNCHANGED overlapped
Lines == {l \in Line : line[l].kind \in {"call", "dist"}}
Held(d) == holding[d].id # 0

-----------------------------------------------------------------------------
(* Holdings                                                                 *)

moneyMoved(d) == holding[d].moved > 0

\* setHolding looks the holding up: a patch of what is there, or a new one with its commitment;
FindHolding(c) ==
    /\ inv
    /\ \E d \in Deal, s \in {{"committed"}, {"moved"}} :
         /\ ~Held(d) => "committed" \in s
         /\ Begin(c, [Idle EXCEPT !.op = IF Held(d) THEN "patch" ELSE "open", !.deal = d, !.id = holding[d].id, !.patch = s])
    /\ UNCHANGED rows

\* As if the whole row were written.
PatchedWhole(h, s) ==
    [h EXCEPT !.committed = IF "committed" \in s THEN 1 ELSE 0, !.moved = IF "moved" \in s THEN 1 ELSE 0]

\* the update writes the fields it was sent to the row it found, a second create breaks the
\* unique key, and a holding or an investor deleted since fails the write.
Patched(h, s) == [h EXCEPT !.committed = IF "committed" \in s THEN 1 ELSE @, !.moved = IF "moved" \in s THEN 1 ELSE @]

\* What was typed, for the property.
Typed(h, s) == [h EXCEPT !.committed = IF "committed" \in s THEN 1 ELSE @, !.moved = IF "moved" \in s THEN 1 ELSE @]

setHolding(c) ==
    LET d == call[c].deal  s == call[c].patch IN
    /\ call[c].op \in {"patch", "open"}
    /\ \/ /\ call[c].op = "patch" /\ holding[d].id = call[c].id
          /\ holding' = [holding EXCEPT ![d] = Patched(@, s)]
          /\ typed' = [typed EXCEPT ![d] = Typed(@, s)]
          /\ UNCHANGED opened
       \/ /\ call[c].op = "open" /\ inv /\ ~Held(d) /\ opened < MaxOpened
          /\ opened' = opened + 1
          /\ holding' = [holding EXCEPT ![d] = [id |-> opened', committed |-> 1, moved |-> 0]]
          /\ typed' = [typed EXCEPT ![d] = holding'[d]]
       \/ /\ IF call[c].op = "patch" THEN holding[d].id # call[c].id ELSE ~inv \/ Held(d)
          /\ UNCHANGED <<holding, typed, opened>>
    /\ End(c) /\ UNCHANGED <<inv, line, login, dropped>>

\* removeHolding reads the holding, then counts its lines, and deletes it by id.
LooksClear(c) ==
    /\ \E d \in Deal :
         Held(d) /\ ~moneyMoved(d) /\ Begin(c, [Idle EXCEPT !.op = "count", !.deal = d, !.id = holding[d].id])
    /\ UNCHANGED rows

CountLines(c) ==
    /\ call[c].op = "count"
    /\ LET free == \A l \in Lines : line[l].deal # call[c].deal IN
       call' = [call EXCEPT ![c] = IF free THEN [@ EXCEPT !.op = "remove"] ELSE Idle]
    /\ UNCHANGED <<rows, overlapped>>

Dropping(ds) == dropped \cup {d \in ds : ~overlapped /\ moneyMoved(d)}

removeHolding(c) ==
    LET d == call[c].deal IN
    /\ call[c].op = "remove"
    /\ IF holding[d].id # call[c].id THEN UNCHANGED <<holding, typed, dropped>>
       ELSE /\ holding' = [holding EXCEPT ![d] = NoHolding] /\ typed' = [typed EXCEPT ![d] = NoHolding]
            /\ dropped' = Dropping({d})
    /\ End(c) /\ UNCHANGED <<inv, opened, line, login>>

-----------------------------------------------------------------------------
(* Cash flows                                                               *)

\* recordCashflow finds the investor and the deal, and creates; the investor may be gone.
Blank == {l \in Line : line[l].kind = "none"}
FindInvestor(c) == inv /\ Blank # {} /\ Asked(c, "record")

recordCashflow(c) ==
    /\ call[c].op = "record"
    /\ IF ~inv \/ Blank = {} THEN UNCHANGED line
       ELSE \E l \in Blank, k \in {"call", "dist"}, d \in Deal \cup {NoDeal} :
              line' = [line EXCEPT ![l] = [kind |-> k, deal |-> d, funded |-> FALSE]]
    /\ End(c) /\ UNCHANGED <<inv, holding, opened, login, typed, dropped>>

\* fundCashflow takes capital calls only, and sets or clears the date by the id.
Fundable(l) == line[l].kind = "call"

FindCall(c) ==
    /\ \E l \in Lines : Fundable(l) /\ Begin(c, [Idle EXCEPT !.op = "fund", !.line = l])
    /\ UNCHANGED rows

fundCashflow(c) ==
    LET l == call[c].line IN
    /\ call[c].op = "fund"
    /\ \E funded \in BOOLEAN : line' = IF l \in Lines THEN [line EXCEPT ![l].funded = funded] ELSE line
    /\ End(c) /\ UNCHANGED <<inv, holding, opened, login, typed, dropped>>

deleteCashflow(l) ==
    /\ l \in Lines /\ line' = [line EXCEPT ![l] = [NoLine EXCEPT !.kind = "gone"]]
    /\ UNCHANGED <<inv, holding, opened, login, call, typed, overlapped, dropped>>

-----------------------------------------------------------------------------
(* The investor, and who reads its position                                 *)

\* As if the money were not looked at.
Unasked == TRUE

\* delete refuses once money moved, then takes the holdings, the logins and the row in turn.
Untouched == /\ \A d \in Deal : ~moneyMoved(d)
             /\ Lines = {}

MayDelete(c) == inv /\ Untouched /\ Asked(c, "holdings")

DeleteHoldings(c) ==
    /\ call[c].op = "holdings"
    /\ holding' = [d \in Deal |-> NoHolding] /\ typed' = holding'
    /\ dropped' = Dropping(Deal)
    /\ call' = [call EXCEPT ![c].op = "logins"]
    /\ UNCHANGED <<inv, opened, line, login, overlapped>>

DeleteLogins(c) ==
    /\ call[c].op = "logins" /\ login' = FALSE
    /\ call' = [call EXCEPT ![c].op = "investor"]
    /\ UNCHANGED <<inv, holding, opened, line, typed, overlapped, dropped>>

\* The row goes only if no holding and no line refers to it.
Unreferenced == Lines = {} /\ \A d \in Deal : ~Held(d)

deleteInvestor(c) ==
    /\ call[c].op = "investor"
    /\ inv' = (inv /\ ~Unreferenced)
    /\ End(c) /\ UNCHANGED <<holding, opened, line, login, typed, dropped>>

\* inviteInvestor finds the investor, and creates the user some statements later.
FindInvitee(c) == inv /\ ~login /\ Asked(c, "invite")

inviteInvestor(c) ==
    /\ call[c].op = "invite" /\ login' = TRUE
    /\ End(c) /\ UNCHANGED <<inv, holding, opened, line, typed, dropped>>

revoke ==
    /\ login /\ login' = FALSE
    /\ UNCHANGED <<inv, holding, opened, line, call, typed, overlapped, dropped>>

Next ==
    \/ \E c \in Client :
         \/ FindHolding(c) \/ setHolding(c) \/ LooksClear(c) \/ CountLines(c) \/ removeHolding(c)
         \/ FindInvestor(c) \/ recordCashflow(c) \/ FindCall(c) \/ fundCashflow(c)
         \/ MayDelete(c) \/ DeleteHoldings(c) \/ DeleteLogins(c) \/ deleteInvestor(c)
         \/ FindInvitee(c) \/ inviteInvestor(c)
    \/ \E l \in Line : deleteCashflow(l)
    \/ revoke

Spec == Init /\ [][Next]_vars

-----------------------------------------------------------------------------
(* Properties                                                               *)

\* Money on an account keeps its investor, whatever else is deleted meanwhile; a holding says what
\* was typed for it, field by field; and unless requests overlap no holding goes with money on it
\* and nobody's login outlives the investor.
RegisterSound ==
    /\ Lines # {} \/ (\E d \in Deal : Held(d)) => inv
    /\ holding = typed
    /\ \A l \in Lines : line[l].funded => line[l].kind = "call"
    /\ ~overlapped => dropped = {} /\ (login => inv)

\* Refuted, overlaps or not considered: no holding goes with money on it.
PositionStands == [][\A d \in Deal : moneyMoved(d) => holding'[d].id = holding[d].id]_vars

\* Refuted: a login opens an account that exists.
LoginHasInvestor == login => inv

-----------------------------------------------------------------------------
(* The inductive invariant.                                                 *)

HoldingRow == [id : Nat, committed : Nat, moved : Nat]
LineRow == [kind : {"none", "call", "dist", "gone"}, deal : Deal \cup {NoDeal}, funded : BOOLEAN]
Op == {"idle", "patch", "open", "count", "remove", "record", "fund", "holdings", "logins", "investor", "invite"}
Locals == [op : Op, deal : Deal \cup {AnyDeal}, id : Nat, line : Line \cup {Idle.line}, patch : SUBSET {"committed", "moved"}]

TypeOK ==
    /\ inv \in BOOLEAN /\ opened \in Nat /\ login \in BOOLEAN /\ overlapped \in BOOLEAN
    /\ holding \in [Deal -> HoldingRow]
    /\ line \in [Line -> LineRow]
    /\ call \in [Client -> Locals]
    /\ dropped \subseteq Deal

\* Money has its investor, holdings are as typed, only calls are funded, and a line looked up as a call
\* is that or gone.
MoneyHolds ==
    /\ Lines # {} \/ (\E d \in Deal : Held(d)) => inv
    /\ holding = typed
    /\ \A l \in Lines : line[l].funded => line[l].kind = "call"
    /\ \A c \in Client :
         /\ call[c].op \in {"patch", "open", "count", "remove"} => call[c].deal \in Deal
         /\ call[c].op = "fund" => call[c].line \in Line /\ line[call[c].line].kind \in {"call", "gone"}

\* Until requests overlap there is one at a time,
OneAtATime == \A c, d \in Client : call[c].op # "idle" /\ call[d].op # "idle" => c = d

\* and what it has read is still so when it writes.
ReadsStand == \A c \in Client :
    /\ call[c].op \in {"count", "remove"} => ~moneyMoved(call[c].deal)
    /\ call[c].op = "holdings" => \A d \in Deal : ~moneyMoved(d)
    /\ call[c].op = "investor" => ~login
    /\ call[c].op = "invite" => inv

IInv ==
    /\ TypeOK
    /\ MoneyHolds
    /\ ~overlapped => OneAtATime /\ ReadsStand /\ dropped = {} /\ (login => inv)
=============================================================================
