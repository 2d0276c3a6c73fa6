-------------------------- MODULE WorkspaceAccess --------------------------
(***************************************************************************)
(* Who can enter a workspace: its members and their roles (org.ts), the    *)
(* links mailed to them and the ways to sign in (auth.ts), single sign-on  *)
(* and the codes that open the door when the identity provider is down     *)
(* (org.ts saveSso, auth/sso-recovery.ts).                                 *)
(*                                                                         *)
(* A request reads who is asking once, at its start, and is a few separate *)
(* statements; each is a step.  A request may also stop between two, when  *)
(* the process does.  What a password is, is left out.                     *)
(***************************************************************************)
EXTENDS Integers, FiniteSets

CONSTANTS
    Client,      \* requests in flight
    User,        \* addresses
    Founder,     \* who registers the workspace
    MaxMembers,  \* seats of the plan
    MaxLink,     \* bound on links mailed
    MaxCode      \* bound on codes minted (a sheet is one code here, ten in the code)

VARIABLES
    user,        \* the account of each address
    signedIn,    \* addresses with a session
    links,       \* links mailed
    door,        \* the SsoConnection row
    codes,       \* codes minted
    unused,      \* the rows of codes with no usedAt
    trials,      \* times a verified address started the trial
    opened,      \* times each code let somebody in
    followed,    \* times each link did what it was for
    call         \* what each request is doing

vars == <<user, signedIn, links, door, codes, unused, trials, opened, followed, call>>

\* An account is not made again for an address it was removed from: it would be another account.
Absent == [is |-> "none", role |-> "none", verified |-> FALSE, verify |-> 0, reset |-> 0]
Colleague == [Absent EXCEPT !.is = "member", !.role = "analyst", !.verified = TRUE]
NoDoor == [is |-> "none", proven |-> FALSE]

Call(op, who, to, n) == [op |-> op, who |-> who, to |-> to, n |-> n]
Free == Call("idle", Founder, Founder, 0)

\* register: the workspace, its first admin and the link that verifies the address.
Init ==
    /\ user = [u \in User |-> IF u = Founder
                              THEN [is |-> "member", role |-> "admin", verified |-> FALSE, verify |-> 1, reset |-> 0]
                              ELSE Absent]
    /\ signedIn = {} /\ links = 1
    /\ door = NoDoor /\ codes = 0 /\ unused = {}
    /\ trials = 0 /\ opened = [n \in 1..MaxCode |-> 0] /\ followed = [n \in 1..MaxLink |-> 0]
    /\ call = [c \in Client |-> Free]

Members == {u \in User : user[u].is = "member"}
Enforced == door.is = "enforced"

Begin(c, k) == call[c] = Free /\ call' = [call EXCEPT ![c] = k]
Then(c, op) == call' = [call EXCEPT ![c].op = op]
End(c) == call' = [call EXCEPT ![c] = Free]

\* principalFromAuthHeader: a session of an account that is there and verified.
Principal(u) == u \in signedIn /\ u \in Members /\ user[u].verified
\* adminProcedure
Admin(u) == Principal(u) /\ user[u].role = "admin"

-----------------------------------------------------------------------------
(* Passwords and links                                                      *)

login ==
    /\ ~Enforced
    /\ \E u \in Members : user[u].verified /\ signedIn' = signedIn \cup {u}
    /\ UNCHANGED <<user, links, door, codes, unused, trials, opened, followed, call>>

Mail(u, field) ==
    /\ links < MaxLink /\ links' = links + 1
    /\ user' = [user EXCEPT ![u][field] = links + 1]

resendVerification ==
    /\ \E u \in Members : ~user[u].verified /\ Mail(u, "verify")
    /\ UNCHANGED <<signedIn, door, codes, unused, trials, opened, followed, call>>

\* No link for a workspace that signs in elsewhere.
requestPasswordReset ==
    /\ ~Enforced
    /\ \E u \in Members : Mail(u, "reset")
    /\ UNCHANGED <<signedIn, door, codes, unused, trials, opened, followed, call>>

\* verifyEmail and resetPassword find the account that holds the link,
FindVerify(c) ==
    /\ \E u \in Members : user[u].verify # 0 /\ Begin(c, Call("verify", u, u, user[u].verify))
    /\ UNCHANGED <<user, signedIn, links, door, codes, unused, trials, opened, followed>>

FindReset(c) ==
    /\ \E u \in Members : user[u].reset # 0 /\ Begin(c, Call("reset", u, u, user[u].reset))
    /\ UNCHANGED <<user, signedIn, links, door, codes, unused, trials, opened, followed>>

\* and change it if it still does, which spends the link.
Holds(u, field, n) == u \in Members /\ user[u][field] = n

verifyEmail(c) ==
    /\ call[c].op = "verify"
    /\ LET u == call[c].to  n == call[c].n IN
         IF Holds(u, "verify", n) /\ ~user[u].verified
         THEN /\ user' = [user EXCEPT ![u].verified = TRUE, ![u].verify = 0]
              /\ trials' = trials + 1 /\ followed' = [followed EXCEPT ![n] = @ + 1]
         ELSE UNCHANGED <<user, trials, followed>>
    /\ End(c) /\ UNCHANGED <<signedIn, links, door, codes, unused, opened>>

\* A reset of a workspace that signs in elsewhere takes the link away and sets nothing.
resetPassword(c) ==
    /\ call[c].op = "reset"
    /\ LET u == call[c].to  n == call[c].n IN
         IF Enforced
         THEN /\ user' = IF u \in Members THEN [user EXCEPT ![u].reset = 0] ELSE user
              /\ UNCHANGED <<signedIn, followed>>
         ELSE IF Holds(u, "reset", n)
         THEN /\ user' = [user EXCEPT ![u].reset = 0]
              /\ signedIn' = signedIn \ {u} /\ followed' = [followed EXCEPT ![n] = @ + 1]
         ELSE UNCHANGED <<user, signedIn, followed>>
    /\ End(c) /\ UNCHANGED <<links, door, codes, unused, trials, opened>>

\* The other sessions end; the one that changed it gets a new one.
changePassword ==
    /\ \E u \in User : Principal(u) /\ user' = [user EXCEPT ![u].reset = 0]
    /\ UNCHANGED <<signedIn, links, door, codes, unused, trials, opened, followed, call>>

-----------------------------------------------------------------------------
(* Members                                                                  *)

\* An admin's request is checked against what is there,
CheckInvite(c) ==
    /\ \E a \in User, u \in User : Admin(a) /\ user[u].is = "none"
         /\ Cardinality(Members) < MaxMembers
         /\ Begin(c, Call("invite", a, u, 0))
    /\ UNCHANGED <<user, signedIn, links, door, codes, unused, trials, opened, followed>>

invite(c) ==
    /\ call[c].op = "invite"
    /\ LET u == call[c].to IN
         user' = IF user[u].is = "none" THEN [user EXCEPT ![u] = Colleague] ELSE user
    /\ End(c) /\ UNCHANGED <<signedIn, links, door, codes, unused, trials, opened, followed>>

\* and is about somebody else.
CheckMember(c) ==
    /\ \E a \in User, u \in Members, op \in {"remove", "promote", "demote"} :
         Admin(a) /\ a # u /\ Begin(c, Call(op, a, u, 0))
    /\ UNCHANGED <<user, signedIn, links, door, codes, unused, trials, opened, followed>>

removeMember(c) ==
    /\ call[c].op = "remove"
    /\ user' = [user EXCEPT ![call[c].to] = [Absent EXCEPT !.is = "gone"]]
    /\ signedIn' = signedIn \ {call[c].to}
    /\ End(c) /\ UNCHANGED <<links, door, codes, unused, trials, opened, followed>>

setRole(c) ==
    /\ call[c].op \in {"promote", "demote"}
    /\ LET u == call[c].to IN
         user' = IF u \in Members
                 THEN [user EXCEPT ![u].role = IF call[c].op = "promote" THEN "admin" ELSE "analyst"] ELSE user
    /\ End(c) /\ UNCHANGED <<signedIn, links, door, codes, unused, trials, opened, followed>>

-----------------------------------------------------------------------------
(* Single sign-on                                                           *)

\* ssoComplete: the account of the identity, or one made for it, and a session.
ssoComplete ==
    /\ door.is # "none" /\ door' = [door EXCEPT !.proven = TRUE]
    /\ \E u \in User :
         /\ user[u].is # "gone"
         /\ user' = IF user[u].is = "none" THEN [user EXCEPT ![u] = Colleague] ELSE user
         /\ signedIn' = signedIn \cup {u}
    /\ UNCHANGED <<links, codes, unused, trials, opened, followed, call>>

\* saveSso reads the row: the one the panel loaded, and proven before it is first enforced.
CheckSso(c) ==
    /\ \E a \in User, op \in {"sso", "enforce"} : Admin(a)
         /\ (op = "enforce" => Enforced \/ door.proven)
         /\ Begin(c, Call(op, a, a, 0))
    /\ UNCHANGED <<user, signedIn, links, door, codes, unused, trials, opened, followed>>

UpsertSso(c) ==
    /\ call[c].op \in {"sso", "enforce"}
    /\ door' = [door EXCEPT !.is = IF call[c].op = "enforce" THEN "enforced" ELSE "off"]
    /\ IF call[c].op = "enforce" THEN Then(c, "count") ELSE End(c)
    /\ UNCHANGED <<user, signedIn, links, codes, unused, trials, opened, followed>>

\* An enforced door gets a sheet of codes, unless some are left.
CountCodes(c) ==
    /\ call[c].op = "count"
    /\ IF unused = {} THEN Then(c, "mint") ELSE End(c)
    /\ UNCHANGED <<user, signedIn, links, door, codes, unused, trials, opened, followed>>

MintCodes(c) ==
    /\ call[c].op = "mint" /\ codes < MaxCode
    /\ codes' = codes + 1 /\ unused' = unused \cup {codes + 1}
    /\ End(c) /\ UNCHANGED <<user, signedIn, links, door, trials, opened, followed>>

\* regenerateSsoRecoveryCodes and deleteSso withdraw what is left.
CheckRegenerate(c) ==
    /\ \E a \in User : Admin(a) /\ door.is # "none" /\ Begin(c, Call("regenerate", a, a, 0))
    /\ UNCHANGED <<user, signedIn, links, door, codes, unused, trials, opened, followed>>

deleteSso(c) ==
    /\ \E a \in User : Admin(a) /\ Begin(c, Call("undo", a, a, 0))
    /\ door' = NoDoor
    /\ UNCHANGED <<user, signedIn, links, codes, unused, trials, opened, followed>>

Withdraw(c) ==
    /\ call[c].op \in {"regenerate", "undo"}
    /\ unused' = {}
    /\ IF call[c].op = "regenerate" THEN Then(c, "mint") ELSE End(c)
    /\ UNCHANGED <<user, signedIn, links, door, codes, trials, opened, followed>>

\* recoveryLogin: an admin of a workspace behind single sign-on has a code that is unused,
matchRecoveryCode(c) ==
    /\ Enforced
    /\ \E u \in Members, n \in unused : user[u].role = "admin" /\ Begin(c, Call("code", u, u, n))
    /\ UNCHANGED <<user, signedIn, links, door, codes, unused, trials, opened, followed>>

\* As if the write did not ask again.
AsMatched(n) == TRUE

\* and it is spent if it still is.
Unspent(n) == n \in unused

recoveryLogin(c) ==
    /\ call[c].op = "code"
    /\ LET n == call[c].n IN
         IF Unspent(n)
         THEN /\ unused' = unused \ {n} /\ opened' = [opened EXCEPT ![n] = @ + 1]
              /\ signedIn' = IF call[c].to \in Members THEN signedIn \cup {call[c].to} ELSE signedIn
         ELSE UNCHANGED <<unused, opened, signedIn>>
    /\ End(c) /\ UNCHANGED <<user, links, door, codes, trials, followed>>

\* The process stops, or a statement fails.
Abort(c) ==
    /\ call[c] # Free
    /\ End(c) /\ UNCHANGED <<user, signedIn, links, door, codes, unused, trials, opened, followed>>

Next ==
    \/ login \/ resendVerification \/ requestPasswordReset \/ changePassword \/ ssoComplete
    \/ \E c \in Client :
         \/ FindVerify(c) \/ verifyEmail(c) \/ FindReset(c) \/ resetPassword(c)
         \/ CheckInvite(c) \/ invite(c) \/ CheckMember(c) \/ removeMember(c) \/ setRole(c)
         \/ CheckSso(c) \/ UpsertSso(c) \/ CountCodes(c) \/ MintCodes(c)
         \/ CheckRegenerate(c) \/ deleteSso(c) \/ Withdraw(c)
         \/ matchRecoveryCode(c) \/ recoveryLogin(c) \/ Abort(c)

Spec == Init /\ [][Next]_vars

-----------------------------------------------------------------------------
(* Properties                                                               *)

\* What is handed out to be used once is used once, by whoever comes first of those who hold it:
\* a code lets one person in, a link does what it was mailed for one time, and the trial of a
\* workspace starts with the first verification only.
UsedOnce ==
    /\ \A n \in 1..MaxCode : opened[n] <= 1
    /\ \A n \in 1..MaxLink : followed[n] <= 1
    /\ trials <= 1

-----------------------------------------------------------------------------
(* The inductive invariant.                                                 *)

AccountRow == [is : {"none", "member", "gone"}, role : {"none", "analyst", "admin"}, verified : BOOLEAN,
               verify : 0..links, reset : 0..links]
Ops == {"idle", "verify", "reset", "invite", "remove", "promote", "demote", "sso", "enforce", "count", "mint",
        "regenerate", "undo", "code"}
Locals == [op : Ops, who : User \cup {Founder}, to : User \cup {Founder}, n : Nat]
TypeOK ==
    /\ links \in 1..MaxLink /\ codes \in 0..MaxCode /\ unused \subseteq 1..codes /\ trials \in {0, 1}
    /\ user \in [User -> AccountRow]
    /\ opened \in [1..MaxCode -> {0, 1}] /\ followed \in [1..MaxLink -> {0, 1}]
    /\ call \in [Client -> Locals]

\* A request that follows a link has one.
CallsFollow == \A c \in Client : call[c].op \in {"verify", "reset"} => call[c].n # 0 /\ call[c].to \in User

\* A code that is unused let nobody in, and neither has one that is not minted yet.
CodesUnspent == \A n \in 1..MaxCode : n \in unused \/ n > codes => opened[n] = 0

\* A link an account holds has done nothing yet, is of that account and for one thing.
LinksUnspent ==
    /\ \A n \in 1..MaxLink : n > links => followed[n] = 0
    /\ \A u \in User :
         /\ user[u].verify # 0 => followed[user[u].verify] = 0
         /\ user[u].reset # 0 => followed[user[u].reset] = 0
    /\ \A u, w \in User :
         /\ user[u].verify # 0 /\ user[u].verify = user[w].verify => u = w
         /\ user[u].reset # 0 /\ user[u].reset = user[w].reset => u = w
         /\ user[u].verify # 0 => user[u].verify # user[w].reset

\* Only the founder has still to verify an address, and until then there is no trial.
FirstVerifies == \A u \in Members : ~user[u].verified => u = Founder /\ trials = 0

IInv == TypeOK /\ CallsFollow /\ CodesUnspent /\ LinksUnspent /\ FirstVerifies

-----------------------------------------------------------------------------
(* Refuted *)

\* Refuted: "at least one admin always survives" (org.ts:709).  Two admins remove or demote each other at once.
AlwaysAnAdmin == \E u \in Members : user[u].role = "admin"

\* Refuted: the codes go with the door (org.ts:1287).  A save that is minting writes them after it is gone.
NoCodeWithoutDoor == door.is = "none" /\ (\A c \in Client : call[c].op # "undo") => unused = {}

\* Refuted: a door is enforced only after somebody came through it.  A save that saw it proven makes it anew.
EnforcedWasProven == Enforced => door.proven

\* Refuted: a workspace has the members its plan includes.  The count and the insert are two statements.
SeatsHold == Cardinality(Members) <= MaxMembers
=============================================================================
