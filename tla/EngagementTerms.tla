----------------------------- MODULE EngagementTerms -----------------------------
(***************************************************************************)
(* The terms of engagement of one deal (routers/engagement.ts): drafted and *)
(* edited by the firm, issued under a signing link, accepted or signed by   *)
(* the client, withdrawn.                                                   *)
(*                                                                          *)
(* Every procedure reads the row, decides, and writes it by its id: two     *)
(* steps, between which any other request may write. Only the write of sign *)
(* is conditional. The activity trail is kept for signatures alone.         *)
(***************************************************************************)
EXTENDS Integers

CONSTANTS
    Caller,         \* requests in flight, each from a screen of its own
    Name,           \* names people sign or are recorded as accepting with
    None,           \* the null of a name
    MaxWrites,      \* bound on writes of the row; the stamp counts them
    Issues          \* bound on signing links ever issued; tokens 1..Issues

ASSUME EngagementAssumption ==
    /\ MaxWrites \in Nat /\ Issues \in Nat
    /\ None \notin Name /\ Name # {}

VARIABLES
    row,        \* the EngagementTerms row
    form,       \* the updatedAt each screen holds
    proc,       \* the locals of each request
    issues,     \* signing links ever issued
    period,     \* times the terms were put back to being signable
    trail       \* "signed the terms of engagement", by request and period

vars == <<row, form, proc, issues, period, trail>>

Stamp == 0..MaxWrites
Status == {"NONE", "DRAFT", "ISSUED", "ACCEPTED"}
Terms == [status : Status, text : Stamp, stamp : Stamp, issued : BOOLEAN,
          token : 0..Issues, expired : BOOLEAN,
          acceptedBy : Name \cup {None}, signedName : Name \cup {None}]
Request == [at : {"idle", "save", "issue", "revoke", "accept", "sign", "withdraw", "record"},
            created : BOOLEAN, since : Stamp, name : Name, period : Stamp]

TypeOK ==
    /\ row \in Terms
    /\ form \in [Caller -> Stamp]
    /\ proc \in [Caller -> Request]
    /\ issues \in 0..Issues
    /\ period \in Stamp
    /\ trail \in SUBSET [by : Caller, period : Stamp]

AnyName == CHOOSE n \in Name : TRUE
Idle == [at |-> "idle", created |-> FALSE, since |-> 0, name |-> AnyName, period |-> 0]
NoTerms == [status |-> "NONE", text |-> 0, stamp |-> 0, issued |-> FALSE, token |-> 0,
            expired |-> FALSE, acceptedBy |-> None, signedName |-> None]

Init ==
    /\ row = NoTerms
    /\ form = [c \in Caller |-> 0]
    /\ proc = [c \in Caller |-> Idle]
    /\ issues = 0 /\ period = 0 /\ trail = {}

At(c, step) == proc[c].at = step
Go(c, request) == proc' = [proc EXCEPT ![c] = request]
Finish(c) == Go(c, Idle)
There == row.status # "NONE"

\* Prisma's @updatedAt: every write of the row moves its stamp.
CanWrite == row.stamp < MaxWrites
Write(terms) == row' = [terms EXCEPT !.stamp = row.stamp + 1]

\* The read half of a procedure: nothing changes but where the request is.
Begin(c, request) ==
    /\ At(c, "idle")
    /\ Go(c, request)
    /\ UNCHANGED <<row, form, issues, period, trail>>

\* engagement.get, into the screen.
Get(c) ==
    /\ At(c, "idle") /\ There
    /\ form' = [form EXCEPT ![c] = row.stamp]
    /\ UNCHANGED <<row, proc, issues, period, trail>>

(***************************************************************************)
(* save                                                                     *)
(***************************************************************************)
\* assertUnchanged.  (AnyForm: as if the stamp were only checked when it is sent.)
AnyForm(c) == TRUE
Unchanged(c) == There => form[c] = row.stamp

Save(c) ==
    /\ row.status # "ACCEPTED"
    /\ Unchanged(c)
    /\ Begin(c, [Idle EXCEPT !.at = "save", !.created = ~There, !.since = row.stamp])

\* A first draft meets dealId's unique index; an edit is written whatever the row is now.
WriteSave(c) ==
    /\ At(c, "save")
    /\ IF proc[c].created /\ There THEN UNCHANGED <<row, form>>
       ELSE /\ CanWrite
            /\ Write([row EXCEPT !.text = row.stamp + 1,
                        !.status = IF proc[c].created THEN "DRAFT" ELSE @])
            /\ form' = [form EXCEPT ![c] = row.stamp + 1]
    /\ Finish(c)
    /\ UNCHANGED <<issues, period, trail>>

(***************************************************************************)
(* issue and revokeLink                                                     *)
(***************************************************************************)
Issue(c) == There /\ Begin(c, [Idle EXCEPT !.at = "issue"])

\* randomBytes(24).  (SameToken: as if a second issue kept the link of the first.)
SameToken == IF row.token # 0 THEN row.token ELSE issues + 1
FreshToken == issues + 1

WriteIssue(c) ==
    /\ At(c, "issue") /\ CanWrite /\ issues < Issues
    /\ Write([row EXCEPT !.status = "ISSUED", !.issued = TRUE, !.token = FreshToken,
                !.expired = FALSE, !.acceptedBy = None, !.signedName = None])
    /\ issues' = issues + 1 /\ period' = period + 1
    /\ Finish(c)
    /\ UNCHANGED <<form, trail>>

RevokeLink(c) == row.token # 0 /\ Begin(c, [Idle EXCEPT !.at = "revoke"])

WriteRevoke(c) ==
    /\ At(c, "revoke") /\ CanWrite
    /\ Write([row EXCEPT !.expired = TRUE])
    /\ Finish(c)
    /\ UNCHANGED <<form, issues, period, trail>>

\* signTokenExpiresAt passes; no row is written.
LinkExpires ==
    /\ row.token # 0 /\ ~row.expired
    /\ row' = [row EXCEPT !.expired = TRUE]
    /\ UNCHANGED <<form, proc, issues, period, trail>>

(***************************************************************************)
(* accept: an acceptance that reached the firm by some other route          *)
(***************************************************************************)
Accept(c, n) ==
    /\ row.status \in {"ISSUED", "ACCEPTED"}
    /\ row.signedName = None
    /\ Begin(c, [Idle EXCEPT !.at = "accept", !.name = n])

WriteAccept(c) ==
    /\ At(c, "accept") /\ CanWrite
    /\ Write([row EXCEPT !.status = "ACCEPTED", !.acceptedBy = proc[c].name])
    /\ Finish(c)
    /\ UNCHANGED <<form, issues, period, trail>>

(***************************************************************************)
(* sign: anyone holding the link                                            *)
(***************************************************************************)
Sign(c, n) ==
    /\ row.token # 0 /\ ~row.expired
    /\ row.status = "ISSUED"
    /\ Begin(c, [Idle EXCEPT !.at = "sign", !.name = n])

\* The compare-and-set.  (SignableById: as if the check of the read were the guard.)
SignableById == TRUE
Signable == row.status # "ACCEPTED"

WriteSign(c) ==
    /\ At(c, "sign")
    /\ IF Signable
       THEN /\ CanWrite
            /\ Write([row EXCEPT !.status = "ACCEPTED", !.acceptedBy = proc[c].name,
                        !.signedName = proc[c].name])
            /\ Go(c, [proc[c] EXCEPT !.at = "record", !.period = period])
       ELSE UNCHANGED row /\ Finish(c)
    /\ UNCHANGED <<form, issues, period, trail>>

RecordSignature(c) ==
    /\ At(c, "record")
    /\ trail' = trail \cup {[by |-> c, period |-> proc[c].period]}
    /\ Finish(c)
    /\ UNCHANGED <<row, form, issues, period>>

(***************************************************************************)
(* withdraw                                                                 *)
(***************************************************************************)
Withdraw(c) == There /\ Begin(c, [Idle EXCEPT !.at = "withdraw"])

\* (KeptSignature: as if a withdrawal cleared the acceptance and left the evidence.)
KeptSignature == [row EXCEPT !.status = "DRAFT", !.issued = FALSE, !.acceptedBy = None,
                    !.token = 0, !.expired = FALSE]
\* (Revision: as if a withdrawal had a status of its own, which no reader knows.)
Revision == [row EXCEPT !.status = "WITHDRAWN", !.issued = FALSE, !.acceptedBy = None,
               !.token = 0, !.expired = FALSE, !.signedName = None]
Withdrawn == [row EXCEPT !.status = "DRAFT", !.issued = FALSE, !.acceptedBy = None,
                !.token = 0, !.expired = FALSE, !.signedName = None]

WriteWithdraw(c) ==
    /\ At(c, "withdraw") /\ CanWrite
    /\ Write(Withdrawn)
    /\ period' = period + 1
    /\ Finish(c)
    /\ UNCHANGED <<form, issues, trail>>

\* The process dies, or a query throws.
Fail(c) ==
    /\ ~At(c, "idle") /\ Finish(c)
    /\ UNCHANGED <<row, form, issues, period, trail>>

Ask(c) ==
    \/ Get(c) \/ Save(c) \/ Issue(c) \/ RevokeLink(c) \/ Withdraw(c)
    \/ \E n \in Name : Accept(c, n) \/ Sign(c, n)

Answer(c) ==
    \/ WriteSave(c) \/ WriteIssue(c) \/ WriteRevoke(c) \/ WriteAccept(c)
    \/ WriteSign(c) \/ RecordSignature(c) \/ WriteWithdraw(c)

Next == LinkExpires \/ \E c \in Caller : Ask(c) \/ Answer(c) \/ Fail(c)

Spec == Init /\ [][Next]_vars

-------------------------------------------------------------------------------
\* However many hold the link and however often they click, the trail says of one
\* issue (or of one withdrawal overtaken by a signature) at most one signature.
OneSignature == \A e, f \in trail : e.period = f.period => e = f

\* A signature on the row is a signature: it says accepted, and no later call of any
\* kind types over it; only a new issue or a withdrawal clears it.
SignatureStands ==
    [][row.signedName # None /\ row'.signedName # row.signedName =>
        row'.signedName = None /\ row'.status \in {"ISSUED", "DRAFT"} /\ period' = period + 1]_vars

\* A link that expired or was revoked is dead for good: it never comes back to life,
\* and no later issue gives the same one out again.
DeadLinkStaysDead ==
    [][row.token # 0 /\ row.expired /\ row'.token = row.token => row'.expired]_vars

\* assertUnchanged: a save replaces only text its screen held, or text written while
\* the request itself was in flight; never text saved before it was sent.
ReplacesOnlyWhatItSaw ==
    [][row'.text # row.text =>
        \E c \in Caller : At(c, "save") /\ (row.text <= form[c] \/ row.text > proc[c].since)]_vars

(***************************************************************************)
(* What the repository says of this code and the code does not do.          *)
(***************************************************************************)

\* "What it must not do is REPLACE a signature the client already gave": one row never
\* asserts two different acceptances.
OneAcceptance == row.signedName # None => row.acceptedBy = row.signedName

\* "accepted by the client and can no longer be edited" (save).
AcceptedNotEdited == [][row.status = "ACCEPTED" => row'.text = row.text]_vars

\* A client accepts terms that were issued, under the link they came with.
AcceptedWasIssued == row.status = "ACCEPTED" => row.issued /\ row.token # 0
===============================================================================
