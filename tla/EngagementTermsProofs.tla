------------------------- MODULE EngagementTermsProofs -------------------------
(***************************************************************************)
(* A signature on the terms stands, alone, until they are issued again or   *)
(* withdrawn; a dead link stays dead; and a save replaces only what its     *)
(* screen held or what was written while it was in flight: for any number   *)
(* of requests, names, links and writes, in any order.                      *)
(***************************************************************************)
EXTENDS EngagementTerms, TLAPS

\* A signature is an acceptance; tokens are numbered; the draft is part of the row.
RowInv ==
    /\ row.signedName # None => row.status = "ACCEPTED"
    /\ row.token <= issues
    /\ row.text <= row.stamp
    /\ row.status = "NONE" => row.text = 0
    /\ period <= row.stamp

\* What the trail says of the current period is on the row.
TrailInv ==
    \A e \in trail : e.period <= period /\ (e.period = period => row.signedName # None)

\* A signature written and not yet recorded is the only one of its period.
Recording(c) == At(c, "record")
PendingInv ==
    /\ \A c \in Caller : Recording(c) =>
        /\ proc[c].period <= period
        /\ proc[c].period = period => row.signedName # None
        /\ \A e \in trail : e.period # proc[c].period
    /\ \A c, d \in Caller : Recording(c) /\ Recording(d) /\ c # d => proc[c].period # proc[d].period

\* A save in flight compared its screen with the row it read.
SaveInv ==
    \A c \in Caller :
        /\ form[c] <= row.stamp
        /\ At(c, "save") /\ ~proc[c].created => There /\ form[c] = proc[c].since

(* One period has one signature because the write that takes the row out of   *)
(* the signable state is the one that records it, and only a new period puts  *)
(* it back.                                                                   *)
IInv ==
    /\ TypeOK /\ OneSignature
    /\ RowInv /\ TrailInv /\ PendingInv /\ SaveInv

-------------------------------------------------------------------------------

LEMMA IdleType == Idle \in Request /\ Idle.at = "idle"
<1>1. AnyName \in Name
    BY EngagementAssumption DEF AnyName
<1>2. 0 \in Stamp
    BY EngagementAssumption DEF Stamp
<1> QED BY <1>1, <1>2 DEF Idle, Request

LEMMA InitIInv == Init => IInv
<1> SUFFICES ASSUME Init PROVE IInv
    OBVIOUS
<1>1. NoTerms \in Terms
    BY EngagementAssumption DEF NoTerms, Terms, Status, Stamp
<1>2. TypeOK
    BY <1>1, IdleType, EngagementAssumption DEF Init, TypeOK, Stamp
<1>3. RowInv
    BY DEF Init, RowInv, NoTerms
<1>4. PendingInv /\ SaveInv
    BY IdleType DEF Init, PendingInv, SaveInv, Recording, At, NoTerms
<1> QED BY <1>2, <1>3, <1>4 DEF IInv, OneSignature, TrailInv, Init

(* A request that starts or ends without writing.                             *)
LEMMA RequestPreserves ==
    ASSUME IInv, NEW c \in Caller, NEW r \in Request, Go(c, r),
           UNCHANGED <<row, form, issues, period, trail>>,
           r.at # "record", r.at = "save" /\ ~r.created => There /\ form[c] = r.since
    PROVE  IInv'
<1>1. TypeOK'
    BY DEF IInv, TypeOK, Go
<1>2. \A d \in Caller : proc'[d] = IF d = c THEN r ELSE proc[d]
    BY DEF IInv, TypeOK, Go
<1>3. PendingInv'
    BY <1>2 DEF IInv, PendingInv, Recording, At
<1>4. SaveInv'
    BY <1>2 DEF IInv, SaveInv, At, There
<1> QED BY <1>1, <1>3, <1>4 DEF IInv, OneSignature, RowInv, TrailInv

LEMMA FinishPreserves ==
    ASSUME IInv, NEW c \in Caller, Finish(c), UNCHANGED <<row, form, issues, period, trail>>
    PROVE  IInv'
BY RequestPreserves, IdleType DEF Finish

LEMMA AskPreserves ==
    ASSUME IInv, NEW c \in Caller, Ask(c) PROVE IInv'
<1>1. CASE Get(c)
    <2>1. TypeOK'
        BY <1>1 DEF IInv, TypeOK, Get, Terms
    <2>2. SaveInv'
        BY <1>1 DEF IInv, SaveInv, TypeOK, Get, At, There, Terms, Stamp
    <2> QED BY <1>1, <2>1, <2>2
        DEF IInv, OneSignature, RowInv, TrailInv, PendingInv, Recording, At, Get
<1>2. CASE Save(c)
    <2> DEFINE r == [Idle EXCEPT !.at = "save", !.created = ~There, !.since = row.stamp]
    <2>1. r \in Request /\ r.at = "save" /\ r.created = ~There /\ r.since = row.stamp
        BY IdleType DEF IInv, TypeOK, Terms, Request, There, Idle
    <2>2. ~r.created => form[c] = r.since
        BY <1>2, <2>1 DEF Save, Unchanged
    <2>3. Go(c, r) /\ UNCHANGED <<row, form, issues, period, trail>>
        BY <1>2 DEF Save, Begin
    <2> HIDE DEF r
    <2> QED BY <2>1, <2>2, <2>3, RequestPreserves
<1>3. CASE Issue(c) \/ RevokeLink(c) \/ Withdraw(c)
    <2>1. PICK s \in {"issue", "revoke", "withdraw"} : Begin(c, [Idle EXCEPT !.at = s])
        BY <1>3 DEF Issue, RevokeLink, Withdraw
    <2>2. [Idle EXCEPT !.at = s] \in Request /\ [Idle EXCEPT !.at = s].at = s
        BY IdleType DEF Request, Idle
    <2> QED BY <2>1, <2>2, RequestPreserves DEF Begin
<1>4. CASE \E n \in Name : Accept(c, n) \/ Sign(c, n)
    <2>1. PICK n \in Name, s \in {"accept", "sign"} : Begin(c, [Idle EXCEPT !.at = s, !.name = n])
        BY <1>4 DEF Accept, Sign
    <2>2. /\ [Idle EXCEPT !.at = s, !.name = n] \in Request
          /\ [Idle EXCEPT !.at = s, !.name = n].at = s
        BY IdleType DEF Request, Idle
    <2> QED BY <2>1, <2>2, RequestPreserves DEF Begin
<1> QED BY <1>1, <1>2, <1>3, <1>4 DEF Ask

(* A write that keeps the period keeps a signature; one that starts another   *)
(* clears it; and in both the request is over.                                *)
LEMMA WritePreserves ==
    ASSUME IInv, NEW c \in Caller, ~Recording(c), Finish(c), UNCHANGED trail,
           There => There', row' \in Terms, row'.stamp = row.stamp + 1, issues' \in 0..Issues, RowInv',
           form' \in [Caller -> Stamp], \A d \in Caller : form'[d] = form[d] \/ form'[d] = row'.stamp,
           \A d \in Caller : d # c => form'[d] = form[d],
           \/ period' = period /\ (row.signedName # None => row'.signedName # None)
           \/ period' = period + 1
    PROVE  IInv'
<1>1. row.stamp \in Nat /\ period \in Nat /\ period' \in Stamp
    BY EngagementAssumption DEF IInv, TypeOK, Terms, Stamp, RowInv
<1>2. \A d \in Caller : proc'[d] = IF d = c THEN Idle ELSE proc[d]
    BY DEF IInv, TypeOK, Finish, Go
<1>3. TypeOK'
    BY <1>1, IdleType DEF IInv, TypeOK, Finish, Go
<1>4. \A e \in trail : e.period \in Nat
    BY EngagementAssumption DEF IInv, TypeOK, Stamp
<1>5. TrailInv'
    BY <1>1, <1>4 DEF IInv, TrailInv
<1>6. \A d \in Caller : proc[d].period \in Nat /\ form[d] \in Nat
    BY EngagementAssumption DEF IInv, TypeOK, Request, Stamp
<1>7. PendingInv'
    BY <1>1, <1>2, <1>6, IdleType DEF IInv, PendingInv, Recording, At
<1>8. SaveInv'
    BY <1>1, <1>2, <1>6, IdleType DEF IInv, SaveInv, At
<1> QED BY <1>3, <1>5, <1>7, <1>8 DEF IInv, OneSignature

LEMMA Stamped ==
    ASSUME IInv, CanWrite
    PROVE  /\ row.stamp \in Nat /\ row.stamp + 1 \in Stamp /\ row \in Terms
           /\ period \in Nat /\ row.text \in Nat /\ issues \in Nat /\ row.token \in Nat
BY EngagementAssumption DEF IInv, TypeOK, Terms, Stamp, CanWrite

LEMMA WriteSavePreserves ==
    ASSUME IInv, NEW c \in Caller, WriteSave(c) PROVE IInv'
<1>1. CASE proc[c].created /\ There
    BY <1>1, FinishPreserves DEF WriteSave
<1>2. CASE ~(proc[c].created /\ There)
    <2> DEFINE st == IF proc[c].created THEN "DRAFT" ELSE row.status
    <2>1. /\ CanWrite
          /\ Write([row EXCEPT !.text = row.stamp + 1, !.status = st])
          /\ form' = [form EXCEPT ![c] = row.stamp + 1]
          /\ UNCHANGED <<issues, period, trail>> /\ Finish(c)
        BY <1>2 DEF WriteSave
    <2>2. st \in Status /\ (row.signedName # None => st = row.status)
        <3>1. proc[c].created => row.status = "NONE"
            BY <1>2 DEF There
        <3> QED BY <3>1 DEF IInv, TypeOK, Terms, Status, RowInv
    <2>3. st # "NONE"
        <3>1. CASE proc[c].created
            BY <3>1
        <3>2. CASE ~proc[c].created
            BY <3>2 DEF WriteSave, IInv, SaveInv, There
        <3> QED BY <3>1, <3>2
    <2> HIDE DEF st
    <2>4. /\ row' \in Terms /\ row'.stamp = row.stamp + 1 /\ row'.text = row.stamp + 1
          /\ row'.status = st /\ row'.signedName = row.signedName /\ row'.token = row.token
        BY <2>1, <2>2, Stamped DEF Write, Terms
    <2>5. RowInv'
        BY <2>1, <2>2, <2>3, <2>4, Stamped DEF IInv, RowInv
    <2>6. form' \in [Caller -> Stamp] /\ form'[c] = row.stamp + 1 /\ \A d \in Caller : d # c => form'[d] = form[d]
        BY <2>1, Stamped DEF IInv, TypeOK
    <2>7. issues' \in 0..Issues /\ ~Recording(c) /\ There'
        BY <2>1, <2>3, <2>4 DEF IInv, TypeOK, WriteSave, Recording, At, There
    <2> QED BY <2>1, <2>4, <2>5, <2>6, <2>7, WritePreserves
<1> QED BY <1>1, <1>2

\* issue, revokeLink, accept and withdraw: the row is read again by nobody.
LEMMA FirmWritePreserves ==
    ASSUME IInv, NEW c \in Caller,
           WriteIssue(c) \/ WriteRevoke(c) \/ WriteAccept(c) \/ WriteWithdraw(c)
    PROVE  IInv'
<1>1. CanWrite /\ Finish(c) /\ UNCHANGED <<form, trail>> /\ ~Recording(c)
    BY DEF WriteIssue, WriteRevoke, WriteAccept, WriteWithdraw, Recording, At
<1>2. /\ row' \in Terms /\ row'.stamp = row.stamp + 1 /\ row'.text = row.text
      /\ RowInv' /\ (There => There') /\ issues' \in 0..Issues
      /\ \/ period' = period /\ (row.signedName # None => row'.signedName # None)
         \/ period' = period + 1
    <2>1. CASE WriteIssue(c)
        <3>1. issues + 1 \in 0..Issues
            BY <1>1, <2>1, Stamped, EngagementAssumption DEF WriteIssue
        <3>2. /\ row' \in Terms /\ row'.stamp = row.stamp + 1 /\ row'.text = row.text
              /\ row'.status = "ISSUED" /\ row'.token = issues + 1 /\ row'.signedName = None
            BY <1>1, <2>1, <3>1, Stamped DEF WriteIssue, Write, FreshToken, Terms, Status
        <3>3. issues' = issues + 1 /\ period' = period + 1
            BY <2>1 DEF WriteIssue
        <3> QED BY <1>1, <3>1, <3>2, <3>3, Stamped DEF RowInv, There, IInv
    <2>2. CASE WriteRevoke(c)
        <3>1. /\ row' \in Terms /\ row'.stamp = row.stamp + 1 /\ row'.text = row.text
              /\ row'.status = row.status /\ row'.token = row.token
              /\ row'.signedName = row.signedName
            BY <1>1, <2>2, Stamped DEF WriteRevoke, Write, Terms
        <3>2. issues' = issues /\ period' = period
            BY <2>2 DEF WriteRevoke
        <3> QED BY <1>1, <3>1, <3>2, Stamped DEF RowInv, There, IInv, TypeOK
    <2>3. CASE WriteAccept(c)
        <3>1. proc[c].name \in Name
            BY DEF IInv, TypeOK, Request
        <3>2. /\ row' \in Terms /\ row'.stamp = row.stamp + 1 /\ row'.text = row.text
              /\ row'.status = "ACCEPTED" /\ row'.token = row.token
              /\ row'.signedName = row.signedName
            BY <1>1, <2>3, <3>1, Stamped DEF WriteAccept, Write, Terms, Status
        <3>3. issues' = issues /\ period' = period
            BY <2>3 DEF WriteAccept
        <3>4. row.status # "NONE" \/ row.text = 0
            BY DEF IInv, RowInv
        <3> QED BY <1>1, <3>2, <3>3, <3>4, Stamped DEF RowInv, There, IInv, TypeOK
    <2>4. CASE WriteWithdraw(c)
        <3>1. /\ row' \in Terms /\ row'.stamp = row.stamp + 1 /\ row'.text = row.text
              /\ row'.status = "DRAFT" /\ row'.token = 0 /\ row'.signedName = None
            <4>1. 0 \in 0..Issues /\ "DRAFT" \in Status /\ FALSE \in BOOLEAN
                BY EngagementAssumption DEF Status
            <4>2. row' = [Withdrawn EXCEPT !.stamp = row.stamp + 1]
                BY <2>4 DEF WriteWithdraw, Write
            <4>3. Withdrawn \in Terms /\ Withdrawn.text = row.text /\ Withdrawn.status = "DRAFT"
                  /\ Withdrawn.token = 0 /\ Withdrawn.signedName = None
                BY <4>1, <1>1, Stamped DEF Withdrawn, Terms
            <4> QED BY <4>2, <4>3, <1>1, Stamped DEF Terms
        <3>2. issues' = issues /\ period' = period + 1
            BY <2>4 DEF WriteWithdraw
        <3> QED BY <1>1, <3>1, <3>2, Stamped DEF RowInv, There, IInv, TypeOK
    <2> QED BY <2>1, <2>2, <2>3, <2>4
<1>3. form' \in [Caller -> Stamp] /\ \A d \in Caller : form'[d] = form[d]
    BY <1>1 DEF IInv, TypeOK
<1> QED BY <1>1, <1>2, <1>3, WritePreserves

LEMMA WriteSignPreserves ==
    ASSUME IInv, NEW c \in Caller, WriteSign(c) PROVE IInv'
<1>1. CASE ~Signable
    BY <1>1, FinishPreserves DEF WriteSign
<1>2. CASE Signable
    <2> DEFINE r == [proc[c] EXCEPT !.at = "record", !.period = period]
    <2>1. /\ CanWrite /\ Go(c, r) /\ UNCHANGED <<form, issues, period, trail>>
          /\ Write([row EXCEPT !.status = "ACCEPTED", !.acceptedBy = proc[c].name,
                      !.signedName = proc[c].name])
        BY <1>2 DEF WriteSign
    <2>2. r \in Request /\ r.at = "record" /\ r.period = period
        BY DEF IInv, TypeOK, Request
    <2> HIDE DEF r
    <2>3. proc[c].name \in Name /\ proc[c].name # None
        BY EngagementAssumption DEF IInv, TypeOK, Request
    <2>4. /\ row' \in Terms /\ row'.stamp = row.stamp + 1 /\ row'.text = row.text
          /\ row'.status = "ACCEPTED" /\ row'.signedName # None /\ row'.token = row.token
        BY <2>1, <2>3, Stamped DEF Write, Terms, Status
    <2>5. row.signedName = None
        BY <1>2 DEF Signable, IInv, RowInv
    <2>6. TypeOK' /\ \A d \in Caller : proc'[d] = IF d = c THEN r ELSE proc[d]
        BY <2>1, <2>2, <2>4 DEF IInv, TypeOK, Go
    <2>7. RowInv' /\ TrailInv'
        BY <2>1, <2>4, Stamped DEF IInv, RowInv, TrailInv
    <2>8. PendingInv'
        BY <2>1, <2>2, <2>4, <2>5, <2>6, Stamped DEF IInv, PendingInv, TrailInv, Recording, At
    <2>9. \A d \in Caller : form[d] \in Nat
        BY EngagementAssumption DEF IInv, TypeOK, Stamp
    <2>10. SaveInv'
        BY <2>1, <2>2, <2>4, <2>6, <2>9, Stamped DEF IInv, SaveInv, At, There
    <2> QED BY <2>1, <2>6, <2>7, <2>8, <2>10 DEF IInv, OneSignature
<1> QED BY <1>1, <1>2

LEMMA RecordPreserves ==
    ASSUME IInv, NEW c \in Caller, RecordSignature(c) PROVE IInv'
<1> DEFINE e == [by |-> c, period |-> proc[c].period]
<1>1. /\ Recording(c) /\ trail' = trail \cup {e} /\ e.period = proc[c].period
      /\ Finish(c) /\ UNCHANGED <<row, form, issues, period>>
    BY DEF RecordSignature, Recording
<1>2. TypeOK' /\ \A d \in Caller : proc'[d] = IF d = c THEN Idle ELSE proc[d]
    BY <1>1, IdleType DEF IInv, TypeOK, Finish, Go, Request
<1> HIDE DEF e
<1>3. OneSignature' /\ TrailInv'
    BY <1>1 DEF IInv, OneSignature, PendingInv, TrailInv
<1>4. PendingInv'
    BY <1>1, <1>2, IdleType DEF IInv, PendingInv, Recording, At
<1>5. SaveInv'
    BY <1>1, <1>2, IdleType DEF IInv, SaveInv, At, There
<1> QED BY <1>1, <1>2, <1>3, <1>4, <1>5 DEF IInv, RowInv

LEMMA ExpiryPreserves ==
    ASSUME IInv, LinkExpires PROVE IInv'
<1>1. /\ row' \in Terms /\ row'.stamp = row.stamp /\ row'.text = row.text
      /\ row'.status = row.status /\ row'.signedName = row.signedName /\ row'.token = row.token
    BY DEF LinkExpires, IInv, TypeOK, Terms
<1> QED BY <1>1 DEF LinkExpires, IInv, TypeOK, OneSignature, RowInv, TrailInv, PendingInv,
                    Recording, SaveInv, At, There

LEMMA NextPreserves == IInv /\ [Next]_vars => IInv'
<1> SUFFICES ASSUME IInv, [Next]_vars PROVE IInv'
    OBVIOUS
<1>1. CASE UNCHANGED vars
    BY <1>1 DEF vars, IInv, TypeOK, OneSignature, RowInv, TrailInv, PendingInv, Recording,
                SaveInv, At, There
<1>2. CASE LinkExpires
    BY <1>2, ExpiryPreserves
<1>3. CASE \E c \in Caller : Ask(c) \/ Answer(c) \/ Fail(c)
    <2> PICK c \in Caller : Ask(c) \/ Answer(c) \/ Fail(c)
        BY <1>3
    <2>1. CASE Fail(c)
        BY <2>1, FinishPreserves DEF Fail
    <2>2. CASE Answer(c)
        BY <2>2, WriteSavePreserves, FirmWritePreserves, WriteSignPreserves, RecordPreserves DEF Answer
    <2> QED BY <2>1, <2>2, AskPreserves
<1> QED BY <1>1, <1>2, <1>3 DEF Next

(* The inductive invariant of the signing protocol holds of every behaviour.  *)
THEOREM Invariant == Spec => []IInv
<1>1. Init => IInv
    BY InitIInv
<1>2. IInv /\ [Next]_vars => IInv'
    BY NextPreserves
<1> QED BY <1>1, <1>2, PTL DEF Spec

(* Every reachable state of the row, the screens and the requests is typed.   *)
THEOREM Typed == Spec => []TypeOK
<1>1. IInv => TypeOK
    BY DEF IInv
<1> QED BY <1>1, Invariant, PTL

(* However many requests sign, the trail tells of one signature for each time *)
(* the terms were put back to being signable.                                 *)
THEOREM SignedOnce == Spec => []OneSignature
<1>1. IInv => OneSignature
    BY DEF IInv
<1> QED BY <1>1, Invariant, PTL

\* What one step may do to a signature, to a dead link and to the text.
SignatureStep ==
    row.signedName # None /\ row'.signedName # row.signedName =>
        row'.signedName = None /\ row'.status \in {"ISSUED", "DRAFT"} /\ period' = period + 1
LinkStep == row.token # 0 /\ row.expired /\ row'.token = row.token => row'.expired
TextStep ==
    row'.text # row.text =>
        \E c \in Caller : At(c, "save") /\ (row.text <= form[c] \/ row.text > proc[c].since)

LEMMA WriteSteps ==
    ASSUME IInv, NEW c \in Caller, Answer(c) PROVE SignatureStep /\ LinkStep /\ TextStep
<1>1. row \in Terms /\ row.token \in Nat /\ issues \in Nat /\ row.token <= issues
    BY DEF IInv, TypeOK, Terms, RowInv
<1>2. CASE WriteSave(c)
    <2>1. row'.signedName = row.signedName /\ row'.expired = row.expired
        BY <1>1, <1>2 DEF WriteSave, Write, Terms
    <2>2. CASE UNCHANGED row
        BY <2>1, <2>2 DEF SignatureStep, LinkStep, TextStep
    <2>3. CASE ~(proc[c].created /\ There)
        <3>1. row.text \in Nat /\ form[c] \in Nat /\ proc[c].since \in Nat
            BY EngagementAssumption DEF IInv, TypeOK, Terms, Request, Stamp
        <3>2. row.text <= form[c] \/ row.text > proc[c].since
            BY <1>2, <2>3, <3>1 DEF WriteSave, IInv, SaveInv, RowInv, There
        <3> QED BY <1>2, <2>1, <3>2 DEF WriteSave, SignatureStep, LinkStep, TextStep
    <2> QED BY <1>2, <2>2, <2>3 DEF WriteSave
<1>3. CASE WriteIssue(c)
    BY <1>1, <1>3 DEF WriteIssue, Write, FreshToken, Terms, SignatureStep, LinkStep, TextStep
<1>4. CASE WriteRevoke(c)
    BY <1>1, <1>4 DEF WriteRevoke, Write, Terms, SignatureStep, LinkStep, TextStep
<1>5. CASE WriteAccept(c)
    BY <1>1, <1>5 DEF WriteAccept, Write, Terms, SignatureStep, LinkStep, TextStep
<1>6. CASE WriteSign(c)
    BY <1>1, <1>6 DEF WriteSign, Write, Signable, IInv, RowInv, Terms, SignatureStep, LinkStep, TextStep
<1>7. CASE RecordSignature(c)
    BY <1>7 DEF RecordSignature, SignatureStep, LinkStep, TextStep
<1>8. CASE WriteWithdraw(c)
    BY <1>1, <1>8 DEF WriteWithdraw, Write, Withdrawn, Terms, SignatureStep, LinkStep, TextStep
<1> QED BY <1>2, <1>3, <1>4, <1>5, <1>6, <1>7, <1>8 DEF Answer

LEMMA NextSteps == IInv /\ [Next]_vars => SignatureStep /\ LinkStep /\ TextStep
<1> SUFFICES ASSUME IInv, [Next]_vars PROVE SignatureStep /\ LinkStep /\ TextStep
    OBVIOUS
<1>1. CASE LinkExpires
    BY <1>1 DEF LinkExpires, IInv, TypeOK, Terms, SignatureStep, LinkStep, TextStep
<1>2. CASE UNCHANGED row
    BY <1>2 DEF SignatureStep, LinkStep, TextStep
<1>3. CASE \E c \in Caller : Ask(c) \/ Fail(c)
    BY <1>2, <1>3 DEF Ask, Get, Save, Issue, RevokeLink, Withdraw, Accept, Sign, Begin, Fail
<1>4. CASE \E c \in Caller : Answer(c)
    BY <1>4, WriteSteps
<1> QED BY <1>1, <1>2, <1>3, <1>4 DEF Next, vars

(* Nothing but a new issue or a withdrawal takes a signature off the terms.   *)
THEOREM SignatureOutlivesAccept == Spec => SignatureStands
<1>1. IInv /\ [Next]_vars => [SignatureStep]_vars
    BY NextSteps
<1> QED BY <1>1, Invariant, PTL DEF Spec, SignatureStands, SignatureStep

(* An expired or revoked signing link never works again.                      *)
THEOREM DeadLinks == Spec => DeadLinkStaysDead
<1>1. IInv /\ [Next]_vars => [LinkStep]_vars
    BY NextSteps
<1> QED BY <1>1, Invariant, PTL DEF Spec, DeadLinkStaysDead, LinkStep

(* A save never replaces text saved before it was sent and never seen.        *)
THEOREM SavesWhatItSaw == Spec => ReplacesOnlyWhatItSaw
<1>1. IInv /\ [Next]_vars => [TextStep]_vars
    BY NextSteps
<1> QED BY <1>1, Invariant, PTL DEF Spec, ReplacesOnlyWhatItSaw, TextStep
===============================================================================
