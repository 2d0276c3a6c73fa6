--------------------------- MODULE SignInThrottle ---------------------------
(***************************************************************************)
(* The count of failed sign-ins of one address (auth/password.ts), kept in *)
(* a row that several processes of the server share.                       *)
(*                                                                         *)
(* recordFailure is one transaction of three statements at READ COMMITTED: *)
(* between them others may run, but a row it has written is locked until   *)
(* it commits.                                                             *)
(***************************************************************************)
EXTENDS Integers

CONSTANTS
    Process,     \* requests in flight
    MAX_FAILURES,
    LOCK,        \* how long an account stays locked
    MaxNow       \* bound on time

VARIABLES
    now,         \* time
    row,         \* the AuthThrottle row; count 0 and until 0 when there is none
    owner,       \* who has it locked, if anybody
    call,        \* what each request is doing, and what time it read
    failed       \* failures since the last success, or the last lock that ended

vars == <<now, row, owner, call, failed>>

NoRow == [count |-> 0, until |-> 0]
Idle == [at |-> "idle", now |-> 0]
NoOwner == "nobody"

Init == now = 1 /\ row = NoRow /\ owner = NoOwner /\ call = [p \in Process |-> Idle] /\ failed = 0

Tick == now < MaxNow /\ now' = now + 1 /\ UNCHANGED <<row, owner, call, failed>>

MayWrite(p) == owner \in {NoOwner, p}
Goes(p, at) == call' = [call EXCEPT ![p].at = at]

\* checkLockout, before the password is looked at.
checkLockout(p) ==
    /\ call[p] = Idle
    /\ row.until <= now
    /\ Goes(p, "allowed")
    /\ UNCHANGED <<now, row, owner, failed>>

\* recordSuccess
recordSuccess(p) ==
    /\ call[p].at = "allowed" /\ MayWrite(p)
    /\ row' = NoRow /\ failed' = 0
    /\ call' = [call EXCEPT ![p] = Idle]
    /\ UNCHANGED <<now, owner>>

\* recordFailure
recordFailure(p) ==
    /\ call[p].at = "allowed"
    /\ call' = [call EXCEPT ![p] = [at |-> "expire", now |-> now]]
    /\ UNCHANGED <<now, row, owner, failed>>

\* As if it asked only whether there was a lock.
Locked(t) == row.until # 0

\* A lock that has ended by the time it read.
Ended(t) == row.until # 0 /\ row.until <= t

ExpireLock(p) ==
    /\ call[p].at = "expire" /\ MayWrite(p)
    /\ IF Ended(call[p].now)
       THEN row' = NoRow /\ failed' = 0 /\ owner' = p
       ELSE UNCHANGED <<row, failed, owner>>
    /\ Goes(p, "count") /\ UNCHANGED now

CountFailure(p) ==
    /\ call[p].at = "count" /\ MayWrite(p)
    /\ row' = [row EXCEPT !.count = @ + 1] /\ failed' = failed + 1
    /\ owner' = p /\ Goes(p, "lock") /\ UNCHANGED now

LockAccount(p) ==
    /\ call[p].at = "lock"
    /\ row' = [row EXCEPT !.until = IF row.count >= MAX_FAILURES /\ @ = 0 THEN call[p].now + LOCK ELSE @]
    /\ owner' = NoOwner /\ call' = [call EXCEPT ![p] = Idle]
    /\ UNCHANGED <<now, failed>>

\* A crash undoes the transaction, and here it had not written.
Crash(p) ==
    /\ call[p] # Idle /\ owner # p
    /\ call' = [call EXCEPT ![p] = Idle]
    /\ UNCHANGED <<now, row, owner, failed>>

Next ==
    \/ Tick
    \/ \E p \in Process :
         \/ checkLockout(p) \/ recordSuccess(p) \/ recordFailure(p)
         \/ ExpireLock(p) \/ CountFailure(p) \/ LockAccount(p) \/ Crash(p)

Spec == Init /\ [][Next]_vars

-----------------------------------------------------------------------------
(* Properties                                                               *)

\* However the failures of an address overlap, at the moment a lock ends too: each is counted once, the one
\* that reaches the limit locks the address, and a lock stands for its time unless somebody signs in.
Tells ==
    /\ row'.count = failed'
    /\ owner' = NoOwner /\ row'.count >= MAX_FAILURES => row'.until # 0
    /\ \A p \in Process : ExpireLock(p) /\ row.until > now => UNCHANGED row
FailuresTell == [][Tells]_vars

-----------------------------------------------------------------------------
(* The inductive invariant.                                                 *)

TypeOK ==
    /\ now \in Nat /\ failed \in Nat /\ row \in [count : Nat, until : Nat] /\ owner \in Process \cup {NoOwner}
    /\ call \in [Process -> [at : {"idle", "allowed", "expire", "count", "lock"}, now : Nat]]

\* Who has locked the row is between its writes; times were read before now.
OwnerWrites == \A p \in Process :
    /\ owner = p => call[p].at \in {"count", "lock"}
    /\ call[p].at = "lock" => owner = p
    /\ call[p].now <= now /\ (call[p].at \in {"expire", "count", "lock"} => call[p].now > 0)

\* The row counts the failures, and locks when nobody is writing it.
RowTells == row.count = failed /\ (owner = NoOwner /\ row.count >= MAX_FAILURES => row.until # 0)

IInv == TypeOK /\ now > 0 /\ OwnerWrites /\ RowTells
=============================================================================
