------------------------------- MODULE FileErasure -------------------------------
(***************************************************************************)
(* The bytes of uploaded files: stored by the upload routes (uploads.ts),   *)
(* owned by documents, photos and logos, named in the UploadErasure outbox  *)
(* by the deletion of a workspace (org-delete.ts) or a refused upload, and   *)
(* removed from disk by the drain (upload-erasure.ts).                      *)
(*                                                                          *)
(* An upload commits and a workspace is deleted in transactions that lock   *)
(* the Organisation row, so each is one step. Every other call is a step of *)
(* its own. The backoff of a failed removal is a time that passes.          *)
(***************************************************************************)
EXTENDS Integers, FiniteSets

CONSTANTS
    Org, File,
    Legacy,         \* references older than the outbox: [org, file, kind]
    Malformed,      \* files of Legacy whose url names no path on this disk
    Uploader,       \* upload requests in flight
    Worker,         \* processes with a drain of their own
    None,
    MaxFaults       \* bound on removals and queries that fail, and on deaths

Kind == {"document", "photo", "logo"}
Reference == [org : Org, file : File, kind : Kind]

ASSUME ErasureAssumption ==
    /\ Legacy \subseteq Reference
    /\ \A r, s \in Legacy : r.org = s.org /\ r.kind = "logo" /\ s.kind = "logo" => r = s
    /\ Malformed \subseteq {r.file : r \in Legacy}
    /\ MaxFaults \in Nat
    /\ None \notin Org \cup File

VARIABLES
    orgs,       \* the workspaces there are
    refs,       \* rows that hold the url of a file
    disk,       \* files with bytes
    named,      \* files ever named: a randomUUID is never repeated
    jobs,       \* the outbox entry of each file: none, due, or due later
    up,         \* the locals of each upload
    drain,      \* the locals of each drain
    lost,       \* files left on disk with nobody to answer for them
    faults

vars == <<orgs, refs, disk, named, jobs, up, drain, lost, faults>>

Upload == [at : {"idle", "stream", "stored", "discard", "enqueue"},
           org : Org \cup {None}, file : File \cup {None}, kind : Kind]
Pass == [at : {"idle", "next", "shared", "remove", "ack", "backoff"},
         batch : SUBSET File, file : File \cup {None}]

TypeOK ==
    /\ orgs \subseteq Org
    /\ refs \subseteq Reference
    /\ disk \subseteq File /\ named \subseteq File /\ lost \subseteq File
    /\ jobs \in [File -> {"none", "due", "later"}]
    /\ up \in [Uploader -> Upload]
    /\ drain \in [Worker -> Pass]
    /\ faults \in 0..MaxFaults

Resting == [at |-> "idle", org |-> None, file |-> None, kind |-> "document"]
Asleep == [at |-> "idle", batch |-> {}, file |-> None]
LegacyFiles == {r.file : r \in Legacy}

Init ==
    /\ orgs = Org
    /\ refs = Legacy
    /\ disk = LegacyFiles \ Malformed
    /\ named = LegacyFiles
    /\ jobs = [f \in File |-> "none"]
    /\ up = [u \in Uploader |-> Resting]
    /\ drain = [w \in Worker |-> Asleep]
    /\ lost = {} /\ faults = 0

Referenced == {r.file : r \in refs}
Queued == {f \in File : jobs[f] # "none"}
Fault == faults < MaxFaults /\ faults' = faults + 1

(***************************************************************************)
(* POST /uploads/document, /photo and /logo                                 *)
(***************************************************************************)
UpAt(u, step) == up[u].at = step
UpGo(u, upload) == up' = [up EXCEPT ![u] = upload]
UpStep(u, step) == UpGo(u, [up[u] EXCEPT !.at = step])

\* internalWriter; then the stream opens the file.
Store(u, o, k) ==
    /\ UpAt(u, "idle") /\ o \in orgs
    /\ \E f \in File \ named :
        /\ UpGo(u, [at |-> "stream", org |-> o, file |-> f, kind |-> k])
        /\ named' = named \cup {f} /\ disk' = disk \cup {f}
    /\ UNCHANGED <<orgs, refs, jobs, drain, lost, faults>>

Stored(u) ==
    /\ UpAt(u, "stream") /\ UpStep(u, "stored")
    /\ UNCHANGED <<orgs, refs, disk, named, jobs, drain, lost, faults>>

\* A stream that breaks or is cut unlinks what it wrote, if it can.
StreamFails(u) ==
    /\ UpAt(u, "stream") /\ UpGo(u, Resting)
    /\ \/ disk' = disk \ {up[u].file} /\ UNCHANGED <<lost, faults>>
       \/ Fault /\ lost' = lost \cup {up[u].file} /\ UNCHANGED disk
    /\ UNCHANGED <<orgs, refs, named, jobs, drain>>

\* What the row of a commit replaces: a workspace has one logo.
Replaced(u) == {r \in refs : up[u].kind = "logo" /\ r.kind = "logo" /\ r.org = up[u].org}

\* lockUploadOwner.  (OwnerAtStart: as if the check before the stream were enough.)
OwnerAtStart(u) == TRUE
OwnerThere(u) == up[u].org \in orgs

Commit(u) ==
    /\ UpAt(u, "stored")
    /\ IF OwnerThere(u)
       THEN /\ refs' = (refs \ Replaced(u))
                 \cup {[org |-> up[u].org, file |-> up[u].file, kind |-> up[u].kind]}
            /\ lost' = lost \cup {r.file : r \in Replaced(u)}
            /\ UpGo(u, Resting)
       ELSE UpStep(u, "discard") /\ UNCHANGED <<refs, lost>>
    /\ UNCHANGED <<orgs, disk, named, jobs, drain, faults>>

\* refuse: an unlink whose failure is swallowed, before the finally that discards.
Refuse(u) ==
    /\ UpAt(u, "stored") /\ UpStep(u, "discard")
    /\ \/ disk' = disk \ {up[u].file} /\ UNCHANGED faults
       \/ Fault /\ UNCHANGED disk
    /\ UNCHANGED <<orgs, refs, named, jobs, drain, lost>>

\* A query of the route throws.
RouteThrows(u) ==
    /\ UpAt(u, "stored") /\ UpStep(u, "discard") /\ Fault
    /\ UNCHANGED <<orgs, refs, disk, named, jobs, drain, lost>>

Discard(u) ==
    /\ UpAt(u, "discard")
    /\ \/ disk' = disk \ {up[u].file} /\ UpGo(u, Resting) /\ UNCHANGED faults
       \/ up[u].file \in disk /\ Fault /\ UpStep(u, "enqueue") /\ UNCHANGED disk
    /\ UNCHANGED <<orgs, refs, named, jobs, drain, lost>>

Enqueue(u) ==
    /\ UpAt(u, "enqueue") /\ UpGo(u, Resting)
    /\ jobs' = [jobs EXCEPT ![up[u].file] = IF @ = "none" THEN "due" ELSE @]
    /\ UNCHANGED <<orgs, refs, disk, named, drain, lost, faults>>

\* The process dies under an upload, or its last query throws.
UploadDies(u) ==
    /\ ~UpAt(u, "idle") /\ Fault /\ UpGo(u, Resting)
    /\ lost' = lost \cup {up[u].file}
    /\ UNCHANGED <<orgs, refs, disk, named, jobs, drain>>

(***************************************************************************)
(* photos.remove, org.clearLogo and org.deleteWorkspace                     *)
(***************************************************************************)
Drop(r) ==
    /\ refs' = refs \ {r} /\ lost' = lost \cup {r.file}
    /\ UNCHANGED <<orgs, disk, named, jobs, up, drain, faults>>

RemovePhoto == \E r \in refs : r.kind = "photo" /\ Drop(r)
ClearLogo == \E r \in refs : r.kind = "logo" /\ Drop(r)

\* The outbox is written from the rows the same transaction deletes.
\* (DocumentsOnly: as if photos and logos were not files.)
DocumentsOnly(o) == {r.file : r \in {s \in refs : s.org = o /\ s.kind = "document"}}
Snapshot(o) == {r.file : r \in {s \in refs : s.org = o}}

DeleteWorkspace(o) ==
    /\ o \in orgs
    /\ orgs' = orgs \ {o}
    /\ jobs' = [f \in File |-> IF f \in Snapshot(o) /\ jobs[f] = "none" THEN "due" ELSE jobs[f]]
    /\ refs' = {r \in refs : r.org # o}
    /\ UNCHANGED <<disk, named, up, drain, lost, faults>>

(***************************************************************************)
(* drainUploadErasure                                                       *)
(***************************************************************************)
At(w, step) == drain[w].at = step
Go(w, pass) == drain' = [drain EXCEPT ![w] = pass]
Step(w, step) == Go(w, [drain[w] EXCEPT !.at = step])
Due == {f \in File : jobs[f] = "due"}

\* The timer starts a pass unless one is running.
StartPass(w) ==
    /\ At(w, "idle") /\ Due # {}
    /\ Go(w, [at |-> "next", batch |-> Due, file |-> None])
    /\ UNCHANGED <<orgs, refs, disk, named, jobs, up, lost, faults>>

\* Entries are updated where they are still there.  (Retried: as if a status of its own.)
Retried(f) == [jobs EXCEPT ![f] = IF @ = "none" THEN @ ELSE "retry"]
Later(f) == [jobs EXCEPT ![f] = IF @ = "none" THEN @ ELSE "later"]

\* The counts over documents, photos and logos.
\* (NeverShared: as if a url the outbox names could have no other row.)
NeverShared(f) == FALSE
Shared(f) == f \in Referenced

Take(w) ==
    /\ At(w, "next")
    /\ \E f \in drain[w].batch :
        LET rest == drain[w].batch \ {f} IN
        IF f \in Malformed
        THEN jobs' = Later(f) /\ Go(w, [drain[w] EXCEPT !.batch = rest])
        ELSE /\ Go(w, [at |-> IF Shared(f) THEN "shared" ELSE "remove", batch |-> rest, file |-> f])
             /\ UNCHANGED jobs
    /\ UNCHANGED <<orgs, refs, disk, named, up, lost, faults>>

PutOff(w) ==
    /\ At(w, "shared") \/ At(w, "backoff")
    /\ jobs' = Later(drain[w].file)
    /\ Step(w, "next")
    /\ UNCHANGED <<orgs, refs, disk, named, up, lost, faults>>

\* A file that is already gone counts as removed.
Remove(w) ==
    /\ At(w, "remove")
    /\ disk' = disk \ {drain[w].file}
    /\ Step(w, "ack")
    /\ UNCHANGED <<orgs, refs, named, jobs, up, lost, faults>>

\* The unlink or the acknowledgement fails: try again later.
\* (GivenUp: as if a removal that failed were over.)
GivenUp == "ack"
AfterFailure == "backoff"

RemovalFails(w) ==
    /\ At(w, "remove") \/ At(w, "ack")
    /\ Fault /\ Step(w, AfterFailure)
    /\ UNCHANGED <<orgs, refs, disk, named, jobs, up, lost>>

Acknowledge(w) ==
    /\ At(w, "ack")
    /\ jobs' = [jobs EXCEPT ![drain[w].file] = "none"]
    /\ Step(w, "next")
    /\ UNCHANGED <<orgs, refs, disk, named, up, lost, faults>>

EndPass(w) ==
    /\ At(w, "next") /\ drain[w].batch = {}
    /\ Go(w, Asleep)
    /\ UNCHANGED <<orgs, refs, disk, named, jobs, up, lost, faults>>

\* A query outside the try throws, or the process dies.
PassDies(w) ==
    /\ ~At(w, "idle") /\ Fault /\ Go(w, Asleep)
    /\ UNCHANGED <<orgs, refs, disk, named, jobs, up, lost>>

\* nextAttemptAt passes.
ComesDue(f) ==
    /\ jobs[f] = "later"
    /\ jobs' = [jobs EXCEPT ![f] = "due"]
    /\ UNCHANGED <<orgs, refs, disk, named, up, drain, lost, faults>>

Uploading(u) ==
    \/ \E o \in Org, k \in Kind : Store(u, o, k)
    \/ Stored(u) \/ StreamFails(u) \/ Commit(u) \/ Refuse(u) \/ RouteThrows(u)
    \/ Discard(u) \/ Enqueue(u) \/ UploadDies(u)

Draining(w) ==
    \/ StartPass(w) \/ Take(w) \/ PutOff(w) \/ Remove(w) \/ Acknowledge(w) \/ EndPass(w)

Next ==
    \/ \E u \in Uploader : Uploading(u)
    \/ RemovePhoto \/ ClearLogo
    \/ \E o \in Org : DeleteWorkspace(o)
    \/ \E w \in Worker : Draining(w) \/ RemovalFails(w) \/ PassDies(w)
    \/ \E f \in File : ComesDue(f)

Spec == Init /\ [][Next]_vars

\* The timer runs every minute and time passes.
FairSpec ==
    /\ Spec
    /\ \A w \in Worker : WF_vars(Draining(w))
    /\ \A f \in File : WF_vars(ComesDue(f))

-------------------------------------------------------------------------------
\* No removal, discard or refusal ever takes the bytes from under a row that is there,
\* a row of another workspace that holds the same url included.
LiveFileKept == \A r \in refs : r.file \in disk \/ r.file \in Malformed

\* A stream that outlives its workspace leaves no row behind (lockUploadOwner).
NoRowWithoutOwner == \A r \in refs : r.org \in orgs

\* Bytes on disk belong to a row, wait in the outbox, or are in the hands of an upload;
\* what is left is what a death, a replaced logo or a removed photo leaves.
EveryFileAccounted ==
    disk \subseteq Referenced \cup Queued \cup lost \cup {up[u].file : u \in Uploader}

\* What the outbox names is erased in the end, while no row holds it and its url names
\* a file, whatever fails on the way.
QueuedIsErased ==
    \A f \in File \ Malformed : f \in Queued ~> f \notin disk \/ f \in Referenced
===============================================================================
