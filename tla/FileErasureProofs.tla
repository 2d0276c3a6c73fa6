--------------------------- MODULE FileErasureProofs ---------------------------
(***************************************************************************)
(* The drain, the refusals and the deletions never take the bytes of a row   *)
(* that is there, and lose track of no bytes, for any number of uploads,     *)
(* drains, workspaces, shared urls, failures and deaths.                    *)
(***************************************************************************)
EXTENDS FileErasure, TLAPS

InHand(u) == ~UpAt(u, "idle")
Touched(w) == drain[w].batch \cup {drain[w].file}

\* A file in the hands of an upload is nobody else's: no row's, no entry's, no drain's.
HandInv ==
    /\ Referenced \subseteq named
    /\ \A u \in Uploader : InHand(u) =>
        /\ up[u].org \in Org /\ up[u].file \in named
        /\ up[u].file \notin Referenced /\ up[u].file \notin Queued
        /\ \A w \in Worker : up[u].file \notin Touched(w)
    /\ \A u \in Uploader : ~InHand(u) => up[u].file = None
    /\ \A u \in Uploader : UpAt(u, "stream") \/ UpAt(u, "stored") => up[u].file \in disk
    /\ \A u, v \in Uploader : InHand(u) /\ InHand(v) /\ u # v => up[u].file # up[v].file

\* What a drain is about to remove is no row's; what it acknowledges is off the disk.
DrainInv ==
    /\ Queued \subseteq named
    /\ \A w \in Worker : Touched(w) \subseteq named \cup {None}
    /\ \A w \in Worker : At(w, "shared") \/ At(w, "backoff") \/ At(w, "remove") \/ At(w, "ack") =>
        drain[w].file \in File
    /\ \A w \in Worker : At(w, "remove") \/ At(w, "ack") => drain[w].file \notin Referenced
    /\ \A w \in Worker : At(w, "ack") => drain[w].file \notin disk

(* Names are never repeated, so a file has one holder at a time: an upload     *)
(* until it commits or gives it up, a row, or the outbox and its drains.       *)
IInv ==
    /\ TypeOK
    /\ LiveFileKept /\ NoRowWithoutOwner /\ EveryFileAccounted
    /\ HandInv /\ DrainInv

-------------------------------------------------------------------------------

LEMMA InitIInv == Init => IInv
<1> SUFFICES ASSUME Init PROVE IInv
    OBVIOUS
<1>1. TypeOK
    BY ErasureAssumption DEF Init, TypeOK, LegacyFiles, Reference, Upload, Resting, Kind, Pass, Asleep
<1>2. Queued = {}
    BY DEF Init, Queued
<1>3. Referenced = LegacyFiles
    BY DEF Init, Referenced, LegacyFiles
<1>4. LiveFileKept /\ NoRowWithoutOwner /\ EveryFileAccounted
    BY <1>3, ErasureAssumption DEF Init, LiveFileKept, NoRowWithoutOwner, EveryFileAccounted,
       LegacyFiles, Reference
<1>5. HandInv
    BY <1>2, <1>3 DEF Init, HandInv, InHand, UpAt, Resting
<1>6. DrainInv
    BY <1>2, <1>3 DEF Init, DrainInv, Touched, At, Asleep
<1> QED BY <1>1, <1>4, <1>5, <1>6 DEF IInv

LEMMA Parts ==
    ASSUME IInv
    PROVE  /\ Referenced \subseteq File /\ Queued \subseteq File /\ named \subseteq File
           /\ \A r \in refs : r \in Reference /\ r.org \in Org /\ r.file \in File /\ r.kind \in Kind
           /\ \A u \in Uploader : up[u].kind \in Kind /\ (InHand(u) => up[u].file \in File)
           /\ \A w \in Worker : drain[w].batch \subseteq File
BY DEF IInv, TypeOK, Referenced, Queued, Reference, Upload, Pass, HandInv, InHand

(* An upload that takes a new name.                                           *)
LEMMA StorePreserves ==
    ASSUME IInv, NEW u \in Uploader, NEW o \in Org, NEW k \in Kind, Store(u, o, k)
    PROVE  IInv'
<1>1. PICK f \in File \ named :
        /\ UpGo(u, [at |-> "stream", org |-> o, file |-> f, kind |-> k])
        /\ named' = named \cup {f} /\ disk' = disk \cup {f}
    BY DEF Store
<1>2. UNCHANGED <<orgs, refs, jobs, drain, lost, faults>> /\ Referenced' = Referenced /\ Queued' = Queued
    BY DEF Store, Referenced, Queued
<1>3. /\ TypeOK'
      /\ \A v \in Uploader : up'[v] =
            IF v = u THEN [at |-> "stream", org |-> o, file |-> f, kind |-> k] ELSE up[v]
    BY <1>1, <1>2 DEF IInv, TypeOK, UpGo, Upload
<1>4. f # None
    BY ErasureAssumption
<1>5. HandInv'
    BY <1>1, <1>2, <1>3, <1>4 DEF IInv, HandInv, DrainInv, InHand, UpAt, Touched
<1>6. DrainInv'
    BY <1>1, <1>2, <1>4 DEF IInv, DrainInv, At, Touched
<1>7. LiveFileKept' /\ NoRowWithoutOwner'
    BY <1>1, <1>2 DEF IInv, LiveFileKept, NoRowWithoutOwner
<1>8. EveryFileAccounted'
    <2>1. ~InHand(u)
        BY DEF Store, InHand
    <2>2. \A g \in disk : g \in Referenced \cup Queued \cup lost \/ \E v \in Uploader : g = up[v].file
        BY DEF IInv, EveryFileAccounted
    <2>3. up[u].file = None /\ None \notin disk
        BY <2>1, ErasureAssumption DEF IInv, HandInv, TypeOK
    <2>4. \A v \in Uploader : v # u => up'[v].file = up[v].file
        BY <1>3
    <2>5. up'[u].file = f
        BY <1>3
    <2> QED BY <1>1, <1>2, <2>2, <2>3, <2>4, <2>5 DEF EveryFileAccounted
<1> QED BY <1>3, <1>5, <1>6, <1>7, <1>8 DEF IInv

(* An upload that moves on without changing what it holds.                     *)
LEMMA HoldingPreserves ==
    ASSUME IInv, NEW u \in Uploader, InHand(u), NEW s \in {"stored", "discard", "enqueue"},
           UpStep(u, s), s = "stored" => UpAt(u, "stream"),
           disk' = disk \/ (disk' = disk \ {up[u].file} /\ s # "stored"), faults' \in 0..MaxFaults,
           UNCHANGED <<orgs, refs, named, jobs, drain, lost>>
    PROVE  IInv'
<1>1. /\ TypeOK'
      /\ \A v \in Uploader : up'[v] = IF v = u THEN [up[u] EXCEPT !.at = s] ELSE up[v]
    BY DEF IInv, TypeOK, UpStep, UpGo, Upload
<1>2. /\ \A v \in Uploader : up'[v].file = up[v].file /\ up'[v].org = up[v].org
      /\ \A v \in Uploader : v # u => up'[v].at = up[v].at
      /\ up'[u].at = s /\ InHand(u)'
    BY <1>1 DEF IInv, TypeOK, Upload, InHand, UpAt
<1>3. Referenced' = Referenced /\ Queued' = Queued
    BY DEF Referenced, Queued
<1>4. HandInv'
    BY <1>2, <1>3 DEF IInv, HandInv, InHand, UpAt, Touched
<1>5. DrainInv'
    BY <1>3 DEF IInv, DrainInv, At, Touched
<1>6. LiveFileKept' /\ NoRowWithoutOwner'
    BY DEF IInv, LiveFileKept, NoRowWithoutOwner, HandInv, Referenced
<1>7. EveryFileAccounted'
    BY <1>2, <1>3 DEF IInv, EveryFileAccounted
<1> QED BY <1>1, <1>4, <1>5, <1>6, <1>7 DEF IInv

(* An upload that is over: its file is off the disk, known lost, a row's or    *)
(* the outbox's.                                                              *)
LEMMA OverPreserves ==
    ASSUME IInv, NEW u \in Uploader, InHand(u), UpGo(u, Resting), TypeOK',
           UNCHANGED <<orgs, named, drain>>, disk' \subseteq disk, disk \ disk' \subseteq {up[u].file},
           refs' = refs \/ (up[u].file \in disk' /\ Referenced' \subseteq Referenced \cup {up[u].file}),
           \A r \in refs' : r \in refs \/ (r.org \in orgs /\ r.file = up[u].file),
           Queued' \subseteq Queued \cup {up[u].file},
           Referenced \ Referenced' \subseteq lost', lost \subseteq lost', Queued \subseteq Queued',
           up[u].file \notin disk' \/ up[u].file \in lost' \cup Referenced' \cup Queued'
    PROVE  IInv'
<1>1. \A v \in Uploader : up'[v] = IF v = u THEN Resting ELSE up[v]
    BY DEF IInv, TypeOK, UpGo
<1>2. up[u].file \in named /\ up[u].file \notin Referenced /\ up[u].file \in File
      /\ Referenced' \subseteq Referenced \cup {up[u].file}
    BY Parts DEF IInv, HandInv, Referenced
<1>3. /\ \A v \in Uploader : InHand(v)' <=> InHand(v) /\ v # u
      /\ ~InHand(u)' /\ up'[u].file = None
    BY <1>1 DEF InHand, UpAt, Resting
<1>4. HandInv'
    <2>1. \A v \in Uploader : InHand(v)' =>
            /\ InHand(v) /\ up'[v] = up[v] /\ up[v].file # up[u].file
            /\ up[v].org \in Org /\ up[v].file \in named
            /\ up[v].file \notin Referenced /\ up[v].file \notin Queued
            /\ \A w \in Worker : up[v].file \notin Touched(w)
        BY <1>1, <1>3 DEF IInv, HandInv
    <2>2. \A v \in Uploader : InHand(v)' =>
            /\ up'[v].org \in Org /\ up'[v].file \in named'
            /\ up'[v].file \notin Referenced' /\ up'[v].file \notin Queued'
            /\ \A w \in Worker : up'[v].file \notin Touched(w)'
        BY <1>2, <2>1 DEF Touched
    <2>3. \A v \in Uploader : ~InHand(v)' => up'[v].file = None
        BY <1>1, <1>3 DEF IInv, HandInv
    <2>4. \A v \in Uploader : (UpAt(v, "stream") \/ UpAt(v, "stored"))' => up'[v].file \in disk'
        <3> SUFFICES ASSUME NEW v \in Uploader, (UpAt(v, "stream") \/ UpAt(v, "stored"))'
                     PROVE  up'[v].file \in disk'
            OBVIOUS
        <3>1. InHand(v)'
            BY DEF InHand, UpAt
        <3>2. (UpAt(v, "stream") \/ UpAt(v, "stored")) /\ up[v].file \in disk
            BY <3>1, <2>1 DEF IInv, HandInv, UpAt
        <3> QED BY <2>1, <3>1, <3>2
    <2>5. \A v, x \in Uploader : InHand(v)' /\ InHand(x)' /\ v # x => up'[v].file # up'[x].file
        BY <2>1 DEF IInv, HandInv
    <2>6. Referenced' \subseteq named'
        BY <1>2 DEF IInv, HandInv
    <2> QED BY <2>2, <2>3, <2>4, <2>5, <2>6 DEF HandInv
<1>5. DrainInv'
    <2>1. \A w \in Worker : up[u].file \notin Touched(w)
        BY DEF IInv, HandInv
    <2> QED BY <1>2, <2>1 DEF IInv, DrainInv, At, Touched
<1>6. LiveFileKept' /\ NoRowWithoutOwner'
    BY <1>2 DEF IInv, LiveFileKept, NoRowWithoutOwner, Referenced
<1>7. EveryFileAccounted'
    <2>1. \A g \in disk : g \in Referenced \cup Queued \cup lost \/ \E v \in Uploader : g = up[v].file
        BY DEF IInv, EveryFileAccounted
    <2>2. \A v \in Uploader : v # u => up'[v].file = up[v].file
        BY <1>1
    <2> QED BY <2>1, <2>2 DEF EveryFileAccounted
<1> QED BY <1>4, <1>5, <1>6, <1>7 DEF IInv

LEMMA CommitPreserves ==
    ASSUME IInv, NEW u \in Uploader, Commit(u) PROVE IInv'
<1>1. InHand(u) /\ UpAt(u, "stored")
    BY DEF Commit, InHand, UpAt
<1>2. CASE ~OwnerThere(u)
    BY <1>1, <1>2, HoldingPreserves DEF Commit, IInv, TypeOK
<1>3. CASE OwnerThere(u)
    <2> DEFINE r == [org |-> up[u].org, file |-> up[u].file, kind |-> up[u].kind]
    <2>1. /\ refs' = (refs \ Replaced(u)) \cup {r}
          /\ lost' = lost \cup {q.file : q \in Replaced(u)}
          /\ UpGo(u, Resting) /\ UNCHANGED <<orgs, disk, named, jobs, drain, faults>>
        BY <1>3 DEF Commit
    <2>2. r \in Reference /\ r.org \in orgs /\ r.file = up[u].file
        BY <1>1, <1>3, Parts DEF OwnerThere, Reference, IInv, TypeOK
    <2> HIDE DEF r
    <2>3. Replaced(u) \subseteq refs
        BY DEF Replaced
    <2>4. TypeOK'
        BY <2>1, <2>2, <2>3, Parts DEF IInv, TypeOK, UpGo, Upload, Resting, Kind
    <2>5. up[u].file \in disk /\ up[u].file \in Referenced'
        BY <1>1, <2>1, <2>2 DEF IInv, HandInv, Referenced
    <2>6. Referenced' \subseteq Referenced \cup {up[u].file} /\ Referenced \ Referenced' \subseteq lost'
        BY <2>1, <2>2, <2>3 DEF Referenced
    <2>7. Queued' = Queued
        BY <2>1 DEF Queued
    <2> QED BY <1>1, <2>1, <2>2, <2>3, <2>4, <2>5, <2>6, <2>7, OverPreserves
<1> QED BY <1>2, <1>3

LEMMA UploadingPreserves ==
    ASSUME IInv, NEW u \in Uploader, Uploading(u) PROVE IInv'
<1>1. CASE \E o \in Org, k \in Kind : Store(u, o, k)
    BY <1>1, StorePreserves
<1>2. CASE Stored(u)
    BY <1>2, HoldingPreserves DEF Stored, InHand, UpAt, IInv, TypeOK
<1>3. CASE Commit(u)
    BY <1>3, CommitPreserves
<1>4. CASE Refuse(u) \/ RouteThrows(u)
    <2>1. faults' \in 0..MaxFaults
        BY <1>4, ErasureAssumption DEF Refuse, RouteThrows, Fault, IInv, TypeOK
    <2> QED BY <1>4, <2>1, HoldingPreserves DEF Refuse, RouteThrows, InHand, UpAt
<1>5. CASE StreamFails(u) \/ Discard(u) \/ Enqueue(u) \/ UploadDies(u)
    <2>1. faults' \in 0..MaxFaults
        BY <1>5, ErasureAssumption DEF StreamFails, Discard, Enqueue, UploadDies, Fault, IInv, TypeOK
    <2>2. InHand(u) /\ UNCHANGED <<orgs, refs, named, drain>> /\ Referenced' = Referenced
        BY <1>5 DEF StreamFails, Discard, Enqueue, UploadDies, InHand, UpAt, Referenced
    <2>3. CASE Discard(u) /\ UpStep(u, "enqueue") /\ UNCHANGED disk
        BY <2>1, <2>2, <2>3, HoldingPreserves DEF Discard
    <2>4. CASE UpGo(u, Resting)
        <3>1. up[u].file \in File
            BY <2>2, Parts
        <3>2. /\ disk' = disk \/ disk' = disk \ {up[u].file}
              /\ lost' = lost \/ lost' = lost \cup {up[u].file}
              /\ jobs' = jobs \/ jobs' = [jobs EXCEPT ![up[u].file] = IF @ = "none" THEN "due" ELSE @]
            BY <1>5 DEF StreamFails, Discard, Enqueue, UploadDies
        <3>3. TypeOK'
            BY <2>1, <2>2, <2>4, <3>1, <3>2 DEF IInv, TypeOK, UpGo, Upload, Resting, Kind
        <3>4. Queued' \subseteq Queued \cup {up[u].file} /\ Queued \subseteq Queued'
            BY <3>1, <3>2 DEF IInv, TypeOK, Queued
        <3>5. up[u].file \notin disk' \/ up[u].file \in lost' \cup Queued'
            BY <1>5, <2>4, <3>1 DEF StreamFails, Discard, Enqueue, UploadDies, IInv, TypeOK, Queued, UpStep,
               UpGo, Resting
        <3> QED BY <2>2, <2>4, <3>2, <3>3, <3>4, <3>5, OverPreserves
    <2> QED BY <1>5, <2>3, <2>4 DEF StreamFails, Discard, Enqueue, UploadDies
<1> QED BY <1>1, <1>2, <1>3, <1>4, <1>5 DEF Uploading

(* Rows that go leave their files to the outbox or are known to lose them.     *)
LEMMA RowsGoPreserves ==
    ASSUME IInv, TypeOK', UNCHANGED <<disk, named, up, drain>>, refs' \subseteq refs,
           \A r \in refs' : r.org \in orgs', lost \subseteq lost', Queued \subseteq Queued',
           Queued' \subseteq Queued \cup Referenced, Referenced \ Referenced' \subseteq lost' \cup Queued'
    PROVE  IInv'
<1>1. Referenced' \subseteq Referenced
    BY DEF Referenced
<1>2. HandInv'
    BY <1>1 DEF IInv, HandInv, InHand, UpAt, Touched
<1>3. DrainInv'
    BY <1>1 DEF IInv, HandInv, DrainInv, At, Touched
<1>4. LiveFileKept' /\ NoRowWithoutOwner' /\ EveryFileAccounted'
    BY DEF IInv, LiveFileKept, NoRowWithoutOwner, EveryFileAccounted
<1> QED BY <1>2, <1>3, <1>4 DEF IInv

LEMMA DropPreserves ==
    ASSUME IInv, NEW r \in refs, Drop(r) PROVE IInv'
<1>1. TypeOK'
    BY Parts DEF IInv, TypeOK, Drop
<1>2. Referenced \ Referenced' \subseteq lost' /\ Queued' = Queued
    BY DEF Drop, Referenced, Queued
<1> QED BY <1>1, <1>2, RowsGoPreserves DEF Drop, IInv, NoRowWithoutOwner

LEMMA DeletePreserves ==
    ASSUME IInv, NEW o \in Org, DeleteWorkspace(o) PROVE IInv'
<1>1. TypeOK'
    BY DEF IInv, TypeOK, DeleteWorkspace
<1>2. Queued \subseteq Queued' /\ Queued' = Queued \cup Snapshot(o)
    BY Parts DEF DeleteWorkspace, Queued, Snapshot, IInv, TypeOK
<1>3. Snapshot(o) \subseteq Referenced /\ Referenced \ Referenced' \subseteq Snapshot(o)
    BY DEF DeleteWorkspace, Snapshot, Referenced
<1> QED BY <1>1, <1>2, <1>3, RowsGoPreserves DEF DeleteWorkspace, IInv, NoRowWithoutOwner

(* A step of one drain: it takes up only what the outbox names, removes what no *)
(* row holds, and strikes off only what is off the disk.                       *)
LEMMA DrainPreserves ==
    ASSUME IInv, NEW w \in Worker, TypeOK', UNCHANGED <<orgs, refs, named, up, lost>>,
           \A v \in Worker \ {w} : drain'[v] = drain[v],
           Touched(w)' \subseteq Touched(w) \cup Queued \cup {None},
           Queued' \subseteq Queued, (Queued \ Queued') \cap disk = {},
           disk' = disk \/ (At(w, "remove") /\ disk' = disk \ {drain[w].file}),
           (At(w, "shared") \/ At(w, "backoff") \/ At(w, "remove") \/ At(w, "ack"))' => drain'[w].file \in File,
           (At(w, "remove") \/ At(w, "ack"))' => drain'[w].file \notin Referenced,
           At(w, "ack")' => drain'[w].file \notin disk'
    PROVE  IInv'
<1>1. Referenced' = Referenced
    BY DEF Referenced
<1>2. \A u \in Uploader : InHand(u) =>
        up[u].file # drain[w].file /\ \A v \in Worker : up[u].file \notin Touched(v)'
    <2> SUFFICES ASSUME NEW u \in Uploader, InHand(u)
                 PROVE  up[u].file # drain[w].file /\ \A v \in Worker : up[u].file \notin Touched(v)'
        OBVIOUS
    <2>1. up[u].file # None /\ up[u].file \notin Queued /\ \A v \in Worker : up[u].file \notin Touched(v)
        BY Parts, ErasureAssumption DEF IInv, HandInv
    <2>2. \A v \in Worker \ {w} : Touched(v)' = Touched(v)
        BY DEF Touched
    <2> QED BY <2>1, <2>2 DEF Touched
<1>3. HandInv'
    BY <1>1, <1>2 DEF IInv, HandInv, InHand, UpAt
<1>4. DrainInv'
    <2>1. Queued' \subseteq named'
        BY DEF IInv, DrainInv
    <2>2. \A v \in Worker : Touched(v)' \subseteq named' \cup {None}
        BY DEF IInv, DrainInv, Touched
    <2>3. \A v \in Worker : (At(v, "shared") \/ At(v, "backoff") \/ At(v, "remove") \/ At(v, "ack"))' =>
            drain'[v].file \in File
        BY DEF IInv, DrainInv, At
    <2>4. \A v \in Worker : (At(v, "remove") \/ At(v, "ack"))' => drain'[v].file \notin Referenced'
        BY <1>1 DEF IInv, DrainInv, At
    <2>5. \A v \in Worker : At(v, "ack")' => drain'[v].file \notin disk'
        BY DEF IInv, DrainInv, At
    <2> QED BY <2>1, <2>2, <2>3, <2>4, <2>5 DEF DrainInv
<1>5. LiveFileKept' /\ NoRowWithoutOwner'
    BY DEF IInv, LiveFileKept, NoRowWithoutOwner, DrainInv, Referenced
<1>6. EveryFileAccounted'
    BY <1>1 DEF IInv, EveryFileAccounted
<1> QED BY <1>3, <1>4, <1>5, <1>6 DEF IInv

LEMMA DrainingPreserves ==
    ASSUME IInv, NEW w \in Worker, Draining(w) PROVE IInv'
<1>0. drain[w] \in Pass
    BY DEF IInv, TypeOK
<1>1. CASE StartPass(w)
    <2>1. drain' = [drain EXCEPT ![w] = [at |-> "next", batch |-> Due, file |-> None]]
          /\ UNCHANGED <<orgs, refs, disk, named, jobs, up, lost, faults>>
        BY <1>1 DEF StartPass, Go
    <2>2. Due \subseteq Queued /\ Queued' = Queued
        BY <2>1 DEF Due, Queued
    <2>3. TypeOK'
        BY <2>1 DEF IInv, TypeOK, Pass, Due
    <2> QED BY <2>1, <2>2, <2>3, DrainPreserves DEF IInv, TypeOK, At, Touched
<1>2. CASE Take(w)
    <2>1. PICK f \in drain[w].batch :
            IF f \in Malformed
            THEN jobs' = Later(f) /\ Go(w, [drain[w] EXCEPT !.batch = drain[w].batch \ {f}])
            ELSE /\ Go(w, [at |-> IF Shared(f) THEN "shared" ELSE "remove",
                           batch |-> drain[w].batch \ {f}, file |-> f])
                 /\ UNCHANGED jobs
        BY <1>2 DEF Take
    <2>2. f \in File /\ At(w, "next") /\ UNCHANGED <<orgs, refs, disk, named, up, lost, faults>>
        BY <1>2, Parts DEF Take
    <2>3. CASE f \in Malformed
        <3>1. drain' = [drain EXCEPT ![w] = [drain[w] EXCEPT !.batch = drain[w].batch \ {f}]]
            BY <2>1, <2>3 DEF Go
        <3>2. drain'[w].at = "next" /\ Touched(w)' \subseteq Touched(w)
            BY <1>0, <2>2, <3>1 DEF IInv, TypeOK, Pass, At, Touched
        <3>3. TypeOK' /\ Queued' = Queued
            BY <1>0, <2>1, <2>2, <2>3, <3>1 DEF IInv, TypeOK, Pass, Later, Queued
        <3> QED BY <2>2, <3>1, <3>2, <3>3, DrainPreserves DEF At, IInv, TypeOK
    <2>4. CASE f \notin Malformed
        <3> DEFINE pass == [at |-> IF Shared(f) THEN "shared" ELSE "remove",
                            batch |-> drain[w].batch \ {f}, file |-> f]
        <3>1. drain' = [drain EXCEPT ![w] = pass] /\ UNCHANGED jobs
            BY <2>1, <2>4 DEF Go
        <3>2. TypeOK' /\ Queued' = Queued /\ drain'[w] = pass
            BY <1>0, <2>2, <3>1 DEF IInv, TypeOK, Pass, Queued
        <3>3. Touched(w)' \subseteq Touched(w) /\ f \in File
            BY <2>2, <3>2 DEF Touched
        <3> QED BY <2>2, <3>1, <3>2, <3>3, DrainPreserves DEF At, Shared, IInv, TypeOK
    <2> QED BY <2>3, <2>4
<1>3. CASE PutOff(w)
    <2>1. drain' = [drain EXCEPT ![w] = [drain[w] EXCEPT !.at = "next"]] /\ jobs' = Later(drain[w].file)
          /\ UNCHANGED <<orgs, refs, disk, named, up, lost, faults>>
        BY <1>3 DEF PutOff, Step, Go
    <2>2. TypeOK' /\ Queued' = Queued
        BY <1>0, <2>1 DEF IInv, TypeOK, Pass, Later, Queued
    <2>3. drain'[w].at = "next" /\ Touched(w)' = Touched(w)
        BY <1>0, <2>1 DEF IInv, TypeOK, Pass, Touched
    <2> QED BY <2>1, <2>2, <2>3, DrainPreserves DEF At, IInv, TypeOK
<1>4. CASE Remove(w)
    <2>1. drain' = [drain EXCEPT ![w] = [drain[w] EXCEPT !.at = "ack"]] /\ disk' = disk \ {drain[w].file}
          /\ At(w, "remove") /\ UNCHANGED <<orgs, refs, named, jobs, up, lost, faults>>
        BY <1>4 DEF Remove, Step, Go
    <2>2. TypeOK' /\ Queued' = Queued
        BY <1>0, <2>1 DEF IInv, TypeOK, Pass, Queued
    <2>3. drain'[w].at = "ack" /\ drain'[w].file = drain[w].file /\ Touched(w)' = Touched(w)
        BY <1>0, <2>1 DEF IInv, TypeOK, Pass, Touched
    <2> QED BY <2>1, <2>2, <2>3, DrainPreserves DEF At, IInv, TypeOK, DrainInv
<1>5. CASE Acknowledge(w)
    <2>1. drain' = [drain EXCEPT ![w] = [drain[w] EXCEPT !.at = "next"]]
          /\ jobs' = [jobs EXCEPT ![drain[w].file] = "none"]
          /\ At(w, "ack") /\ UNCHANGED <<orgs, refs, disk, named, up, lost, faults>>
        BY <1>5 DEF Acknowledge, Step, Go
    <2>2. TypeOK' /\ Queued' \subseteq Queued /\ Queued \ Queued' \subseteq {drain[w].file}
        BY <1>0, <2>1 DEF IInv, TypeOK, Pass, Queued
    <2>3. drain'[w].at = "next" /\ Touched(w)' = Touched(w)
        BY <1>0, <2>1 DEF IInv, TypeOK, Pass, Touched
    <2>4. drain[w].file \notin disk
        BY <2>1 DEF IInv, DrainInv
    <2> QED BY <2>1, <2>2, <2>3, <2>4, DrainPreserves DEF At, IInv, TypeOK
<1>6. CASE EndPass(w)
    <2>1. UNCHANGED jobs /\ drain' = [drain EXCEPT ![w] = Asleep]
          /\ UNCHANGED <<orgs, refs, disk, named, up, lost, faults>>
        BY <1>6 DEF EndPass, Go
    <2>2. TypeOK' /\ Queued' = Queued
        BY <2>1 DEF IInv, TypeOK, Pass, Asleep, Queued
    <2> QED BY <2>1, <2>2, DrainPreserves DEF At, IInv, TypeOK, Touched, Asleep
<1> QED BY <1>1, <1>2, <1>3, <1>4, <1>5, <1>6 DEF Draining

LEMMA FaultPreserves ==
    ASSUME IInv, NEW w \in Worker, RemovalFails(w) \/ PassDies(w) PROVE IInv'
<1>1. drain[w] \in Pass /\ faults' \in 0..MaxFaults /\ UNCHANGED <<orgs, refs, disk, named, jobs, up, lost>>
    BY ErasureAssumption DEF RemovalFails, PassDies, Fault, IInv, TypeOK
<1>2. Queued' = Queued
    BY <1>1 DEF Queued
<1>3. CASE RemovalFails(w)
    <2>1. drain' = [drain EXCEPT ![w] = [drain[w] EXCEPT !.at = "backoff"]] /\ drain[w].file \in File
        BY <1>3 DEF RemovalFails, Step, Go, AfterFailure, IInv, DrainInv
    <2>2. TypeOK'
        BY <1>1, <2>1 DEF IInv, TypeOK, Pass
    <2>3. drain'[w].at = "backoff" /\ drain'[w].file = drain[w].file /\ Touched(w)' = Touched(w)
        BY <1>1, <2>1 DEF IInv, TypeOK, Pass, Touched
    <2> QED BY <1>1, <1>2, <2>1, <2>2, <2>3, DrainPreserves DEF At, IInv, TypeOK
<1>4. CASE PassDies(w)
    <2>1. drain' = [drain EXCEPT ![w] = Asleep]
        BY <1>4 DEF PassDies, Go
    <2>2. TypeOK'
        BY <1>1, <2>1 DEF IInv, TypeOK, Pass, Asleep
    <2> QED BY <1>1, <1>2, <2>1, <2>2, DrainPreserves DEF At, IInv, TypeOK, Touched, Asleep
<1> QED BY <1>3, <1>4

LEMMA NextPreserves == IInv /\ [Next]_vars => IInv'
<1> SUFFICES ASSUME IInv, [Next]_vars PROVE IInv'
    OBVIOUS
<1>1. CASE \E u \in Uploader : Uploading(u)
    BY <1>1, UploadingPreserves
<1>2. CASE RemovePhoto \/ ClearLogo
    BY <1>2, DropPreserves DEF RemovePhoto, ClearLogo
<1>3. CASE \E o \in Org : DeleteWorkspace(o)
    BY <1>3, DeletePreserves
<1>4. CASE \E w \in Worker : Draining(w) \/ RemovalFails(w) \/ PassDies(w)
    BY <1>4, DrainingPreserves, FaultPreserves
<1>5. CASE \E f \in File : ComesDue(f)
    <2>1. TypeOK' /\ Queued' = Queued /\ Referenced' = Referenced
        BY <1>5 DEF ComesDue, IInv, TypeOK, Queued, Referenced
    <2> QED BY <1>5, <2>1, RowsGoPreserves DEF ComesDue, IInv, NoRowWithoutOwner
<1>6. CASE UNCHANGED vars
    <2>1. TypeOK' /\ Queued' = Queued /\ Referenced' = Referenced
        BY <1>6 DEF vars, IInv, TypeOK, Queued, Referenced
    <2> QED BY <1>6, <2>1, RowsGoPreserves DEF vars, IInv, NoRowWithoutOwner
<1> QED BY <1>1, <1>2, <1>3, <1>4, <1>5, <1>6 DEF Next

-------------------------------------------------------------------------------

\* The inductive invariant holds in every reachable state.
THEOREM Invariant == Spec => []IInv
BY InitIInv, NextPreserves, PTL DEF Spec

\* Every reachable outbox, disk, upload and drain is typed, whatever fails or dies.
THEOREM Typed == Spec => []TypeOK
<1>1. IInv => TypeOK
    BY DEF IInv
<1> QED BY <1>1, Invariant, PTL

\* No unlink of the drain, of a discard or of a refusal takes the bytes of a row that is there.
THEOREM RowsKeepTheirFiles == Spec => []LiveFileKept
<1>1. IInv => LiveFileKept
    BY DEF IInv
<1> QED BY <1>1, Invariant, PTL

\* A deleted workspace has no rows, whatever uploads it outran (lockUploadOwner).
THEOREM RowsHaveOwners == Spec => []NoRowWithoutOwner
<1>1. IInv => NoRowWithoutOwner
    BY DEF IInv
<1> QED BY <1>1, Invariant, PTL

\* Between its row, the outbox and the upload that holds it, no file is forgotten.
THEOREM FilesAccounted == Spec => []EveryFileAccounted
<1>1. IInv => EveryFileAccounted
    BY DEF IInv
<1> QED BY <1>1, Invariant, PTL
===============================================================================
