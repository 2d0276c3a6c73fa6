------------------------ MODULE AppraisalVersionsProofs ------------------------
(***************************************************************************)
(* Type correctness of AppraisalVersions and everything its runs check of   *)
(* it, for any number of clients and versions and any sets of inputs, in    *)
(* two layers: IInv, what the table and the requests are, gives one current *)
(* version; HInv, what a request knows of the row it read, gives what is    *)
(* signed, announced and overwritten, and the refinement of VersionHistory. *)
(***************************************************************************)
EXTENDS AppraisalVersions, TLAPS

\* The steps at which a request holds the id of a row it has read or written.
Holders == {"branch", "field", "inplace", "submit", "approve", "request_changes",
            "restore", "flip", "apply", "narrate", "headline"}

(* What a request has in its locals when it is about to write: the id of a   *)
(* row that exists, the state its guard was evaluated in, the inputs to save. *)
Prepared(c) ==
    /\ pc[c] \in Holders => seenId[c] \in Version /\ rows[seenId[c]].made
    /\ pc[c] \in {"inplace", "submit", "approve", "request_changes"}
          => seen[c].status # "approved"
    /\ pc[c] = "restore" \/ pc[c] = "flip" => seen[c].made
    /\ pc[c] \in {"first", "branch", "field", "inplace", "apply"} => work[c] \in Units

\* A row that exists has inputs; one that does not is neither current nor signed.
RowsSane ==
    \A v \in Version :
        /\ rows[v].made => rows[v].units \in Units
        /\ ~rows[v].made => ~rows[v].current /\ rows[v].status = "draft"

SeenSane == \A c \in Client : seen[c].made => seen[c].units \in Units

\* A deal that has a version has a current one, and never two.
SomeCurrent == (\E v \in Version : rows[v].made) => \E v \in Version : rows[v].current
NeverTwo == \A v, w \in Version : rows[v].current /\ rows[w].current => v = w

(* The inductive invariant.  OneCurrent alone is not one: a restore flips     *)
(* whatever id it holds, so that id has to be known to name an existing row.  *)
IInv ==
    /\ TypeOK
    /\ RowsSane
    /\ SeenSane
    /\ \A c \in Client : Prepared(c)
    /\ SomeCurrent
    /\ NeverTwo

-------------------------------------------------------------------------------

(* Row typing, field by field, for the records the actions build.            *)
LEMMA FreshRow ==
    ASSUME TypeOK, NEW u \in Units
    PROVE  /\ Fresh(u) \in Row
           /\ Fresh(u).made /\ Fresh(u).current /\ Fresh(u).status = "draft" /\ Fresh(u).units = u
    BY DEF TypeOK, Fresh, Row, Now, Status

LEMMA RestoredRow ==
    ASSUME TypeOK, NEW c \in Client, seen[c].units \in Units
    PROVE  /\ RestoredCopy(c) \in Row
           /\ RestoredCopy(c).made /\ RestoredCopy(c).current
           /\ RestoredCopy(c).status = "draft" /\ RestoredCopy(c).units = seen[c].units
<1>1. seen[c].cache \in Units \cup {None} /\ seen[c].narrative \in BOOLEAN /\ seen[c].pin \in Units \cup {None}
    BY DEF TypeOK, Row
<1> DEFINE r == Fresh(seen[c].units)
<1>2. r \in Row /\ r.made /\ r.current /\ r.status = "draft" /\ r.units = seen[c].units
    BY FreshRow
<1>3. RestoredCopy(c) = [r EXCEPT !.cache = seen[c].cache, !.narrative = seen[c].narrative, !.pin = seen[c].pin]
    BY Zenon DEF RestoredCopy
<1> HIDE DEF r
<1> QED BY <1>1, <1>2, <1>3 DEF Row

LEMMA LaterStamps ==
    ASSUME TypeOK, NEW t, \/ t = Now \/ \E n \in Nat : t \in Later(n), Stamped(t)
    PROVE  t \in Nat /\ latest' \in Nat
    BY DEF TypeOK, Now, Later, Stamped

-------------------------------------------------------------------------------

(* A read only fills the locals of the request that makes it.                *)
LEMMA ReadPreserves ==
    ASSUME IInv, NEW c \in Client, NEW s \in Step, NEW v \in Version \cup {None},
           NEW r \in Row, NEW u \in Units \cup {None}, Holding(c, s, v, r, u),
           s \in Holders => v \in Version /\ rows[v].made,
           s \in {"inplace", "submit", "approve", "request_changes"} => r.status # "approved",
           s = "restore" \/ s = "flip" => r.made,
           r.made => r.units \in Units,
           s \in {"first", "branch", "field", "inplace", "apply"} => u \in Units
    PROVE  IInv'
<1>1. TypeOK'
    BY DEF IInv, TypeOK, Holding
<1>2. RowsSane' /\ SomeCurrent' /\ NeverTwo'
    BY DEF IInv, RowsSane, SomeCurrent, NeverTwo, Holding
<1>3. SeenSane'
    BY DEF IInv, TypeOK, SeenSane, Holding
<1>4. ASSUME NEW d \in Client PROVE Prepared(d)'
    <2>1. CASE d = c
        BY <2>1 DEF IInv, TypeOK, Prepared, Holding
    <2>2. CASE d # c
        BY <2>2 DEF IInv, TypeOK, Prepared, Holding
    <2> QED BY <2>1, <2>2
<1> QED BY <1>1, <1>2, <1>3, <1>4 DEF IInv

(* A request that ends, whatever it wrote, leaves every other request         *)
(* prepared so long as no row it could hold has gone.                         *)
LEMMA DonePrepared ==
    ASSUME IInv, NEW c \in Client, Done(c),
           \A v \in Version : rows[v].made => rows'[v].made
    PROVE  SeenSane' /\ \A d \in Client : Prepared(d)'
<1>1. SeenSane'
    BY DEF IInv, TypeOK, SeenSane, Done, NoRow
<1>2. ASSUME NEW d \in Client PROVE Prepared(d)'
    <2>1. CASE d = c
        BY <2>1 DEF IInv, TypeOK, Prepared, Done, NoRow, Holders
    <2>2. CASE d # c
        BY <2>2 DEF IInv, TypeOK, Prepared, Done
    <2> QED BY <2>1, <2>2
<1> QED BY <1>1, <1>2

LEMMA DoneTyped ==
    ASSUME TypeOK, NEW c \in Client, Done(c)
    PROVE  /\ pc' \in [Client -> Step]
           /\ seen' \in [Client -> Row]
           /\ seenId' \in [Client -> Version \cup {None}]
           /\ work' \in [Client -> Units \cup {None}]
    BY DEF TypeOK, Done, NoRow, Row, Status, Step

(* The same for a request that goes on to sync the deal card.                *)
LEMMA WrittenPreserves ==
    ASSUME IInv, NEW c \in Client, NEW v \in Version, Written(c, v), rows' \in [Version -> Row],
           latest' \in Nat, \A w \in Version : rows[w].made => rows'[w].made,
           rows'[v].made, RowsSane'
    PROVE  TypeOK' /\ SeenSane' /\ \A d \in Client : Prepared(d)'
<1>1. TypeOK'
    BY DEF IInv, TypeOK, Written, Step
<1>2. SeenSane'
    BY DEF IInv, TypeOK, SeenSane, RowsSane, Written
<1>3. ASSUME NEW d \in Client PROVE Prepared(d)'
    <2>1. CASE d = c
        BY <2>1 DEF IInv, TypeOK, Prepared, Written, Holders
    <2>2. CASE d # c
        BY <2>2 DEF IInv, TypeOK, Prepared, Written
    <2> QED BY <2>1, <2>2
<1> QED BY <1>1, <1>2, <1>3

-------------------------------------------------------------------------------

(* The first version is created only while none is current, so none exists.  *)
LEMMA SaveFirstPreserves ==
    ASSUME IInv, NEW c \in Client, SaveFirst(c) PROVE IInv'
<1>1. CASE Current = {} /\ Stamped(Now) /\ \E v \in Version \ Made :
              rows' = [rows EXCEPT ![v] = Fresh(work[c])] /\ Written(c, v)
    <2> PICK v \in Version \ Made : rows' = [rows EXCEPT ![v] = Fresh(work[c])] /\ Written(c, v)
        BY <1>1
    <2>1. work[c] \in Units
        BY DEF IInv, Prepared, SaveFirst
    <2>2. Fresh(work[c]) \in Row /\ Fresh(work[c]).made /\ Fresh(work[c]).current
              /\ Fresh(work[c]).units \in Units
        BY <2>1, FreshRow DEF IInv
    <2>3. /\ rows' \in [Version -> Row]
          /\ rows'[v] = Fresh(work[c])
          /\ \A w \in Version : w # v => rows'[w] = rows[w]
        BY <2>2 DEF IInv, TypeOK
    <2>4. latest' \in Nat
        BY <1>1, LaterStamps DEF IInv
    <2>5. \A w \in Version : ~rows[w].made
        BY <1>1 DEF IInv, SomeCurrent, Current, Made, RowsSane
    <2>6. RowsSane'
        BY <2>2, <2>3 DEF IInv, RowsSane
    <2>7. SomeCurrent' /\ NeverTwo'
        BY <2>2, <2>3, <2>5 DEF IInv, RowsSane, SomeCurrent, NeverTwo
    <2> QED BY <2>2, <2>3, <2>4, <2>5, <2>6, <2>7, WrittenPreserves DEF IInv
<1>2. CASE Current # {} /\ Conflict(c)
    BY <1>2, DonePrepared, DoneTyped DEF Conflict, IInv, TypeOK, RowsSane, SomeCurrent, NeverTwo
<1> QED BY <1>1, <1>2 DEF SaveFirst

(* A branch flips the row it found current and makes the new one current.    *)
LEMMA FlipPreserves ==
    ASSUME IInv, NEW c \in Client, NEW o \in Version, NEW v \in Version, NEW r \in Row,
           rows[o].made, rows[o].current, ~rows[v].made,
           r.made, r.current, r.units \in Units,
           rows' \in [Version -> Row], rows'[v] = r,
           ~rows'[o].current, rows'[o].made, rows'[o].units \in Units,
           \A w \in Version : w # v /\ w # o => rows'[w] = rows[w],
           Stamped(Now), Written(c, v)
    PROVE  IInv'
<1>1. o # v
    OBVIOUS
<1>2. RowsSane'
    BY <1>1 DEF IInv, RowsSane
<1>3. SomeCurrent' /\ NeverTwo'
    BY <1>1 DEF IInv, SomeCurrent, NeverTwo
<1>4. latest' \in Nat
    BY LaterStamps DEF IInv
<1>5. \A w \in Version : rows[w].made => rows'[w].made
    BY <1>1
<1> QED BY <1>2, <1>3, <1>4, <1>5, WrittenPreserves DEF IInv

LEMMA SaveBranchPreserves ==
    ASSUME IInv, NEW c \in Client, SaveBranch(c) PROVE IInv'
<1> DEFINE o == seenId[c]
<1>1. o \in Version /\ rows[o].made /\ rows[o].units \in Units /\ work[c] \in Units
    BY DEF IInv, Prepared, RowsSane, SaveBranch, Holders
<1>2. CASE StillCurrent(c) /\ Stamped(Now) /\ \E v \in Version \ Made :
              /\ rows' = [rows EXCEPT ![o].current = FALSE, ![o].stamp = Now, ![v] = Fresh(work[c])]
              /\ Written(c, v)
    <2> PICK v \in Version \ Made :
              /\ rows' = [rows EXCEPT ![o].current = FALSE, ![o].stamp = Now, ![v] = Fresh(work[c])]
              /\ Written(c, v)
        BY <1>2
    <2>1. Fresh(work[c]) \in Row /\ Fresh(work[c]).made /\ Fresh(work[c]).current
              /\ Fresh(work[c]).units \in Units
        BY <1>1, FreshRow DEF IInv
    <2>2. rows[o].current /\ ~rows[v].made /\ o # v
        BY <1>1, <1>2 DEF StillCurrent, Made
    <2>3. Now \in Nat /\ rows[o] \in Row /\ rows \in [Version -> Row]
        BY <1>1 DEF Now, IInv, TypeOK
    <2>4. /\ rows' \in [Version -> Row]
          /\ rows'[v] = Fresh(work[c])
          /\ ~rows'[o].current /\ rows'[o].made /\ rows'[o].units \in Units
          /\ \A w \in Version : w # v /\ w # o => rows'[w] = rows[w]
        BY <1>1, <2>1, <2>2, <2>3 DEF Row
    <2>5. v \in Version /\ Written(c, v) /\ Stamped(Now)
        BY <1>2
    <2> QED BY ZenonT(30), <1>1, <2>1, <2>2, <2>4, <2>5, FlipPreserves
<1>3. CASE ~StillCurrent(c) /\ Conflict(c)
    BY <1>3, DonePrepared, DoneTyped DEF Conflict, IInv, TypeOK, RowsSane, SomeCurrent, NeverTwo
<1> QED BY <1>2, <1>3 DEF SaveBranch

LEMMA RestorePreserves ==
    ASSUME IInv, NEW c \in Client, Restore(c) PROVE IInv'
<1> DEFINE o == seenId[c]
<1>1. o \in Version /\ o # None /\ rows[o].made /\ rows[o].units \in Units /\ seen[c].units \in Units
    BY ConstantsOK DEF IInv, Prepared, RowsSane, SeenSane, Restore, Holders
<1>1t. Now \in Nat /\ rows[o] \in Row /\ rows \in [Version -> Row]
    BY <1>1 DEF Now, IInv, TypeOK
<1> DEFINE flipped == [rows[o] EXCEPT !.current = FALSE, !.stamp = Now]
<1>1f. flipped \in Row /\ ~flipped.current /\ flipped.made /\ flipped.units \in Units
    BY <1>1, <1>1t DEF Row
<1>2. CASE rows[o].current /\ Stamped(Now) /\ \E v \in Version \ Made :
              /\ rows' = [w \in Version |->
                             IF w = v THEN RestoredCopy(c)
                             ELSE IF w = o THEN [rows[w] EXCEPT !.current = FALSE, !.stamp = Now]
                                  ELSE rows[w]]
              /\ Written(c, v)
    <2> PICK v \in Version \ Made :
              /\ rows' = [w \in Version |->
                             IF w = v THEN RestoredCopy(c)
                             ELSE IF w = o THEN [rows[w] EXCEPT !.current = FALSE, !.stamp = Now]
                                  ELSE rows[w]]
              /\ Written(c, v)
        BY <1>2
    <2>1. RestoredCopy(c) \in Row /\ RestoredCopy(c).made /\ RestoredCopy(c).current
              /\ RestoredCopy(c).units \in Units
        BY <1>1, RestoredRow DEF IInv
    <2>2. ~rows[v].made /\ o # v
        BY <1>1 DEF Made
    <2>3. rows' = [w \in Version |-> IF w = v THEN RestoredCopy(c)
                                      ELSE IF w = o THEN flipped ELSE rows[w]]
        BY Zenon
    <2> HIDE DEF flipped
    <2>5. v \in Version /\ Written(c, v) /\ Stamped(Now)
        BY <1>2
    <2>4. /\ rows' \in [Version -> Row]
          /\ rows'[v] = RestoredCopy(c)
          /\ ~rows'[o].current /\ rows'[o].made /\ rows'[o].units \in Units
          /\ \A w \in Version : w # v /\ w # o => rows'[w] = rows[w]
        BY <1>1, <1>1t, <1>1f, <2>1, <2>2, <2>3
    <2> QED BY ZenonT(30), <1>1, <1>2, <2>1, <2>2, <2>4, <2>5, FlipPreserves
<1>3. CASE ~rows[o].current /\ Conflict(c)
    BY <1>3, DonePrepared, DoneTyped DEF Conflict, IInv, TypeOK, RowsSane, SomeCurrent, NeverTwo
<1> QED BY <1>1, <1>2, <1>3 DEF Restore

(* A write to one row that leaves it where it is in the history.             *)
LEMMA UpdatePreserves ==
    ASSUME IInv, NEW v \in Version, NEW r \in Row, rows[v].made,
           r.made, r.current = rows[v].current, r.units \in Units,
           rows' = [rows EXCEPT ![v] = r]
    PROVE  /\ rows' \in [Version -> Row]
           /\ \A w \in Version : rows[w].made => rows'[w].made
           /\ RowsSane' /\ SomeCurrent' /\ NeverTwo'
<1>1. /\ rows' \in [Version -> Row]
      /\ rows'[v] = r
      /\ \A w \in Version : w # v => rows'[w] = rows[w]
    BY DEF IInv, TypeOK
<1>2. RowsSane'
    BY <1>1 DEF IInv, RowsSane
<1>3. SomeCurrent' /\ NeverTwo'
    BY <1>1 DEF IInv, SomeCurrent, NeverTwo
<1> QED BY <1>1, <1>2, <1>3

LEMMA SaveInPlacePreserves ==
    ASSUME IInv, NEW c \in Client, SaveInPlace(c) PROVE IInv'
<1> DEFINE v == seenId[c]
<1>1. v \in Version /\ rows[v].made /\ rows[v] \in Row /\ work[c] \in Units
    BY DEF IInv, TypeOK, Prepared, SaveInPlace, Holders
<1>2. CASE Written(c, v) /\ \E t \in Later(seen[c].stamp) :
              /\ Stamped(t)
              /\ rows' = [rows EXCEPT ![v].units = work[c], ![v].cache = work[c], ![v].stamp = t,
                            ![v].status = IF seen[c].status = "in_review" THEN "draft" ELSE @]
    <2> PICK t \in Later(seen[c].stamp) :
              /\ Stamped(t)
              /\ rows' = [rows EXCEPT ![v].units = work[c], ![v].cache = work[c], ![v].stamp = t,
                            ![v].status = IF seen[c].status = "in_review" THEN "draft" ELSE @]
        BY <1>2
    <2>1. t \in Nat /\ latest' \in Nat
        BY DEF IInv, TypeOK, Row, Later, Stamped
    <2> DEFINE st == IF seen[c].status = "in_review" THEN "draft" ELSE rows[v].status
               r == [rows[v] EXCEPT !.units = work[c], !.cache = work[c], !.stamp = t, !.status = st]
    <2>2. st \in Status
        BY <1>1 DEF Row, Status
    <2>3. rows' = [rows EXCEPT ![v] = r]
        BY <1>1 DEF IInv, TypeOK
    <2> HIDE DEF st
    <2>4. r \in Row /\ r.made /\ r.current = rows[v].current /\ r.units \in Units
        BY <1>1, <2>1, <2>2 DEF Row
    <2> HIDE DEF r, v
    <2>5. /\ rows' \in [Version -> Row] /\ RowsSane' /\ SomeCurrent' /\ NeverTwo'
          /\ \A w \in Version : rows[w].made => rows'[w].made
        BY <1>1, <2>3, <2>4, UpdatePreserves
    <2>6. rows'[v].made
        BY <1>1, <2>5
    <2> QED BY <1>1, <1>2, <2>1, <2>5, <2>6, WrittenPreserves DEF IInv
<1>3. CASE Conflict(c)
    BY <1>3, DonePrepared, DoneTyped DEF Conflict, IInv, TypeOK, RowsSane, SomeCurrent, NeverTwo
<1> QED BY <1>2, <1>3 DEF SaveInPlace

(* A request that writes one row and ends.                                   *)
LEMMA LastWritePreserves ==
    ASSUME IInv, NEW c \in Client, NEW v \in Version, NEW r \in Row, rows[v].made,
           r.made, r.current = rows[v].current, r.units \in Units,
           rows' = [rows EXCEPT ![v] = r], latest' \in Nat, Done(c), UNCHANGED <<card, opened, listed>>,
           announced' \in [Version -> [times : Nat, hash : Units \cup {None}, gdv : Units \cup {None}]]
    PROVE  IInv'
<1>1. /\ rows' \in [Version -> Row]
      /\ \A w \in Version : rows[w].made => rows'[w].made
      /\ RowsSane' /\ SomeCurrent' /\ NeverTwo'
    BY UpdatePreserves
<1>2. SeenSane' /\ \A d \in Client : Prepared(d)'
    BY <1>1, DonePrepared
<1>3. TypeOK'
    BY <1>1, DoneTyped DEF IInv, TypeOK
<1> QED BY <1>1, <1>2, <1>3 DEF IInv

LEMMA SubmitPreserves ==
    ASSUME IInv, NEW c \in Client, SubmitForReview(c) PROVE IInv'
<1> DEFINE v == seenId[c]
<1>1. v \in Version /\ rows[v].made /\ rows[v] \in Row /\ rows[v].units \in Units
    BY DEF IInv, TypeOK, Prepared, RowsSane, SubmitForReview, Holders
<1>2. CASE Done(c) /\ UNCHANGED <<card, announced, opened, listed>> /\ \E t \in Later(seen[c].stamp) :
              Stamped(t) /\ rows' = [rows EXCEPT ![v].status = "in_review", ![v].stamp = t]
    <2> PICK t \in Later(seen[c].stamp) :
              Stamped(t) /\ rows' = [rows EXCEPT ![v].status = "in_review", ![v].stamp = t]
        BY <1>2
    <2>1. t \in Nat /\ latest' \in Nat
        BY DEF IInv, TypeOK, Row, Later, Stamped
    <2> DEFINE r == [rows[v] EXCEPT !.status = "in_review", !.stamp = t]
    <2>2. rows' = [rows EXCEPT ![v] = r]
        BY <1>1 DEF IInv, TypeOK
    <2>3. r \in Row /\ r.made /\ r.current = rows[v].current /\ r.units \in Units
        BY <1>1, <2>1 DEF Row, Status
    <2> HIDE DEF r, v
    <2> QED BY <1>1, <1>2, <2>1, <2>2, <2>3, LastWritePreserves DEF IInv, TypeOK
<1>3. CASE Conflict(c)
    BY <1>3, DonePrepared, DoneTyped DEF Conflict, IInv, TypeOK, RowsSane, SomeCurrent, NeverTwo
<1> QED BY <1>2, <1>3 DEF SubmitForReview

LEMMA ReviewPreserves ==
    ASSUME IInv, NEW c \in Client, Review(c) PROVE IInv'
<1> DEFINE v == seenId[c]
<1>1. v \in Version /\ rows[v].made /\ rows[v] \in Row /\ rows[v].units \in Units
    BY DEF IInv, TypeOK, Prepared, RowsSane, Review, Holders
<1>2. seen[c].units \in Units \cup {None}
    BY DEF IInv, TypeOK, Row
<1>3. CASE Done(c) /\ UNCHANGED <<card, opened, listed>> /\ \E t \in Later(seen[c].stamp) :
              Stamped(t) /\ Decide(c, v, t)
    <2> PICK t \in Later(seen[c].stamp) : Stamped(t) /\ Decide(c, v, t)
        BY <1>3
    <2>1. t \in Nat /\ latest' \in Nat
        BY DEF IInv, TypeOK, Row, Later, Stamped
    <2> DEFINE yes == [rows[v] EXCEPT !.status = "approved", !.stamp = t, !.pin = seen[c].units]
               no == [rows[v] EXCEPT !.status = "changes_requested", !.stamp = t]
    <2>2. yes \in Row /\ yes.made /\ yes.current = rows[v].current /\ yes.units \in Units
        BY <1>1, <1>2, <2>1 DEF Row, Status
    <2>3. no \in Row /\ no.made /\ no.current = rows[v].current /\ no.units \in Units
        BY <1>1, <2>1 DEF Row, Status
    <2>4. announced' \in [Version -> [times : Nat, hash : Units \cup {None}, gdv : Units \cup {None}]]
        BY <1>1, <1>2 DEF Decide, IInv, TypeOK
    <2>5. rows' = [rows EXCEPT ![v] = yes] \/ rows' = [rows EXCEPT ![v] = no]
        BY <1>1 DEF Decide, IInv, TypeOK
    <2> HIDE DEF yes, no, v
    <2>6. CASE rows' = [rows EXCEPT ![v] = yes]
        BY <1>1, <1>3, <2>1, <2>2, <2>4, <2>6, LastWritePreserves
    <2>7. CASE rows' = [rows EXCEPT ![v] = no]
        BY <1>1, <1>3, <2>1, <2>3, <2>4, <2>7, LastWritePreserves
    <2> QED BY <2>5, <2>6, <2>7
<1>4. CASE Conflict(c)
    BY <1>4, DonePrepared, DoneTyped DEF Conflict, IInv, TypeOK, RowsSane, SomeCurrent, NeverTwo
<1> QED BY <1>3, <1>4 DEF Review

LEMMA WriteByIdPreserves ==
    ASSUME IInv, NEW c \in Client, ApplyToAppraisal(c) \/ DraftNarrative(c) PROVE IInv'
<1> DEFINE v == seenId[c]
<1>1. v \in Version /\ rows[v].made /\ rows[v] \in Row /\ rows[v].units \in Units
    BY DEF IInv, TypeOK, Prepared, RowsSane, ApplyToAppraisal, DraftNarrative, Holders
<1>2. Now \in Nat
    BY DEF IInv, TypeOK, Now
<1>3. Stamped(Now) /\ Done(c) /\ UNCHANGED <<card, announced, opened, listed>>
    BY DEF ApplyToAppraisal, DraftNarrative
<1>4. latest' \in Nat
    BY <1>2, <1>3, LaterStamps DEF IInv
<1>5. CASE ApplyToAppraisal(c)
    <2> DEFINE r == [rows[v] EXCEPT !.units = work[c], !.stamp = Now]
    <2>1. work[c] \in Units
        BY <1>5 DEF IInv, Prepared, ApplyToAppraisal
    <2>2. rows' = [rows EXCEPT ![v] = r]
        BY <1>1, <1>5 DEF IInv, TypeOK, ApplyToAppraisal
    <2>3. r \in Row /\ r.made /\ r.current = rows[v].current /\ r.units \in Units
        BY <1>1, <1>2, <2>1 DEF Row
    <2> HIDE DEF r, v
    <2> QED BY <1>1, <1>3, <1>4, <2>2, <2>3, LastWritePreserves DEF IInv, TypeOK
<1>6. CASE DraftNarrative(c)
    <2> DEFINE r == [rows[v] EXCEPT !.narrative = TRUE, !.stamp = Now]
    <2>1. rows' = [rows EXCEPT ![v] = r]
        BY <1>1, <1>6 DEF IInv, TypeOK, DraftNarrative
    <2>2. r \in Row /\ r.made /\ r.current = rows[v].current /\ r.units \in Units
        BY <1>1, <1>2 DEF Row
    <2> HIDE DEF r, v
    <2> QED BY <1>1, <1>3, <1>4, <2>1, <2>2, LastWritePreserves DEF IInv, TypeOK
<1> QED BY <1>5, <1>6

(* The response: the deal card and the editor take what was written.         *)
LEMMA SyncPreserves ==
    ASSUME IInv, NEW c \in Client, SyncDealHeadline(c) PROVE IInv'
<1>1. seen[c] \in Row /\ seenId[c] \in Version
    BY DEF IInv, TypeOK, Prepared, SyncDealHeadline, Holders
<1>2. EditorCopy(seenId[c], seen[c]) \in Copy
    BY <1>1 DEF EditorCopy, Copy, Row
<1>3. TypeOK'
    BY <1>1, <1>2, DoneTyped DEF IInv, TypeOK, SyncDealHeadline, Opens, Row
<1> QED BY <1>3, DonePrepared DEF IInv, SyncDealHeadline, RowsSane, SomeCurrent, NeverTwo

(* The current row a restore reads exists: the version it restores does.     *)
LEMMA RestoreReadCurrentPreserves ==
    ASSUME IInv, NEW c \in Client, RestoreReadCurrent(c) PROVE IInv'
<1>1. seenId[c] \in Version /\ rows[seenId[c]].made /\ seen[c].made
    BY DEF IInv, Prepared, RestoreReadCurrent, Holders
<1>2. PICK v \in CurrentRead : seenId' = [seenId EXCEPT ![c] = v]
    BY DEF RestoreReadCurrent
<1>3. v \in Version /\ rows[v].made
    BY <1>1, <1>2 DEF IInv, SomeCurrent, RowsSane, CurrentRead, Current, Made
<1>4. TypeOK'
    BY <1>2, <1>3 DEF IInv, TypeOK, RestoreReadCurrent, Step
<1>5. ASSUME NEW d \in Client PROVE Prepared(d)'
    BY <1>1, <1>2, <1>3 DEF IInv, TypeOK, Prepared, RestoreReadCurrent, Holders
<1> QED BY <1>4, <1>5 DEF IInv, RestoreReadCurrent, RowsSane, SeenSane, SomeCurrent, NeverTwo

(* The screens a person loads touch neither the table nor the requests.      *)
LEMMA ScreenPreserves ==
    ASSUME IInv, NEW c \in Client, GetCurrent(c) \/ \E v \in Version : Versions(c, v) PROVE IInv'
<1>1. PICK v \in Version :
          \/ Opens(c, EditorCopy(v, rows[v]), None)
          \/ Opens(c, ListedCopy(v, rows[v]), rows[v].units)
    BY DEF GetCurrent, Versions, Current, Made
<1>2. rows[v] \in Row
    BY DEF IInv, TypeOK
<1>3. EditorCopy(v, rows[v]) \in Copy /\ ListedCopy(v, rows[v]) \in Copy
          /\ rows[v].units \in Units \cup {None}
    BY <1>1, <1>2 DEF EditorCopy, ListedCopy, Copy, Row
<1>4. UNCHANGED <<rows, card, latest, announced, pc, seen, seenId, work>>
    BY DEF GetCurrent, Versions
<1>5. TypeOK'
    BY <1>1, <1>3, <1>4 DEF IInv, TypeOK, Opens
<1> QED BY <1>4, <1>5 DEF IInv, RowsSane, SeenSane, Prepared, SomeCurrent, NeverTwo

LEMMA CrashPreserves ==
    ASSUME IInv, NEW c \in Client, Crash(c) PROVE IInv'
BY DonePrepared, DoneTyped DEF Crash, IInv, TypeOK, RowsSane, SomeCurrent, NeverTwo

-------------------------------------------------------------------------------

(* The reads, each with the guard that prepares the write it leads to.       *)
LEMMA SaveReadsPreserve ==
    ASSUME IInv, NEW c \in Client, NEW u \in Saved,
           SaveFirstRead(c, u) \/ SaveBranchRead(c, u) \/ SaveInPlaceRead(c, u)
    PROVE  IInv'
<1>1. u \in Units
    BY ConstantsOK DEF Units
<1>2. \A v \in Current : v \in Version /\ rows[v].made /\ rows[v] \in Row /\ rows[v].units \in Units
    BY DEF Current, Made, IInv, TypeOK, RowsSane
<1>3. CASE SaveFirstRead(c, u)
    <2>1. NoRow \in Row /\ ~NoRow.made
        BY DEF NoRow, Row, Status
    <2>2. "first" \in Step /\ "first" \notin Holders
        BY DEF Step, Holders
    <2>3. Holding(c, "first", None, NoRow, u)
        BY <1>3 DEF SaveFirstRead
    <2> HIDE DEF NoRow
    <2> QED BY <1>1, <2>1, <2>2, <2>3, ReadPreserves
<1>4. CASE SaveBranchRead(c, u)
    <2> PICK v \in Current : \E s \in {"branch", "field"} : Holding(c, s, v, rows[v], u)
        BY <1>4 DEF SaveBranchRead
    <2> PICK s \in {"branch", "field"} : Holding(c, s, v, rows[v], u)
        OBVIOUS
    <2>1. s \in Step
        BY DEF Step
    <2> QED BY <1>1, <1>2, <2>1, ReadPreserves
<1>5. CASE SaveInPlaceRead(c, u)
    <2> PICK v \in Current : rows[v].status # "approved" /\ Holding(c, "inplace", v, rows[v], u)
        BY <1>5 DEF SaveInPlaceRead
    <2>1. "inplace" \in Step
        BY DEF Step
    <2> QED BY <1>1, <1>2, <2>1, ReadPreserves
<1> QED BY <1>3, <1>4, <1>5

LEMMA VersionReadsPreserve ==
    ASSUME IInv, NEW c \in Client, NEW v \in Version,
           SubmitRead(c, v) \/ ReviewRead(c, v) \/ RestoreRead(c, v)
    PROVE  IInv'
<1>1. rows[v].made /\ rows[v] \in Row /\ rows[v].units \in Units
    BY DEF SubmitRead, ReviewRead, RestoreRead, Made, IInv, TypeOK, RowsSane
<1>2. PICK s \in {"submit", "approve", "request_changes", "restore"} :
          Holding(c, s, v, rows[v], None) /\ (s # "restore" => rows[v].status # "approved")
    BY DEF SubmitRead, ReviewRead, RestoreRead
<1>3. s \in Step
    BY DEF Step
<1> QED BY <1>1, <1>2, <1>3, ReadPreserves

LEMMA WriteByIdReadsPreserve ==
    ASSUME IInv, NEW c \in Client, ApplyRead(c) \/ NarrativeRead(c) PROVE IInv'
<1>1. PICK v \in Current, s \in {"apply", "narrate"}, u \in Units \cup {None} :
          Holding(c, s, v, rows[v], u) /\ (s = "apply" => u \in Units)
    <2>1. \A v \in Current : [rows[v].units EXCEPT !.cap = Supported] \in Units
        BY ConstantsOK DEF Current, Made, IInv, RowsSane, Units
    <2> QED BY <2>1 DEF ApplyRead, NarrativeRead
<1>2. v \in Version /\ rows[v].made /\ rows[v] \in Row /\ rows[v].units \in Units
    BY DEF Current, Made, IInv, TypeOK, RowsSane
<1>3. s \in Step
    BY DEF Step
<1> QED BY <1>1, <1>2, <1>3, ReadPreserves

-------------------------------------------------------------------------------

(* The invariant holds initially and every step of every procedure keeps it. *)
LEMMA InitInvariant == Init => IInv
BY DEF Init, IInv, TypeOK, RowsSane, SeenSane, Prepared, SomeCurrent, NeverTwo, Holders,
       NoRow, NoCopy, Row, Copy, Status, Step

LEMMA StepInvariant == IInv /\ [Next]_vars => IInv'
<1> SUFFICES ASSUME IInv, [Next]_vars PROVE IInv'
    OBVIOUS
<1>1. CASE UNCHANGED vars
    BY <1>1 DEF vars, IInv, TypeOK, RowsSane, SeenSane, Prepared, SomeCurrent, NeverTwo
<1>2. CASE \E c \in Client : GetCurrent(c) \/ \E v \in Version : Versions(c, v)
    BY <1>2, ScreenPreserves
<1>3. CASE \E c \in Client : Save(c)
    BY <1>3, SaveReadsPreserve, SaveFirstPreserves, SaveBranchPreserves, SaveInPlacePreserves,
       SyncPreserves DEF Save
<1>4. CASE \E c \in Client : ReviewCycle(c)
    BY <1>4, VersionReadsPreserve, SubmitPreserves, ReviewPreserves DEF ReviewCycle
<1>5. CASE \E c \in Client : RestoreVersion(c)
    BY <1>5, VersionReadsPreserve, RestoreReadCurrentPreserves, RestorePreserves DEF RestoreVersion
<1>6. CASE \E c \in Client : WriteById(c)
    BY <1>6, WriteByIdReadsPreserve, WriteByIdPreserves DEF WriteById
<1>7. CASE \E c \in Client : Crash(c)
    BY <1>7, CrashPreserves
<1> QED BY <1>1, <1>2, <1>3, <1>4, <1>5, <1>6, <1>7 DEF Next

(* The invariant holds in every state any number of requests can reach.      *)
THEOREM Invariant == Spec => []IInv
BY InitInvariant, StepInvariant, PTL DEF Spec

(* Every variable of the versions model keeps its type, for every choice of  *)
(* clients, versions and inputs.                                             *)
THEOREM TypeCorrect == Spec => []TypeOK
<1>1. IInv => TypeOK
    BY DEF IInv
<1> QED BY <1>1, Invariant, PTL

(* However saves, branches and restores overlap, a deal with an appraisal    *)
(* has exactly one current version (current-appraisal.ts).                   *)
THEOREM OneCurrentVersion == Spec => []OneCurrent
<1>1. IInv => OneCurrent
    <2> SUFFICES ASSUME IInv, Made # {} PROVE \E v \in Version : Current = {v}
        BY DEF OneCurrent
    <2>1. PICK v \in Version : rows[v].current
        BY DEF IInv, SomeCurrent, Made
    <2>2. \A w \in Version : rows[w].current => w = v /\ rows[w].made
        BY <2>1 DEF IInv, NeverTwo, RowsSane
    <2> QED BY <2>1, <2>2 DEF Current, Made
<1> QED BY <1>1, Invariant, PTL

-------------------------------------------------------------------------------
(***************************************************************************)
(* What a request or a screen knows of the row it read.                     *)
(***************************************************************************)

\* Stamp s and inputs u are what row v had at one time: if the stamp is still its, so are the inputs.
Faithful(s, u, v) == s <= rows[v].stamp /\ (s = rows[v].stamp => u = rows[v].units)

\* Whatever other row is or becomes current was written after s.
Newest(s, v) == \A w \in Version : rows[w].current /\ w # v => rows[w].stamp > s

\* The inputs the row had when the screen read it: the editor's own, or what the history notes.
Known(c) == IF opened[c].screen = "editor" THEN opened[c].units ELSE listed[c]

ScreenTold(c) ==
    /\ opened[c].screen # "none" =>
          /\ opened[c].id \in Version /\ rows[opened[c].id].made
          /\ Faithful(opened[c].stamp, Known(c), opened[c].id)
    /\ opened[c].screen = "editor" => Newest(opened[c].stamp, opened[c].id)

RequestTold(c) ==
    /\ pc[c] \in Holders \ {"flip"} => Faithful(seen[c].stamp, seen[c].units, seenId[c])
    /\ pc[c] = "headline" => Newest(seen[c].stamp, seenId[c])
    /\ pc[c] \in {"field", "inplace"} =>
          opened[c].screen = "editor" /\ seen[c].stamp = opened[c].stamp
    /\ pc[c] \in {"approve", "request_changes"} =>
          /\ opened[c].screen = "versions" /\ opened[c].id = seenId[c]
          /\ opened[c].stamp = seen[c].stamp /\ seen[c].status = "in_review"

Dated == \A v \in Version : rows[v].stamp <= latest

(* The inductive invariant of what is signed, announced and overwritten.  A   *)
(* guard compares stamps only; that an equal stamp means equal inputs needs   *)
(* every write to advance the stamp of the row it finds, and the editor's     *)
(* copy, which is matched against whichever row is current, needs that a row  *)
(* which became current later was written later.                              *)
HInv ==
    /\ IInv
    /\ Dated
    /\ \A c \in Client : ScreenTold(c) /\ RequestTold(c)
    /\ ApprovalAnnouncedOnce

-------------------------------------------------------------------------------
(***************************************************************************)
(* The three ways a step treats the table: it leaves it, it adds a version, *)
(* or it rewrites the row the request holds.                                *)
(***************************************************************************)
Quiet == UNCHANGED <<rows, latest, announced>>

Added(c, v) ==
    /\ pc[c] \in {"first", "branch", "field", "flip"}
    /\ v \in Version \ Made
    /\ rows'[v].made /\ rows'[v].current /\ rows'[v].status = "draft" /\ rows'[v].stamp = Now
    /\ \A w \in Version \ {v} :
          /\ ~rows'[w].current
          /\ rows'[w].made = rows[w].made
          /\ \/ rows'[w] = rows[w]
             \/ /\ rows'[w].stamp = Now /\ rows'[w].status = rows[w].status
                /\ rows'[w].units = rows[w].units /\ rows'[w].narrative = rows[w].narrative
                /\ rows'[w].pin = rows[w].pin
    /\ latest' = Now
    /\ Written(c, v)
    /\ pc[c] = "field" => rows[seenId[c]].stamp = seen[c].stamp

Rewritten(c, v) ==
    /\ pc[c] \in {"inplace", "submit", "approve", "request_changes", "apply", "narrate"}
    /\ v = seenId[c] /\ v \in Made
    /\ rows'[v].made /\ rows'[v].current = rows[v].current
    /\ rows'[v].stamp > rows[v].stamp /\ rows'[v].stamp <= latest' /\ latest <= latest'
    /\ \A w \in Version \ {v} : rows'[w] = rows[w]
    /\ IF pc[c] = "inplace" THEN Written(c, v) ELSE Done(c) /\ UNCHANGED <<opened, listed>>

\* What becomes of the review columns and of the inputs of the row that is rewritten.
Reviewed(c, v) ==
    /\ pc[c] \in {"inplace", "approve"} => rows[v].stamp = seen[c].stamp
    /\ pc[c] = "approve" =>
          /\ rows[v].status = "in_review" /\ rows'[v].status = "approved"
          /\ rows'[v].pin = rows[v].units /\ seen[c].units = rows[v].units
          /\ announced' = [announced EXCEPT
                 ![v] = [times |-> @.times + 1, hash |-> seen[c].units, gdv |-> rows[v].units]]
    /\ pc[c] # "approve" => announced' = announced
    /\ pc[c] = "request_changes" => rows[v].status = "in_review" /\ rows'[v].status = "changes_requested"
    /\ pc[c] = "submit" => rows[v].status # "approved" /\ rows'[v].status = "in_review"
    /\ pc[c] = "inplace" =>
          /\ rows[v].current /\ rows[v].status # "approved"
          /\ rows'[v].status = IF rows[v].status = "in_review" THEN "draft" ELSE rows[v].status
    /\ pc[c] \in {"apply", "narrate"} => rows'[v].status = rows[v].status /\ rows'[v].pin = rows[v].pin
    /\ pc[c] \in {"submit", "approve", "request_changes"} =>
          rows'[v].units = rows[v].units /\ rows'[v].narrative = rows[v].narrative

LEMMA Typed ==
    ASSUME IInv, NEW v \in Version
    PROVE  /\ rows \in [Version -> Row] /\ rows[v] \in Row
           /\ rows[v].stamp \in Nat /\ latest \in Nat /\ Now \in Nat /\ Now > latest
           /\ rows[v].made \in BOOLEAN /\ rows[v].current \in BOOLEAN
    BY DEF IInv, TypeOK, Row, Now

\* A new stamp is past the one it replaces, and the latest one keeps up.
LEMMA StampsAdvance ==
    ASSUME IInv, Dated, NEW v \in Version, NEW t,
           t = Now \/ t \in Later(rows[v].stamp), Stamped(t)
    PROVE  /\ t \in Nat /\ t > rows[v].stamp /\ t <= latest' /\ latest <= latest' /\ latest' \in Nat
           /\ t = Now => latest' = Now
<1>1. rows[v].stamp <= latest /\ rows[v].stamp \in Nat /\ latest \in Nat
    BY Typed DEF Dated
<1> QED BY <1>1 DEF Now, Later, Stamped

LEMMA SaveFirstAdds ==
    ASSUME IInv, NEW c \in Client, SaveFirst(c)
    PROVE  Conflict(c) \/ \E v \in Version : Added(c, v)
<1> SUFFICES ASSUME Current = {}, Stamped(Now),
                    NEW v \in Version \ Made, rows' = [rows EXCEPT ![v] = Fresh(work[c])], Written(c, v)
             PROVE  Added(c, v)
    BY DEF SaveFirst
<1>1. work[c] \in Units /\ pc[c] = "first"
    BY DEF SaveFirst, IInv, Prepared
<1>2. /\ Fresh(work[c]).made /\ Fresh(work[c]).current /\ Fresh(work[c]).status = "draft"
      /\ Fresh(work[c]).stamp = Now
    BY DEF Fresh
<1>3. rows'[v] = Fresh(work[c]) /\ \A w \in Version \ {v} : rows'[w] = rows[w]
    BY DEF IInv, TypeOK
<1>4. \A w \in Version : ~rows[w].current
    BY DEF Current, Made, IInv, RowsSane
<1>5. latest' = Now
    BY Typed DEF Stamped
<1> QED BY <1>1, <1>2, <1>3, <1>4, <1>5 DEF Added

LEMMA FlipAdds ==
    ASSUME IInv, NEW c \in Client, NEW o \in Version, NEW v \in Version \ Made,
           pc[c] \in {"branch", "field", "flip"},
           rows[o].made, rows[o].current,
           rows'[v].made, rows'[v].current, rows'[v].status = "draft", rows'[v].stamp = Now,
           rows'[o] = [rows[o] EXCEPT !.current = FALSE, !.stamp = Now],
           \A w \in Version \ {v, o} : rows'[w] = rows[w],
           Stamped(Now), Written(c, v), pc[c] = "field" => rows[o].stamp = seen[c].stamp, o = seenId[c]
    PROVE  Added(c, v)
<1>1. latest' = Now
    BY Typed DEF Stamped
<1>2. \A w \in Version : w # o => ~rows[w].current
    BY DEF IInv, NeverTwo
<1>3. /\ ~rows'[o].current /\ rows'[o].made = rows[o].made
      /\ rows'[o].stamp = Now /\ rows'[o].status = rows[o].status
      /\ rows'[o].units = rows[o].units /\ rows'[o].narrative = rows[o].narrative
      /\ rows'[o].pin = rows[o].pin
    BY Typed DEF Row
<1>4. \A w \in Version \ {v} : w = o \/ (rows'[w] = rows[w] /\ ~rows'[w].current)
    BY <1>2
<1> QED BY <1>1, <1>3, <1>4 DEF Added

LEMMA SaveBranchAdds ==
    ASSUME HInv, NEW c \in Client, SaveBranch(c)
    PROVE  Conflict(c) \/ \E v \in Version : Added(c, v)
<1> DEFINE o == seenId[c]
<1>1. /\ o \in Version /\ rows[o].made /\ pc[c] \in {"branch", "field", "flip"}
      /\ IInv /\ (pc[c] = "field" => seen[c].stamp = opened[c].stamp)
    BY DEF HInv, IInv, Prepared, RequestTold, SaveBranch, Holders
<1> SUFFICES ASSUME StillCurrent(c), Stamped(Now), NEW v \in Version \ Made, Written(c, v),
                    rows' = [rows EXCEPT ![o].current = FALSE, ![o].stamp = Now, ![v] = Fresh(work[c])]
             PROVE  Added(c, v)
    BY DEF SaveBranch
<1>2. /\ Fresh(work[c]).made /\ Fresh(work[c]).current /\ Fresh(work[c]).status = "draft"
      /\ Fresh(work[c]).stamp = Now
    BY DEF Fresh
<1>3. rows[o].current /\ o # v /\ (pc[c] = "field" => rows[o].stamp = seen[c].stamp)
    BY <1>1 DEF StillCurrent, Made
<1>4. /\ rows'[v].made /\ rows'[v].current /\ rows'[v].status = "draft" /\ rows'[v].stamp = Now
      /\ rows'[o] = [rows[o] EXCEPT !.current = FALSE, !.stamp = Now]
      /\ \A w \in Version \ {v, o} : rows'[w] = rows[w]
    BY <1>1, <1>2, <1>3 DEF IInv, TypeOK
<1>5. o = seenId[c]
    OBVIOUS
<1> HIDE DEF o
<1> QED BY <1>1, <1>3, <1>4, <1>5, FlipAdds

LEMMA RestoreAdds ==
    ASSUME IInv, NEW c \in Client, Restore(c)
    PROVE  Conflict(c) \/ \E v \in Version : Added(c, v)
<1> DEFINE o == seenId[c]
<1>1. o \in Version /\ o # None /\ rows[o].made /\ pc[c] = "flip"
    BY ConstantsOK DEF IInv, Prepared, Restore, Holders
<1> SUFFICES ASSUME rows[o].current, Stamped(Now), NEW v \in Version \ Made, Written(c, v),
                    rows' = [w \in Version |->
                               IF w = v THEN RestoredCopy(c)
                               ELSE IF w = o THEN [rows[w] EXCEPT !.current = FALSE, !.stamp = Now]
                                    ELSE rows[w]]
             PROVE  Added(c, v)
    BY <1>1 DEF Restore
<1>2. /\ RestoredCopy(c).made /\ RestoredCopy(c).current /\ RestoredCopy(c).status = "draft"
      /\ RestoredCopy(c).stamp = Now
    BY DEF RestoredCopy, Fresh
<1>3. o # v
    BY <1>1 DEF Made
<1>4. /\ rows'[v].made /\ rows'[v].current /\ rows'[v].status = "draft" /\ rows'[v].stamp = Now
      /\ rows'[o] = [rows[o] EXCEPT !.current = FALSE, !.stamp = Now]
      /\ \A w \in Version \ {v, o} : rows'[w] = rows[w]
    BY <1>1, <1>2, <1>3
<1>5. pc[c] \in {"branch", "field", "flip"} /\ o = seenId[c] /\ pc[c] # "field"
    BY <1>1
<1> HIDE DEF o
<1> QED BY <1>1, <1>4, <1>5, FlipAdds

(* A conditional writer that is let through finds the row it was told of: the *)
(* stamps are equal, so the inputs are, and the new stamp is past the row's.  *)
LEMMA SaveInPlaceRewrites ==
    ASSUME HInv, NEW c \in Client, SaveInPlace(c)
    PROVE  Conflict(c) \/ (Rewritten(c, seenId[c]) /\ Reviewed(c, seenId[c]))
<1> DEFINE v == seenId[c]
<1>1. /\ pc[c] = "inplace" /\ v \in Version /\ rows[v].made /\ v \in Made
      /\ seen[c].status # "approved" /\ seen[c].stamp = opened[c].stamp
    BY DEF HInv, IInv, Prepared, RequestTold, SaveInPlace, Holders, Made
<1> SUFFICES ASSUME StillAsOpened(c), Written(c, v), NEW t \in Later(seen[c].stamp), Stamped(t),
                    rows' = [rows EXCEPT ![v].units = work[c], ![v].cache = work[c], ![v].stamp = t,
                               ![v].status = IF seen[c].status = "in_review" THEN "draft" ELSE @]
             PROVE  Rewritten(c, v) /\ Reviewed(c, v)
    BY DEF SaveInPlace
<1>2. rows[v].stamp = seen[c].stamp /\ rows[v].status = seen[c].status /\ rows[v].current
    BY <1>1 DEF StillAsOpened
<1>3. t > rows[v].stamp /\ t <= latest' /\ latest <= latest'
    BY <1>1, <1>2, StampsAdvance DEF HInv
<1>4. rows \in [Version -> Row] /\ rows[v] \in Row
    BY <1>1, Typed DEF HInv
<1>5. /\ \A w \in Version \ {v} : rows'[w] = rows[w]
      /\ rows'[v].made = rows[v].made /\ rows'[v].current = rows[v].current /\ rows'[v].stamp = t
      /\ rows'[v].status = IF rows[v].status = "in_review" THEN "draft" ELSE rows[v].status
    BY <1>1, <1>2, <1>4 DEF Row
<1>6. Rewritten(c, v)
    BY <1>1, <1>3, <1>5 DEF Rewritten
<1>7. Reviewed(c, v)
    BY <1>1, <1>2, <1>5 DEF Reviewed, Written
<1> QED BY <1>6, <1>7

LEMMA SubmitRewrites ==
    ASSUME HInv, NEW c \in Client, SubmitForReview(c)
    PROVE  Conflict(c) \/ (Rewritten(c, seenId[c]) /\ Reviewed(c, seenId[c]))
<1> DEFINE v == seenId[c]
<1>1. /\ pc[c] = "submit" /\ v \in Version /\ rows[v].made /\ v \in Made
      /\ seen[c].status # "approved"
    BY DEF HInv, IInv, Prepared, SubmitForReview, Holders, Made
<1> SUFFICES ASSUME AsSeen(c), Done(c), UNCHANGED <<card, announced, opened, listed>>,
                    NEW t \in Later(seen[c].stamp), Stamped(t),
                    rows' = [rows EXCEPT ![v].status = "in_review", ![v].stamp = t]
             PROVE  Rewritten(c, v) /\ Reviewed(c, v)
    BY DEF SubmitForReview
<1>2. rows[v].stamp = seen[c].stamp /\ rows[v].status = seen[c].status
    BY DEF AsSeen
<1>3. t > rows[v].stamp /\ t <= latest' /\ latest <= latest'
    BY <1>1, <1>2, StampsAdvance DEF HInv
<1>4. rows \in [Version -> Row] /\ rows[v] \in Row
    BY <1>1, Typed DEF HInv
<1>5. /\ \A w \in Version \ {v} : rows'[w] = rows[w]
      /\ rows'[v].made = rows[v].made /\ rows'[v].current = rows[v].current /\ rows'[v].stamp = t
      /\ rows'[v].status = "in_review"
      /\ rows'[v].units = rows[v].units /\ rows'[v].narrative = rows[v].narrative
    BY <1>1, <1>4 DEF Row
<1>6. Rewritten(c, v)
    BY <1>1, <1>3, <1>5 DEF Rewritten
<1>7. Reviewed(c, v)
    BY <1>1, <1>2, <1>5 DEF Reviewed
<1> QED BY <1>6, <1>7

LEMMA ReviewRewrites ==
    ASSUME HInv, NEW c \in Client, Review(c)
    PROVE  Conflict(c) \/ (Rewritten(c, seenId[c]) /\ Reviewed(c, seenId[c]))
<1> DEFINE v == seenId[c]
<1>1. /\ pc[c] \in {"approve", "request_changes"} /\ v \in Version /\ rows[v].made /\ v \in Made
      /\ seen[c].status = "in_review" /\ Faithful(seen[c].stamp, seen[c].units, v)
    BY DEF HInv, IInv, Prepared, RequestTold, Review, Holders, Made
<1> SUFFICES ASSUME AsSeen(c), Done(c), UNCHANGED <<card, opened, listed>>,
                    NEW t \in Later(seen[c].stamp), Stamped(t), Decide(c, v, t)
             PROVE  Rewritten(c, v) /\ Reviewed(c, v)
    BY DEF Review
<1>2. rows[v].stamp = seen[c].stamp /\ rows[v].status = seen[c].status /\ rows[v].units = seen[c].units
    BY <1>1 DEF AsSeen, Faithful
<1>3. t > rows[v].stamp /\ t <= latest' /\ latest <= latest'
    BY <1>1, <1>2, StampsAdvance DEF HInv
<1>4. rows \in [Version -> Row] /\ rows[v] \in Row
    BY <1>1, Typed DEF HInv
<1>5. /\ \A w \in Version \ {v} : rows'[w] = rows[w]
      /\ rows'[v].made = rows[v].made /\ rows'[v].current = rows[v].current /\ rows'[v].stamp = t
      /\ rows'[v].units = rows[v].units /\ rows'[v].narrative = rows[v].narrative
    <2>1. CASE rows' = [rows EXCEPT ![v].status = "approved", ![v].stamp = t, ![v].pin = seen[c].units]
        BY <1>1, <1>4, <2>1 DEF Row
    <2>2. CASE rows' = [rows EXCEPT ![v].status = "changes_requested", ![v].stamp = t]
        BY <1>1, <1>4, <2>2 DEF Row
    <2> QED BY <2>1, <2>2 DEF Decide
<1>6. Rewritten(c, v)
    BY <1>1, <1>3, <1>5 DEF Rewritten
<1>7. Reviewed(c, v)
    <2>1. CASE pc[c] = "approve"
        <3>1. rows'[v].status = "approved" /\ rows'[v].pin = rows[v].units
            BY <1>1, <1>2, <1>4, <2>1 DEF Decide, Row
        <3> QED BY <1>1, <1>2, <1>5, <2>1, <3>1 DEF Reviewed, Decide
    <2>2. CASE pc[c] = "request_changes"
        <3>1. rows'[v].status = "changes_requested"
            BY <1>1, <1>4, <2>2 DEF Decide, Row
        <3> QED BY <1>1, <1>2, <1>5, <2>2, <3>1 DEF Reviewed, Decide
    <2> QED BY <1>1, <2>1, <2>2
<1> QED BY <1>6, <1>7

LEMMA WriteByIdRewrites ==
    ASSUME HInv, NEW c \in Client, ApplyToAppraisal(c) \/ DraftNarrative(c)
    PROVE  Rewritten(c, seenId[c]) /\ Reviewed(c, seenId[c])
<1> DEFINE v == seenId[c]
<1>1. /\ pc[c] \in {"apply", "narrate"} /\ v \in Version /\ rows[v].made /\ v \in Made
      /\ Stamped(Now) /\ Done(c) /\ UNCHANGED <<card, announced, opened, listed>>
    BY DEF HInv, IInv, Prepared, ApplyToAppraisal, DraftNarrative, Holders, Made
<1>2. Now > rows[v].stamp /\ Now <= latest' /\ latest <= latest'
    BY <1>1, StampsAdvance DEF HInv
<1>3. rows \in [Version -> Row] /\ rows[v] \in Row
    BY <1>1, Typed DEF HInv
<1>4. /\ \A w \in Version \ {v} : rows'[w] = rows[w]
      /\ rows'[v].made = rows[v].made /\ rows'[v].current = rows[v].current /\ rows'[v].stamp = Now
      /\ rows'[v].status = rows[v].status /\ rows'[v].pin = rows[v].pin
    <2>1. CASE rows' = [rows EXCEPT ![v].units = work[c], ![v].stamp = Now]
        BY <1>1, <1>3, <2>1 DEF Row
    <2>2. CASE rows' = [rows EXCEPT ![v].narrative = TRUE, ![v].stamp = Now]
        BY <1>1, <1>3, <2>2 DEF Row
    <2> QED BY <2>1, <2>2 DEF ApplyToAppraisal, DraftNarrative
<1>5. Rewritten(c, v)
    BY <1>1, <1>2, <1>4 DEF Rewritten
<1>6. Reviewed(c, v)
    BY <1>1, <1>4 DEF Reviewed
<1> QED BY <1>5, <1>6

\* What a step of client c does, for a proof that goes through its kinds.
Reads(c) ==
    \/ \E u \in Saved : SaveFirstRead(c, u) \/ SaveBranchRead(c, u) \/ SaveInPlaceRead(c, u)
    \/ \E v \in Version : SubmitRead(c, v) \/ ReviewRead(c, v) \/ RestoreRead(c, v)
    \/ ApplyRead(c) \/ NarrativeRead(c)

Shows(c) == GetCurrent(c) \/ \E v \in Version : Versions(c, v)

Adds(c) == \E v \in Version : Added(c, v)

Rewrites(c) == Rewritten(c, seenId[c]) /\ Reviewed(c, seenId[c])

LEMMA StepKinds ==
    ASSUME HInv, Next
    PROVE  \E c \in Client : \/ Reads(c) \/ Shows(c) \/ Adds(c) \/ Rewrites(c)
                             \/ Conflict(c) \/ SyncDealHeadline(c) \/ RestoreReadCurrent(c)
<1>1. PICK c \in Client : \/ Shows(c) \/ Save(c) \/ ReviewCycle(c) \/ RestoreVersion(c)
                          \/ WriteById(c) \/ Crash(c)
    BY DEF Next, Shows
<1>2. IInv
    BY DEF HInv
<1>3. CASE Save(c)
    BY <1>2, <1>3, SaveFirstAdds, SaveBranchAdds, SaveInPlaceRewrites DEF Save, Reads, Adds, Rewrites
<1>4. CASE ReviewCycle(c)
    BY <1>4, SubmitRewrites, ReviewRewrites DEF ReviewCycle, Reads, Rewrites
<1>5. CASE RestoreVersion(c)
    BY <1>2, <1>5, RestoreAdds DEF RestoreVersion, Reads, Adds
<1>6. CASE WriteById(c)
    BY <1>6, WriteByIdRewrites DEF WriteById, Reads, Rewrites
<1>7. CASE Crash(c)
    BY <1>7 DEF Crash, Conflict
<1> QED BY <1>1, <1>3, <1>4, <1>5, <1>6, <1>7

LEMMA QuietKinds ==
    ASSUME NEW c \in Client,
           Reads(c) \/ Shows(c) \/ Conflict(c) \/ SyncDealHeadline(c) \/ RestoreReadCurrent(c)
    PROVE  Quiet
<1>1. CASE Reads(c)
    BY <1>1 DEF Reads, SaveFirstRead, SaveBranchRead, SaveInPlaceRead, SubmitRead, ReviewRead,
                RestoreRead, ApplyRead, NarrativeRead, Holding, Quiet
<1> QED BY <1>1 DEF Shows, GetCurrent, Versions, Conflict, SyncDealHeadline, RestoreReadCurrent, Quiet

(* Time goes forward: no row goes, each is as it was or has a later stamp,    *)
(* and one that becomes current has a stamp no row had before.                *)
Forward ==
    /\ latest <= latest' /\ latest' \in Nat
    /\ \A v \in Version :
          /\ rows[v].made => rows'[v].made
          /\ rows'[v].stamp <= latest' /\ rows'[v].stamp \in Nat
          /\ rows[v].made => rows'[v] = rows[v] \/ rows'[v].stamp > rows[v].stamp
          /\ rows'[v].current /\ ~rows[v].current => rows'[v].stamp > latest

LEMMA StepsForward ==
    ASSUME HInv, IInv', [Next]_vars
    PROVE  Forward
<1>1. \A v \in Version : /\ rows'[v].stamp \in Nat /\ latest' \in Nat /\ latest \in Nat
                         /\ rows[v].stamp \in Nat /\ rows[v].stamp <= latest
                         /\ rows[v].current \in BOOLEAN /\ rows'[v].current \in BOOLEAN
    <2>1. \A v \in Version : rows'[v] \in Row
        BY DEF IInv, TypeOK
    <2>2. latest \in Nat /\ latest' \in Nat
        BY DEF HInv, IInv, TypeOK
    <2> QED BY <2>1, <2>2, Typed DEF HInv, Dated, Row
<1>2. latest \in Nat /\ latest' \in Nat
    BY DEF HInv, IInv, TypeOK
<1>3. CASE Quiet
    BY <1>1, <1>2, <1>3 DEF Forward, Quiet
<1>4. ASSUME NEW c \in Client, Adds(c) PROVE Forward
    <2> PICK v \in Version : Added(c, v)
        BY <1>4 DEF Adds
    <2>1. Now = latest + 1
        BY DEF Now
    <2>2. ~rows[v].made /\ rows'[v].made /\ rows'[v].stamp = Now /\ latest' = Now
        BY DEF Added, Made
    <2>3. \A w \in Version \ {v} : /\ ~rows'[w].current /\ rows'[w].made = rows[w].made
                                   /\ rows'[w] = rows[w] \/ rows'[w].stamp = Now
        BY DEF Added
    <2> QED BY <1>1, <1>2, <2>1, <2>2, <2>3 DEF Forward
<1>5. ASSUME NEW c \in Client, Rewrites(c) PROVE Forward
    BY <1>1, <1>2, <1>5 DEF Forward, Rewrites, Rewritten, Made
<1>6. CASE UNCHANGED vars
    BY <1>3, <1>6 DEF vars, Quiet
<1>7. CASE Next
    BY <1>3, <1>4, <1>5, <1>7, StepKinds, QuietKinds
<1> QED BY <1>6, <1>7

-------------------------------------------------------------------------------

\* What was told of a row stays told of it, and what was newest stays newest.
LEMMA FaithfulStays ==
    ASSUME IInv, Dated, Forward, NEW v \in Version, rows[v].made,
           NEW s \in Nat, NEW u, Faithful(s, u, v)
    PROVE  /\ rows'[v].made /\ s <= rows'[v].stamp /\ (s = rows'[v].stamp => u = rows'[v].units)
           /\ Newest(s, v) => \A w \in Version : rows'[w].current /\ w # v => rows'[w].stamp > s
<1>1. rows[v].stamp \in Nat /\ rows'[v].stamp \in Nat
    BY Typed DEF Forward
<1>2. rows'[v] = rows[v] \/ rows'[v].stamp > rows[v].stamp
    BY DEF Forward
<1>3. s <= rows'[v].stamp /\ (s = rows'[v].stamp => u = rows'[v].units)
    BY <1>1, <1>2 DEF Faithful
<1>4. ASSUME Newest(s, v), NEW w \in Version, rows'[w].current, w # v PROVE rows'[w].stamp > s
    <2>1. rows[w].stamp \in Nat /\ rows'[w].stamp \in Nat /\ latest \in Nat
        BY Typed DEF Forward
    <2>2. CASE rows[w].current
        <3>1. rows[w].made /\ rows[w].stamp > s
            BY <1>4, <2>2 DEF Newest, IInv, RowsSane
        <3> QED BY <2>1, <3>1 DEF Forward
    <2>3. CASE ~rows[w].current
        <3>1. rows'[w].stamp > latest
            BY <1>4, <2>3 DEF Forward
        <3>2. s <= latest
            BY <1>1, <2>1 DEF Faithful, Dated
        <3> QED BY <2>1, <3>1, <3>2
    <2> QED BY <2>2, <2>3
<1> QED BY <1>3, <1>4 DEF Forward

\* A client's screen and locals stay told by a step that leaves them alone.
LEMMA ScreenStays ==
    ASSUME HInv, Forward, NEW d \in Client, opened'[d] = opened[d] /\ listed'[d] = listed[d]
    PROVE  ScreenTold(d)'
<1>1. opened[d].stamp \in Nat /\ IInv /\ Dated /\ ScreenTold(d)
    BY DEF HInv, IInv, TypeOK, Copy
<1>2. CASE opened[d].screen = "none"
    BY <1>2 DEF ScreenTold
<1>3. CASE opened[d].screen # "none"
    <2>1. opened[d].id \in Version /\ rows[opened[d].id].made
              /\ Faithful(opened[d].stamp, Known(d), opened[d].id)
        BY <1>1, <1>3 DEF ScreenTold
    <2>2. /\ rows'[opened[d].id].made
          /\ opened[d].stamp <= rows'[opened[d].id].stamp
          /\ opened[d].stamp = rows'[opened[d].id].stamp => Known(d) = rows'[opened[d].id].units
          /\ Newest(opened[d].stamp, opened[d].id)
                => \A w \in Version : rows'[w].current /\ w # opened[d].id => rows'[w].stamp > opened[d].stamp
        BY <1>1, <2>1, FaithfulStays
    <2>3. Known(d)' = Known(d)
        BY DEF Known
    <2> QED BY <1>1, <2>1, <2>2, <2>3 DEF ScreenTold, Faithful, Newest
<1> QED BY <1>2, <1>3

LEMMA RequestStays ==
    ASSUME HInv, Forward, NEW d \in Client, opened'[d] = opened[d] /\ listed'[d] = listed[d],
           pc'[d] = pc[d], seen'[d] = seen[d], seenId'[d] = seenId[d]
    PROVE  RequestTold(d)'
<1>1. seen[d].stamp \in Nat /\ IInv /\ Dated /\ RequestTold(d) /\ Prepared(d)
    BY DEF HInv, IInv, TypeOK, Row
<1>2. CASE pc[d] \notin Holders \ {"flip"}
    BY <1>2 DEF RequestTold, Holders
<1>3. CASE pc[d] \in Holders \ {"flip"}
    <2>1. seenId[d] \in Version /\ rows[seenId[d]].made
              /\ Faithful(seen[d].stamp, seen[d].units, seenId[d])
        BY <1>1, <1>3 DEF RequestTold, Prepared
    <2>2. /\ seen[d].stamp <= rows'[seenId[d]].stamp
          /\ seen[d].stamp = rows'[seenId[d]].stamp => seen[d].units = rows'[seenId[d]].units
          /\ Newest(seen[d].stamp, seenId[d])
                => \A w \in Version : rows'[w].current /\ w # seenId[d] => rows'[w].stamp > seen[d].stamp
        BY <1>1, <2>1, FaithfulStays
    <2> QED BY <1>1, <2>1, <2>2 DEF RequestTold, Faithful, Newest
<1> QED BY <1>2, <1>3

\* The current row is newer than none other: there is no other current row.
LEMMA CurrentNewest ==
    ASSUME IInv, NEW v \in Version, rows[v].current, NEW s
    PROVE  Newest(s, v)
    BY DEF IInv, NeverTwo, Newest

LEMMA Readings ==
    ASSUME HInv, NEW c \in Client, Reads(c)
    PROVE  /\ UNCHANGED <<opened, listed>>
           /\ \A d \in Client \ {c} : pc'[d] = pc[d] /\ seen'[d] = seen[d] /\ seenId'[d] = seenId[d]
           /\ RequestTold(c)'
<1>1. TypeOK /\ ScreenTold(c)
    BY DEF HInv, IInv
<1>2. PICK s \in Step, v \in Version \cup {None}, r \in Row : (\E u : Holding(c, s, v, r, u)) /\
          /\ s # "first" => v \in Version /\ r = rows[v]
          /\ s \in {"field", "inplace"} => opened[c].screen = "editor" /\ r.stamp = opened[c].stamp
          /\ s \in {"approve", "request_changes"} =>
                /\ opened[c].screen = "versions" /\ opened[c].id = v
                /\ opened[c].stamp = r.stamp /\ r.status = "in_review"
          /\ s # "headline"
    <2>1. \A v \in Version : rows[v] \in Row
        BY <1>1 DEF TypeOK
    <2>2. Current \subseteq Version /\ Made \subseteq Version /\ Saved \subseteq Units
        BY ConstantsOK DEF Current, Made, Units
    <2>3. NoRow \in Row
        BY DEF NoRow, Row, Status
    <2> HIDE DEF NoRow
    <2>4. {"first", "branch", "field", "inplace", "submit", "approve", "request_changes", "restore",
           "apply", "narrate"} \subseteq Step
        BY DEF Step
    <2>5. CASE \E u \in Saved : SaveFirstRead(c, u)
        BY <2>3, <2>4, <2>5 DEF SaveFirstRead
    <2>6. CASE \E u \in Saved : SaveBranchRead(c, u)
        BY <2>1, <2>2, <2>4, <2>6 DEF SaveBranchRead
    <2>7. CASE \E u \in Saved : SaveInPlaceRead(c, u)
        BY <2>1, <2>2, <2>4, <2>7 DEF SaveInPlaceRead
    <2>8. CASE \E v \in Version : SubmitRead(c, v) \/ ReviewRead(c, v) \/ RestoreRead(c, v)
        BY <2>1, <2>4, <2>8 DEF SubmitRead, ReviewRead, RestoreRead
    <2>9. CASE ApplyRead(c) \/ NarrativeRead(c)
        BY <2>1, <2>2, <2>4, <2>9 DEF ApplyRead, NarrativeRead
    <2> QED BY <2>5, <2>6, <2>7, <2>8, <2>9 DEF Reads
<1>3. /\ pc'[c] = s /\ seen'[c] = r /\ seenId'[c] = v /\ UNCHANGED <<rows, opened, listed>>
      /\ \A d \in Client \ {c} : pc'[d] = pc[d] /\ seen'[d] = seen[d] /\ seenId'[d] = seenId[d]
    BY <1>1, <1>2 DEF Holding, TypeOK
<1>4. RequestTold(c)'
    <2>1. "first" \notin Holders
        BY DEF Holders
    <2>2. r.stamp \in Nat
        BY DEF Row
    <2> QED BY <1>2, <1>3, <2>1, <2>2 DEF RequestTold, Faithful
<1> QED BY <1>3, <1>4

\* What a step that ends a request, or leads it to the deal card, leaves in its client's locals.
LEMMA EndedTold ==
    ASSUME HInv, NEW c \in Client, Done(c)
    PROVE  /\ RequestTold(c)'
           /\ \A d \in Client \ {c} : pc'[d] = pc[d] /\ seen'[d] = seen[d] /\ seenId'[d] = seenId[d]
<1>1. pc'[c] = "idle"
    BY DEF HInv, IInv, TypeOK, Done
<1>2. \A d \in Client \ {c} : pc'[d] = pc[d] /\ seen'[d] = seen[d] /\ seenId'[d] = seenId[d]
    BY DEF HInv, IInv, TypeOK, Done
<1> QED BY <1>1, <1>2 DEF RequestTold, Holders

LEMMA WrittenTold ==
    ASSUME HInv, IInv', NEW c \in Client, NEW v \in Version, Written(c, v), rows'[v].current
    PROVE  /\ RequestTold(c)' /\ UNCHANGED <<opened, listed>>
           /\ \A d \in Client \ {c} : pc'[d] = pc[d] /\ seen'[d] = seen[d] /\ seenId'[d] = seenId[d]
<1>1. /\ pc'[c] = "headline" /\ seen'[c] = rows'[v] /\ seenId'[c] = v /\ UNCHANGED <<opened, listed>>
      /\ \A d \in Client \ {c} : pc'[d] = pc[d] /\ seen'[d] = seen[d] /\ seenId'[d] = seenId[d]
    BY DEF HInv, IInv, TypeOK, Written
<1>2. rows'[v].stamp \in Nat
    BY DEF IInv, TypeOK, Row
<1>3. \A w \in Version : rows'[w].current => w = v
    BY DEF IInv, NeverTwo
<1> QED BY <1>1, <1>2, <1>3 DEF RequestTold, Faithful, Newest

LEMMA DatedStep ==
    ASSUME Forward PROVE Dated'
    BY DEF Forward, Dated

\* The step's own client; every other has nothing changed but the table.
LEMMA ToldStep ==
    ASSUME HInv, IInv', Forward, [Next]_vars, NEW d \in Client
    PROVE  ScreenTold(d)' /\ RequestTold(d)'
<1>0. IInv /\ TypeOK
    BY DEF HInv, IInv
<1>1. CASE UNCHANGED vars
    BY <1>1, ScreenStays, RequestStays DEF vars
<1>2. ASSUME NEW c \in Client, Reads(c) PROVE ScreenTold(d)' /\ RequestTold(d)'
    BY <1>2, Readings, ScreenStays, RequestStays
<1>3. ASSUME NEW c \in Client, Shows(c) PROVE ScreenTold(d)' /\ RequestTold(d)'
    <2>1. UNCHANGED <<pc, seen, seenId>> /\ pc[c] = "idle"
        BY <1>3 DEF Shows, GetCurrent, Versions
    <2>2. CASE d # c
        <3>1. opened'[d] = opened[d] /\ listed'[d] = listed[d]
            BY <1>0, <1>3, <2>2 DEF Shows, GetCurrent, Versions, Opens, TypeOK
        <3> QED BY <2>1, <3>1, ScreenStays, RequestStays
    <2>3. CASE d = c
        <3>1. RequestTold(d)'
            BY <2>1, <2>3 DEF RequestTold, Holders
        <3>2. PICK v \in Version :
                  /\ rows[v].made
                  /\ \/ rows[v].current /\ opened'[d] = EditorCopy(v, rows[v])
                     \/ opened'[d] = ListedCopy(v, rows[v]) /\ listed'[d] = rows[v].units
            BY <1>0, <1>3, <2>3 DEF Shows, GetCurrent, Versions, Opens, Current, Made, TypeOK
        <3>3. rows' = rows
            BY <1>3, QuietKinds DEF Quiet
        <3>4. rows[v].current => Newest(rows[v].stamp, v)
            BY <1>0, <3>2, CurrentNewest
        <3>5. rows[v].stamp \in Nat
            BY <1>0, Typed
        <3>6. ScreenTold(d)'
            BY <3>2, <3>3, <3>4, <3>5
               DEF ScreenTold, Known, EditorCopy, ListedCopy, Faithful, Newest
        <3> QED BY <3>1, <3>6
    <2> QED BY <2>2, <2>3
<1>4. ASSUME NEW c \in Client, NEW v \in Version, Written(c, v), rows'[v].current
      PROVE  ScreenTold(d)' /\ RequestTold(d)'
    BY <1>4, WrittenTold, ScreenStays, RequestStays
<1>5. ASSUME NEW c \in Client, Done(c), UNCHANGED <<opened, listed>>
      PROVE  ScreenTold(d)' /\ RequestTold(d)'
    BY <1>5, EndedTold, ScreenStays, RequestStays
<1>6. ASSUME NEW c \in Client, SyncDealHeadline(c) PROVE ScreenTold(d)' /\ RequestTold(d)'
    <2>1. Done(c) /\ rows' = rows /\ pc[c] = "headline"
        BY <1>6 DEF SyncDealHeadline
    <2>2. CASE d # c
        <3>1. opened'[d] = opened[d] /\ listed'[d] = listed[d]
            BY <1>0, <1>6, <2>2 DEF SyncDealHeadline, Opens, TypeOK
        <3> QED BY <2>1, <2>2, <3>1, ScreenStays, EndedTold, RequestStays
    <2>3. CASE d = c
        <3>1. RequestTold(d)'
            BY <2>1, <2>3, EndedTold
        <3>2. opened'[d] = EditorCopy(seenId[c], seen[c])
            BY <1>0, <1>6, <2>3 DEF SyncDealHeadline, Opens, TypeOK
        <3>3. /\ seenId[c] \in Version /\ rows[seenId[c]].made
              /\ Faithful(seen[c].stamp, seen[c].units, seenId[c]) /\ Newest(seen[c].stamp, seenId[c])
            BY <1>0, <2>1 DEF HInv, RequestTold, IInv, Prepared, Holders
        <3>4. ScreenTold(d)'
            BY <2>1, <3>2, <3>3 DEF ScreenTold, Known, EditorCopy, Faithful, Newest
        <3> QED BY <3>1, <3>4
    <2> QED BY <2>2, <2>3
<1>7. ASSUME NEW c \in Client, RestoreReadCurrent(c) PROVE ScreenTold(d)' /\ RequestTold(d)'
    <2>1. UNCHANGED <<opened, listed, seen>> /\ pc' = [pc EXCEPT ![c] = "flip"]
              /\ (d # c => seenId'[d] = seenId[d])
        BY <1>0, <1>7 DEF RestoreReadCurrent, TypeOK
    <2>2. CASE d # c
        <3>1. pc'[d] = pc[d]
            BY <1>0, <2>1, <2>2 DEF TypeOK
        <3> QED BY <2>1, <2>2, <3>1, ScreenStays, RequestStays
    <2>3. CASE d = c
        <3>1. pc'[d] = "flip"
            BY <1>0, <2>1, <2>3 DEF TypeOK
        <3>2. RequestTold(d)'
            BY <3>1 DEF RequestTold
        <3> QED BY <2>1, <3>2, ScreenStays
    <2> QED BY <2>2, <2>3
<1>8. ASSUME NEW c \in Client, Conflict(c) PROVE ScreenTold(d)' /\ RequestTold(d)'
    BY <1>5, <1>8 DEF Conflict
<1>9. ASSUME NEW c \in Client, Adds(c) PROVE ScreenTold(d)' /\ RequestTold(d)'
    BY <1>4, <1>9 DEF Adds, Added
<1>10. ASSUME NEW c \in Client, Rewrites(c) PROVE ScreenTold(d)' /\ RequestTold(d)'
    <2>1. CASE pc[c] = "inplace"
        <3>1. seenId[c] \in Version /\ Written(c, seenId[c]) /\ rows'[seenId[c]].current
            BY <1>10, <2>1 DEF Rewrites, Rewritten, Reviewed, Made
        <3> QED BY <1>4, <3>1
    <2>2. CASE pc[c] # "inplace"
        BY <1>5, <1>10, <2>2 DEF Rewrites, Rewritten
    <2> QED BY <2>1, <2>2
<1> QED BY <1>1, <1>2, <1>3, <1>6, <1>7, <1>8, <1>9, <1>10, StepKinds

\* The event is queued by the step that approves, and by no other.
LEMMA AnnouncedStep ==
    ASSUME HInv, [Next]_vars PROVE ApprovalAnnouncedOnce'
<1>0. TypeOK /\ \A v \in Version : ~rows[v].made => rows[v].status = "draft"
    BY DEF HInv, IInv, RowsSane
<1>1. ApprovalAnnouncedOnce
    BY DEF HInv
<1>2. CASE Quiet
    BY <1>1, <1>2 DEF Quiet, ApprovalAnnouncedOnce
<1>3. ASSUME NEW c \in Client, Adds(c) PROVE ApprovalAnnouncedOnce'
    <2> PICK v \in Version : Added(c, v)
        BY <1>3 DEF Adds
    <2>1. announced' = announced /\ rows'[v].status = "draft" /\ rows[v].status = "draft"
        BY <1>0 DEF Added, Written, Made
    <2>2. \A w \in Version : rows'[w].status = rows[w].status
        BY <2>1 DEF Added
    <2> QED BY <1>1, <2>1, <2>2 DEF ApprovalAnnouncedOnce
<1>4. ASSUME NEW c \in Client, Rewrites(c) PROVE ApprovalAnnouncedOnce'
    <2> DEFINE v == seenId[c]
    <2>1. v \in Version /\ \A w \in Version \ {v} : rows'[w] = rows[w]
        BY <1>4 DEF Rewrites, Rewritten, Made
    <2>2. CASE pc[c] = "approve"
        <3>1. /\ rows[v].status = "in_review" /\ rows'[v].status = "approved" /\ seen[c].units = rows[v].units
              /\ announced' = [announced EXCEPT
                     ![v] = [times |-> @.times + 1, hash |-> seen[c].units, gdv |-> rows[v].units]]
            BY <1>4, <2>2 DEF Rewrites, Reviewed
        <3>2. announced[v].times = 0
            BY <1>1, <2>1, <3>1 DEF ApprovalAnnouncedOnce
        <3>3. /\ announced'[v].times = 1 /\ announced'[v].hash = announced'[v].gdv
              /\ \A w \in Version \ {v} : announced'[w] = announced[w]
            BY <1>0, <2>1, <3>1, <3>2 DEF TypeOK
        <3> QED BY <1>1, <2>1, <3>1, <3>3 DEF ApprovalAnnouncedOnce
    <2>3. CASE pc[c] # "approve"
        <3>1. announced' = announced
            BY <1>4, <2>3 DEF Rewrites, Reviewed
        <3>2. rows'[v].status = "approved" <=> rows[v].status = "approved"
            BY <1>4, <2>3 DEF Rewrites, Rewritten, Reviewed
        <3> QED BY <1>1, <2>1, <3>1, <3>2 DEF ApprovalAnnouncedOnce
    <2> QED BY <2>2, <2>3
<1>5. CASE UNCHANGED vars
    BY <1>2, <1>5 DEF vars, Quiet
<1> QED BY <1>2, <1>3, <1>4, <1>5, StepKinds, QuietKinds

LEMMA InitHistory == Init => HInv
<1> SUFFICES ASSUME Init PROVE HInv
    OBVIOUS
<1>1. IInv
    BY InitInvariant
<1>2. \A v \in Version : rows[v].stamp = 0 /\ rows[v].status = "draft" /\ latest = 0
    BY DEF Init, NoRow
<1>3. \A c \in Client : opened[c].screen = "none" /\ pc[c] = "idle"
    BY DEF Init, NoCopy
<1>4. ApprovalAnnouncedOnce
    BY <1>2 DEF Init, ApprovalAnnouncedOnce
<1> QED BY <1>1, <1>2, <1>3, <1>4 DEF HInv, Dated, ScreenTold, RequestTold, Holders

LEMMA StepHistory == HInv /\ [Next]_vars => HInv'
<1> SUFFICES ASSUME HInv, [Next]_vars PROVE HInv'
    OBVIOUS
<1>1. IInv'
    BY StepInvariant DEF HInv
<1>2. Forward
    BY <1>1, StepsForward
<1>3. \A d \in Client : ScreenTold(d)' /\ RequestTold(d)'
    BY <1>1, <1>2, ToldStep
<1> QED BY <1>1, <1>2, <1>3, DatedStep, AnnouncedStep DEF HInv

(* What requests and screens were told of a version is what its row said, and  *)
(* an approved version is dated and announced: the invariant of the history.  *)
THEOREM HistoryInvariant == Spec => []HInv
BY InitHistory, StepHistory, PTL DEF Spec

(* Every approval queues its event once and nothing else queues one, with the *)
(* inputs that were signed in its hash and in its figures, however many       *)
(* reviewers decide and re-submissions land at once (appraisal.ts review).    *)
THEOREM AnnouncedOnce == Spec => []ApprovalAnnouncedOnce
<1>1. HInv => ApprovalAnnouncedOnce
    BY DEF HInv
<1> QED BY <1>1, HistoryInvariant, PTL

-------------------------------------------------------------------------------

\* The step in which a client's own request leaves the step it was at is that client's.
LEMMA OwnStep ==
    ASSUME HInv, Next, NEW c \in Client, pc'[c] # pc[c]
    PROVE  \/ Reads(c) \/ Adds(c) \/ Rewrites(c) \/ Conflict(c)
           \/ SyncDealHeadline(c) \/ RestoreReadCurrent(c)
<1>1. TypeOK
    BY DEF HInv, IInv
<1>2. PICK d \in Client : \/ Reads(d) \/ Shows(d) \/ Adds(d) \/ Rewrites(d)
                          \/ Conflict(d) \/ SyncDealHeadline(d) \/ RestoreReadCurrent(d)
    BY StepKinds
<1>3. CASE Reads(d)
    BY <1>3, Readings
<1>4. CASE Shows(d)
    BY <1>4 DEF Shows, GetCurrent, Versions
<1>5. CASE Conflict(d) \/ SyncDealHeadline(d) \/ RestoreReadCurrent(d)
    BY <1>1, <1>5 DEF Conflict, SyncDealHeadline, RestoreReadCurrent, Done, TypeOK
<1>6. CASE Adds(d)
    BY <1>1, <1>6 DEF Adds, Added, Written, TypeOK
<1>7. CASE Rewrites(d)
    BY <1>1, <1>7 DEF Rewrites, Rewritten, Written, Done, TypeOK
<1> QED BY <1>2, <1>3, <1>4, <1>5, <1>6, <1>7

\* What the copy on the screen matched, when a guard lets the write through.
LEMMA ListedIsSigned ==
    ASSUME HInv, [Next]_vars, NEW c \in Client, NEW v \in Version,
           pc[c] = "approve", seenId[c] = v, rows[v].status # "approved",
           rows'[v].status = "approved", pc'[c] = "idle"
    PROVE  rows[v].units = listed[c] /\ rows'[v].pin = listed[c]
<1>1. Next /\ ~Quiet
    BY DEF vars, Quiet
<1>2. Rewrites(c)
    BY <1>1, OwnStep, QuietKinds DEF Adds, Added
<1>3. rows'[v].pin = rows[v].units /\ rows[v].units = seen[c].units
    BY <1>2 DEF Rewrites, Reviewed
<1>4. /\ rows[v].stamp = opened[c].stamp /\ Faithful(opened[c].stamp, listed[c], v)
    BY <1>2 DEF Rewrites, Reviewed, HInv, ScreenTold, RequestTold, Known
<1> QED BY <1>3, <1>4 DEF Faithful

LEMMA AuthorSawIt ==
    ASSUME HInv, [Next]_vars, NEW c \in Client, pc'[c] = "headline"
    PROVE  /\ pc[c] = "inplace" => rows[seenId[c]].units = opened[c].units
           /\ pc[c] = "field" => rows[seenId[c]].units = seen[c].units
<1>1. ASSUME pc[c] \in {"inplace", "field"} PROVE Adds(c) \/ Rewrites(c)
    <2>1. Next /\ pc'[c] # pc[c]
        BY <1>1 DEF vars
    <2>2. ~Reads(c) /\ ~SyncDealHeadline(c) /\ ~RestoreReadCurrent(c)
        BY <1>1 DEF Reads, SaveFirstRead, SaveBranchRead, SaveInPlaceRead, SubmitRead, ReviewRead,
                    RestoreRead, ApplyRead, NarrativeRead, Holding, SyncDealHeadline, RestoreReadCurrent
    <2>3. ~Conflict(c)
        BY DEF Conflict, Done, HInv, IInv, TypeOK
    <2> QED BY <2>1, <2>2, <2>3, OwnStep
<1>2. RequestTold(c) /\ ScreenTold(c) /\ Prepared(c)
    BY DEF HInv, IInv
<1>3. CASE pc[c] = "inplace"
    <2> DEFINE v == seenId[c]
    <2>1. rows[v].stamp = seen[c].stamp /\ rows[v].current /\ v \in Version
        BY <1>1, <1>3 DEF Adds, Added, Rewrites, Rewritten, Reviewed, Made
    <2>2. opened[c].screen = "editor" /\ opened[c].stamp = rows[v].stamp
        BY <1>2, <1>3, <2>1 DEF RequestTold
    <2>3. opened[c].stamp \in Nat
        BY DEF HInv, IInv, TypeOK, Copy
    <2>4. opened[c].id = v
        BY <1>2, <2>1, <2>2, <2>3 DEF ScreenTold, Newest
    <2> QED BY <1>2, <1>3, <2>2, <2>4 DEF ScreenTold, Known, Faithful
<1>4. CASE pc[c] = "field"
    <2>1. rows[seenId[c]].stamp = seen[c].stamp
        BY <1>1, <1>4 DEF Adds, Added, Rewrites, Rewritten
    <2> QED BY <1>2, <1>4, <2>1 DEF RequestTold, Faithful, Holders
<1> QED BY <1>3, <1>4

LEMMA ApprovedStays ==
    ASSUME HInv, [Next]_vars, NEW v \in Version, rows[v].status = "approved"
    PROVE  rows'[v].status = "approved"
<1>1. rows[v].made
    BY DEF HInv, IInv, RowsSane
<1>2. CASE Quiet
    BY <1>2 DEF Quiet
<1>3. ASSUME NEW c \in Client, Adds(c) PROVE rows'[v].status = "approved"
    BY <1>1, <1>3 DEF Adds, Added, Made
<1>4. ASSUME NEW c \in Client, Rewrites(c) PROVE rows'[v].status = "approved"
    BY <1>4 DEF Rewrites, Rewritten, Reviewed
<1> QED BY <1>2, <1>3, <1>4, StepKinds, QuietKinds DEF vars, Quiet

LEMMA WritesById ==
    ASSUME HInv, [Next]_vars, NEW v \in Version, rows[v].status = "approved",
           rows'[v].units # rows[v].units \/ rows'[v].narrative # rows[v].narrative
    PROVE  \E c \in Client : pc[c] \in {"apply", "narrate"} /\ seenId[c] = v /\ pc'[c] = "idle"
<1>1. Next /\ ~Quiet
    BY DEF vars, Quiet
<1>2. PICK c \in Client : Adds(c) \/ Rewrites(c)
    BY <1>1, StepKinds, QuietKinds
<1>3. ~Adds(c)
    <2>1. rows[v].made
        BY DEF HInv, IInv, RowsSane
    <2> QED BY <2>1 DEF Adds, Added, Made
<1>4. Rewrites(c) /\ seenId[c] = v
    BY <1>2, <1>3 DEF Rewrites, Rewritten
<1>5. pc[c] \in {"apply", "narrate"}
    BY <1>4 DEF Rewrites, Rewritten, Reviewed
<1>6. pc'[c] = "idle"
    BY <1>4, <1>5 DEF Rewrites, Rewritten, Done, HInv, IInv, TypeOK
<1> QED BY <1>4, <1>5, <1>6

(* A signature is never taken back: no submission, decision or edit that had  *)
(* read the version before it was approved moves it to another state.         *)
THEOREM ApprovalStands == Spec => ApprovalIsFinal
<1>1. HInv /\ [Next]_vars
          => [\A v \in Version : rows[v].status = "approved" => rows'[v].status = "approved"]_vars
    BY ApprovedStays
<1> QED BY <1>1, HistoryInvariant, PTL DEF Spec, ApprovalIsFinal

(* An approval that goes through finds and pins the inputs the version held   *)
(* when it was listed to its reviewer, whatever landed in between: the list   *)
(* sends a stamp and no inputs, and an equal stamp means equal inputs.        *)
THEOREM ApprovalsSignWhatWasListed == Spec => SignedAsListed
<1>1. HInv /\ [Next]_vars =>
        [\A c \in Client, v \in Version :
          (pc[c] = "approve" /\ seenId[c] = v /\ rows'[v].status = "approved" /\ rows[v].status # "approved"
             /\ pc'[c] = "idle")
          => /\ rows[v].units = listed[c]
             /\ rows'[v].pin = listed[c]]_vars
    BY ListedIsSigned
<1> QED BY <1>1, HistoryInvariant, PTL DEF Spec, SignedAsListed

(* An in-place save replaces the inputs its author had on screen and no other *)
(* person's; a field allowance is added to the inputs it was read with.       *)
THEOREM SavesLoseNothing == Spec => NoSaveLost
<1>1. HInv /\ [Next]_vars =>
        [\A c \in Client :
          pc'[c] = "headline" =>
            /\ pc[c] = "inplace" => rows[seenId[c]].units = opened[c].units
            /\ pc[c] = "field" => rows[seenId[c]].units = seen[c].units]_vars
    BY AuthorSawIt
<1> QED BY <1>1, HistoryInvariant, PTL DEF Spec, NoSaveLost

(* Nothing but the two updates by id changes the figures or the prose of an   *)
(* approved version.                                                          *)
THEOREM ApprovedIsLeftAlone == Spec => OnlyWritesByIdTouchApproved
<1>1. HInv /\ [Next]_vars =>
        [\A v \in Version :
          (rows[v].status = "approved"
             /\ (rows'[v].units # rows[v].units \/ rows'[v].narrative # rows[v].narrative))
          => \E c \in Client : pc[c] \in {"apply", "narrate"} /\ seenId[c] = v /\ pc'[c] = "idle"]_vars
    BY WritesById
<1> QED BY <1>1, HistoryInvariant, PTL DEF Spec, OnlyWritesByIdTouchApproved

-------------------------------------------------------------------------------
(***************************************************************************)
(* The refinement of VersionHistory.                                        *)
(***************************************************************************)

Stages == [v \in Version |-> IF rows[v].made THEN rows[v].status ELSE "absent"]
Shown == IF Current = {} THEN None ELSE CHOOSE v \in Version : v \in Current
Signed == [v \in Version |-> IF rows[v].status = "approved" THEN rows[v].pin ELSE None]

LEMMA TheOne ==
    ASSUME NEW v \in Version, NEW S, S = {v}
    PROVE  (IF S = {} THEN None ELSE CHOOSE w \in Version : w \in S) = v
    OBVIOUS

LEMMA ShownIsCurrent ==
    ASSUME IInv, NEW v \in Version, rows[v].current
    PROVE  Shown = v
<1>1. Current = {v}
    BY DEF Current, Made, IInv, NeverTwo, RowsSane
<1> QED BY <1>1, TheOne DEF Shown

\* The two steps a reader sees: a new current version, or one version in another state.
LEMMA AddIsAdd ==
    ASSUME HInv, IInv', NEW c \in Client, NEW v \in Version, Added(c, v)
    PROVE  History!Add(v)
<1>1. /\ ~rows[v].made /\ rows'[v].made /\ rows'[v].current /\ rows'[v].status = "draft"
      /\ \A w \in Version \ {v} :
            /\ ~rows'[w].current /\ rows'[w].made = rows[w].made
            /\ rows'[w].status = rows[w].status /\ rows'[w].pin = rows[w].pin
    BY DEF Added, Made
<1>2. rows[v].status = "draft"
    BY <1>1 DEF HInv, IInv, RowsSane
<1>3. Stages[v] = "absent" /\ Stages' = [Stages EXCEPT ![v] = "draft"]
    BY <1>1 DEF Stages
<1>4. Signed' = Signed
    BY <1>1, <1>2 DEF Signed
<1>5. Shown' = v
    <2>1. Current' = {v}
        BY <1>1 DEF Current, Made, IInv, RowsSane
    <2> QED BY <2>1, TheOne DEF Shown
<1> QED BY <1>3, <1>4, <1>5 DEF History!Add, Stages, Shown, Signed

LEMMA RewriteIsReviewed ==
    ASSUME HInv, NEW c \in Client, Rewrites(c), NEW v \in Version, v = seenId[c]
    PROVE  [History!Next]_(History!vars)
<1>1. /\ rows[v].made /\ rows'[v].made /\ rows'[v].current = rows[v].current
      /\ \A w \in Version \ {v} : rows'[w] = rows[w]
    BY DEF Rewrites, Rewritten, Made
<1>2. rows[v].status \in Status /\ rows[v].units \in Units /\ IInv
    BY <1>1, Typed DEF Row, HInv, IInv, RowsSane
<1>3. Current' = Current
    BY <1>1 DEF Current, Made
<1>4. Shown' = Shown
    BY <1>3 DEF Shown
<1>5. Stages[v] = rows[v].status /\ Stages' = [Stages EXCEPT ![v] = rows'[v].status]
    BY <1>1 DEF Stages
<1>6. CASE pc[c] = "approve"
    <2>1. rows[v].status = "in_review" /\ rows'[v].status = "approved" /\ rows'[v].pin = rows[v].units
        BY <1>6 DEF Rewrites, Reviewed
    <2> PICK u \in Units : u = rows[v].units
        BY <1>2
    <2>2. Signed' = [Signed EXCEPT ![v] = u]
        BY <1>1, <2>1 DEF Signed
    <2>3. History!Approve(v, u)
        BY <1>4, <1>5, <2>1, <2>2 DEF History!Approve, Stages, Shown, Signed
    <2> QED BY <2>3 DEF History!Next
<1>7. CASE pc[c] # "approve"
    <2>1. Signed' = Signed
        <3>1. rows'[v].status = "approved" => rows'[v].pin = rows[v].pin /\ rows[v].status = "approved"
            BY <1>7 DEF Rewrites, Rewritten, Reviewed
        <3>2. rows[v].status = "approved" => rows'[v].status = "approved"
            BY <1>7 DEF Rewrites, Rewritten, Reviewed
        <3> QED BY <1>1, <3>1, <3>2 DEF Signed
    <2>2. CASE pc[c] = "request_changes"
        <3>1. rows[v].status = "in_review" /\ rows'[v].status = "changes_requested"
            BY <2>2 DEF Rewrites, Reviewed
        <3>2. History!RequestChanges(v)
            BY <1>4, <1>5, <2>1, <3>1 DEF History!RequestChanges, Stages, Shown, Signed
        <3> QED BY <1>1, <3>2 DEF History!Next
    <2>3. CASE pc[c] = "submit" /\ rows[v].status # "in_review"
        <3>1. rows[v].status \in {"draft", "changes_requested"} /\ rows'[v].status = "in_review"
            BY <1>2, <2>3 DEF Rewrites, Reviewed, Status
        <3>2. History!Submit(v)
            BY <1>4, <1>5, <2>1, <3>1 DEF History!Submit, Stages, Shown, Signed
        <3> QED BY <1>1, <3>2 DEF History!Next
    <2>4. CASE pc[c] = "inplace" /\ rows[v].status = "in_review"
        <3>1. rows'[v].status = "draft" /\ rows[v].current
            BY <2>4 DEF Rewrites, Reviewed
        <3>2. Shown = v
            BY <1>1, <1>2, <3>1, ShownIsCurrent
        <3>3. History!Withdraw(v)
            BY <1>4, <1>5, <2>1, <2>4, <3>1, <3>2 DEF History!Withdraw, Stages, Shown, Signed
        <3> QED BY <1>1, <3>3 DEF History!Next
    <2>5. CASE rows'[v].status = rows[v].status
        <3>1. Stages' = Stages
            BY <1>1, <2>5 DEF Stages
        <3> QED BY <1>4, <2>1, <3>1 DEF History!vars, Stages, Shown, Signed
    <2>6. \/ pc[c] = "request_changes" \/ (pc[c] = "submit" /\ rows[v].status # "in_review")
          \/ (pc[c] = "inplace" /\ rows[v].status = "in_review")
          \/ rows'[v].status = rows[v].status
        BY <1>7 DEF Rewrites, Rewritten, Reviewed
    <2> QED BY <2>2, <2>3, <2>4, <2>5, <2>6
<1> QED BY <1>6, <1>7

LEMMA QuietIsStutter ==
    ASSUME Quiet PROVE UNCHANGED History!vars
<1>1. Stages' = Stages /\ Shown' = Shown /\ Signed' = Signed
    BY DEF Quiet, Stages, Shown, Signed, Current, Made
<1> QED BY <1>1 DEF History!vars, Stages, Shown, Signed

LEMMA StartOfHistory == Init => History!Init
<1> SUFFICES ASSUME Init PROVE History!Init
    OBVIOUS
<1>1. \A v \in Version : rows[v] = NoRow
    BY DEF Init
<1>2. Current = {}
    BY <1>1 DEF Current, Made, NoRow
<1>3. Stages = [v \in Version |-> "absent"] /\ Signed = [v \in Version |-> None] /\ Shown = None
    BY <1>1, <1>2 DEF Stages, Signed, Shown, NoRow
<1> QED BY <1>3 DEF History!Init, Stages, Shown, Signed

LEMMA StepOfHistory == HInv /\ HInv' /\ [Next]_vars => [History!Next]_(History!vars)
<1> SUFFICES ASSUME HInv, HInv', [Next]_vars PROVE [History!Next]_(History!vars)
    OBVIOUS
<1>1. CASE UNCHANGED vars
    BY <1>1, QuietIsStutter DEF vars, Quiet
<1>2. ASSUME NEW c \in Client, Adds(c) PROVE History!Next
    <2>1. IInv'
        BY DEF HInv
    <2> QED BY <1>2, <2>1, AddIsAdd DEF Adds, History!Next
<1>3. CASE Next
    <2>1. ASSUME NEW c \in Client, Rewrites(c) PROVE [History!Next]_(History!vars)
        <3>1. seenId[c] \in Version
            BY <2>1 DEF Rewrites, Rewritten, Made
        <3> QED BY <2>1, <3>1, RewriteIsReviewed
    <2> QED BY <1>2, <1>3, <2>1, StepKinds, QuietKinds, QuietIsStutter
<1> QED BY <1>1, <1>3

(* Overlapping saves, submissions, decisions and restores are, to a reader of *)
(* the history, single steps of VersionHistory: versions are added, each goes *)
(* through its review one decision at a time, and what was signed stays.      *)
THEOREM HistoryImplemented == Spec => ImplementsHistory
<1>1. Init => History!Init
    BY StartOfHistory
<1>2. HInv /\ HInv' /\ [Next]_vars => [History!Next]_(History!vars)
    BY StepOfHistory
<1> QED BY <1>1, <1>2, HistoryInvariant, PTL DEF Spec, ImplementsHistory, History!Spec
=============================================================================
