--------------------------- MODULE ValuationProofs ---------------------------
(***************************************************************************)
(* What holds, for every value of the constants, of the field app's queue *)
(* of photographs (FieldWork) and of the machines of MCValuation: for each *)
(* an inductive invariant, IInv of its module (IInv here for FieldWork), a *)
(* lemma that its steps keep it and, where one is needed, that it gives    *)
(* what MCValuation says of the machine.  And what the operators of the    *)
(* calculation engine return for every appraisal (DevelopmentFigures, by   *)
(* way of MCFigures): the facility month by month, the months that hold    *)
(* its cost and the cash pages that agree.                                 *)
(***************************************************************************)
EXTENDS MCValuation, FieldWork, MCFigures, FiniteSetTheorems, WellFoundedInduction, TLAPS

-----------------------------------------------------------------------------
(***************************************************************************)
(* FieldWork.  No photograph is let go before a save has named it, and no   *)
(* screen, save or inspection names a row the server never made, for any    *)
(* number of devices, workbenches and photographs and any bounds.           *)
(***************************************************************************)

\* The rows the server has made, those removed since included.
Made == {r \in Row : r[2] \in 1..made[r[1]]}

\* A photograph uploaded is one of those; so is what an upload has just answered.
UploadsReal ==
    /\ \A p \in Photo : kept[p].at \in {"up", "forgotten"} => kept[p].row \in 1..made[p]
    /\ \A d \in Device : drain[d].at = "answered" => drain[d].row \in 1..made[drain[d].photo]

\* So is every photograph a screen, a save or an inspection has in its rooms.
RoomsReal ==
    /\ rows \subseteq Made
    /\ \A s \in Screen : screen[s].rooms \subseteq Made /\ save[s].rooms \subseteq Made
    /\ \A i \in 1..MaxSaves : insp[i].rooms \subseteq Made

\* A save that is done has named its photographs; one is forgotten only after that.
NamedFirst ==
    /\ \A p \in Photo : kept[p].at = "forgotten" => p \in named
    /\ \A s \in Screen : save[s].at = "done" => \A r \in save[s].rooms : r[1] \in named

\* The row a query answers with is there.
LatestReal == saved # 0 => \E i \in 1..MaxSaves : insp[i].stamp = saved

IInv ==
    /\ TypeOK
    /\ UploadsReal
    /\ RoomsReal
    /\ NamedFirst
    /\ LatestReal

-------------------------------------------------------------------------------
LEMMA Constants ==
    /\ Idle \in Drain /\ Idle.at = "idle"
    /\ NoSave \in Save /\ NoSave.at = "idle" /\ NoSave.rooms = {}
    /\ Shut \in View /\ Shut.rooms = {}
    /\ NoInsp \in Inspection /\ NoInsp.rooms = {}
    /\ Device \subseteq Screen
<1>1. (CHOOSE p \in Photo : TRUE) \in Photo
    BY FieldWorkAssumption
<1>2. 0 \in Id
    BY FieldWorkAssumption DEF Id
<1> QED BY <1>1, <1>2 DEF Idle, Drain, NoSave, Save, Shut, View, NoInsp, Inspection, Screen

LEMMA LatestIs ==
    ASSUME IInv
    PROVE  /\ Latest \in Id
           /\ RoomsOf(Latest) \subseteq Made /\ RoomsOf(Latest) \in SUBSET Row
           /\ StampOf(Latest) \in Nat
<1>1. insp \in [1..MaxSaves -> Inspection] /\ saved \in Nat /\ MaxSaves \in Nat
    BY FieldWorkAssumption DEF IInv, TypeOK
<1>2. CASE saved = 0
    BY <1>1, <1>2 DEF Latest, Id, RoomsOf, StampOf
<1>3. CASE saved # 0
    <2>1. Latest \in 1..MaxSaves
        BY <1>3 DEF Latest, IInv, LatestReal
    <2>2. Latest # 0 /\ Latest \in Id /\ insp[Latest] \in Inspection
        BY <1>1, <2>1 DEF Id
    <2>3. insp[Latest].rooms \subseteq Made
        BY <2>1 DEF IInv, RoomsReal
    <2> QED BY <2>2, <2>3 DEF RoomsOf, StampOf, Inspection
<1> QED BY <1>2, <1>3

\* The rows made are kept in mind: a step that makes none, or one more, keeps them all.
LEMMA StoreAddsOne ==
    ASSUME IInv, NEW p \in Photo, Store(p)
    PROVE  /\ made' \in [Photo -> 0..MaxRows] /\ made'[p] = made[p] + 1
           /\ \A q \in Photo : 1..made[q] \subseteq 1..made'[q]
           /\ rows' \subseteq Made' /\ rows' \subseteq Row /\ Made \subseteq Made'
<1>1. made \in [Photo -> 0..MaxRows] /\ MaxRows \in Nat /\ rows \subseteq Made
    BY FieldWorkAssumption DEF IInv, TypeOK, RoomsReal
<1>2. made' \in [Photo -> 0..MaxRows] /\ made'[p] = made[p] + 1 /\ \A q \in Photo \ {p} : made'[q] = made[q]
    BY <1>1 DEF Store
<1>3. \A q \in Photo : 1..made[q] \subseteq 1..made'[q]
    BY <1>1, <1>2
<1>4. Made \subseteq Made'
    BY <1>3 DEF Made, Row
<1>5. <<p, made[p] + 1>> \in Made'
    BY <1>1, <1>2 DEF Made, Row
<1>6. rows' = rows \cup {<<p, made[p] + 1>>}
    BY DEF Store
<1> QED BY <1>1, <1>2, <1>3, <1>4, <1>5, <1>6 DEF Made

LEMMA MadeStays ==
    ASSUME UNCHANGED made
    PROVE  Made' = Made
    BY DEF Made

-------------------------------------------------------------------------------
(* Steps that touch nothing of the server: what they do to the queue, the     *)
(* passes, the screens and the saves is enough.                               *)
LEMMA ScreenStep ==
    ASSUME IInv, UNCHANGED <<server, named>>,
           kept' \in [Photo -> Kept], drain' \in [Device -> Drain],
           screen' \in [Screen -> View], save' \in [Screen -> Save],
           fails' \in 0..MaxFail, reloads' \in 0..MaxReload,
           UploadsReal',
           \A s \in Screen : screen'[s].rooms \subseteq Made /\ save'[s].rooms \subseteq Made,
           NamedFirst'
    PROVE  IInv'
<1>1. Made' = Made /\ UNCHANGED <<rows, made, insp, saved, named>>
    BY MadeStays DEF server
<1>2. TypeOK'
    BY <1>1 DEF IInv, TypeOK
<1>3. RoomsReal'
    BY <1>1 DEF IInv, RoomsReal
<1>4. LatestReal'
    BY <1>1 DEF IInv, LatestReal
<1> QED BY <1>2, <1>3, <1>4 DEF IInv

\* Of those, the ones that leave the queue and the passes alone.
LEMMA ViewStep ==
    ASSUME IInv, UNCHANGED <<server, named, kept, drain, fails, reloads>>,
           screen' \in [Screen -> View], save' \in [Screen -> Save],
           \A s \in Screen : screen'[s].rooms \subseteq Made /\ save'[s].rooms \subseteq Made,
           \A s \in Screen : save'[s].at # "done" \/ save'[s] = save[s]
    PROVE  IInv'
<1>1. UploadsReal'
    BY DEF IInv, UploadsReal, server
<1>2. NamedFirst'
    BY DEF IInv, NamedFirst
<1>3. kept \in [Photo -> Kept] /\ drain \in [Device -> Drain] /\ fails \in 0..MaxFail /\ reloads \in 0..MaxReload
    BY DEF IInv, TypeOK
<1> QED BY <1>1, <1>2, <1>3, ScreenStep

LEMMA ViewsPreserve ==
    ASSUME IInv, NEW s \in Screen,
           \/ Open(s) \/ Refetch(s) \/ SendSave(s) \/ CheckPhotos(s) \/ assertUnchanged(s)
           \/ s \in Device /\ refreshQueue(s)
    PROVE  IInv'
<1>1. /\ screen \in [Screen -> View] /\ save \in [Screen -> Save] /\ kept \in [Photo -> Kept]
      /\ \A t \in Screen : screen[t].rooms \subseteq Made /\ save[t].rooms \subseteq Made
    BY DEF IInv, TypeOK, RoomsReal
<1>2. UNCHANGED <<server, named, kept, drain, fails, reloads>>
    BY DEF Open, Refetch, SendSave, CheckPhotos, assertUnchanged, refreshQueue
<1>3. Latest \in Id /\ RoomsOf(Latest) \subseteq Made /\ RoomsOf(Latest) \in SUBSET Row /\ StampOf(Latest) \in Nat
    BY LatestIs
\* A step of the view: one screen's rooms come from the server or the queue.
<1>4. ASSUME NEW v \in View, v.rooms \subseteq Made, screen' = [screen EXCEPT ![s] = v], UNCHANGED save
      PROVE  IInv'
    <2>1. screen' \in [Screen -> View] /\ \A t \in Screen : screen'[t].rooms \subseteq Made /\ save'[t].rooms \subseteq Made
        BY <1>1, <1>4
    <2> QED BY <1>1, <1>2, <1>4, <2>1, ViewStep
\* A step of a save that does not end it.
<1>5. ASSUME NEW v \in Save, v.rooms \subseteq Made, v.at # "done", save' = [save EXCEPT ![s] = v], UNCHANGED screen
      PROVE  IInv'
    <2>1. /\ save' \in [Screen -> Save] /\ \A t \in Screen : screen'[t].rooms \subseteq Made /\ save'[t].rooms \subseteq Made
          /\ \A t \in Screen : save'[t].at # "done" \/ save'[t] = save[t]
        BY <1>1, <1>5
    <2> QED BY <1>1, <1>2, <1>5, <2>1, ViewStep
<1>6. CASE Open(s)
    <2> DEFINE v == [open |-> TRUE, id |-> Latest, held |-> StampOf(Latest), rooms |-> RoomsOf(Latest)]
    <2>1. v \in View /\ v.rooms \subseteq Made
        BY <1>3 DEF View
    <2> QED BY <1>4, <1>6, <2>1 DEF Open
<1>7. CASE Refetch(s)
    <2> DEFINE rooms == IF s \in Desk THEN RoomsOf(Latest) ELSE screen[s].rooms
               v == [screen[s] EXCEPT !.id = Latest, !.rooms = rooms]
    <2>1. rooms \in SUBSET Row /\ rooms \subseteq Made
        BY <1>1, <1>3 DEF View
    <2>2. screen' = [screen EXCEPT ![s] = v] /\ UNCHANGED save
        BY <1>1, <1>7 DEF Refetch, View
    <2> HIDE DEF rooms
    <2>3. v \in View /\ v.rooms \subseteq Made
        BY <1>1, <1>3, <2>1 DEF View
    <2> QED BY <1>4, <2>2, <2>3
<1>8. CASE SendSave(s)
    <2> DEFINE v == [at |-> "photos", id |-> screen[s].id, held |-> screen[s].held, rooms |-> screen[s].rooms]
    <2>1. v \in Save /\ v.rooms \subseteq Made /\ v.at # "done"
        BY <1>1 DEF View, Save
    <2> QED BY <1>5, <1>8, <2>1 DEF SendSave
<1>9. CASE CheckPhotos(s) \/ assertUnchanged(s)
    <2>1. ASSUME NEW at \in {"stamp", "write"} PROVE LET v == [save[s] EXCEPT !.at = at]
                                                    IN  v \in Save /\ v.rooms \subseteq Made /\ v.at # "done"
        BY <1>1 DEF Save
    <2>2. \/ save' = [save EXCEPT ![s] = NoSave]
          \/ save' = [save EXCEPT ![s] = [save[s] EXCEPT !.at = "stamp"]]
          \/ save' = [save EXCEPT ![s] = [save[s] EXCEPT !.at = "write"]]
        BY <1>1, <1>9 DEF CheckPhotos, assertUnchanged
    <2>3. UNCHANGED screen
        BY <1>9 DEF CheckPhotos, assertUnchanged
    <2> QED BY <1>5, <2>1, <2>2, <2>3, Constants
<1>10. CASE s \in Device /\ refreshQueue(s)
    <2> DEFINE v == [screen[s] EXCEPT !.rooms = screen[s].rooms \cup Attributed(s)]
    <2>1. Attributed(s) \subseteq Made /\ Attributed(s) \in SUBSET Row
        <3> SUFFICES ASSUME NEW p \in Photo, kept[p].at = "up" PROVE <<p, kept[p].row>> \in Made
            BY DEF Attributed, Mine, Made
        <3>1. kept[p].row \in 1..made[p] /\ kept[p].row \in Nat
            BY <1>1 DEF IInv, UploadsReal, Kept
        <3> QED BY <3>1 DEF Made, Row
    <2>2. screen' = [screen EXCEPT ![s] = v] /\ UNCHANGED save
        BY <1>1, <1>10 DEF refreshQueue, View
    <2>3. v \in View /\ v.rooms \subseteq Made
        BY <1>1, <2>1 DEF View
    <2> QED BY <1>4, <2>2, <2>3
<1> QED BY <1>6, <1>7, <1>8, <1>9, <1>10

-------------------------------------------------------------------------------
(* The queue.                                                                 *)
LEMMA QueuePreserves ==
    ASSUME IInv,
           \/ \E d \in Device : \/ drainOnce(d) \/ NextRecord(d) \/ PatchRecord(d)
                                \/ \E p \in Photo : addShot(d, p)
           \/ \E p \in Photo : Due(p)
    PROVE  IInv'
<1>1. /\ screen \in [Screen -> View] /\ save \in [Screen -> Save] /\ kept \in [Photo -> Kept]
      /\ drain \in [Device -> Drain] /\ fails \in 0..MaxFail /\ reloads \in 0..MaxReload
      /\ \A t \in Screen : screen[t].rooms \subseteq Made /\ save[t].rooms \subseteq Made
      /\ UploadsReal /\ NamedFirst
    BY SMTT(30) DEF IInv, TypeOK, RoomsReal
<1>2. UNCHANGED <<server, screen, save, named, fails, reloads>>
    BY DEF drainOnce, NextRecord, PatchRecord, addShot, Due
<1>3. UNCHANGED made
    BY <1>2 DEF server
\* The pass of a device goes on: it answers nothing it did not.
<1>4. ASSUME NEW d \in Device, NEW v \in Drain, v.at # "answered", drain' = [drain EXCEPT ![d] = v],
             NEW k \in [Photo -> Kept], kept' = k,
             \A p \in Photo : k[p].at \in {"up", "forgotten"} => k[p].row \in 1..made[p],
             \A p \in Photo : k[p].at = "forgotten" => p \in named
      PROVE  IInv'
    <2>1. drain' \in [Device -> Drain] /\ \A e \in Device : drain'[e].at = "answered" => drain'[e] = drain[e]
        BY <1>1, <1>4
    <2>2. UploadsReal'
        BY <1>1, <1>3, <1>4, <2>1 DEF UploadsReal
    <2>3. NamedFirst'
        BY <1>1, <1>2, <1>4 DEF NamedFirst
    <2> QED BY <1>1, <1>2, <1>4, <2>1, <2>2, <2>3, ScreenStep
<1>5. ASSUME NEW p \in Photo, NEW k \in Kept, kept' = [kept EXCEPT ![p] = k], k.at \notin {"up", "forgotten"}, UNCHANGED drain
      PROVE  IInv'
    <2>1. kept' \in [Photo -> Kept] /\ kept'[p] = k /\ \A q \in Photo \ {p} : kept'[q] = kept[q]
        BY <1>1, <1>5
    <2>2. UploadsReal'
        BY <1>1, <1>3, <1>5, <2>1 DEF UploadsReal
    <2>3. NamedFirst'
        BY <1>1, <1>2, <1>5, <2>1 DEF NamedFirst
    <2> QED BY <1>1, <1>2, <1>5, <2>1, <2>2, <2>3, ScreenStep
<1>6. ASSUME NEW d \in Device, drainOnce(d) PROVE IInv'
    <2> DEFINE todo == {p \in Mine(d) : kept[p].at = "due"}
               v == [Idle EXCEPT !.at = "next", !.todo = todo]
    <2>1. todo \in SUBSET Photo
        BY DEF Mine
    <2>2. drain' = [drain EXCEPT ![d] = v] /\ UNCHANGED kept
        BY <1>6 DEF drainOnce
    <2> HIDE DEF todo
    <2>3. v \in Drain /\ v.at # "answered"
        BY <2>1, Constants DEF Drain
    <2> QED BY <1>1, <1>4, <2>2, <2>3 DEF UploadsReal, NamedFirst
<1>7. ASSUME NEW d \in Device, NextRecord(d) PROVE IInv'
    <2>1. PICK v \in Drain : v.at # "answered" /\ drain' = [drain EXCEPT ![d] = v]
        <3>1. CASE drain[d].todo = {}
            BY <1>7, <3>1, Constants DEF NextRecord
        <3>2. CASE drain[d].todo # {}
            <4>1. PICK p \in drain[d].todo :
                    drain' = [drain EXCEPT ![d].at = "sent", ![d].photo = p, ![d].todo = @ \ {p}]
                BY <1>7, <3>2 DEF NextRecord
            <4> DEFINE v == [drain[d] EXCEPT !.at = "sent", !.photo = p, !.todo = drain[d].todo \ {p}]
            <4>2. v \in Drain /\ v.at # "answered"
                BY <1>1 DEF Drain
            <4>3. drain' = [drain EXCEPT ![d] = v]
                BY <1>1, <4>1 DEF Drain
            <4> QED BY <4>2, <4>3
        <3> QED BY <3>1, <3>2
    <2>2. UNCHANGED kept
        BY <1>7 DEF NextRecord
    <2> QED BY <1>1, <1>4, <2>1, <2>2 DEF UploadsReal, NamedFirst
<1>8. ASSUME NEW d \in Device, PatchRecord(d) PROVE IInv'
    <2> PICK p \in Photo, at \in {"answered", "failed"}, row \in Nat :
             p = drain[d].photo /\ at = drain[d].at /\ row = drain[d].row
        BY <1>1, <1>8 DEF PatchRecord, Drain
    <2> DEFINE v == [drain[d] EXCEPT !.at = "next"]
               k == Outcome(kept[p], at, row)
    <2>1. kept' = [kept EXCEPT ![p] = k] /\ drain' = [drain EXCEPT ![d] = v]
        BY <1>8 DEF PatchRecord
    <2>2. v \in Drain /\ v.at # "answered"
        BY <1>1 DEF Drain
    <2>3. /\ k \in Kept /\ k.at # "forgotten"
          /\ k.at = "up" => at = "answered" /\ k.row = row
        BY <1>1, ZenonT(40) DEF Outcome, Kept
    <2> HIDE DEF k, v
    <2>4. kept' \in [Photo -> Kept] /\ kept'[p] = k /\ \A q \in Photo \ {p} : kept'[q] = kept[q]
        BY <1>1, <2>1, <2>3
    <2>5. at = "answered" => row \in 1..made[p]
        BY <1>1 DEF UploadsReal
    <2> QED BY <1>1, <1>4, <2>1, <2>2, <2>3, <2>4, <2>5 DEF UploadsReal, NamedFirst
<1>9. ASSUME NEW d \in Device, NEW p \in Photo, addShot(d, p) PROVE IInv'
    <2> DEFINE k == [kept[p] EXCEPT !.by = d, !.at = "due"]
    <2>1. k \in Kept /\ k.at = "due" /\ kept' = [kept EXCEPT ![p] = k] /\ UNCHANGED drain
        BY <1>1, <1>9 DEF addShot, Kept
    <2> HIDE DEF k
    <2> QED BY <1>5, <2>1
<1>10. ASSUME NEW p \in Photo, Due(p) PROVE IInv'
    <2> DEFINE k == [kept[p] EXCEPT !.at = "due"]
    <2>1. k \in Kept /\ k.at = "due" /\ kept' = [kept EXCEPT ![p] = k] /\ UNCHANGED drain
        BY <1>1, <1>10 DEF Due, Kept
    <2> HIDE DEF k
    <2> QED BY <1>5, <2>1
<1> QED BY <1>6, <1>7, <1>8, <1>9, <1>10

\* A page that goes, and an upload that ends: at most one more row is made.
LEMMA UploadsPreserve ==
    ASSUME IInv,
           \/ \E d \in Device : uploadPhoto(d)
           \/ \E s \in Screen : Close(s)
    PROVE  IInv'
<1>1. /\ screen \in [Screen -> View] /\ save \in [Screen -> Save] /\ kept \in [Photo -> Kept]
      /\ drain \in [Device -> Drain] /\ fails \in 0..MaxFail /\ reloads \in 0..MaxReload
      /\ \A t \in Screen : screen[t].rooms \subseteq Made /\ save[t].rooms \subseteq Made
      /\ \A i \in 1..MaxSaves : insp[i].rooms \subseteq Made
      /\ UploadsReal /\ NamedFirst /\ MaxFail \in Nat /\ MaxReload \in Nat /\ rows \subseteq Made
    BY FieldWorkAssumption DEF IInv, TypeOK, RoomsReal
<1>2. UNCHANGED <<kept, insp, saved, named>>
    BY DEF uploadPhoto, Close
\* What the two have in common.
<1>3. ASSUME (\E p \in Photo : Store(p)) \/ UNCHANGED <<rows, made>>,
             drain' \in [Device -> Drain],
             \A d \in Device : drain'[d].at = "answered" => drain'[d].row \in 1..made'[drain'[d].photo],
             screen' \in [Screen -> View], save' \in [Screen -> Save],
             \A t \in Screen : screen'[t].rooms \subseteq Made /\ save'[t].rooms \subseteq Made,
             \A t \in Screen : save'[t].at # "done" \/ save'[t] = save[t],
             fails' \in 0..MaxFail, reloads' \in 0..MaxReload
      PROVE  IInv'
    <2>1. /\ made' \in [Photo -> 0..MaxRows] /\ rows' \subseteq Row /\ rows' \subseteq Made' /\ Made \subseteq Made'
          /\ \A q \in Photo : 1..made[q] \subseteq 1..made'[q]
        <3>1. CASE \E p \in Photo : Store(p)
            BY <3>1, StoreAddsOne
        <3>2. CASE UNCHANGED <<rows, made>>
            BY <1>1, <3>2, MadeStays DEF IInv, TypeOK
        <3> QED BY <1>3, <3>1, <3>2
    <2>2. TypeOK'
        BY <1>1, <1>2, <1>3, <2>1 DEF IInv, TypeOK
    <2>3. UploadsReal'
        BY <1>1, <1>2, <1>3, <2>1 DEF UploadsReal
    <2>4. RoomsReal'
        BY <1>1, <1>2, <1>3, <2>1 DEF RoomsReal
    <2>5. NamedFirst'
        BY <1>1, <1>2, <1>3 DEF NamedFirst
    <2>6. LatestReal'
        BY <1>2 DEF IInv, LatestReal
    <2> QED BY <2>2, <2>3, <2>4, <2>5, <2>6 DEF IInv
<1>4. ASSUME NEW d \in Device, uploadPhoto(d) PROVE IInv'
    <2>1. PICK p \in Photo : p = drain[d].photo
        BY <1>1 DEF Drain
    <2>2. UNCHANGED <<screen, save, reloads>> /\ (fails' = fails \/ (fails < MaxFail /\ fails' = fails + 1))
        BY <1>4 DEF uploadPhoto
    <2>3. fails' \in 0..MaxFail
        BY <1>1, <2>2
    <2>4. CASE Store(p) /\ drain' = [drain EXCEPT ![d].at = "answered", ![d].row = made'[p]]
        <3>1. made' \in [Photo -> 0..MaxRows] /\ made'[p] = made[p] + 1 /\ (\A q \in Photo : 1..made[q] \subseteq 1..made'[q])
                  /\ made[p] \in Nat /\ MaxRows \in Nat
            BY <2>4, StoreAddsOne, FieldWorkAssumption DEF IInv, TypeOK
        <3> PICK n \in Nat : n = made'[p]
            BY <3>1
        <3> DEFINE v == [drain[d] EXCEPT !.at = "answered", !.row = n]
        <3>2. v \in Drain /\ v.photo = p /\ v.row = n
            BY <1>1, <2>1 DEF Drain
        <3>3. drain' = [drain EXCEPT ![d] = v]
            BY <1>1, <2>4
        <3> HIDE DEF v
        <3>4. drain' \in [Device -> Drain] /\ drain'[d] = v /\ \A e \in Device \ {d} : drain'[e] = drain[e]
            BY <1>1, <3>2, <3>3
        <3>5. n \in 1..made'[p]
            BY <3>1
        <3>6. \A e \in Device : drain'[e].at = "answered" => drain'[e].row \in 1..made'[drain'[e].photo]
            <4> SUFFICES ASSUME NEW e \in Device \ {d}, drain[e].at = "answered"
                         PROVE  drain[e].row \in 1..made'[drain[e].photo]
                BY <3>2, <3>4, <3>5
            <4>1. drain[e].row \in 1..made[drain[e].photo] /\ drain[e].photo \in Photo
                BY <1>1 DEF UploadsReal, Drain
            <4> QED BY <3>1, <4>1
        <3> QED BY <1>1, <1>3, <2>2, <2>3, <2>4, <3>4, <3>6
    <2>5. CASE (Store(p) \/ UNCHANGED <<rows, made>>) /\ drain' = [drain EXCEPT ![d].at = "failed"]
        <3> DEFINE v == [drain[d] EXCEPT !.at = "failed"]
        <3>1. v \in Drain /\ v.at = "failed" /\ drain' = [drain EXCEPT ![d] = v]
            BY <1>1, <2>5 DEF Drain
        <3> HIDE DEF v
        <3>2. drain' \in [Device -> Drain] /\ drain'[d] = v /\ \A e \in Device \ {d} : drain'[e] = drain[e]
            BY <1>1, <3>1
        <3>3. \A q \in Photo : 1..made[q] \subseteq 1..made'[q]
            BY <2>5, StoreAddsOne
        <3>4. \A e \in Device : drain'[e].at = "answered" => drain'[e].row \in 1..made'[drain'[e].photo]
            <4> SUFFICES ASSUME NEW e \in Device \ {d}, drain[e].at = "answered"
                         PROVE  drain[e].row \in 1..made'[drain[e].photo]
                BY <3>1, <3>2
            <4>1. drain[e].row \in 1..made[drain[e].photo] /\ drain[e].photo \in Photo
                BY <1>1 DEF UploadsReal, Drain
            <4> QED BY <3>3, <4>1
        <3> QED BY <1>1, <1>3, <2>2, <2>3, <2>5, <3>2, <3>4
    <2> QED BY <1>4, <2>1, <2>4, <2>5 DEF uploadPhoto
<1>5. ASSUME NEW s \in Screen, Close(s) PROVE IInv'
    <2>1. /\ screen' = [screen EXCEPT ![s] = Shut] /\ save' = [save EXCEPT ![s] = NoSave]
          /\ fails' = fails /\ reloads' = reloads + 1 /\ reloads < MaxReload
          /\ drain' = [d \in Device |-> IF d = s THEN Idle ELSE drain[d]]
        BY <1>5 DEF Close
    <2>2. (\E p \in Photo : Store(p)) \/ UNCHANGED <<rows, made>>
        BY <1>1, <1>5 DEF Close, Drain
    <2>3. /\ screen' \in [Screen -> View] /\ save' \in [Screen -> Save] /\ reloads' \in 0..MaxReload
          /\ \A t \in Screen : screen'[t].rooms \subseteq Made /\ save'[t].rooms \subseteq Made
          /\ \A t \in Screen : save'[t].at # "done" \/ save'[t] = save[t]
        BY <1>1, <2>1, Constants
    <2>4. drain' \in [Device -> Drain] /\ \A d \in Device : drain'[d] = drain[d] \/ drain'[d].at = "idle"
        BY <1>1, <2>1, Constants
    <2>5. \A q \in Photo : 1..made[q] \subseteq 1..made'[q]
        BY <2>2, StoreAddsOne
    <2>6. \A e \in Device : drain'[e].at = "answered" => drain'[e].row \in 1..made'[drain'[e].photo]
        <3> SUFFICES ASSUME NEW e \in Device, drain'[e].at = "answered"
                     PROVE  drain'[e].row \in 1..made'[drain'[e].photo]
            OBVIOUS
        <3>1. drain'[e] = drain[e]
            BY <2>4
        <3>2. drain[e].row \in 1..made[drain[e].photo] /\ drain[e].photo \in Photo
            BY <1>1, <3>1 DEF UploadsReal, Drain
        <3> QED BY <2>5, <3>1, <3>2
    <2> QED BY <1>1, <1>3, <2>1, <2>2, <2>3, <2>4, <2>6
<1> QED BY <1>4, <1>5

-------------------------------------------------------------------------------
(* The end of a save.                                                         *)

\* A write goes to a row of its own or to the one its screen saves to, and names its photographs.
LEMMA WritePreserves ==
    ASSUME IInv, NEW s \in Screen, WriteInspection(s)
    PROVE  IInv'
<1>1. /\ save \in [Screen -> Save] /\ insp \in [1..MaxSaves -> Inspection] /\ saved \in 0..MaxSaves /\ MaxSaves \in Nat
      /\ \A t \in Screen : screen[t].rooms \subseteq Made /\ save[t].rooms \subseteq Made
      /\ \A i \in 1..MaxSaves : insp[i].rooms \subseteq Made
      /\ NamedFirst /\ named \subseteq Photo
    BY FieldWorkAssumption DEF IInv, TypeOK, RoomsReal
<1> DEFINE i == IF save[s].id = 0 THEN saved + 1 ELSE save[s].id
           v == [save[s] EXCEPT !.at = "done", !.held = saved + 1]
           new == [stamp |-> saved + 1, rooms |-> save[s].rooms]
<1>2. /\ saved < MaxSaves /\ saved' = saved + 1 /\ insp' = [insp EXCEPT ![i] = new]
      /\ named' = named \cup {q[1] : q \in save[s].rooms}
      /\ save' = [save EXCEPT ![s] = v]
      /\ UNCHANGED <<kept, drain, rows, made, screen, fails, reloads>>
    BY <1>1 DEF WriteInspection
<1>3. i \in 1..MaxSaves
    BY <1>1, <1>2 DEF Save, Id
<1>4. new \in Inspection /\ new.stamp = saved' /\ new.rooms = save[s].rooms
    BY <1>1, <1>2 DEF Inspection, Save
<1>5. v \in Save /\ v.rooms = save[s].rooms
    <2>1. saved + 1 \in Nat
        BY <1>1
    <2> QED BY <1>1, <2>1 DEF Save
<1> HIDE DEF i, new, v
<1>6. insp' \in [1..MaxSaves -> Inspection] /\ insp'[i] = new /\ \A j \in 1..MaxSaves \ {i} : insp'[j] = insp[j]
    BY <1>1, <1>2, <1>3, <1>4
<1>7. save' \in [Screen -> Save] /\ save'[s] = v /\ \A t \in Screen \ {s} : save'[t] = save[t]
    BY <1>1, <1>2, <1>5
<1>8. {q[1] : q \in save[s].rooms} \subseteq Photo
    BY <1>1 DEF Save, Row
<1>9. TypeOK'
    BY <1>1, <1>2, <1>6, <1>7, <1>8 DEF IInv, TypeOK
<1>10. UploadsReal'
    BY <1>2 DEF IInv, UploadsReal
<1>11. RoomsReal'
    BY <1>1, <1>2, <1>4, <1>5, <1>6, <1>7, MadeStays DEF IInv, RoomsReal
<1>12. NamedFirst'
    <2>1. \A t \in Screen : save'[t].at = "done" => \A r \in save'[t].rooms : r[1] \in named'
        BY <1>1, <1>2, <1>5, <1>7 DEF NamedFirst
    <2> QED BY <1>1, <1>2, <2>1 DEF NamedFirst
<1>13. LatestReal'
    BY <1>3, <1>4, <1>6 DEF LatestReal
<1> QED BY <1>9, <1>10, <1>11, <1>12, <1>13 DEF IInv

\* An answer lets go of what its save has named, and of nothing else.
LEMMA AnswerPreserves ==
    ASSUME IInv, NEW s \in Screen, Answer(s)
    PROVE  IInv'
<1>1. /\ screen \in [Screen -> View] /\ save \in [Screen -> Save] /\ kept \in [Photo -> Kept]
      /\ drain \in [Device -> Drain] /\ fails \in 0..MaxFail /\ reloads \in 0..MaxReload
      /\ \A t \in Screen : screen[t].rooms \subseteq Made /\ save[t].rooms \subseteq Made
      /\ UploadsReal /\ NamedFirst
    BY DEF IInv, TypeOK, RoomsReal
<1> DEFINE v == [screen[s] EXCEPT !.held = save[s].held]
           Named(p) == s \in Device /\ p \in Mine(s) /\ Filed(p, save[s].rooms)
<1>2. /\ save[s].at = "done" /\ screen' = [screen EXCEPT ![s] = v] /\ save' = [save EXCEPT ![s] = NoSave]
      /\ kept' = [p \in Photo |-> IF Named(p) THEN [kept[p] EXCEPT !.at = "forgotten"] ELSE kept[p]]
      /\ UNCHANGED <<drain, server, named, fails, reloads>>
    BY DEF Answer
<1>3. v \in View /\ v.rooms = screen[s].rooms
    BY <1>1 DEF View, Save
<1> HIDE DEF v
<1>4. /\ screen' \in [Screen -> View] /\ save' \in [Screen -> Save]
      /\ \A t \in Screen : screen'[t].rooms \subseteq Made /\ save'[t].rooms \subseteq Made
      /\ \A t \in Screen : save'[t].at # "done" \/ save'[t] = save[t]
    BY <1>1, <1>2, <1>3, Constants
<1>5. \A p \in Photo : Named(p) => kept[p].at = "up" /\ p \in named
    <2> SUFFICES ASSUME NEW p \in Photo, Named(p) PROVE kept[p].at = "up" /\ p \in named
        OBVIOUS
    <2>1. kept[p].at = "up" /\ <<p, kept[p].row>> \in save[s].rooms
        BY DEF Filed
    <2>2. <<p, kept[p].row>>[1] \in named
        BY <1>1, <1>2, <2>1 DEF NamedFirst
    <2> QED BY <2>1, <2>2
<1> HIDE DEF Named
<1>6. /\ kept' \in [Photo -> Kept]
      /\ \A p \in Photo : \/ kept'[p] = kept[p]
                          \/ kept'[p].row = kept[p].row /\ kept[p].at = "up" /\ p \in named
    BY <1>1, <1>2, <1>5 DEF Kept
<1>7. UploadsReal'
    BY <1>1, <1>2, <1>6 DEF UploadsReal, server
<1>8. NamedFirst'
    BY <1>1, <1>2, <1>4, <1>6 DEF NamedFirst
<1> QED BY <1>1, <1>2, <1>4, <1>6, <1>7, <1>8, ScreenStep

LEMMA RemovePreserves ==
    ASSUME IInv, removePhoto
    PROVE  IInv'
<1>1. rows' \subseteq rows /\ UNCHANGED <<kept, drain, made, insp, saved, screen, save, named, fails, reloads>>
    BY DEF removePhoto
<1>2. Made' = Made
    BY <1>1, MadeStays
<1>3. TypeOK'
    BY <1>1 DEF IInv, TypeOK
<1>4. UploadsReal' /\ RoomsReal' /\ NamedFirst' /\ LatestReal'
    BY <1>1, <1>2 DEF IInv, UploadsReal, RoomsReal, NamedFirst, LatestReal
<1> QED BY <1>3, <1>4 DEF IInv

-------------------------------------------------------------------------------
LEMMA InitIInv == Init => IInv
<1> SUFFICES ASSUME Init PROVE IInv
    OBVIOUS
<1>1. /\ kept = [p \in Photo |-> [by |-> None, at |-> "none", row |-> 0]]
      /\ drain = [d \in Device |-> Idle]
      /\ rows = {} /\ made = [p \in Photo |-> 0]
      /\ insp = [i \in 1..MaxSaves |-> NoInsp] /\ saved = 0
      /\ screen = [s \in Screen |-> Shut]
      /\ save = [s \in Screen |-> NoSave]
      /\ named = {} /\ fails = 0 /\ reloads = 0
    BY DEF Init
<1>2. 0 \in 0..MaxSaves /\ 0 \in 0..MaxRows /\ 0 \in 0..MaxFail /\ 0 \in 0..MaxReload
    BY FieldWorkAssumption
<1>3. kept \in [Photo -> Kept]
    BY <1>1 DEF Kept
<1>4. TypeOK
    BY <1>1, <1>2, <1>3, Constants DEF TypeOK
<1>5. UploadsReal /\ RoomsReal /\ NamedFirst /\ LatestReal
    BY <1>1, Constants DEF UploadsReal, RoomsReal, NamedFirst, LatestReal
<1> QED BY <1>4, <1>5 DEF IInv

LEMMA StepIInv == IInv /\ [Next]_vars => IInv'
<1> SUFFICES ASSUME IInv, [Next]_vars PROVE IInv'
    OBVIOUS
<1>1. CASE UNCHANGED vars
    <2>1. UNCHANGED <<kept, drain, rows, made, insp, saved, screen, save, named, fails, reloads>>
        BY <1>1 DEF vars
    <2> QED BY <2>1, MadeStays DEF IInv, TypeOK, UploadsReal, RoomsReal, NamedFirst, LatestReal
<1>2. CASE Next
    BY <1>2, ViewsPreserve, QueuePreserves, UploadsPreserve, WritePreserves, AnswerPreserves, RemovePreserves,
       Constants DEF Next
<1> QED BY <1>1, <1>2

(* The invariant: everything named was made, and nothing unnamed is let go.   *)
THEOREM Invariant == Spec => []IInv
    BY InitIInv, StepIInv, PTL DEF Spec

\* Every variable keeps its type, for any number of devices, workbenches and photographs.
THEOREM TypeCorrect == Spec => []TypeOK
<1>1. IInv => TypeOK
    BY DEF IInv
<1> QED BY <1>1, Invariant, PTL

\* A photograph is on its device until the server has it and an accepted save has named it.
THEOREM PhotographsKept == Spec => []PhotographKept
<1>1. IInv => PhotographKept
    BY DEF IInv, UploadsReal, NamedFirst, PhotographKept
<1> QED BY <1>1, Invariant, PTL

\* No screen, save under way or inspection ever names a row the server did not make.
THEOREM RoomsAreReal == Spec => []RoomsReal
<1>1. IInv => RoomsReal
    BY ZenonT(40) DEF IInv
<1> QED BY <1>1, Invariant, PTL

-----------------------------------------------------------------------------
(***************************************************************************)
(* BenchmarkPool: consent is y1, the points y5, the requests y7.            *)
(***************************************************************************)

\* A request that is not about to write, before or after its step.
LEMMA PoolStarts ==
    ASSUME Pool!IInv, y1' = y1, y5' \subseteq y5, y6' = y6, NEW c \in Valuer,
           NEW k, k = [todo |-> k.todo, at |-> k.at, late |-> k.late, period |-> k.period],
           k.at \in {"delete", "create"} => y1 \/ k.late,
           y7' = [y7 EXCEPT ![c] = k]
    PROVE  Pool!IInv'
<1>1. y7' = [b \in Valuer |-> IF b = c THEN k ELSE y7[b]]
    BY DEF Pool!IInv, Pool!TypeOK
<1>2. \A b \in Valuer : y7'[b] = IF b = c THEN k ELSE y7[b]
    BY <1>1
<1>3. y7' = [b \in Valuer |-> [todo |-> y7'[b].todo, at |-> y7'[b].at, late |-> y7'[b].late, period |-> y7'[b].period]]
    BY <1>1 DEF Pool!IInv, Pool!TypeOK
<1> QED BY <1>2, <1>3 DEF Pool!IInv, Pool!TypeOK, Pool!WritersAreLate, Pool!WithdrawalReachesAll

LEMMA PoolStep ==
    ASSUME Pool!IInv, [Pool!Next]_(Pool!vars)
    PROVE  Pool!IInv'
<1> DEFINE K(k) == k = [todo |-> k.todo, at |-> k.at, late |-> k.late, period |-> k.period]
<1>0. /\ y1 \in BOOLEAN /\ y6 \in Nat /\ \A c \in Valuer : K(y7[c]) /\ DOMAIN y7 = Valuer
      /\ K(Pool!Free) /\ Pool!Free.at = "idle" /\ \A t, at, late : K(Pool!Call(t, at, late)) /\ Pool!Call(t, at, late).at = at
    BY DEF Pool!IInv, Pool!TypeOK, Pool!Free, Pool!Call
<1>1. ASSUME NEW c \in Valuer, Pool!Done(c), y1' = y1, y5' \subseteq y5, y6' = y6
      PROVE  Pool!IInv'
    <2> DEFINE k == IF Len(y7[c].todo) = 1 THEN Pool!Free ELSE Pool!Call(Tail(y7[c].todo), "start", y7[c].late)
    <2>1. K(k) /\ k.at \notin {"delete", "create"}
        BY <1>0
    <2>2. y7' = [y7 EXCEPT ![c] = k]
        BY <1>1 DEF Pool!Done
    <2> HIDE DEF k
    <2> QED BY <1>1, <2>1, <2>2, PoolStarts
<1>2. ASSUME NEW c \in Valuer, NEW t, Pool!Begin(c, t), y1' = y1, y5' = y5, y6' = y6
      PROVE  Pool!IInv'
    <2> DEFINE k == Pool!Call(t, "start", FALSE)
    <2>1. K(k) /\ k.at = "start" /\ y7' = [y7 EXCEPT ![c] = k]
        BY <1>2 DEF Pool!Begin, Pool!Call
    <2> HIDE DEF k
    <2> QED BY <1>2, <2>1, PoolStarts
<1>3. ASSUME NEW c \in Valuer, Pool!review(c) \/ Pool!contribute(c)
      PROVE  Pool!IInv'
    BY <1>2, <1>3 DEF Pool!review, Pool!contribute
<1>4. ASSUME NEW c \in Valuer, Pool!setStage(c)
      PROVE  Pool!IInv'
    <2>1. CASE y7' = y7
        BY <1>4, <2>1 DEF Pool!setStage, Pool!IInv, Pool!TypeOK, Pool!WritersAreLate, Pool!WithdrawalReachesAll
    <2> QED BY <1>2, <1>4, <2>1 DEF Pool!setStage
<1>5. ASSUME NEW c \in Valuer, Pool!setContribution(c)
      PROVE  Pool!IInv'
    <2>1. PICK on \in BOOLEAN :
            /\ y1' = on /\ y5' = Pool!Given(on) /\ y6' = y6
            /\ y7' = [k \in Valuer |->
                       IF k = c THEN IF on THEN Pool!Call(Pool!Book, "start", FALSE) ELSE Pool!Free
                       ELSE IF on \/ y7[k] = Pool!Free THEN y7[k] ELSE [y7[k] EXCEPT !.late = TRUE]]
        BY <1>5 DEF Pool!setContribution
    <2>2. ASSUME NEW k \in Valuer
          PROVE  K(y7'[k]) /\ (~on /\ y7'[k].at \in {"delete", "create"} => y7'[k].late)
        <3>1. CASE k = c
            <4>1. y7'[k] = IF on THEN Pool!Call(Pool!Book, "start", FALSE) ELSE Pool!Free
                BY <2>1, <3>1
            <4>2. K(Pool!Call(Pool!Book, "start", FALSE)) /\ K(Pool!Free) /\ Pool!Free.at = "idle"
                BY DEF Pool!Call, Pool!Free
            <4> QED BY <4>1, <4>2
        <3>2. CASE k # c /\ (on \/ y7[k] = Pool!Free)
            BY <1>0, <2>1, <3>2
        <3>3. CASE k # c /\ ~(on \/ y7[k] = Pool!Free)
            <4>1. y7'[k] = [y7[k] EXCEPT !.late = TRUE] /\ K(y7[k])
                BY <1>0, <2>1, <3>3
            <4> QED BY <4>1
        <3> QED BY <3>1, <3>2, <3>3
    <2>3. y7' = [k \in Valuer |-> [todo |-> y7'[k].todo, at |-> y7'[k].at, late |-> y7'[k].late, period |-> y7'[k].period]]
        BY <2>1, <2>2
    <2>4. ~on => y5' = {}
        BY <2>1 DEF Pool!Given
    <2> QED BY <1>0, <2>1, <2>2, <2>3, <2>4 DEF Pool!IInv, Pool!TypeOK, Pool!WritersAreLate, Pool!WithdrawalReachesAll
<1>6. ASSUME NEW c \in Valuer, Pool!ReadConsent(c)
      PROVE  Pool!IInv'
    <2>1. CASE y1 /\ y7' = [y7 EXCEPT ![c].at = "delete", ![c].period = y4]
        <3> DEFINE k == [y7[c] EXCEPT !.at = "delete", !.period = y4]
        <3>1. y7' = [y7 EXCEPT ![c] = k] /\ K(k)
            BY <1>0, <2>1
        <3> HIDE DEF k
        <3> QED BY <1>6, <2>1, <3>1, PoolStarts DEF Pool!ReadConsent
    <2> QED BY <1>1, <1>6, <2>1 DEF Pool!ReadConsent
<1>7. ASSUME NEW c \in Valuer, Pool!Delete(c)
      PROVE  Pool!IInv'
    <2> DEFINE k == [y7[c] EXCEPT !.at = "create"]
    <2>1. y7' = [y7 EXCEPT ![c] = k]
        BY <1>7 DEF Pool!Delete, Pool!At
    <2>2. K(k) /\ (y1 \/ k.late)
        <3>1. K(y7[c]) /\ (y1 \/ y7[c].late)
            BY <1>0, <1>7 DEF Pool!Delete, Pool!IInv, Pool!WritersAreLate
        <3> QED BY <3>1
    <2> HIDE DEF k
    <2> QED BY <1>7, <2>1, <2>2, PoolStarts DEF Pool!Delete
<1>8. ASSUME NEW c \in Valuer, Pool!Create(c)
      PROVE  Pool!IInv'
    <2> DEFINE k == IF Len(y7[c].todo) = 1 THEN Pool!Free ELSE Pool!Call(Tail(y7[c].todo), "start", y7[c].late)
    <2>1. K(k) /\ k.at \notin {"delete", "create"}
        BY <1>0
    <2>2. y7' = [y7 EXCEPT ![c] = k] /\ y1' = y1 /\ y6' = y6 + 1
        BY <1>8 DEF Pool!Create, Pool!Done
    <2>3. y1 \/ y7[c].late
        BY <1>8 DEF Pool!Create, Pool!IInv, Pool!WritersAreLate
    <2>4. \A p \in y5' : p \in y5 \/ p.late = y7[c].late
        BY <1>8 DEF Pool!Create
    <2> HIDE DEF k
    <2>5. y7' = [b \in Valuer |-> IF b = c THEN k ELSE y7[b]]
        BY <1>0, <2>2
    <2>6. y7' = [b \in Valuer |-> [todo |-> y7'[b].todo, at |-> y7'[b].at, late |-> y7'[b].late, period |-> y7'[b].period]]
        BY <1>0, <2>1, <2>5
    <2>7. Pool!TypeOK'
        BY <1>0, <2>2, <2>6 DEF Pool!TypeOK
    <2>8. Pool!WithdrawalReachesAll'
        BY <2>2, <2>3, <2>4 DEF Pool!IInv, Pool!WithdrawalReachesAll
    <2>9. Pool!WritersAreLate'
        BY <2>1, <2>2, <2>5 DEF Pool!IInv, Pool!WritersAreLate
    <2> QED BY <2>7, <2>8, <2>9 DEF Pool!IInv
<1>9. ASSUME NEW c \in Valuer, Pool!retractOutturn(c)
      PROVE  Pool!IInv'
    BY <1>1, <1>9 DEF Pool!retractOutturn
<1>10. ASSUME NEW c \in Valuer, Pool!Abort(c)
       PROVE  Pool!IInv'
    BY <1>0, <1>10, PoolStarts DEF Pool!Abort
<1>11. CASE Pool!Quarter \/ UNCHANGED Pool!vars
    BY <1>11 DEF Pool!Quarter, Pool!vars, Pool!IInv, Pool!TypeOK, Pool!WritersAreLate, Pool!WithdrawalReachesAll
<1> QED BY <1>3, <1>4, <1>5, <1>6, <1>7, <1>8, <1>9, <1>10, <1>11 DEF Pool!Next

LEMMA PoolInit == Pool!Init => Pool!IInv
<1> SUFFICES ASSUME Pool!Init PROVE Pool!IInv
    OBVIOUS
<1>1. y7 = [c \in Valuer |-> [todo |-> <<>>, at |-> "idle", late |-> FALSE, period |-> 1]]
    BY DEF Pool!Init, Pool!Free, Pool!Call
<1>2. Pool!TypeOK
    BY <1>1 DEF Pool!Init, Pool!TypeOK
<1> QED BY <1>1, <1>2 DEF Pool!Init, Pool!IInv, Pool!WritersAreLate, Pool!WithdrawalReachesAll

-----------------------------------------------------------------------------
(***************************************************************************)
(* SourceReview: the result on the page is y4, those made y5, the one that  *)
(* was accepted y7, the correction, extraction and save under way y10 to    *)
(* y12, the records y13, what was ticked y14.                              *)
(***************************************************************************)

\* A new result is one that nobody has accepted.
LEMMA ReviewShows ==
    ASSUME Review!IInv, NEW r, r \in Review!Result, Review!Shows(r), y7' \in {y7, 0}, y12' = y12, y13' = y13, y14' = y14,
           y10' \in {y10, Review!NoRun},
           y11' \in [at : {"idle", "sent", "model", "done", "failed"}, read : SUBSET Paper]
    PROVE  Review!IInv'
<1> USE DEF Review!IInv
<1>1. y5 \in Nat /\ y5' = y5 + 1 /\ y7 \in 0..y5 /\ y7' \in 0..y5
    BY DEF Review!Shows, Review!TypeOK
<1>2. Review!Result \subseteq Review!Result'
    BY <1>1 DEF Review!Result
<1>3. y4' \in Review!Result' /\ y4'.n = y5 + 1
    BY <1>1 DEF Review!Shows, Review!Result
<1>4. Review!NoRun \in Review!Result
    BY <1>1 DEF Review!NoRun, Review!Result
<1>5. Review!TypeOK'
    BY <1>1, <1>2, <1>3, <1>4 DEF Review!TypeOK
<1>6. Review!PageAgrees'
    BY <1>1, <1>3 DEF Review!PageAgrees, Review!NoRun
<1> QED BY <1>5, <1>6 DEF Review!SavesAccepted, Review!AcceptedIsRecorded

\* The page keeps its result, or drops it.
LEMMA ReviewStays ==
    ASSUME Review!IInv, y5' = y5, y4' \in {y4, Review!NoRun}, y7' \in {y7, 0}, y8' = "result" => y4' = y4 /\ y4.n # 0,
           y10' \in {y10, y4, Review!NoRun},
           y11' \in [at : {"idle", "sent", "model", "done", "failed"}, read : SUBSET Paper],
           y12' \in [at : {"idle", "sent", "checked", "done"}, run : Review!Result], y14' = y14,
           y12'.at # "idle" /\ y12'.run.source # "manual" => y12'.run \in y14,
           y13' \subseteq y14
    PROVE  Review!IInv'
<1> USE DEF Review!IInv
<1>1. Review!Result' = Review!Result
    BY DEF Review!Result
<1>2. Review!NoRun \in Review!Result /\ Review!NoRun.n = 0
    BY DEF Review!NoRun, Review!Result, Review!TypeOK
<1>3. Review!TypeOK'
    BY <1>1, <1>2 DEF Review!TypeOK
<1>4. Review!PageAgrees'
    BY <1>2 DEF Review!PageAgrees
<1> QED BY <1>3, <1>4 DEF Review!SavesAccepted, Review!AcceptedIsRecorded

LEMMA ReviewTypes ==
    ASSUME Review!IInv
    PROVE  /\ y5 \in Nat /\ y4 \in Review!Result /\ y10 \in Review!Result /\ Review!NoRun \in Review!Result
           /\ Review!NoRun.n = 0 /\ (y4.n = 0 => y4 = Review!NoRun) /\ (y8 = "result" => y4.n # 0) /\ y13 \subseteq y14
           /\ y11 \in [at : {"idle", "sent", "model", "done", "failed"}, read : SUBSET Paper]
           /\ y12 \in [at : {"idle", "sent", "checked", "done"}, run : Review!Result]
           /\ Review!NoSave \in [at : {"idle", "sent", "checked", "done"}, run : Review!Result] /\ Review!NoSave.at = "idle"
           /\ (y12.at # "idle" /\ y12.run.source # "manual" => y12.run \in y14)
    BY DEF Review!IInv, Review!TypeOK, Review!PageAgrees, Review!SavesAccepted, Review!AcceptedIsRecorded,
           Review!NoRun, Review!NoSave, Review!Result

LEMMA ReviewStep ==
    ASSUME Review!IInv, [Review!Next]_(Review!vars)
    PROVE  Review!IInv'
<1> USE ReviewTypes DEF Review!server, Review!calls, Review!room
<1>1. CASE Review!Revise
    BY <1>1, ReviewStays DEF Review!Revise
<1>2. CASE Review!Refresh
    BY <1>2, ReviewStays DEF Review!Refresh
<1>3. CASE Review!onGenerate
    <2>1. y11' \in [at : {"idle", "sent", "model", "done", "failed"}, read : SUBSET Paper]
        BY <1>3 DEF Review!onGenerate
    <2> QED BY <1>3, <2>1, ReviewStays DEF Review!onGenerate
<1>4. CASE Review!documentBlocks
    <2>1. y11' \in [at : {"idle", "sent", "model", "done", "failed"}, read : SUBSET Paper]
        BY <1>4 DEF Review!documentBlocks
    <2> QED BY <1>4, <2>1, ReviewStays DEF Review!documentBlocks
<1>5. CASE Review!extract
    <2>1. y11' \in [at : {"idle", "sent", "model", "done", "failed"}, read : SUBSET Paper]
        BY <1>5 DEF Review!extract
    <2> QED BY <1>5, <2>1, ReviewStays DEF Review!extract
<1>6. CASE Review!Extracted
    <2>1. [Review!NoRun EXCEPT !.source = "ai", !.read = y11.read] \in Review!Result
        BY DEF Review!NoRun, Review!Result
    <2>2. y11' \in [at : {"idle", "sent", "model", "done", "failed"}, read : SUBSET Paper]
        BY <1>6 DEF Review!Extracted, Review!Idle
    <2> QED BY <1>6, <2>1, <2>2, ReviewShows DEF Review!Extracted
<1>7. CASE Review!NotExtracted
    <2>1. y11' \in [at : {"idle", "sent", "model", "done", "failed"}, read : SUBSET Paper]
        BY <1>7 DEF Review!NotExtracted, Review!Idle
    <2>2. y4.n = 0 => y4 = Review!NoRun \/ y8' # "result"
        BY <1>7 DEF Review!NotExtracted, Review!Result
    <2> QED BY <1>7, <2>1, <2>2, ReviewStays DEF Review!NotExtracted
<1>8. CASE Review!onRunManual
    <2>1. [Review!NoRun EXCEPT !.source = "manual"] \in Review!Result
        BY DEF Review!NoRun, Review!Result
    <2> QED BY <1>8, <2>1, ReviewShows DEF Review!onRunManual
<1>9. CASE Review!onReset
    BY <1>9, ReviewStays DEF Review!onReset
<1>10. CASE Review!onAsk
    BY <1>10, ReviewStays DEF Review!onAsk
<1>11. CASE Review!Asked
    <2>1. [y4 EXCEPT !.source = "whatif", !.cited = {}] \in Review!Result
        BY DEF Review!Result
    <2> QED BY <1>11, <2>1, ReviewShows, ReviewStays DEF Review!Asked
<1>12. CASE Review!Correct
    BY <1>12, ReviewStays DEF Review!Correct
<1>13. CASE Review!setReference
    <2>1. PICK d \in Paper : Review!Shows([y4 EXCEPT !.cited = IF d \in @ THEN @ \ {d} ELSE @ \cup {d}])
        BY <1>13 DEF Review!setReference
    <2>2. [y4 EXCEPT !.cited = IF d \in @ THEN @ \ {d} ELSE @ \cup {d}] \in Review!Result
        BY DEF Review!Result
    <2> QED BY <1>13, <2>1, <2>2, ReviewShows DEF Review!setReference
<1>14. CASE Review!applyReview
    BY <1>14, ReviewStays DEF Review!applyReview
<1>15. CASE Review!Applied
    BY <1>15, ReviewShows, ReviewStays DEF Review!Applied
<1>16. CASE Review!Accept
    <2>1. CASE y7 = y4.n
        BY <1>16, <2>1, ReviewStays DEF Review!Accept
    <2>2. CASE y7 # y4.n
        <3>1. y7' = y4.n /\ y14' = y14 \cup {y4} /\ UNCHANGED <<y4, y5, y8, y10, y11, y12, y13>>
            BY <1>16, <2>2 DEF Review!Accept
        <3>2. y4.n \in 0..y5
            BY DEF Review!Result
        <3> QED BY <3>1, <3>2 DEF Review!IInv, Review!TypeOK, Review!Result, Review!PageAgrees, Review!SavesAccepted, Review!AcceptedIsRecorded
    <2> QED BY <2>1, <2>2
<1>17. CASE Review!onOpenFull
    <2>1. y12' = [at |-> "sent", run |-> y4] /\ y12' \in [at : {"idle", "sent", "checked", "done"}, run : Review!Result]
        BY <1>17 DEF Review!onOpenFull
    <2>2. y4.source # "manual" => y4 \in y14
        BY <1>17 DEF Review!onOpenFull, Review!reviewAccepted, Review!IInv, Review!PageAgrees
    <2> QED BY <1>17, <2>1, <2>2, ReviewStays DEF Review!onOpenFull
<1>18. CASE Review!CheckSources
    <2>1. y12' \in [at : {"idle", "sent", "checked", "done"}, run : Review!Result]
          /\ (y12'.at # "idle" => y12.at # "idle" /\ y12'.run = y12.run)
        BY <1>18 DEF Review!CheckSources
    <2> QED BY <1>18, <2>1, ReviewStays DEF Review!CheckSources
<1>19. CASE Review!save
    <2>1. y12' \in [at : {"idle", "sent", "checked", "done"}, run : Review!Result] /\ y12'.run = y12.run
        BY <1>19 DEF Review!save
    <2>2. y13' \subseteq y14
        BY <1>19 DEF Review!save
    <2> QED BY <1>19, <2>1, <2>2, ReviewStays DEF Review!save
<1>20. CASE Review!Leave
    BY <1>20, ReviewStays DEF Review!Leave
<1>21. CASE Review!NotSaved
    BY <1>21, ReviewStays DEF Review!NotSaved
<1>22. CASE UNCHANGED Review!vars
    BY <1>22, ReviewStays DEF Review!vars
<1> QED BY <1>1, <1>2, <1>3, <1>4, <1>5, <1>6, <1>7, <1>8, <1>9, <1>10, <1>11, <1>12, <1>13, <1>14, <1>15, <1>16,
        <1>17, <1>18, <1>19, <1>20, <1>21, <1>22 DEF Review!Next

LEMMA ReviewInit == Review!Init => Review!IInv
    BY DEF Review!Init, Review!IInv, Review!TypeOK, Review!Result, Review!NoRun, Review!Idle, Review!NoSave,
           Review!PageAgrees, Review!SavesAccepted, Review!AcceptedIsRecorded

-----------------------------------------------------------------------------
(***************************************************************************)
(* ReportRendering: the browser is y1, y2, y3, the counters y4 and y5, the  *)
(* jobs y6.                                                                 *)
(***************************************************************************)

LEMMA ReportsCount ==
    \A S : (Reports!IsFiniteSet(S) <=> IsFiniteSet(S)) /\ Reports!Cardinality(S) = Cardinality(S)
<1>1. \A S : Reports!IsFiniteSet(S) <=> IsFiniteSet(S)
    BY DEF IsFiniteSet, Reports!IsFiniteSet
<1>2. \A S : Reports!Cardinality(S) = Cardinality(S)
    BY DEF Cardinality, Reports!Cardinality
<1> QED BY <1>1, <1>2

\* A job that changes without getting or giving back a slot.
LEMMA ReportsKeeps ==
    ASSUME Reports!IInv, y6' \in [Job -> Reports!ReportJob], UNCHANGED <<y4, y5>>,
           y1' \in 0..MaxBrowser, y2' \in 0..MaxBrowser, y3' \subseteq 1..MaxBrowser,
           \A j \in Job : Reports!CleanUpHolds(j)',
           \A j \in Job : /\ (Reports!Holds(j)' <=> Reports!Holds(j))
                          /\ Reports!Holds(j) => y6'[j].public = y6[j].public
    PROVE  Reports!IInv'
<1>1. Reports!Holders' = Reports!Holders /\ Reports!PublicHolders' = Reports!PublicHolders
    BY DEF Reports!Holders, Reports!PublicHolders
<1>2. Reports!TypeOK'
    BY DEF Reports!IInv, Reports!TypeOK
<1>3. Reports!SlotsCounted'
    BY <1>1 DEF Reports!IInv, Reports!SlotsCounted
<1> QED BY <1>2, <1>3 DEF Reports!IInv

\* A job that gives its slot back.
LEMMA ReportsGivesBack ==
    ASSUME Reports!IInv, NEW j \in Job, y6' \in [Job -> Reports!ReportJob], Reports!Holds(j), Reports!Release(j),
           y1' \in 0..MaxBrowser, y2' \in 0..MaxBrowser, y3' \subseteq 1..MaxBrowser,
           \A k \in Job : Reports!CleanUpHolds(k)' /\ y6'[k].public = y6[k].public,
           ~Reports!Holds(j)', \A k \in Job \ {j} : (Reports!Holds(k)' <=> Reports!Holds(k))
    PROVE  Reports!IInv'
<1>1. /\ IsFiniteSet(Reports!Holders) /\ y4 = Cardinality(Reports!Holders) /\ y5 = Cardinality(Reports!PublicHolders)
      /\ y4 <= MAX_ACTIVE_REPORTS /\ y5 <= 1 /\ y4 \in Int /\ y5 \in Int
    BY ReportsCount DEF Reports!IInv, Reports!SlotsCounted, Reports!TypeOK
<1>2. j \in Reports!Holders /\ Reports!Holders' = Reports!Holders \ {j}
    BY DEF Reports!Holders
<1>3. IsFiniteSet(Reports!Holders') /\ Cardinality(Reports!Holders') = y4 - 1
    BY <1>1, <1>2, FS_RemoveElement
<1>4. y4' = y4 - 1 /\ y5' = IF y6[j].public THEN y5 - 1 ELSE y5
    BY DEF Reports!Release, Reports!Holds
<1>5. Reports!PublicHolders' = Reports!PublicHolders \ {j}
    BY <1>2 DEF Reports!Holders, Reports!PublicHolders
<1>6. IsFiniteSet(Reports!PublicHolders) /\ (j \in Reports!PublicHolders <=> y6[j].public)
    BY <1>1, <1>2, FS_Subset DEF Reports!PublicHolders
<1>7. Cardinality(Reports!PublicHolders') = y5'
    BY <1>1, <1>4, <1>5, <1>6, FS_RemoveElement
<1>8. y4' \in Int /\ y5' \in Int /\ y4' <= MAX_ACTIVE_REPORTS /\ y5' <= 1
    BY <1>1, <1>4, ValuationAssumption
<1>9. Reports!TypeOK'
    BY <1>8 DEF Reports!IInv, Reports!TypeOK
<1>10. Reports!SlotsCounted'
    BY <1>3, <1>4, <1>7, <1>8, ReportsCount DEF Reports!SlotsCounted
<1> QED BY <1>9, <1>10 DEF Reports!IInv

\* One job of the table changes.
LEMMA ReportsOne ==
    ASSUME Reports!IInv, NEW j \in Job, NEW r \in Reports!ReportJob, y6' = [y6 EXCEPT ![j] = r]
    PROVE  /\ y6' \in [Job -> Reports!ReportJob] /\ y6'[j] = r
           /\ \A k \in Job \ {j} : y6'[k] = y6[k] /\ (Reports!Holds(k)' <=> Reports!Holds(k)) /\ Reports!CleanUpHolds(k)'
<1>1. y6 \in [Job -> Reports!ReportJob] /\ \A k \in Job : Reports!CleanUpHolds(k)
    BY DEF Reports!IInv, Reports!TypeOK
<1>2. y6' \in [Job -> Reports!ReportJob] /\ y6'[j] = r /\ \A k \in Job \ {j} : y6'[k] = y6[k]
    BY <1>1
<1> QED BY <1>1, <1>2 DEF Reports!Holds, Reports!CleanUpHolds

LEMMA ReportsStep == Reports!IInv /\ [Reports!Next]_(Reports!vars) => Reports!IInv'
<1> SUFFICES ASSUME Reports!IInv, [Reports!Next]_(Reports!vars) PROVE Reports!IInv'
    OBVIOUS
<1>1. /\ y6 \in [Job -> Reports!ReportJob] /\ \A k \in Job : Reports!CleanUpHolds(k)
      /\ y1 \in 0..MaxBrowser /\ y2 \in 0..MaxBrowser /\ y3 \subseteq 1..MaxBrowser /\ MaxBrowser \in Nat
    BY ValuationAssumption DEF Reports!IInv, Reports!TypeOK
<1>2. CASE UNCHANGED Reports!vars
    <2>1. UNCHANGED <<y1, y2, y3, y4, y5, y6>>
        BY <1>2 DEF Reports!vars
    <2> QED BY <1>1, <2>1, ReportsKeeps DEF Reports!CleanUpHolds, Reports!Holds
\* One job changes, and has or has not its slot as before.
<1>3. ASSUME NEW j \in Job, NEW r \in Reports!ReportJob, y6' = [y6 EXCEPT ![j] = r], UNCHANGED <<y4, y5>>,
             y1' \in 0..MaxBrowser, y2' \in 0..MaxBrowser, y3' \subseteq 1..MaxBrowser,
             Reports!CleanUpHolds(j)', (Reports!Holds(j)' <=> Reports!Holds(j)),
             Reports!Holds(j) => r.public = y6[j].public
      PROVE  Reports!IInv'
    BY <1>3, ReportsOne, ReportsKeeps
<1>4. ASSUME NEW j \in Job, Reports!getReportBrowser(j) PROVE Reports!IInv'
    <2>1. y6[j].step = "new" /\ Reports!CleanUpHolds(j) /\ y6[j] \in Reports!ReportJob
        BY <1>1, <1>4 DEF Reports!getReportBrowser
    <2>2. ~Reports!Holds(j) /\ y6[j].cleanup = "none" /\ ~y6[j].released /\ ~y6[j].context
        BY <2>1 DEF Reports!Holds, Reports!CleanUpHolds
    <2>3. PICK r \in Reports!ReportJob :
            /\ y6' = [y6 EXCEPT ![j] = r] /\ r.step \in {"browser", "over"}
            /\ r.cleanup = y6[j].cleanup /\ r.released = y6[j].released /\ r.context = y6[j].context
            /\ y1' \in 0..MaxBrowser /\ y2' \in 0..MaxBrowser /\ y3' \subseteq 1..MaxBrowser /\ UNCHANGED <<y4, y5>>
        <3>1. PICK public \in BOOLEAN :
                \/ /\ y1 # 0
                   /\ y6' = [y6 EXCEPT ![j].step = "browser", ![j].public = public, ![j].browser = y1]
                   /\ UNCHANGED <<y1, y2, y3>>
                \/ /\ y1 = 0 /\ y2 < MaxBrowser
                   /\ y2' = y2 + 1 /\ y1' = y2 + 1 /\ y3' = y3 \cup {y2 + 1}
                   /\ y6' = [y6 EXCEPT ![j].step = "browser", ![j].public = public, ![j].browser = y2 + 1]
                \/ /\ y1 = 0
                   /\ y6' = [y6 EXCEPT ![j].step = "over", ![j].answer = "no browser"]
                   /\ UNCHANGED <<y1, y2, y3>>
            BY <1>4 DEF Reports!getReportBrowser, Reports!browsers
        <3>2. UNCHANGED <<y4, y5>>
            BY <1>4 DEF Reports!getReportBrowser, Reports!counters
        <3>3. ASSUME NEW b \in 0..MaxBrowser PROVE LET r == [y6[j] EXCEPT !.step = "browser", !.public = public, !.browser = b]
                                              IN  /\ r \in Reports!ReportJob /\ r.step = "browser" /\ r.cleanup = y6[j].cleanup
                                                  /\ r.released = y6[j].released /\ r.context = y6[j].context
            BY <2>1 DEF Reports!ReportJob
        <3>4. CASE y1 # 0
            BY <1>1, <3>1, <3>2, <3>3, <3>4
        <3>5. CASE y1 = 0 /\ y2' = y2 + 1
            <4>1. /\ y2 < MaxBrowser /\ y1' = y2 + 1 /\ y3' = y3 \cup {y2 + 1}
                  /\ y6' = [y6 EXCEPT ![j].step = "browser", ![j].public = public, ![j].browser = y2 + 1]
                <5>1. y2' # y2
                    BY <1>1, <3>5
                <5> QED BY <3>1, <3>5, <5>1
            <4> DEFINE b == y2 + 1
            <4>2. b \in 0..MaxBrowser /\ y3' \subseteq 1..MaxBrowser
                BY <1>1, <4>1
            <4> DEFINE r == [y6[j] EXCEPT !.step = "browser", !.public = public, !.browser = b]
            <4>3. y6' = [y6 EXCEPT ![j] = r] /\ y1' = b /\ y2' = b
                BY <1>1, <3>5, <4>1 DEF Reports!ReportJob
            <4> HIDE DEF b
            <4>4. /\ r \in Reports!ReportJob /\ r.step = "browser" /\ r.cleanup = y6[j].cleanup
                  /\ r.released = y6[j].released /\ r.context = y6[j].context
                BY <3>3, <4>2
            <4> QED BY <3>2, <4>2, <4>3, <4>4
        <3>6. CASE y1 = 0 /\ y2' # y2 + 1
            <4> DEFINE r == [y6[j] EXCEPT !.step = "over", !.answer = "no browser"]
            <4>1. /\ r \in Reports!ReportJob /\ r.step = "over" /\ r.cleanup = y6[j].cleanup
                  /\ r.released = y6[j].released /\ r.context = y6[j].context
                BY <2>1 DEF Reports!ReportJob
            <4> QED BY <1>1, <3>1, <3>2, <3>6, <4>1
        <3> QED BY <3>4, <3>5, <3>6
    <2>4. y6'[j] = r
        BY <2>3, ReportsOne
    <2> QED BY <1>3, <2>2, <2>3, <2>4 DEF Reports!Holds, Reports!CleanUpHolds
<1>5. ASSUME Reports!Disconnect PROVE Reports!IInv'
    <2>1. PICK b \in y3 : /\ y3' = y3 \ {b} /\ y1' = (IF y1 = b THEN 0 ELSE y1) /\ UNCHANGED <<y2, y4, y5>>
                          /\ y6' = Reports!Gone(y6, b)
        BY <1>5 DEF Reports!Disconnect, Reports!Forget, Reports!counters
    <2>2. y6' = [k \in Job |-> IF y6[k].browser = b THEN [y6[k] EXCEPT !.context = FALSE] ELSE y6[k]]
        BY <2>1 DEF Reports!Gone
    <2>3. /\ y6' \in [Job -> Reports!ReportJob]
          /\ \A k \in Job : /\ y6'[k].step = y6[k].step /\ y6'[k].public = y6[k].public /\ y6'[k].cleanup = y6[k].cleanup
                            /\ y6'[k].released = y6[k].released /\ (y6'[k].context => y6[k].context)
        BY <1>1, <2>2, ZenonT(40) DEF Reports!ReportJob
    <2>4. \A k \in Job : Reports!CleanUpHolds(k)' /\ (Reports!Holds(k)' <=> Reports!Holds(k))
        BY <1>1, <2>3 DEF Reports!CleanUpHolds, Reports!Holds
    <2> QED BY <1>1, <2>1, <2>3, <2>4, ReportsKeeps
<1>6. ASSUME NEW j \in Job, Reports!withReportContext(j) PROVE Reports!IInv'
    <2>1. /\ y6[j].step = "browser" /\ y6[j].cleanup = "none" /\ ~y6[j].released /\ ~y6[j].context
          /\ y6[j] \in Reports!ReportJob /\ ~Reports!Holds(j) /\ UNCHANGED <<y1, y2, y3>>
        BY <1>1, <1>6 DEF Reports!withReportContext, Reports!CleanUpHolds, Reports!Holds, Reports!browsers
    <2>2. CASE Reports!Busy(j)
        <3> DEFINE r == [y6[j] EXCEPT !.step = "over", !.answer = "busy"]
        <3>1. r \in Reports!ReportJob /\ r.step = "over" /\ r.cleanup = "none" /\ ~r.released /\ ~r.context
            BY <2>1 DEF Reports!ReportJob
        <3>2. y6' = [y6 EXCEPT ![j] = r] /\ UNCHANGED <<y4, y5>>
            BY <1>1, <1>6, <2>2 DEF Reports!withReportContext, Reports!counters
        <3> HIDE DEF r
        <3>3. y6'[j] = r
            BY <3>1, <3>2, ReportsOne
        <3> QED BY <1>1, <1>3, <2>1, <3>1, <3>2, <3>3 DEF Reports!Holds, Reports!CleanUpHolds
    <2>3. CASE ~Reports!Busy(j)
        <3> DEFINE r == [y6[j] EXCEPT !.step = "opening"]
        <3>1. r \in Reports!ReportJob /\ r.step = "opening" /\ r.cleanup = "none" /\ ~r.released /\ ~r.context
                  /\ r.public = y6[j].public
            BY <2>1 DEF Reports!ReportJob
        <3>2. y6' = [y6 EXCEPT ![j] = r] /\ y4' = y4 + 1 /\ y5' = IF r.public THEN y5 + 1 ELSE y5
            BY <1>1, <1>6, <2>3, <3>1 DEF Reports!withReportContext
        <3> HIDE DEF r
        <3>3. /\ y6' \in [Job -> Reports!ReportJob] /\ y6'[j] = r
              /\ \A k \in Job \ {j} : y6'[k] = y6[k] /\ (Reports!Holds(k)' <=> Reports!Holds(k)) /\ Reports!CleanUpHolds(k)'
            BY <3>1, <3>2, ReportsOne
        <3>4. Reports!Holds(j)' /\ Reports!CleanUpHolds(j)'
            BY <3>1, <3>3 DEF Reports!Holds, Reports!CleanUpHolds
        <3>5. /\ Reports!Holders' = Reports!Holders \cup {j} /\ j \notin Reports!Holders
              /\ Reports!PublicHolders' = Reports!PublicHolders \cup (IF r.public THEN {j} ELSE {})
              /\ j \notin Reports!PublicHolders
            BY <2>1, <3>3, <3>4 DEF Reports!Holders, Reports!PublicHolders
        <3>6. /\ IsFiniteSet(Reports!Holders) /\ y4 = Cardinality(Reports!Holders)
              /\ y5 = Cardinality(Reports!PublicHolders) /\ y4 \in Int /\ y5 \in Int
              /\ y4 < MAX_ACTIVE_REPORTS /\ (r.public => y5 < 1) /\ y5 <= 1
            BY <2>3, <3>1, ValuationAssumption, ReportsCount DEF Reports!IInv, Reports!SlotsCounted, Reports!TypeOK, Reports!Busy
        <3>7. IsFiniteSet(Reports!PublicHolders)
            BY <3>6, FS_Subset DEF Reports!PublicHolders
        <3>8. IsFiniteSet(Reports!Holders') /\ Cardinality(Reports!Holders') = y4'
            BY <3>2, <3>5, <3>6, FS_AddElement
        <3>9. Cardinality(Reports!PublicHolders') = y5'
            BY <3>2, <3>5, <3>6, <3>7, FS_AddElement
        <3>10. y4' \in Int /\ y5' \in Int /\ y4' <= MAX_ACTIVE_REPORTS /\ y5' <= 1
            BY <3>2, <3>6, ValuationAssumption
        <3>11. Reports!TypeOK'
            BY <1>1, <2>1, <3>3, <3>10 DEF Reports!TypeOK
        <3>12. Reports!SlotsCounted'
            BY <3>8, <3>9, <3>10, ReportsCount DEF Reports!SlotsCounted
        <3> QED BY <3>3, <3>4, <3>11, <3>12 DEF Reports!IInv
    <2> QED BY <2>2, <2>3
\* A job that goes on with its slot.
<1>7. ASSUME NEW j \in Job,
             \/ Reports!ContextOpens(j) \/ Reports!render(j) \/ Reports!Deadline(j)
             \/ Reports!ContextStaysOpen(j) \/ Reports!BrowserStaysOpen(j) \/ Reports!Settle(j)
      PROVE  Reports!IInv'
    <2>1. PICK q \in Reports!ReportJob : q = y6[j]
        BY <1>1
    <2>2. UNCHANGED <<y1, y2, y3, y4, y5>>
        BY <1>7 DEF Reports!ContextOpens, Reports!render, Reports!Deadline, Reports!ContextStaysOpen,
                    Reports!BrowserStaysOpen, Reports!Settle, Reports!KeepsSlot, Reports!browsers, Reports!counters
    <2>3. PICK r \in Reports!ReportJob :
            /\ y6' = [y6 EXCEPT ![j] = r] /\ r.public = q.public /\ r.released = q.released
            /\ \/ /\ q.step = "opening" /\ r.context
                  /\ \/ r.step = "done" /\ r.cleanup = "context"
                     \/ r.step = "rendering" /\ r.cleanup = q.cleanup
               \/ /\ r.context = q.context /\ q.step \in {"rendering", "done"} /\ r.step \in {"rendering", "done"}
                  /\ r.cleanup = IF q.cleanup = "none" THEN "context" ELSE q.cleanup
               \/ r.context = q.context /\ q.step = "opening" /\ r.step = "opening" /\ r.cleanup = q.cleanup
               \/ r.context = q.context /\ r.step = q.step /\ q.cleanup = "context" /\ r.cleanup = "browser"
               \/ r.context = q.context /\ r.step = q.step /\ q.cleanup = "browser" /\ r.cleanup = "failed"
               \/ /\ r.context = q.context /\ q.step = "done" /\ r.step = "over" /\ r.cleanup = q.cleanup
                  /\ q.cleanup \in {"over", "failed"}
        <3>1. CASE Reports!ContextOpens(j)
            <4> DEFINE r == [q EXCEPT !.context = TRUE, !.step = IF q.expired THEN "done" ELSE "rendering",
                                      !.cleanup = IF q.expired THEN "context" ELSE q.cleanup]
            <4>1. /\ r \in Reports!ReportJob /\ r.public = q.public /\ r.released = q.released /\ r.context
                  /\ \/ r.step = "done" /\ r.cleanup = "context"
                     \/ r.step = "rendering" /\ r.cleanup = q.cleanup
                BY <2>1, ZenonT(40) DEF Reports!ReportJob
            <4>2. q.step = "opening" /\ y6' = [y6 EXCEPT ![j] = r]
                BY <1>1, <2>1, <3>1 DEF Reports!ContextOpens, Reports!ReportJob
            <4> QED BY <4>1, <4>2
        <3>2. CASE Reports!render(j)
            <4> DEFINE r == [q EXCEPT !.step = "done", !.cleanup = IF q.cleanup = "none" THEN "context" ELSE q.cleanup]
            <4>1. /\ r \in Reports!ReportJob /\ r.public = q.public /\ r.released = q.released /\ r.context = q.context
                  /\ r.step = "done" /\ r.cleanup = IF q.cleanup = "none" THEN "context" ELSE q.cleanup
                BY <2>1, ZenonT(40) DEF Reports!ReportJob
            <4>2. q.step = "rendering" /\ y6' = [y6 EXCEPT ![j] = r]
                BY <1>1, <2>1, <3>2 DEF Reports!render, Reports!ReportJob
            <4> QED BY <4>1, <4>2
        <3>3. CASE Reports!Deadline(j)
            <4> DEFINE closes == q.step # "opening" /\ q.cleanup = "none"
                       cleanup == IF closes THEN "context" ELSE q.cleanup
                       r == [q EXCEPT !.expired = TRUE, !.answer = "too long", !.cleanup = cleanup]
            <4>1. cleanup \in {"none", "context", "browser", "over", "failed"}
                BY <2>1 DEF Reports!ReportJob
            <4>3. q.step \in {"opening", "rendering", "done"} /\ y6' = [y6 EXCEPT ![j] = r]
                BY <1>1, <2>1, <3>3 DEF Reports!Deadline, Reports!ReportJob
            <4>4. r.cleanup = cleanup
                BY <2>1 DEF Reports!ReportJob
            <4>5. ~closes => q.step = "opening" \/ q.cleanup # "none"
                OBVIOUS
            <4> HIDE DEF cleanup
            <4>2. r \in Reports!ReportJob
                BY <2>1, <4>1, ZenonT(40) DEF Reports!ReportJob
            <4>6. r.public = q.public /\ r.released = q.released /\ r.context = q.context /\ r.step = q.step
                BY <2>1, <4>1 DEF Reports!ReportJob
            <4> HIDE DEF r
            <4> QED BY <4>2, <4>3, <4>4, <4>5, <4>6 DEF cleanup
        <3>4. CASE Reports!ContextStaysOpen(j) \/ Reports!BrowserStaysOpen(j)
            <4> DEFINE cleanup == IF q.cleanup = "context" THEN "browser" ELSE "failed"
                       r == [q EXCEPT !.cleanup = cleanup]
            <4>1. /\ r \in Reports!ReportJob /\ r.public = q.public /\ r.released = q.released /\ r.context = q.context
                  /\ r.step = q.step /\ r.cleanup = cleanup
                BY <2>1, ZenonT(40) DEF Reports!ReportJob
            <4>2. q.cleanup \in {"context", "browser"} /\ y6' = [y6 EXCEPT ![j] = r]
                BY <1>1, <2>1, <3>4 DEF Reports!ContextStaysOpen, Reports!BrowserStaysOpen, Reports!ReportJob
            <4> QED BY <4>1, <4>2
        <3>5. CASE Reports!Settle(j)
            <4>1. PICK answer \in {"pdf", "error"} :
                    y6' = [y6 EXCEPT ![j].step = "over", ![j].answer = IF @ = "none" THEN answer ELSE @]
                BY <3>5 DEF Reports!Settle
            <4>2. PICK a : a = IF q.answer = "none" THEN answer ELSE q.answer
                OBVIOUS
            <4> DEFINE r == [q EXCEPT !.step = "over", !.answer = a]
            <4>3. r \in Reports!ReportJob
                BY <2>1, <4>2 DEF Reports!ReportJob
            <4>4. /\ r.public = q.public /\ r.released = q.released /\ r.context = q.context
                  /\ r.step = "over" /\ r.cleanup = q.cleanup
                BY <2>1 DEF Reports!ReportJob
            <4>5. q.step = "done" /\ q.cleanup \in {"over", "failed"} /\ y6' = [y6 EXCEPT ![j] = r]
                BY <1>1, <2>1, <3>5, <4>1, <4>2 DEF Reports!Settle, Reports!ReportJob
            <4> HIDE DEF r
            <4> QED BY <4>3, <4>4, <4>5
        <3> QED BY <1>7, <3>1, <3>2, <3>3, <3>4, <3>5
    <2>4. y6'[j] = r /\ Reports!CleanUpHolds(j)
        BY <1>1, <2>3, ReportsOne
    <2>5. /\ q.step \in {"new", "browser", "opening"} => ~q.released /\ q.cleanup = "none" /\ ~q.context
          /\ q.cleanup \in {"context", "browser"} => ~q.released /\ q.step # "over"
          /\ q.cleanup = "failed" => ~q.released
          /\ q.cleanup = "over" => q.released
          /\ q.released => ~q.context /\ (q.cleanup = "over" \/ q.step = "over")
          /\ q.step = "over" /\ q.cleanup # "failed" => ~q.context
          /\ q.released \in BOOLEAN /\ q.context \in BOOLEAN /\ r.released \in BOOLEAN /\ r.context \in BOOLEAN
          /\ r.step \in {"new", "browser", "opening", "rendering", "done", "over"}
        BY <2>1, <2>4 DEF Reports!CleanUpHolds, Reports!ReportJob
    <2>6. Reports!CleanUpHolds(j)'
        BY <2>3, <2>4, <2>5 DEF Reports!CleanUpHolds
    <2>7. Reports!Holds(j)' <=> Reports!Holds(j)
        BY <2>1, <2>3, <2>4, <2>5 DEF Reports!Holds
    <2> QED BY <1>1, <1>3, <2>1, <2>2, <2>3, <2>4, <2>6, <2>7
\* A job whose clean-up, or context, ends.
<1>8. ASSUME NEW j \in Job, Reports!ContextFails(j) \/ Reports!ContextCloses(j) \/ Reports!BrowserCloses(j)
      PROVE  Reports!IInv'
    <2>1. Reports!Holds(j) /\ Reports!Release(j)
        BY <1>1, <1>8 DEF Reports!ContextFails, Reports!ContextCloses, Reports!BrowserCloses, Reports!CleanUpHolds,
                          Reports!Holds, Reports!ReportJob
    <2>2. y1' \in 0..MaxBrowser /\ y2' \in 0..MaxBrowser /\ y3' \subseteq 1..MaxBrowser
        BY <1>1, <1>8 DEF Reports!ContextFails, Reports!ContextCloses, Reports!BrowserCloses, Reports!Forget, Reports!browsers
    <2>3. /\ y6' \in [Job -> Reports!ReportJob]
          /\ \A k \in Job \ {j} : /\ y6'[k].step = y6[k].step /\ y6'[k].public = y6[k].public
                                  /\ y6'[k].cleanup = y6[k].cleanup /\ y6'[k].released = y6[k].released
                                  /\ (y6'[k].context => y6[k].context)
          /\ y6'[j].public = y6[j].public /\ y6'[j].released /\ ~y6'[j].context
          /\ y6'[j].step \notin {"new", "browser", "opening"} /\ y6'[j].cleanup \notin {"context", "browser", "failed"}
          /\ y6'[j].cleanup = "over" \/ y6'[j].step = "over"
        <3>1. PICK q \in Reports!ReportJob : q = y6[j]
            BY <1>1
        <3>2. CASE Reports!ContextFails(j)
            <4> DEFINE r == [q EXCEPT !.step = "over", !.released = TRUE, !.answer = IF q.answer = "none" THEN "error" ELSE q.answer]
            <4>1. /\ r \in Reports!ReportJob /\ r.step = "over" /\ r.released = TRUE /\ r.public = q.public
                  /\ r.context = q.context /\ r.cleanup = q.cleanup
                BY <3>1, ZenonT(40) DEF Reports!ReportJob
            <4>2. q.step = "opening" /\ y6' = [y6 EXCEPT ![j] = r]
                BY <1>1, <3>1, <3>2 DEF Reports!ContextFails, Reports!ReportJob
            <4> HIDE DEF r
            <4>3. q.cleanup = "none" /\ ~q.context
                BY <1>1, <3>1, <4>2 DEF Reports!CleanUpHolds
            <4> QED BY <1>1, <3>1, <4>1, <4>2, <4>3
        <3>3. CASE Reports!ContextCloses(j)
            <4> DEFINE r == [q EXCEPT !.context = FALSE, !.cleanup = "over", !.released = TRUE]
            <4>1. /\ r \in Reports!ReportJob /\ r.step = q.step /\ r.released = TRUE /\ r.public = q.public
                  /\ r.context = FALSE /\ r.cleanup = "over"
                BY <3>1 DEF Reports!ReportJob
            <4>2. q.cleanup = "context" /\ y6' = [y6 EXCEPT ![j] = r]
                BY <1>1, <3>1, <3>3 DEF Reports!ContextCloses, Reports!ReportJob
            <4> HIDE DEF r
            <4>3. q.step \notin {"new", "browser", "opening"}
                BY <1>1, <3>1, <4>2 DEF Reports!CleanUpHolds
            <4> QED BY <1>1, <3>1, <4>1, <4>2, <4>3
        <3>4. CASE Reports!BrowserCloses(j)
            <4> DEFINE b == q.browser
                       g == Reports!Gone(y6, b)
            <4>1. /\ g \in [Job -> Reports!ReportJob]
                  /\ \A k \in Job : /\ g[k].step = y6[k].step /\ g[k].public = y6[k].public /\ g[k].cleanup = y6[k].cleanup
                                    /\ g[k].released = y6[k].released /\ (g[k].context => y6[k].context)
                  /\ g[j].context = FALSE
                BY <1>1, <3>1 DEF Reports!Gone, Reports!ReportJob
            <4>2. q.cleanup = "browser" /\ y6' = [g EXCEPT ![j].cleanup = "over", ![j].released = TRUE]
                BY <3>1, <3>4 DEF Reports!BrowserCloses
            <4> HIDE DEF g
            <4> DEFINE r == [g[j] EXCEPT !.cleanup = "over", !.released = TRUE]
            <4>3. /\ r \in Reports!ReportJob /\ r.step = y6[j].step /\ r.released = TRUE /\ r.public = y6[j].public
                  /\ r.context = FALSE /\ r.cleanup = "over"
                BY <4>1 DEF Reports!ReportJob
            <4>4. y6' = [g EXCEPT ![j] = r]
                BY <4>1, <4>2 DEF Reports!ReportJob
            <4> HIDE DEF r
            <4>5. q.step \notin {"new", "browser", "opening"}
                BY <1>1, <3>1, <4>2 DEF Reports!CleanUpHolds
            <4> QED BY <1>1, <3>1, <4>1, <4>3, <4>4, <4>5
        <3> QED BY <1>8, <3>2, <3>3, <3>4
    <2>4. \A k \in Job : Reports!CleanUpHolds(k)' /\ y6'[k].public = y6[k].public
        BY <1>1, <2>3 DEF Reports!CleanUpHolds
    <2>5. ~Reports!Holds(j)' /\ \A k \in Job \ {j} : (Reports!Holds(k)' <=> Reports!Holds(k))
        BY <2>3 DEF Reports!Holds
    <2> QED BY <2>1, <2>2, <2>3, <2>4, <2>5, ReportsGivesBack
<1> QED BY <1>2, <1>4, <1>5, <1>6, <1>7, <1>8 DEF Reports!Next

LEMMA ReportsInit == Reports!Init => Reports!IInv
<1> SUFFICES ASSUME Reports!Init PROVE Reports!IInv
    OBVIOUS
<1>1. y1 = 0 /\ y2 = 0 /\ y3 = {} /\ y4 = 0 /\ y5 = 0 /\ y6 = [j \in Job |-> Reports!NewJob]
    BY DEF Reports!Init
<1>2. Reports!NewJob \in Reports!ReportJob
    BY ValuationAssumption DEF Reports!NewJob, Reports!ReportJob
<1>3. Reports!TypeOK
    BY <1>1, <1>2, ValuationAssumption DEF Reports!TypeOK
<1>4. Reports!Holders = {} /\ Reports!PublicHolders = {}
    BY <1>1 DEF Reports!Holders, Reports!PublicHolders, Reports!Holds, Reports!NewJob
<1>5. Reports!SlotsCounted
    BY <1>1, <1>4, FS_EmptySet, ValuationAssumption, ReportsCount DEF Reports!SlotsCounted
<1>6. \A j \in Job : Reports!CleanUpHolds(j)
    BY <1>1 DEF Reports!CleanUpHolds, Reports!NewJob
<1> QED BY <1>3, <1>5, <1>6 DEF Reports!IInv

LEMMA ReportsHold == Reports!IInv => Reports!SlotsBound
<1> SUFFICES ASSUME Reports!IInv PROVE Reports!SlotsBound
    OBVIOUS
<1>1. /\ IsFiniteSet(Reports!Holders) /\ y4 = Cardinality(Reports!Holders) /\ y5 = Cardinality(Reports!PublicHolders)
      /\ y4 <= MAX_ACTIVE_REPORTS /\ y5 <= 1 /\ y6 \in [Job -> Reports!ReportJob]
      /\ \A j \in Job : Reports!CleanUpHolds(j)
    BY ReportsCount DEF Reports!IInv, Reports!SlotsCounted, Reports!TypeOK
<1>2. /\ Reports!Occupied(Job) \subseteq Reports!Holders
      /\ Reports!Occupied({j \in Job : y6[j].public}) \subseteq Reports!PublicHolders
    BY <1>1 DEF Reports!Occupied, Reports!Holders, Reports!PublicHolders, Reports!Holds, Reports!CleanUpHolds, Reports!ReportJob
<1>3. IsFiniteSet(Reports!PublicHolders)
    BY <1>1, FS_Subset DEF Reports!PublicHolders
<1>4. /\ Cardinality(Reports!Occupied(Job)) <= Cardinality(Reports!Holders)
      /\ Cardinality(Reports!Occupied({j \in Job : y6[j].public})) <= Cardinality(Reports!PublicHolders)
    BY <1>1, <1>2, <1>3, FS_Subset
<1>5. /\ Cardinality(Reports!Occupied(Job)) \in Nat /\ Cardinality(Reports!Holders) \in Nat
      /\ Cardinality(Reports!Occupied({j \in Job : y6[j].public})) \in Nat /\ Cardinality(Reports!PublicHolders) \in Nat
    BY <1>1, <1>2, <1>3, FS_Subset, FS_CardinalityType
<1> QED BY <1>1, <1>4, <1>5, ReportsCount DEF Reports!SlotsBound

-----------------------------------------------------------------------------
(***************************************************************************)
(* ErrorLog: the rows are y1, the rows made y2, the captures under way y4,  *)
(* the captures that failed y7.                                             *)
(***************************************************************************)
LEMMA ErrorsCount == \A S : Errors!Cardinality(S) = Cardinality(S)
    BY DEF Cardinality, Errors!Cardinality

\* A finite set of numbers is as large as the numbers that are smaller than one it does not
\* hold, when it holds all that are: so the oldest rows are as many as were asked for.
LEMMA ErrorsOldest ==
    ASSUME Errors!TypeOK, NEW n \in Nat
    PROVE  \/ DOMAIN y1 \ Errors!Oldest(n) = {}
           \/ Cardinality(DOMAIN y1 \ Errors!Oldest(n)) + n <= Cardinality(DOMAIN y1)
<1> DEFINE D == DOMAIN y1
           O == Errors!Oldest(n)
           T == {y1[i].last : i \in D \ O}
<1>1. IsFiniteSet(D) /\ \A i \in D : y1[i].last \in Nat
    <2>1. IsFiniteSet(1..y2)
        BY FS_Interval DEF Errors!TypeOK
    <2>2. D \subseteq 1..y2
        BY DEF Errors!TypeOK
    <2> QED BY <2>1, <2>2, FS_Subset DEF Errors!TypeOK, Errors!LogRow
<1>2. CASE D \ O = {}
    BY <1>2
<1>3. CASE D \ O # {}
    <2>1. T \subseteq Nat /\ T # {}
        BY <1>1, <1>3
    <2>2. PICK t \in T : \A u \in T : ~(<<u, t>> \in OpToRel(<, Nat))
        <3> HIDE DEF T
        <3> QED BY <2>1, NatLessThanWellFounded, WFMin
    <2>3. PICK i \in D \ O : y1[i].last = t
        OBVIOUS
    <2>4. \A j \in D \ O : ~(y1[j].last < y1[i].last)
        BY <1>1, <2>1, <2>2, <2>3 DEF OpToRel
    <2> DEFINE B == {j \in D : y1[j].last < y1[i].last}
    <2>5. ~(Cardinality(B) < n)
        BY <2>3, ErrorsCount DEF Errors!Oldest
    <2>6. B \subseteq D \cap O
        BY <2>4
    <2>7. /\ IsFiniteSet(D \cap O) /\ Cardinality(B) <= Cardinality(D \cap O) /\ Cardinality(B) \in Nat
          /\ Cardinality(D \cap O) \in Nat /\ Cardinality(D) \in Nat
        BY <1>1, <2>6, FS_Subset, FS_CardinalityType
    <2>8. Cardinality(D \ O) = Cardinality(D) - Cardinality(D \cap O)
        BY <1>1, FS_Difference
    <2> QED BY <2>5, <2>7, <2>8
<1> QED BY <1>2, <1>3

\* What is counted.
LEMMA ErrorsFinite ==
    ASSUME Errors!TypeOK
    PROVE  /\ IsFiniteSet(DOMAIN y1) /\ IsFiniteSet(Errors!Counting) /\ IsFiniteSet(Errors!Counted)
           /\ Cardinality(DOMAIN y1) \in Nat /\ Cardinality(Errors!Counting) \in Nat
           /\ \A S : IsFiniteSet(DOMAIN y1 \ S) /\ Cardinality(DOMAIN y1 \ S) \in Nat
                     /\ Cardinality(DOMAIN y1 \ S) <= Cardinality(DOMAIN y1)
           /\ \A F \in SUBSET Errors!Counted : IsFiniteSet(F) /\ Cardinality(F) \in Nat
<1>1. IsFiniteSet(1..y2) /\ DOMAIN y1 \subseteq 1..y2
    BY FS_Interval DEF Errors!TypeOK
<1>2. IsFiniteSet(DOMAIN y1)
    BY <1>1, FS_Subset
<1>3. IsFiniteSet(Errors!Counting) /\ IsFiniteSet(Errors!Counted)
    BY ValuationAssumption, FS_Subset DEF Errors!Counting, Errors!Counted
<1>4. \A S : DOMAIN y1 \ S \subseteq DOMAIN y1
    OBVIOUS
<1> QED BY <1>2, <1>3, <1>4, FS_Subset, FS_CardinalityType

\* ComesDown, with the counting of the library.
ErrorsDown(q, n) ==
    IF y4[q].at = "oldest" THEN Cardinality(DOMAIN y1) <= y4[q].take + n
    ELSE Cardinality(DOMAIN y1 \ y4[q].rows) <= n
ErrorsMost(F) == MAX_ROWS + y7 + Cardinality(Errors!Counting) + Cardinality(F)
LEMMA ErrorsComesDown ==
    /\ Errors!ComesDown <=>
          \A F \in SUBSET Errors!Counted :
            \/ Cardinality(DOMAIN y1) <= ErrorsMost(F)
            \/ \E q \in Errors!Counted \ F : ErrorsDown(q, ErrorsMost(F))
    /\ Errors!ComesDown' <=>
          \A F \in SUBSET Errors!Counted' :
            \/ Cardinality(DOMAIN y1') <= ErrorsMost(F)'
            \/ \E q \in Errors!Counted' \ F : ErrorsDown(q, ErrorsMost(F))'
<1>1. \A q, n : Errors!Clears(q, n) <=> ErrorsDown(q, n)
    BY ErrorsCount DEF Errors!Clears, ErrorsDown
<1>2. \A q, n : Errors!Clears(q, n)' <=> ErrorsDown(q, n)'
    BY ErrorsCount DEF Errors!Clears, ErrorsDown
<1>3. Errors!ComesDown <=>
          \A F \in SUBSET Errors!Counted :
            \/ Cardinality(DOMAIN y1) <= ErrorsMost(F)
            \/ \E q \in Errors!Counted \ F : ErrorsDown(q, ErrorsMost(F))
    BY ErrorsCount, <1>1 DEF Errors!ComesDown, ErrorsMost
<1>4. Errors!ComesDown' <=>
          \A F \in SUBSET Errors!Counted' :
            \/ Cardinality(DOMAIN y1') <= ErrorsMost(F)'
            \/ \E q \in Errors!Counted' \ F : ErrorsDown(q, ErrorsMost(F))'
    BY ErrorsCount, <1>2 DEF Errors!ComesDown, ErrorsMost
<1> QED BY <1>3, <1>4

\* A request takes up another capture: what it counts for then.
LEMMA ErrorsMoves ==
    ASSUME Errors!TypeOK, NEW r \in Failing, NEW c \in Errors!Capture, Errors!Moves(r, c)
    PROVE  /\ y4' \in [Failing -> Errors!Capture] /\ y4'[r] = c /\ \A q \in Failing \ {r} : y4'[q] = y4[q]
           /\ Errors!Counting' = IF c.at = "count" THEN Errors!Counting \cup {r} ELSE Errors!Counting \ {r}
           /\ Errors!Counted' =
                 IF c.at \in {"oldest", "prune"} THEN Errors!Counted \cup {r} ELSE Errors!Counted \ {r}
<1>1. y4' \in [Failing -> Errors!Capture] /\ y4'[r] = c /\ \A q \in Failing \ {r} : y4'[q] = y4[q]
    BY DEF Errors!TypeOK, Errors!Moves
<1> QED BY <1>1 DEF Errors!Counting, Errors!Counted

\* The steps that neither make nor delete a row, and neither begin nor end a count.
LEMMA ErrorsKeeps ==
    ASSUME Errors!IInv, NEW r \in Failing, NEW c \in Errors!Capture, Errors!Moves(r, c), y7' = y7, DOMAIN y1' = DOMAIN y1,
           y4[r].at \notin {"count", "oldest", "prune"}, c.at \notin {"count", "oldest", "prune"}
    PROVE  Errors!ComesDown'
<1>1. /\ Errors!Counting' = Errors!Counting /\ Errors!Counted' = Errors!Counted
      /\ \A q \in Errors!Counted : y4'[q] = y4[q]
    BY ErrorsMoves DEF Errors!IInv, Errors!Counting, Errors!Counted
<1>2. \A F : ErrorsMost(F)' = ErrorsMost(F)
    BY <1>1 DEF ErrorsMost
<1>3. \A q \in Errors!Counted : \A n : ErrorsDown(q, n)' <=> ErrorsDown(q, n)
    BY <1>1 DEF ErrorsDown
<1> QED BY <1>1, <1>2, <1>3, ErrorsComesDown DEF Errors!IInv

LEMMA ErrorsCreate ==
    ASSUME Errors!IInv, NEW r \in Failing, Errors!Create(r)
    PROVE  Errors!TypeOK' /\ Errors!ComesDown'
<1> DEFINE c == [at |-> "count"]
           D == DOMAIN y1
<1>1. c \in Errors!Capture /\ Errors!Moves(r, c) /\ y4[r].at = "create" /\ y4[r] \in Errors!Capture
    BY DEF Errors!Create, Errors!Capture, Errors!IInv, Errors!TypeOK
<1>2. y4[r].org \in Org /\ y4[r].fault \in Fault
    BY <1>1 DEF Errors!Capture
<1>3. DOMAIN y1' = D \cup {y2 + 1} /\ \A i \in D : y2 + 1 # i /\ y1'[i] = y1[i]
    BY DEF Errors!Create, Errors!IInv, Errors!TypeOK
<1>4. Errors!TypeOK'
    <2>1. y1'[y2 + 1] \in Errors!LogRow
        BY <1>2 DEF Errors!Create, Errors!LogRow, Errors!IInv, Errors!TypeOK
    <2>2. y4' \in [Failing -> Errors!Capture]
        BY <1>1, ErrorsMoves DEF Errors!IInv
    <2>3. DOMAIN y1' \subseteq 1..y2'
        BY <1>3 DEF Errors!Create, Errors!IInv, Errors!TypeOK
    <2> QED BY <1>3, <2>1, <2>2, <2>3 DEF Errors!Create, Errors!IInv, Errors!TypeOK
<1>5. /\ Errors!Counting' = Errors!Counting \cup {r} /\ r \notin Errors!Counting
      /\ Errors!Counted' = Errors!Counted /\ \A q \in Errors!Counted : y4'[q] = y4[q]
    BY <1>1, ErrorsMoves DEF Errors!IInv, Errors!Counting, Errors!Counted
<1>6. Cardinality(Errors!Counting') = Cardinality(Errors!Counting) + 1
    BY <1>5, ErrorsFinite, FS_AddElement DEF Errors!IInv
<1>7. \A F : F \subseteq Errors!Counted => ErrorsMost(F)' = ErrorsMost(F) + 1 /\ ErrorsMost(F) \in Nat
    BY <1>6, ErrorsFinite, ValuationAssumption DEF ErrorsMost, Errors!Create, Errors!IInv, Errors!TypeOK
<1>8. \A S : Cardinality(DOMAIN y1' \ S) \in Nat /\ Cardinality(D \ S) \in Nat
             /\ Cardinality(DOMAIN y1' \ S) <= Cardinality(D \ S) + 1
    <2> TAKE S
    <2>1. /\ IsFiniteSet(D \ S) /\ Cardinality(D \ S) \in Nat
          /\ Cardinality((D \ S) \cup {y2 + 1}) \in {Cardinality(D \ S), Cardinality(D \ S) + 1}
          /\ IsFiniteSet((D \ S) \cup {y2 + 1})
        BY ErrorsFinite, FS_AddElement DEF Errors!IInv
    <2>2. DOMAIN y1' \ S \subseteq (D \ S) \cup {y2 + 1}
        BY <1>3
    <2>3. Cardinality(DOMAIN y1' \ S) <= Cardinality((D \ S) \cup {y2 + 1})
        BY <2>1, <2>2, FS_Subset
    <2>4. Cardinality(DOMAIN y1' \ S) \in Nat
        BY <2>1, <2>2, FS_Subset, FS_CardinalityType
    <2> QED BY <2>1, <2>3, <2>4
<1>9. Cardinality(DOMAIN y1') \in Nat /\ Cardinality(D) \in Nat /\ Cardinality(DOMAIN y1') <= Cardinality(D) + 1
    BY <1>8, D \ {} = D, DOMAIN y1' \ {} = DOMAIN y1'
<1>10. ASSUME NEW F \in SUBSET Errors!Counted'
       PROVE  \/ Cardinality(DOMAIN y1') <= ErrorsMost(F)'
              \/ \E q \in Errors!Counted' \ F : ErrorsDown(q, ErrorsMost(F))'
    <2>2. CASE Cardinality(D) <= ErrorsMost(F)
        BY <1>5, <1>7, <1>9, <2>2
    <2>3. CASE \E q \in Errors!Counted \ F : ErrorsDown(q, ErrorsMost(F))
        <3>1. PICK q \in Errors!Counted \ F : ErrorsDown(q, ErrorsMost(F))
            BY <2>3
        <3>2. y4'[q] = y4[q] /\ ErrorsMost(F)' = ErrorsMost(F) + 1 /\ ErrorsMost(F) \in Nat
            BY <1>5, <1>7
        <3>3. y4[q].at = "oldest" => y4[q].take \in Nat
            BY DEF Errors!Capture, Errors!IInv, Errors!TypeOK, Errors!Counted
        <3>4. ErrorsDown(q, ErrorsMost(F))'
            <4>1. CASE y4[q].at = "oldest"
                BY <3>1, <3>2, <3>3, <1>9, <4>1 DEF ErrorsDown
            <4>2. CASE y4[q].at # "oldest"
                <5>1. Cardinality(D \ y4[q].rows) <= ErrorsMost(F)
                    BY <3>1, <4>2 DEF ErrorsDown
                <5>2. /\ Cardinality(DOMAIN y1' \ y4[q].rows) \in Nat /\ Cardinality(D \ y4[q].rows) \in Nat
                      /\ Cardinality(DOMAIN y1' \ y4[q].rows) <= Cardinality(D \ y4[q].rows) + 1
                    BY <1>8, Zenon
                <5>3. Cardinality(DOMAIN y1' \ y4[q].rows) <= ErrorsMost(F) + 1
                    BY <5>1, <5>2, <3>2
                <5> QED BY <3>2, <4>2, <5>3 DEF ErrorsDown
            <4> QED BY <4>1, <4>2
        <3> QED BY <3>4, <1>5
    <2> QED BY <1>5, <2>2, <2>3, ErrorsComesDown DEF Errors!IInv
<1> QED BY <1>4, <1>10, ErrorsComesDown

LEMMA ErrorsCounts ==
    ASSUME Errors!IInv, NEW r \in Failing, Errors!Count(r)
    PROVE  Errors!TypeOK' /\ Errors!ComesDown'
<1> DEFINE D == DOMAIN y1
           c == IF Cardinality(D) > MAX_ROWS THEN [at |-> "oldest", take |-> Cardinality(D) - MAX_ROWS] ELSE Errors!Rest
<1>1. Errors!Moves(r, c) /\ y4[r].at = "count"
    BY ErrorsCount DEF Errors!Count, Errors!Excess
<1>2. c \in Errors!Capture
    BY ErrorsFinite, ValuationAssumption DEF Errors!Capture, Errors!Rest, Errors!IInv
<1>3. c.at \in {"oldest", "rest"} /\ (c.at = "oldest" <=> Cardinality(D) > MAX_ROWS)
      /\ (c.at = "oldest" => c.take = Cardinality(D) - MAX_ROWS)
    BY DEF Errors!Rest
<1> HIDE DEF c
<1>4. Errors!TypeOK'
    BY <1>1, <1>2, ErrorsMoves DEF Errors!Count, Errors!IInv, Errors!TypeOK
<1>5. /\ Errors!Counting' = Errors!Counting \ {r} /\ r \in Errors!Counting /\ r \notin Errors!Counted
      /\ Errors!Counted' = (IF c.at = "oldest" THEN Errors!Counted \cup {r} ELSE Errors!Counted)
      /\ \A q \in Errors!Counted : y4'[q] = y4[q] /\ y4'[r] = c
    BY <1>1, <1>2, <1>3, ErrorsMoves DEF Errors!IInv, Errors!Counting, Errors!Counted
<1>6. y4'[r] = c
    BY <1>1, <1>2, ErrorsMoves DEF Errors!IInv
<1>7. Cardinality(Errors!Counting') = Cardinality(Errors!Counting) - 1 /\ Cardinality(Errors!Counting') \in Nat
    BY <1>5, ErrorsFinite, FS_RemoveElement, FS_CardinalityType, FS_Subset DEF Errors!IInv
<1>8. y1' = y1 /\ y7' = y7 /\ Cardinality(D) \in Nat /\ MAX_ROWS \in Nat /\ y7 \in Nat
    BY ErrorsFinite, ValuationAssumption DEF Errors!Count, Errors!IInv, Errors!TypeOK
<1>9. ASSUME NEW F \in SUBSET Errors!Counted'
       PROVE  \/ Cardinality(DOMAIN y1') <= ErrorsMost(F)'
              \/ \E q \in Errors!Counted' \ F : ErrorsDown(q, ErrorsMost(F))'
    <2>1. Cardinality(F) \in Nat
        BY <1>4, ErrorsFinite, <1>5, ValuationAssumption, FS_Subset, FS_CardinalityType DEF Errors!Counted
    <2>2. ErrorsMost(F)' = MAX_ROWS + y7 + Cardinality(Errors!Counting') + Cardinality(F) /\ ErrorsMost(F)' >= MAX_ROWS
          /\ ErrorsMost(F)' \in Nat
        BY <1>7, <1>8, <2>1 DEF ErrorsMost
    <2>3. CASE c.at = "rest"
        BY <1>3, <1>8, <2>2, <2>3
    <2>4. CASE c.at = "oldest" /\ r \notin F
        <3>1. ErrorsDown(r, ErrorsMost(F))'
            BY <1>3, <1>6, <1>8, <2>2, <2>4 DEF ErrorsDown
        <3> QED BY <1>5, <2>4, <3>1
    <2>5. CASE c.at = "oldest" /\ r \in F
        <3> DEFINE G == F \ {r}
        <3>1. G \in SUBSET Errors!Counted /\ Cardinality(G) = Cardinality(F) - 1
            BY <1>5, <2>1, <2>5, FS_RemoveElement, ValuationAssumption, FS_Subset DEF Errors!Counted
        <3>2. ErrorsMost(F)' = ErrorsMost(G)
            BY <3>1, <2>1, <2>2, <1>7, <1>8, ErrorsFinite DEF ErrorsMost, Errors!IInv
        <3>3. Cardinality(D) <= ErrorsMost(G) \/ \E q \in Errors!Counted \ G : ErrorsDown(q, ErrorsMost(G))
            BY <3>1, ErrorsComesDown DEF Errors!IInv
        <3>4. ASSUME NEW q \in Errors!Counted \ G, ErrorsDown(q, ErrorsMost(G))
              PROVE  q \in Errors!Counted' \ F /\ ErrorsDown(q, ErrorsMost(F))'
            BY <1>5, <1>8, <2>5, <3>2, <3>4 DEF ErrorsDown
        <3> QED BY <1>8, <3>2, <3>3, <3>4
    <2> QED BY <1>3, <2>3, <2>4, <2>5
<1> QED BY <1>4, <1>9, ErrorsComesDown

LEMMA ErrorsPrunes ==
    ASSUME Errors!IInv, NEW r \in Failing, Errors!FindOldest(r) \/ Errors!Prune(r)
    PROVE  Errors!TypeOK' /\ Errors!ComesDown'
<1> DEFINE D == DOMAIN y1
<1>1. \A F : F \subseteq Errors!Counted => ErrorsMost(F) \in Nat
    BY ErrorsFinite, ValuationAssumption DEF ErrorsMost, Errors!IInv, Errors!TypeOK
<1>2. Cardinality(D) \in Nat /\ \A S : Cardinality(D \ S) \in Nat /\ Cardinality(D \ S) <= Cardinality(D)
    BY ErrorsFinite DEF Errors!IInv
<1>3. ASSUME Errors!FindOldest(r)
      PROVE  Errors!TypeOK' /\ Errors!ComesDown'
    <2> DEFINE O == Errors!Oldest(y4[r].take)
               c == [at |-> "prune", rows |-> O]
    <2>1. /\ Errors!Moves(r, c) /\ y4[r].at = "oldest" /\ y4[r].take \in Nat
          /\ y1' = y1 /\ y2' = y2 /\ y3' = y3 /\ y7' = y7
        BY <1>3 DEF Errors!FindOldest, Errors!Capture, Errors!IInv, Errors!TypeOK
    <2>2. c \in Errors!Capture /\ c.at = "prune" /\ c.rows = O
        BY DEF Errors!Oldest, Errors!Capture, Errors!IInv, Errors!TypeOK
    <2>3. D \ O = {} \/ Cardinality(D \ O) + y4[r].take <= Cardinality(D)
        BY <2>1, ErrorsOldest DEF Errors!IInv
    <2> HIDE DEF O, c
    <2>4. Errors!TypeOK'
        BY <2>1, <2>2, ErrorsMoves DEF Errors!IInv, Errors!TypeOK
    <2>5. /\ Errors!Counting' = Errors!Counting /\ Errors!Counted' = Errors!Counted
          /\ r \in Errors!Counted /\ y4'[r] = c /\ \A q \in Errors!Counted \ {r} : y4'[q] = y4[q]
        BY <2>1, <2>2, ErrorsMoves DEF Errors!IInv, Errors!Counting, Errors!Counted
    <2>6. \A F : ErrorsMost(F)' = ErrorsMost(F)
        BY <2>1, <2>5 DEF ErrorsMost
    <2>7. ASSUME NEW F \in SUBSET Errors!Counted, NEW q \in Errors!Counted \ F, ErrorsDown(q, ErrorsMost(F))
          PROVE  ErrorsDown(q, ErrorsMost(F))'
        <3>1. CASE q # r
            BY <2>1, <2>5, <2>6, <2>7, <3>1 DEF ErrorsDown
        <3>2. CASE q = r
            <4>1. Cardinality(D) <= y4[r].take + ErrorsMost(F)
                BY <2>1, <2>7, <3>2 DEF ErrorsDown
            <4>2. ErrorsMost(F) \in Nat
                BY <1>1
            <4>3. Cardinality(D \ O) <= ErrorsMost(F)
                <5>1. CASE D \ O = {}
                    BY <5>1, <4>2, FS_EmptySet
                <5>2. CASE Cardinality(D \ O) + y4[r].take <= Cardinality(D)
                    <6>1. Cardinality(D \ O) \in Nat
                        BY <1>2
                    <6> QED BY <5>2, <6>1, <4>1, <4>2, <1>2, <2>1
                <5> QED BY <2>3, <5>1, <5>2
            <4> QED BY <4>3, <3>2, <2>1, <2>2, <2>5, <2>6 DEF ErrorsDown
        <3> QED BY <3>1, <3>2
    <2>8. ASSUME NEW F \in SUBSET Errors!Counted'
          PROVE  \/ Cardinality(DOMAIN y1') <= ErrorsMost(F)'
                 \/ \E q \in Errors!Counted' \ F : ErrorsDown(q, ErrorsMost(F))'
        <3>1. Cardinality(D) <= ErrorsMost(F) \/ \E q \in Errors!Counted \ F : ErrorsDown(q, ErrorsMost(F))
            BY <2>5, ErrorsComesDown DEF Errors!IInv
        <3> QED BY <2>1, <2>5, <2>6, <2>7, <3>1
    <2> QED BY <2>4, <2>8, ErrorsComesDown
<1>4. ASSUME Errors!Prune(r)
      PROVE  Errors!TypeOK' /\ Errors!ComesDown'
    <2> DEFINE S == y4[r].rows
               c == Errors!Rest
    <2>1. /\ Errors!Moves(r, c) /\ y4[r].at = "prune"
          /\ y2' = y2 /\ y3' = y3 /\ y7' = y7 /\ y1' = [i \in D \ S |-> y1[i]]
        BY <1>4 DEF Errors!Prune, Errors!Minus
    <2>2. c \in Errors!Capture /\ c.at = "rest"
        BY DEF Errors!Rest, Errors!Capture
    <2>3. Errors!TypeOK'
        BY <2>1, <2>2, ErrorsMoves DEF Errors!IInv, Errors!TypeOK
    <2>4. /\ Errors!Counting' = Errors!Counting /\ Errors!Counted' = Errors!Counted \ {r}
          /\ \A q \in Errors!Counted' : y4'[q] = y4[q]
        BY <2>1, <2>2, ErrorsMoves DEF Errors!IInv, Errors!Counting, Errors!Counted
    <2>5. \A F : ErrorsMost(F)' = ErrorsMost(F)
        BY <2>1, <2>4 DEF ErrorsMost
    <2>6. DOMAIN y1' = D \ S /\ DOMAIN y1' \subseteq D
        BY <2>1
    <2>7. \A T : /\ Cardinality(DOMAIN y1' \ T) \in Nat /\ Cardinality(D \ T) \in Nat
                 /\ Cardinality(DOMAIN y1' \ T) <= Cardinality(D \ T)
        <3> TAKE T
        <3>1. IsFiniteSet(D \ T) /\ DOMAIN y1' \ T \subseteq D \ T
            BY <2>6, ErrorsFinite DEF Errors!IInv
        <3> QED BY <3>1, FS_Subset, FS_CardinalityType
    <2>8. Cardinality(DOMAIN y1') \in Nat /\ Cardinality(DOMAIN y1') <= Cardinality(D)
        BY <2>6, <1>2
    <2>9. ASSUME NEW F \in SUBSET Errors!Counted'
          PROVE  \/ Cardinality(DOMAIN y1') <= ErrorsMost(F)'
                 \/ \E q \in Errors!Counted' \ F : ErrorsDown(q, ErrorsMost(F))'
        <3>1. Cardinality(D) <= ErrorsMost(F) \/ \E q \in Errors!Counted \ F : ErrorsDown(q, ErrorsMost(F))
            BY <2>4, ErrorsComesDown DEF Errors!IInv
        <3>2. ErrorsMost(F)' = ErrorsMost(F) /\ ErrorsMost(F) \in Nat
            BY <1>1, <2>4, <2>5
        <3>3. CASE Cardinality(D) <= ErrorsMost(F)
            BY <1>2, <2>8, <3>2, <3>3
        <3>4. CASE \E q \in Errors!Counted \ F : ErrorsDown(q, ErrorsMost(F))
            <4>1. PICK q \in Errors!Counted \ F : ErrorsDown(q, ErrorsMost(F))
                BY <3>4
            <4>2. CASE q = r
                <5>1. Cardinality(DOMAIN y1') <= ErrorsMost(F)
                    BY <4>1, <4>2, <2>1, <2>6 DEF ErrorsDown
                <5> QED BY <3>2, <5>1
            <4>3. CASE q # r
                <5>1. q \in Errors!Counted' \ F /\ y4'[q] = y4[q] /\ (y4[q].at = "oldest" => y4[q].take \in Nat)
                    BY <2>4, <4>1, <4>3 DEF Errors!Capture, Errors!IInv, Errors!TypeOK, Errors!Counted
                <5>2. CASE y4[q].at = "oldest"
                    BY <1>2, <2>8, <3>2, <4>1, <5>1, <5>2 DEF ErrorsDown
                <5>3. CASE y4[q].at # "oldest"
                    <6>1. /\ Cardinality(DOMAIN y1' \ y4[q].rows) \in Nat /\ Cardinality(D \ y4[q].rows) \in Nat
                          /\ Cardinality(DOMAIN y1' \ y4[q].rows) <= Cardinality(D \ y4[q].rows)
                        BY <2>7, Zenon
                    <6>2. Cardinality(D \ y4[q].rows) <= ErrorsMost(F)
                        BY <4>1, <5>3 DEF ErrorsDown
                    <6>3. Cardinality(DOMAIN y1' \ y4[q].rows) <= ErrorsMost(F)
                        BY <6>1, <6>2, <3>2
                    <6> QED BY <6>3, <5>1, <5>3, <3>2 DEF ErrorsDown
                <5> QED BY <5>2, <5>3
            <4> QED BY <4>2, <4>3
        <3> QED BY <3>1, <3>3, <3>4
    <2> QED BY <2>3, <2>9, ErrorsComesDown
<1> QED BY <1>3, <1>4

LEMMA ErrorsFails ==
    ASSUME Errors!IInv, NEW r \in Failing, Errors!Fail(r)
    PROVE  Errors!TypeOK' /\ Errors!ComesDown'
<1> DEFINE c == Errors!Rest
           D == DOMAIN y1
<1>1. /\ Errors!Moves(r, c) /\ y7' = y7 + 1 /\ y7 \in Nat /\ y1' = y1 /\ y2' = y2 /\ y3' = y3
    BY DEF Errors!Fail, Errors!IInv, Errors!TypeOK
<1>2. c \in Errors!Capture /\ c.at = "rest"
    BY DEF Errors!Rest, Errors!Capture
<1>3. Errors!TypeOK'
    BY <1>1, <1>2, ErrorsMoves DEF Errors!IInv, Errors!TypeOK
<1>4. /\ Errors!Counting' = Errors!Counting \ {r} /\ Errors!Counted' = Errors!Counted \ {r}
      /\ \A q \in Errors!Counted' : y4'[q] = y4[q]
    BY <1>1, <1>2, ErrorsMoves DEF Errors!IInv, Errors!Counting, Errors!Counted
<1>5. /\ Cardinality(Errors!Counting) \in Nat /\ Cardinality(Errors!Counting') \in Nat
      /\ Cardinality(Errors!Counting') =
            Cardinality(Errors!Counting) - (IF r \in Errors!Counting THEN 1 ELSE 0)
    BY <1>4, ErrorsFinite, FS_RemoveElement, FS_Subset, FS_CardinalityType DEF Errors!IInv
<1>6. Cardinality(D) \in Nat /\ \A S : Cardinality(D \ S) \in Nat
    BY ErrorsFinite DEF Errors!IInv
<1>7. ASSUME NEW F \in SUBSET Errors!Counted'
      PROVE  \/ Cardinality(DOMAIN y1') <= ErrorsMost(F)'
             \/ \E q \in Errors!Counted' \ F : ErrorsDown(q, ErrorsMost(F))'
    <2> DEFINE G == IF r \in Errors!Counted THEN F \cup {r} ELSE F
    <2>1. G \in SUBSET Errors!Counted /\ F \in SUBSET Errors!Counted /\ r \notin F
        BY <1>4
    <2>2. /\ Cardinality(G) = Cardinality(F) + (IF r \in Errors!Counted THEN 1 ELSE 0)
          /\ Cardinality(F) \in Nat /\ Cardinality(G) \in Nat
        BY <2>1, ErrorsFinite, FS_AddElement DEF Errors!IInv
    <2>3. ~(r \in Errors!Counting /\ r \in Errors!Counted)
        BY DEF Errors!Counting, Errors!Counted
    <2>4. ErrorsMost(G) \in Nat /\ ErrorsMost(F)' \in Nat /\ ErrorsMost(G) <= ErrorsMost(F)'
        BY <1>1, <1>5, <2>2, <2>3, ValuationAssumption DEF ErrorsMost
    <2>5. Cardinality(D) <= ErrorsMost(G) \/ \E q \in Errors!Counted \ G : ErrorsDown(q, ErrorsMost(G))
        BY <2>1, ErrorsComesDown DEF Errors!IInv
    <2>6. CASE Cardinality(D) <= ErrorsMost(G)
        BY <1>1, <1>6, <2>4, <2>6
    <2>7. CASE \E q \in Errors!Counted \ G : ErrorsDown(q, ErrorsMost(G))
        <3>1. PICK q \in Errors!Counted \ G : ErrorsDown(q, ErrorsMost(G))
            BY <2>7
        <3>2. q \in Errors!Counted' \ F /\ y4'[q] = y4[q] /\ (y4[q].at = "oldest" => y4[q].take \in Nat)
            BY <1>4, <3>1 DEF Errors!Capture, Errors!IInv, Errors!TypeOK, Errors!Counted
        <3>3. ErrorsDown(q, ErrorsMost(F))'
            <4> HIDE DEF G
            <4>1. CASE y4[q].at = "oldest"
                BY <1>1, <1>6, <2>4, <3>1, <3>2, <4>1 DEF ErrorsDown
            <4>2. CASE y4[q].at # "oldest"
                <5>1. Cardinality(D \ y4[q].rows) \in Nat
                    BY <1>6, Zenon
                <5>2. Cardinality(D \ y4[q].rows) <= ErrorsMost(G)
                    BY <3>1, <4>2 DEF ErrorsDown
                <5> QED BY <1>1, <2>4, <3>2, <4>2, <5>1, <5>2 DEF ErrorsDown
            <4> QED BY <4>1, <4>2
        <3> QED BY <3>2, <3>3
    <2> QED BY <2>5, <2>6, <2>7
<1> QED BY <1>3, <1>7, ErrorsComesDown

LEMMA ErrorsInit == Errors!Init => Errors!IInv
<1> SUFFICES ASSUME Errors!Init PROVE Errors!IInv
    OBVIOUS
<1>1. y1 = << >> /\ DOMAIN y1 = {} /\ y7 = 0 /\ y4 = [r \in Failing |-> Errors!Rest]
    BY DEF Errors!Init
<1>2. Errors!TypeOK
    BY <1>1 DEF Errors!Init, Errors!TypeOK, Errors!Capture, Errors!Rest
<1>3. Errors!Counted = {}
    BY <1>1 DEF Errors!Counted, Errors!Rest
<1>4. Cardinality(DOMAIN y1) <= ErrorsMost({})
    BY <1>1, <1>2, FS_EmptySet, ErrorsFinite, ValuationAssumption DEF ErrorsMost
<1> QED BY <1>2, <1>3, <1>4, ErrorsComesDown DEF Errors!IInv

LEMMA ErrorsStep ==
    ASSUME Errors!IInv, [Errors!Next]_(Errors!vars)
    PROVE  Errors!IInv'
<1>1. CASE UNCHANGED Errors!vars
    BY <1>1, ErrorsComesDown DEF Errors!vars, Errors!IInv, Errors!TypeOK, Errors!Counted, Errors!Counting, ErrorsMost, ErrorsDown
<1>2. ASSUME NEW r \in Failing, NEW o \in Org, NEW f \in Fault, Errors!Occur(r, o, f)
      PROVE  Errors!IInv'
    <2> DEFINE c == [at |-> "find", org |-> o, fault |-> f]
    <2>1. /\ Errors!Moves(r, c) /\ c \in Errors!Capture /\ c.at = "find" /\ y4[r].at = "rest"
          /\ y1' = y1 /\ y2' = y2 /\ y3' = y3 /\ y7' = y7
        BY <1>2 DEF Errors!Occur, Errors!Moves, Errors!Rest, Errors!Capture
    <2> HIDE DEF c
    <2>2. Errors!TypeOK'
        BY <2>1, ErrorsMoves DEF Errors!IInv, Errors!TypeOK
    <2> QED BY <2>1, <2>2, ErrorsKeeps DEF Errors!IInv
<1>3. ASSUME NEW r \in Failing, Errors!Find(r)
      PROVE  Errors!IInv'
    <2>1. PICK c \in Errors!Capture : Errors!Moves(r, c) /\ c.at \in {"create", "fold"}
        <3>1. y4[r] \in Errors!Capture /\ y4[r].at = "find"
            BY <1>3 DEF Errors!Find, Errors!IInv, Errors!TypeOK
        <3>2. PICK o \in Org, f \in Fault : y4[r] = [at |-> "find", org |-> o, fault |-> f]
            BY <3>1 DEF Errors!Capture
        <3>3. \A i \in DOMAIN y1 : [at |-> "fold", row |-> i] \in Errors!Capture
            BY DEF Errors!Capture, Errors!IInv, Errors!TypeOK
        <3>4. /\ [y4[r] EXCEPT !.at = "create"] = [at |-> "create", org |-> o, fault |-> f]
              /\ [at |-> "create", org |-> o, fault |-> f] \in Errors!Capture
            BY <3>2 DEF Errors!Capture
        <3>5. \/ Errors!Moves(r, [y4[r] EXCEPT !.at = "create"])
              \/ \E i \in DOMAIN y1 : Errors!Moves(r, [at |-> "fold", row |-> i])
            BY <1>3 DEF Errors!Find
        <3> QED BY <3>3, <3>4, <3>5
    <2>2. y4[r].at = "find" /\ y1' = y1 /\ y2' = y2 /\ y3' = y3 /\ y7' = y7
        BY <1>3 DEF Errors!Find
    <2>3. Errors!TypeOK'
        BY <2>1, <2>2, ErrorsMoves DEF Errors!IInv, Errors!TypeOK
    <2> QED BY <2>1, <2>2, <2>3, ErrorsKeeps DEF Errors!IInv
<1>4. ASSUME NEW r \in Failing, Errors!Fold(r)
      PROVE  Errors!IInv'
    <2> DEFINE c == Errors!Rest
    <2>1. /\ Errors!Moves(r, c) /\ c \in Errors!Capture /\ c.at = "rest" /\ y4[r].at = "fold"
          /\ y2' = y2 /\ y7' = y7 /\ DOMAIN y1' = DOMAIN y1
        BY <1>4 DEF Errors!Fold, Errors!Rest, Errors!Capture
    <2>2. y3' \in Nat /\ \A i \in DOMAIN y1 : y1'[i] \in Errors!LogRow
        BY <1>4 DEF Errors!Fold, Errors!IInv, Errors!TypeOK, Errors!LogRow
    <2> HIDE DEF c
    <2>3. Errors!TypeOK'
        BY <2>1, <2>2, ErrorsMoves DEF Errors!IInv, Errors!TypeOK
    <2> QED BY <2>1, <2>3, ErrorsKeeps DEF Errors!IInv
<1>5. QED BY <1>1, <1>2, <1>3, <1>4, ErrorsCreate, ErrorsCounts, ErrorsPrunes, ErrorsFails DEF Errors!Next, Errors!IInv

\* What the log promises, once the captures have ended.
LEMMA ErrorsHold == Errors!IInv => Errors!LogFits
<1> SUFFICES ASSUME Errors!IInv, \A r \in Failing : y4[r] = Errors!Rest
             PROVE  Cardinality(DOMAIN y1) <= MAX_ROWS + y7
    BY ErrorsCount DEF Errors!LogFits
<1>1. Errors!Counted = {} /\ Errors!Counting = {}
    BY DEF Errors!Counted, Errors!Counting, Errors!Rest
<1>2. Cardinality(DOMAIN y1) <= ErrorsMost({})
    BY <1>1, ErrorsComesDown DEF Errors!IInv
<1> QED BY <1>1, <1>2, FS_EmptySet, ValuationAssumption DEF ErrorsMost, Errors!IInv, Errors!TypeOK

-----------------------------------------------------------------------------
(***************************************************************************)
(* AppraisalEditor.  What was written under a stamp stays written under it, *)
(* so what the editor, the query and an answer know of a stamp stays true.  *)
(***************************************************************************)

\* The parts of the invariant: the server with the query, and the editor with its request.
EditorOpened == [open : BOOLEAN, loaded : BOOLEAN, id : Nat, stamp : 0..y4, inputs : 0..y5, dirty : BOOLEAN]
EditorAsked ==
    [kind : Editor!Mutation \cup {"none", "accept"}, at : {"sent", "done"}, sent : 0..y5, held : 0..y5,
     expects : 0..y4, base : Int, res : Editor!Version]
EditorServer ==
    /\ y4 \in 0..MaxStamp /\ y5 \in Nat /\ y3 \in [1..MaxStamp -> 0..y5]
    /\ y1 \in Editor!Version /\ y2 \subseteq Editor!Version /\ y6 \in Editor!Version /\ y7 \in Editor!Version
    /\ Editor!VersionsKnown
EditorClient ==
    /\ y10 \in 0..y5 /\ y8 \in EditorOpened /\ y9 \in EditorAsked
    /\ Editor!EditorHolds /\ Editor!RequestHolds /\ Editor!SaysSaved /\ Editor!EditsStand

LEMMA EditorParts == Editor!IInv <=> EditorServer /\ EditorClient
    BY DEF Editor!IInv, Editor!TypeOK, EditorServer, EditorClient, EditorOpened, EditorAsked

LEMMA EditorNone ==
    ASSUME y4 \in Nat, y5 \in Nat
    PROVE  Editor!None \in Editor!Version /\ Editor!Unread \in Editor!Version /\ Editor!NoReq \in EditorAsked
           /\ Editor!Closed \in EditorOpened
<1>1. Editor!None \in Editor!Version
    BY DEF Editor!None, Editor!Version
<1>2. Editor!Unread \in Editor!Version
    BY DEF Editor!Unread, Editor!None, Editor!Version
<1>3. Editor!Closed \in EditorOpened
    BY DEF Editor!Closed, EditorOpened
<1>4. Editor!NoReq \in EditorAsked
    BY <1>1 DEF Editor!NoReq, EditorAsked
<1> QED BY <1>1, <1>2, <1>3, <1>4

\* Stamps and inputs are only added, and what was written stays written.
EditorGrew ==
    /\ y4' \in 0..MaxStamp /\ y5' \in Nat /\ y4 <= y4' /\ y5 <= y5'
    /\ \A s \in 1..y4 : y3'[s] = y3[s]

LEMMA EditorKnows ==
    ASSUME EditorServer, EditorGrew, NEW v \in Editor!Version
    PROVE  /\ v \in Editor!Version'
           /\ Editor!Known(v) => v.id > 0 /\ v.stamp > 0 /\ v.inputs = y3'[v.stamp]
<1>1. y4 \in Nat /\ y5 \in Nat /\ y4' \in Nat /\ y5' \in Nat /\ y4 <= y4' /\ y5 <= y5'
    BY ValuationAssumption DEF EditorServer, EditorGrew
<1>2. 0..y4 \subseteq 0..y4' /\ 0..y5 \subseteq 0..y5'
    BY <1>1
<1>3. v \in Editor!Version'
    BY <1>2 DEF Editor!Version
<1>4. v.stamp \in 0..y4
    BY DEF Editor!Version
<1>5. v.stamp > 0 => y3'[v.stamp] = y3[v.stamp]
    BY <1>1, <1>4 DEF EditorGrew
<1> QED BY <1>3, <1>5 DEF Editor!Known

LEMMA EditorTypesGrow ==
    ASSUME EditorServer, EditorGrew
    PROVE  /\ \A e \in EditorOpened : e \in EditorOpened'
           /\ \A r \in EditorAsked : r \in EditorAsked'
           /\ 0..y5 \subseteq 0..y5' /\ 0..y4 \subseteq 0..y4'
<1>1. y4 \in Nat /\ y5 \in Nat /\ y4' \in Nat /\ y5' \in Nat /\ y4 <= y4' /\ y5 <= y5'
    BY ValuationAssumption DEF EditorServer, EditorGrew
<1>2. 0..y4 \subseteq 0..y4' /\ 0..y5 \subseteq 0..y5'
    BY <1>1
<1>3. \A v \in Editor!Version : v \in Editor!Version'
    BY EditorKnows
<1>4. \A e \in EditorOpened : e \in EditorOpened'
    BY <1>2 DEF EditorOpened
<1>5. ASSUME NEW r \in EditorAsked
      PROVE  r \in EditorAsked'
    BY <1>2, <1>3 DEF EditorAsked, Editor!Mutation
<1> QED BY <1>2, <1>4, <1>5

\* The server when it does nothing: the query reads, and something may be typed.
LEMMA EditorServerStays ==
    ASSUME EditorServer, y1' = y1, y2' = y2, y3' = y3, y4' = y4, y5' \in {y5, y5 + 1},
           y6' \in {y6, y7}, y7' \in {y7, y1, Editor!Unread}
    PROVE  EditorServer' /\ EditorGrew
<1>1. y4 \in Nat /\ y5 \in Nat /\ y4 \in 0..MaxStamp
    BY ValuationAssumption DEF EditorServer
<1>2. EditorGrew
    BY <1>1 DEF EditorGrew
<1>3. \A v \in Editor!Version : v \in Editor!Version'
    BY <1>2, EditorKnows
<1>4. Editor!Unread \in Editor!Version
    BY <1>1, EditorNone
<1>5. y1' \in Editor!Version' /\ y2' \subseteq Editor!Version' /\ y6' \in Editor!Version' /\ y7' \in Editor!Version'
    BY <1>3, <1>4 DEF EditorServer
<1>6. y3' \in [1..MaxStamp -> 0..y5']
    <2>1. 0..y5 \subseteq 0..y5'
        BY <1>2, EditorTypesGrow
    <2> QED BY <2>1 DEF EditorServer
<1>7. Editor!VersionsKnown'
    BY DEF EditorServer, Editor!VersionsKnown, Editor!Known, Editor!None
<1> QED BY <1>2, <1>5, <1>6, <1>7 DEF EditorServer, EditorGrew

\* A write adds a stamp; what was known before is known after it.
LEMMA EditorWrites ==
    ASSUME EditorServer, y5' \in {y5, y5 + 1}, NEW i \in 0..y5', NEW fresh \in BOOLEAN, NEW c \in 0..y5',
           Editor!Write(i, fresh, c), y6' = y6, y7' = y7
    PROVE  /\ EditorServer' /\ EditorGrew
           /\ y1' \in Editor!Version' /\ Editor!Known(y1)' /\ y1'.inputs = i
<1> DEFINE n == y4 + 1
           v == [id |-> IF fresh \/ y1.id = 0 THEN n ELSE y1.id, stamp |-> n, inputs |-> i, covers |-> c]
<1>1. /\ y4 \in Nat /\ y5 \in Nat /\ n \in 1..MaxStamp /\ y4' = n /\ y3' = [y3 EXCEPT ![n] = i] /\ y1' = v
      /\ y2' \subseteq y2 \cup {y1} /\ (y1 \in y2' => y1 \in y2 \/ y1.id # 0)
    BY ValuationAssumption DEF EditorServer, Editor!Write
<1>2. y3 \in [1..MaxStamp -> 0..y5] /\ 0..y5 \subseteq 0..y5'
    BY <1>1 DEF EditorServer
<1>3. y3' \in [1..MaxStamp -> 0..y5'] /\ y3'[n] = i /\ \A s \in 1..y4 : y3'[s] = y3[s]
    BY <1>1, <1>2
<1>4. EditorGrew
    BY <1>1, <1>3 DEF EditorGrew
<1>5. y1.id \in Int /\ (y1.id # 0 => Editor!Known(y1))
    BY DEF EditorServer, Editor!VersionsKnown, Editor!None, Editor!Version
<1>6. v \in Editor!Version' /\ v.id > 0 /\ v.stamp = n /\ v.inputs = i
    <2>1. n \in 0..n /\ n > 0
        BY <1>1
    <2>2. (IF fresh \/ y1.id = 0 THEN n ELSE y1.id) > 0 /\ (IF fresh \/ y1.id = 0 THEN n ELSE y1.id) \in Int
        BY <1>1, <1>5 DEF Editor!Known
    <2> QED BY <1>1, <2>1, <2>2 DEF Editor!Version
<1> HIDE DEF v
<1>7. Editor!Known(y1)'
    BY <1>1, <1>3, <1>6 DEF Editor!Known
<1>8. \A w \in Editor!Version : w \in Editor!Version' /\ (Editor!Known(w) => w.id > 0 /\ w.stamp > 0 /\ w.inputs = y3'[w.stamp])
    BY <1>4, EditorKnows
<1>9. y2' \subseteq Editor!Version' /\ y6' \in Editor!Version' /\ y7' \in Editor!Version'
    BY <1>1, <1>8 DEF EditorServer
<1>10. \A w \in y2' : Editor!Known(w)
    BY <1>1, <1>5 DEF EditorServer, Editor!VersionsKnown
<1>11. \A w \in y2' : w.id > 0 /\ w.stamp > 0 /\ w.inputs = y3'[w.stamp]
    BY <1>1, <1>8, <1>10 DEF EditorServer
<1>12. \A w \in {y6, y7} : w \in {Editor!None, Editor!Unread} \/ (w.id > 0 /\ w.stamp > 0 /\ w.inputs = y3'[w.stamp])
    BY <1>8 DEF EditorServer, Editor!VersionsKnown
<1>13. Editor!VersionsKnown'
    BY <1>7, <1>11, <1>12 DEF Editor!VersionsKnown, Editor!Known
<1>14. EditorServer'
    BY <1>1, <1>3, <1>4, <1>6, <1>9, <1>13 DEF EditorServer, EditorGrew
<1> QED BY <1>1, <1>4, <1>6, <1>7, <1>14

\* What the editor holds, and what its request does, stays so while others write.
LEMMA EditorShows ==
    ASSUME EditorServer, EditorGrew, EditorClient
    PROVE  y8.open /\ y8.id # 0 /\ ~y8.dirty => y8.inputs = y3'[y8.stamp]
<1>1. y8.stamp \in 0..y4 /\ (y8.id = 0 <=> y8.stamp = 0) /\ y4 \in Nat
    BY ValuationAssumption DEF EditorClient, EditorOpened, Editor!EditorHolds, EditorServer
<1> QED BY <1>1 DEF EditorGrew, EditorClient, Editor!SaysSaved

LEMMA EditorAnswered ==
    ASSUME EditorServer, EditorGrew, EditorClient
    PROVE  y9.at = "done" => y9.res.id > 0 /\ y9.res.stamp > 0 /\ y9.res.inputs = y3'[y9.res.stamp]
<1>1. y9.res \in Editor!Version
    BY DEF EditorClient, EditorAsked
<1> QED BY <1>1, EditorKnows DEF EditorClient, Editor!RequestHolds

LEMMA EditorClientStays ==
    ASSUME EditorServer, EditorGrew, EditorClient, y8' = y8, y9' = y9, y10' = y10
    PROVE  EditorClient'
<1>1. y10' \in 0..y5' /\ y8' \in EditorOpened' /\ y9' \in EditorAsked'
    BY EditorTypesGrow DEF EditorClient
<1>2. Editor!EditorHolds' /\ Editor!EditsStand'
    BY DEF EditorClient, Editor!EditorHolds, Editor!EditsStand, Editor!Closed, Editor!Mutation
<1>3. Editor!SaysSaved'
    BY EditorShows DEF Editor!SaysSaved
<1>4. Editor!RequestHolds'
    BY EditorAnswered DEF EditorClient, Editor!RequestHolds, Editor!Known, Editor!NoReq, Editor!None
<1> QED BY <1>1, <1>2, <1>3, <1>4 DEF EditorClient

LEMMA EditorOthers ==
    ASSUME Editor!IInv, Editor!OtherSave \/ Editor!Fetch \/ Editor!Fetched
    PROVE  Editor!IInv'
<1>1. EditorServer /\ EditorClient /\ y8' = y8 /\ y9' = y9 /\ y10' = y10
    BY EditorParts DEF Editor!OtherSave, Editor!Fetch, Editor!Fetched
<1>2. EditorServer' /\ EditorGrew
    <2>1. CASE Editor!OtherSave
        <3>1. /\ y5' = y5 + 1 /\ y6' = y6 /\ y7' = y7 /\ y5 \in Nat /\ y1.covers \in 0..y5
              /\ \/ Editor!Write(y5 + 1, FALSE, y1.covers)
                 \/ \E reviewed \in {0, y5 + 1} : Editor!Write(y5 + 1, TRUE, reviewed)
            BY <1>1, <2>1 DEF Editor!OtherSave, EditorServer, Editor!Version
        <3>2. y5 + 1 \in 0..y5' /\ y1.covers \in 0..y5' /\ 0 \in 0..y5'
            BY <3>1
        <3> QED BY <1>1, <3>1, <3>2, EditorWrites
    <2>2. CASE Editor!Fetch \/ Editor!Fetched
        BY <1>1, <2>2, EditorServerStays DEF Editor!Fetch, Editor!Fetched, Editor!server
    <2> QED BY <2>1, <2>2
<1>3. EditorClient'
    BY <1>1, <1>2, EditorClientStays
<1> QED BY <1>2, <1>3 DEF Editor!IInv, Editor!TypeOK, EditorServer, EditorClient, EditorOpened, EditorAsked

\* A person at the screen: opens it, is shown what the query holds, types, leaves.
LEMMA EditorAtScreen ==
    ASSUME Editor!IInv, Editor!Open \/ Editor!Load \/ Editor!Edit \/ Editor!Leave
    PROVE  Editor!IInv'
<1>1. /\ EditorServer /\ EditorClient /\ y1' = y1 /\ y2' = y2 /\ y3' = y3 /\ y4' = y4 /\ y6' = y6 /\ y7' = y7
      /\ y5' \in {y5, y5 + 1}
    BY EditorParts DEF Editor!Open, Editor!Load, Editor!Edit, Editor!Leave, Editor!server
<1>2. EditorServer' /\ EditorGrew
    BY <1>1, EditorServerStays
<1>3. /\ y4 \in Nat /\ y5 \in Nat /\ y4' \in Nat /\ y5' \in Nat /\ y10 \in 0..y5 /\ y8 \in EditorOpened /\ y9 \in EditorAsked
      /\ Editor!EditorHolds /\ Editor!RequestHolds /\ Editor!SaysSaved /\ Editor!EditsStand
    BY <1>1, <1>2, ValuationAssumption DEF EditorServer, EditorClient
<1>4. y8 \in EditorOpened' /\ y9 \in EditorAsked' /\ y10 \in 0..y5'
    BY <1>1, <1>2, <1>3, EditorTypesGrow
<1>5. y9' = y9 => (y9' \in EditorAsked' /\ (Editor!RequestHolds' <=> (y9.kind \in {"restore", "cost"} /\ y10' # 0 => y10' # y9.held)))
    BY <1>1, <1>3, <1>4 DEF Editor!RequestHolds, Editor!Known, Editor!NoReq, Editor!None
<1>6. CASE Editor!Open
    <2>1. y8' = [Editor!Closed EXCEPT !.open = TRUE] /\ y9' = y9 /\ y10' = y10 /\ ~y8.open
        BY <1>6 DEF Editor!Open
    <2>2. y8 = Editor!Closed /\ y10 = 0 /\ y9.kind \notin Editor!Mutation /\ y9.kind # "accept"
        BY <1>3, <1>6 DEF Editor!Open, Editor!EditorHolds, Editor!Closed, Editor!NoReq, Editor!Mutation
    <2>3. y8' \in EditorOpened' /\ y8'.open /\ ~y8'.loaded /\ y8'.id = 0 /\ y8'.stamp = 0
        <3>1. y8' = [open |-> TRUE, loaded |-> FALSE, id |-> 0, stamp |-> 0, inputs |-> 0, dirty |-> FALSE]
            BY <2>1 DEF Editor!Closed
        <3>2. 0 \in 0..y4' /\ 0 \in 0..y5'
            BY <1>3
        <3> QED BY <3>1, <3>2 DEF EditorOpened
    <2>4. Editor!EditorHolds' /\ Editor!SaysSaved' /\ Editor!EditsStand'
        BY <2>1, <2>2, <2>3 DEF Editor!EditorHolds, Editor!SaysSaved, Editor!EditsStand, Editor!Mutation
    <2> QED BY <1>2, <1>4, <1>5, <2>1, <2>2, <2>3, <2>4 DEF Editor!IInv, Editor!TypeOK, EditorServer, EditorClient,
                EditorOpened, EditorAsked
<1>7. CASE Editor!Load
    <2>1. y9' = y9 /\ y10' = y10 /\ y8.open /\ ~y8.loaded /\ y6 # Editor!Unread /\ y6 \in Editor!Version
          /\ (y6 = Editor!None \/ Editor!Known(y6))
        BY <1>1, <1>7 DEF Editor!Load, EditorServer, Editor!VersionsKnown
    <2>2. y10 = 0 /\ y9.kind \notin Editor!Mutation /\ y9.kind # "accept"
        BY <1>3, <2>1 DEF Editor!EditorHolds, Editor!Mutation
    <2>3. \/ y8' = [y8 EXCEPT !.loaded = TRUE]
          \/ /\ y8' = [y8 EXCEPT !.loaded = TRUE, !.id = y6.id, !.stamp = y6.stamp, !.inputs = y6.inputs]
             /\ Editor!Known(y6)
        BY <1>7, <2>1 DEF Editor!Load, Editor!None
    <2>4. y6.id \in Int /\ y6.stamp \in 0..y4' /\ y6.inputs \in 0..y5'
        <3>1. y6 \in Editor!Version'
            BY <1>1, <1>2, <2>1, EditorKnows
        <3> QED BY <3>1 DEF Editor!Version
    <2>a. /\ y8'.open /\ y8'.loaded /\ y8'.dirty = y8.dirty
          /\ \/ y8'.id = y8.id /\ y8'.stamp = y8.stamp /\ y8'.inputs = y8.inputs
             \/ y8'.id = y6.id /\ y8'.stamp = y6.stamp /\ y8'.inputs = y6.inputs /\ Editor!Known(y6)
          /\ y8' = [open |-> y8'.open, loaded |-> y8'.loaded, id |-> y8'.id, stamp |-> y8'.stamp, inputs |-> y8'.inputs,
                    dirty |-> y8'.dirty]
        BY <1>3, <2>1, <2>3 DEF EditorOpened
    <2>b. /\ y8.id \in Nat /\ y8.stamp \in 0..y4' /\ y8.inputs \in 0..y5' /\ y8.dirty \in BOOLEAN
          /\ (y8.id = 0 <=> y8.stamp = 0) /\ (y8.id # 0 /\ ~y8.dirty => y8.inputs = y3[y8.stamp])
        BY <1>3, <1>4, <2>1 DEF EditorOpened, Editor!EditorHolds, Editor!SaysSaved
    <2>5. y8' \in EditorOpened' /\ y8'.open /\ y8'.loaded
        <3>1. y8'.id \in Nat /\ y8'.stamp \in 0..y4' /\ y8'.inputs \in 0..y5' /\ y8'.dirty \in BOOLEAN
            BY <2>4, <2>a, <2>b DEF Editor!Known
        <3> QED BY <2>a, <3>1 DEF EditorOpened
    <2>6. (y8'.id = 0 <=> y8'.stamp = 0) /\ (y8'.id # 0 /\ ~y8'.dirty => y8'.inputs = y3'[y8'.stamp])
        BY <1>1, <2>4, <2>a, <2>b DEF Editor!Known
    <2>7. Editor!EditorHolds' /\ Editor!SaysSaved' /\ Editor!EditsStand'
        BY <2>1, <2>2, <2>5, <2>6 DEF Editor!EditorHolds, Editor!SaysSaved, Editor!EditsStand, Editor!Mutation
    <2> QED BY <1>2, <1>4, <1>5, <2>1, <2>2, <2>5, <2>7 DEF Editor!IInv, Editor!TypeOK, EditorServer, EditorClient,
                EditorOpened, EditorAsked
<1>8. CASE Editor!Edit
    <2>1. /\ y9' = y9 /\ y10' = y5 + 1 /\ y8.loaded /\ y5' = y5 + 1
          /\ y8' = [y8 EXCEPT !.inputs = y5 + 1, !.dirty = TRUE]
        BY <1>8 DEF Editor!Edit
    <2>2. y8.open
        BY <1>3, <2>1 DEF Editor!EditorHolds, Editor!Closed
    <2>3. y5 + 1 \in 0..y5' /\ y9.held \in 0..y5
        BY <1>3, <2>1 DEF EditorAsked
    <2>4. y8' \in EditorOpened' /\ y8'.open /\ y8'.loaded /\ y8'.dirty /\ y8'.inputs = y10' /\ y8'.id = y8.id /\ y8'.stamp = y8.stamp
        BY <1>4, <2>1, <2>2, <2>3 DEF EditorOpened
    <2>5. Editor!EditorHolds' /\ Editor!SaysSaved' /\ Editor!EditsStand'
        BY <1>3, <2>1, <2>2, <2>4 DEF Editor!EditorHolds, Editor!SaysSaved, Editor!EditsStand, Editor!Mutation
    <2>6. y10' # y9.held /\ y10' \in 0..y5'
        BY <1>3, <2>1, <2>3
    <2> QED BY <1>2, <1>5, <2>1, <2>4, <2>5, <2>6 DEF Editor!IInv, Editor!TypeOK, EditorServer, EditorClient,
                EditorOpened, EditorAsked
<1>9. CASE Editor!Leave
    <2>1. y8' = Editor!Closed /\ y9' = Editor!NoReq /\ y10' = 0
        BY <1>9 DEF Editor!Leave
    <2>2. y8' \in EditorOpened' /\ y9' \in EditorAsked'
        <3>1. Editor!NoReq \in EditorAsked /\ Editor!Closed \in EditorOpened
            BY <1>3, EditorNone
        <3> QED BY <1>1, <1>2, <2>1, <3>1, EditorTypesGrow
    <2>3. Editor!EditorHolds' /\ Editor!SaysSaved' /\ Editor!EditsStand' /\ Editor!RequestHolds'
        BY <2>1 DEF Editor!EditorHolds, Editor!SaysSaved, Editor!EditsStand, Editor!RequestHolds, Editor!Mutation,
            Editor!Closed, Editor!NoReq
    <2>4. y10' \in 0..y5'
        BY <1>3, <2>1
    <2> QED BY <1>2, <2>2, <2>3, <2>4 DEF Editor!IInv, Editor!TypeOK, EditorServer, EditorClient, EditorOpened, EditorAsked
<1> QED BY <1>6, <1>7, <1>8, <1>9

\* What is asked of the server: sent with what the editor holds, and no answer yet.
EditorAsksFor(kind, sent, expects, base) ==
    /\ y9' = [kind |-> kind, at |-> "sent", sent |-> sent, held |-> y8.inputs, expects |-> expects, base |-> base,
              res |-> Editor!None]
    /\ kind \in {"save", "version", "restore", "cost", "accept"}
    /\ sent \in 0..y5' /\ expects \in 0..y4' /\ base \in Int
    /\ (kind = "accept" /\ ~y8.open) \/ (kind # "accept" /\ y8.loaded)
    /\ kind \in {"save", "version"} => sent = y8.inputs
    /\ kind = "restore" => y10' = 0
    /\ kind = "cost" => ~y8.dirty /\ y10' = y10 /\ expects = y8.stamp /\ base = y6.inputs /\ ~Editor!Unverified /\ y6.id > 0

LEMMA EditorSends ==
    ASSUME NEW kind, NEW sent, NEW expects, NEW base, Editor!Send(kind, sent, expects, base)
    PROVE  y9' = [kind |-> kind, at |-> "sent", sent |-> sent, held |-> y8.inputs, expects |-> expects, base |-> base,
                  res |-> Editor!None]
    BY DEF Editor!Send, Editor!NoReq

LEMMA EditorAsks ==
    ASSUME Editor!IInv,
           Editor!save \/ Editor!saveVersion \/ Editor!restore \/ Editor!saveFieldCost \/ Editor!onOpenFull
    PROVE  Editor!IInv'
<1>1. /\ EditorServer /\ EditorClient /\ y1' = y1 /\ y2' = y2 /\ y3' = y3 /\ y4' = y4 /\ y6' = y6 /\ y7' = y7
      /\ y5' \in {y5, y5 + 1} /\ y8' = y8 /\ y10' \in {y10, 0}
    BY EditorParts DEF Editor!save, Editor!saveVersion, Editor!restore, Editor!saveFieldCost, Editor!onOpenFull, Editor!server
<1>2. EditorServer' /\ EditorGrew
    BY <1>1, EditorServerStays
<1>3. /\ y4 \in Nat /\ y5 \in Nat /\ y4' \in Nat /\ y5' \in Nat /\ y10 \in 0..y5 /\ y8 \in EditorOpened
      /\ Editor!EditorHolds /\ Editor!SaysSaved /\ Editor!EditsStand
    BY <1>1, <1>2, ValuationAssumption DEF EditorServer, EditorClient
<1>4. y8' \in EditorOpened' /\ y10' \in 0..y5' /\ 0..y5 \subseteq 0..y5'
    BY <1>1, <1>2, <1>3, EditorTypesGrow
<1>5. /\ y8.inputs \in 0..y5' /\ y8.stamp \in 0..y4' /\ y6.id \in Int /\ y6.inputs \in 0..y5
    BY <1>1, <1>3, <1>4 DEF EditorOpened, EditorServer, Editor!Version
<1>6. \E kind, sent, expects, base : EditorAsksFor(kind, sent, expects, base)
    <2>1. CASE Editor!save
        <3>1. EditorAsksFor("save", y8.inputs, y8.stamp, 0)
            BY <1>5, <2>1, EditorSends DEF Editor!save, EditorAsksFor
        <3> QED BY <3>1
    <2>2. CASE Editor!saveVersion
        <3>1. 0 \in 0..y4'
            BY <1>3
        <3>2. EditorAsksFor("version", y8.inputs, 0, 0)
            BY <1>5, <2>2, <3>1, EditorSends DEF Editor!saveVersion, EditorAsksFor
        <3> QED BY <3>2
    <2>3. CASE Editor!restore
        <3>1. PICK v \in y2 : Editor!Send("restore", v.inputs, 0, 0)
            BY <2>3 DEF Editor!restore
        <3>2. v.inputs \in 0..y5' /\ 0 \in 0..y4'
            <4>1. v \in Editor!Version
                BY <1>1, <3>1 DEF EditorServer
            <4>2. v.inputs \in 0..y5
                BY <4>1 DEF Editor!Version
            <4> QED BY <1>3, <1>4, <4>2
        <3>3. EditorAsksFor("restore", v.inputs, 0, 0)
            BY <2>3, <3>1, <3>2, EditorSends DEF Editor!restore, EditorAsksFor
        <3> QED BY <3>3
    <2>4. CASE Editor!saveFieldCost
        <3>1. y5 + 1 \in 0..y5' /\ y6.inputs \in Int
            BY <1>3, <1>5, <2>4 DEF Editor!saveFieldCost
        <3>2. EditorAsksFor("cost", y5 + 1, y8.stamp, y6.inputs)
            BY <1>5, <2>4, <3>1, EditorSends DEF Editor!saveFieldCost, EditorAsksFor
        <3> QED BY <3>2
    <2>5. CASE Editor!onOpenFull
        <3>1. y5 + 1 \in 0..y5' /\ 0 \in 0..y4'
            BY <1>3, <2>5 DEF Editor!onOpenFull
        <3>2. EditorAsksFor("accept", y5 + 1, 0, y6.id)
            BY <1>5, <2>5, <3>1, EditorSends DEF Editor!onOpenFull, EditorAsksFor
        <3> QED BY <3>2
    <2> QED BY <2>1, <2>2, <2>3, <2>4, <2>5
<1>7. PICK kind, sent, expects, base : EditorAsksFor(kind, sent, expects, base)
    BY <1>6
<1>8. y9' \in EditorAsked'
    <2>1. Editor!None \in Editor!Version'
        BY <1>1, <1>2, <1>3, EditorNone, EditorKnows
    <2> QED BY <1>5, <1>7, <2>1 DEF EditorAsksFor, EditorAsked, Editor!Mutation
<1>9. kind = "cost" => y10' = 0 /\ (expects # 0 => y8.inputs = base)
    <2> SUFFICES ASSUME kind = "cost"
                 PROVE  y10' = 0 /\ (expects # 0 => y8.inputs = base)
        OBVIOUS
    <2>1. ~y8.dirty /\ expects = y8.stamp /\ base = y6.inputs /\ ~Editor!Unverified /\ y6.id > 0 /\ y8.loaded /\ y10' = y10
        BY <1>7 DEF EditorAsksFor
    <2>2. y10' = 0
        BY <1>3, <2>1 DEF Editor!EditsStand
    <2>3. ASSUME y8.stamp # 0
          PROVE  y8.inputs = y6.inputs
        <3>1. y8.open /\ y8.id # 0 /\ y6.stamp = y8.stamp
            BY <1>3, <2>1, <2>3 DEF Editor!EditorHolds, Editor!Closed, Editor!Unverified
        <3>2. y8.inputs = y3[y8.stamp]
            BY <1>3, <2>1, <3>1 DEF Editor!SaysSaved
        <3>3. Editor!Known(y6)
            BY <1>1, <2>1 DEF EditorServer, Editor!VersionsKnown, Editor!None, Editor!Unread
        <3> QED BY <3>1, <3>2, <3>3 DEF Editor!Known
    <2> QED BY <2>1, <2>2, <2>3
<1>10. Editor!RequestHolds'
    <2>1. /\ y9'.kind = kind /\ y9'.at = "sent" /\ y9'.sent = sent /\ y9'.held = y8.inputs /\ y9'.expects = expects
          /\ y9'.base = base /\ kind # "none"
          /\ kind \in {"save", "version"} => sent = y8.inputs
          /\ kind = "restore" => y10' = 0
        BY <1>7 DEF EditorAsksFor
    <2> QED BY <1>9, <2>1 DEF Editor!RequestHolds
<1>11. Editor!EditorHolds'
    BY <1>1, <1>3, <1>7 DEF EditorAsksFor, Editor!EditorHolds, Editor!Closed, Editor!Mutation
<1>12. Editor!SaysSaved' /\ Editor!EditsStand'
    BY <1>1, <1>3 DEF Editor!SaysSaved, Editor!EditsStand
<1> QED BY <1>2, <1>4, <1>8, <1>10, <1>11, <1>12
        DEF Editor!IInv, Editor!TypeOK, EditorServer, EditorClient, EditorOpened, EditorAsked

\* The server writes what it is sent or refuses it; an answer may be lost.
LEMMA EditorServes ==
    ASSUME Editor!IInv, Editor!Serve \/ Editor!Lose
    PROVE  Editor!IInv'
<1>1. /\ EditorServer /\ EditorClient /\ y5' = y5 /\ y6' = y6 /\ y7' = y7 /\ y8' = y8 /\ y10' = y10
    BY EditorParts DEF Editor!Serve, Editor!Lose
<1>2. /\ y4 \in Nat /\ y5 \in Nat /\ y10 \in 0..y5 /\ y8 \in EditorOpened /\ y9 \in EditorAsked
      /\ Editor!EditorHolds /\ Editor!RequestHolds /\ Editor!SaysSaved /\ Editor!EditsStand
    BY <1>1, ValuationAssumption DEF EditorServer, EditorClient
<1>3. CASE y9' = Editor!NoReq /\ y1' = y1 /\ y2' = y2 /\ y3' = y3 /\ y4' = y4
    <2>1. EditorServer' /\ EditorGrew
        BY <1>1, <1>3, EditorServerStays
    <2>2. y9' \in EditorAsked' /\ y8' \in EditorOpened' /\ y10' \in 0..y5'
        <3>1. Editor!NoReq \in EditorAsked
            BY <1>2, EditorNone
        <3> QED BY <1>1, <1>2, <1>3, <2>1, <3>1, EditorTypesGrow
    <2>3. Editor!EditorHolds' /\ Editor!RequestHolds' /\ Editor!SaysSaved' /\ Editor!EditsStand'
        BY <1>1, <1>2, <1>3 DEF Editor!EditorHolds, Editor!RequestHolds, Editor!SaysSaved, Editor!EditsStand, Editor!NoReq,
            Editor!Closed, Editor!Mutation
    <2> QED BY <2>1, <2>2, <2>3 DEF Editor!IInv, Editor!TypeOK, EditorServer, EditorClient, EditorOpened, EditorAsked
<1>4. CASE Editor!Serve /\ Editor!Allowed
    <2>1. /\ y9 # Editor!NoReq /\ y9.at = "sent" /\ y9' = [y9 EXCEPT !.at = "done", !.res = y1']
          /\ Editor!Write(y9.sent, y9.kind # "save", CASE y9.kind = "accept" -> y9.sent
                                                      [] y9.kind = "save" -> y1.covers [] OTHER -> 0)
        BY <1>4 DEF Editor!Serve
    <2>2. PICK c \in 0..y5', f \in BOOLEAN : Editor!Write(y9.sent, f, c)
        <3>1. y1.covers \in 0..y5
            BY <1>1 DEF EditorServer, Editor!Version
        <3>2. y9.sent \in 0..y5' /\ y1.covers \in 0..y5' /\ 0 \in 0..y5'
            BY <1>1, <1>2, <3>1 DEF EditorAsked
        <3>3. (CASE y9.kind = "accept" -> y9.sent [] y9.kind = "save" -> y1.covers [] OTHER -> 0) \in 0..y5'
            BY <3>2
        <3>4. (y9.kind # "save") \in BOOLEAN
            OBVIOUS
        <3> QED BY <2>1, <3>3, <3>4
    <2>3. y9.sent \in 0..y5' /\ y5' \in {y5, y5 + 1}
        BY <1>1, <1>2 DEF EditorAsked
    <2>4. /\ EditorServer' /\ EditorGrew
          /\ y1' \in Editor!Version' /\ Editor!Known(y1)' /\ y1'.inputs = y9.sent
        BY <1>1, <2>2, <2>3, EditorWrites
    <2>5. y8' \in EditorOpened' /\ y9 \in EditorAsked' /\ y10' \in 0..y5'
        BY <1>1, <1>2, <2>4, EditorTypesGrow
    <2>6. /\ y9' \in EditorAsked' /\ y9'.kind = y9.kind /\ y9'.at = "done" /\ y9'.sent = y9.sent /\ y9'.held = y9.held
          /\ y9'.expects = y9.expects /\ y9'.base = y9.base /\ y9'.res = y1'
        BY <2>1, <2>4, <2>5 DEF EditorAsked
    <2>7. y9.kind = "cost" => y9.expects # 0
        BY <1>1, <1>4 DEF Editor!Allowed, EditorServer, Editor!VersionsKnown, Editor!Known, Editor!None
    <2>8. Editor!RequestHolds'
        <3>1. y9.kind # "none"
            BY <1>2, <2>1 DEF Editor!RequestHolds
        <3>2. y9'.res.id > 0 /\ y9'.res.stamp > 0 /\ y9'.res.inputs = y3'[y9'.res.stamp] /\ y9'.res.inputs = y9'.sent
            BY <2>4, <2>6 DEF Editor!Known
        <3> QED BY <1>1, <1>2, <2>6, <2>7, <3>1, <3>2 DEF Editor!RequestHolds, Editor!Known
    <2>9. Editor!EditorHolds' /\ Editor!EditsStand'
        BY <1>1, <1>2, <2>6 DEF Editor!EditorHolds, Editor!EditsStand, Editor!Closed
    <2>10. Editor!SaysSaved'
        BY <1>1, <2>4, EditorShows DEF Editor!SaysSaved
    <2> QED BY <2>4, <2>5, <2>6, <2>8, <2>9, <2>10
            DEF Editor!IInv, Editor!TypeOK, EditorServer, EditorClient, EditorOpened, EditorAsked
<1> QED BY <1>3, <1>4 DEF Editor!Serve, Editor!Lose, Editor!server

\* The answer tells the editor what it is holding; what was typed since is still to be saved.
LEMMA EditorIsTold ==
    ASSUME Editor!IInv, Editor!Answer
    PROVE  Editor!IInv'
<1>1. /\ EditorServer /\ EditorClient /\ y1' = y1 /\ y2' = y2 /\ y3' = y3 /\ y4' = y4 /\ y5' = y5 /\ y6' = y6
      /\ y7' = Editor!Unread /\ y9' = Editor!NoReq /\ y9.at = "done" /\ y8.open
      /\ y10' = IF y9.kind \in {"save", "version"} /\ y10 = y9.sent THEN 0 ELSE y10
    BY EditorParts DEF Editor!Answer, Editor!server, Editor!Invalidate
<1>2. EditorServer' /\ EditorGrew
    BY <1>1, EditorServerStays
<1>3. /\ y4 \in Nat /\ y5 \in Nat /\ y10 \in 0..y5 /\ y8 \in EditorOpened /\ y9 \in EditorAsked
      /\ Editor!EditorHolds /\ Editor!RequestHolds /\ Editor!SaysSaved /\ Editor!EditsStand
    BY <1>1, ValuationAssumption DEF EditorServer, EditorClient
<1>4. y9.kind \in Editor!Mutation /\ y8.loaded
    BY <1>1, <1>3 DEF Editor!EditorHolds, Editor!RequestHolds, EditorAsked, Editor!NoReq
<1>5. /\ y9.res.id \in Nat /\ y9.res.id > 0 /\ y9.res.stamp \in 0..y4 /\ y9.res.stamp > 0 /\ y9.sent \in 0..y5
      /\ y9.sent = y3[y9.res.stamp]
      /\ y9.kind = "cost" => y9.held = y9.base
      /\ y9.kind \in {"save", "version"} => y9.held = y9.sent
      /\ y9.kind \in {"restore", "cost"} /\ y10 # 0 => y10 # y9.held
    BY <1>1, <1>3 DEF Editor!RequestHolds, Editor!Known, EditorAsked, Editor!Version
<1>6. /\ y8' = [y8 EXCEPT !.id = y9.res.id, !.stamp = y9.res.stamp, !.inputs = y8'.inputs, !.dirty = y8'.dirty]
      /\ y8'.dirty = (y8.inputs # y9.held)
      /\ y8'.inputs = y8.inputs \/ (y8.inputs = y9.held /\ y8'.inputs = y9.sent)
      /\ ~y8'.dirty => y8'.inputs = y9.sent
    <2>1. CASE y9.kind \in {"save", "version"}
        <3>1. y8' = [[y8 EXCEPT !.id = y9.res.id, !.stamp = y9.res.stamp] EXCEPT !.dirty = (y8.inputs # y9.held)]
            BY <2>1 DEF Editor!Answer, Editor!Saved, Editor!Holds, Editor!EditedSince
        <3> QED BY <1>3, <1>5, <2>1, <3>1 DEF EditorOpened
    <2>2. CASE y9.kind \in {"restore", "cost"} /\ y8.inputs # y9.held
        <3>1. y8' = [[y8 EXCEPT !.id = y9.res.id, !.stamp = y9.res.stamp] EXCEPT !.dirty = TRUE]
            BY <2>2 DEF Editor!Answer, Editor!Restored, Editor!Costed, Editor!Holds, Editor!EditedSince
        <3> QED BY <1>3, <2>2, <3>1 DEF EditorOpened
    <2>3. CASE y9.kind \in {"restore", "cost"} /\ y8.inputs = y9.held
        <3>1. y8' = [[y8 EXCEPT !.id = y9.res.id, !.stamp = y9.res.stamp] EXCEPT !.inputs = y9.sent, !.dirty = FALSE]
            BY <1>5, <2>3 DEF Editor!Answer, Editor!Restored, Editor!Costed, Editor!Holds, Editor!EditedSince
        <3> QED BY <1>3, <2>3, <3>1 DEF EditorOpened
    <2> QED BY <1>4, <2>1, <2>2, <2>3 DEF Editor!Mutation
<1>7. /\ y8' \in EditorOpened /\ y8'.open /\ y8'.loaded /\ y8'.id # 0 /\ y8'.stamp = y9.res.stamp /\ y8'.stamp # 0
    <2>1. y8'.inputs \in 0..y5 /\ y8'.dirty \in BOOLEAN
        BY <1>3, <1>5, <1>6 DEF EditorOpened
    <2>2. y8' = [open |-> y8.open, loaded |-> y8.loaded, id |-> y9.res.id, stamp |-> y9.res.stamp, inputs |-> y8'.inputs,
                 dirty |-> y8'.dirty]
        BY <1>3, <1>6 DEF EditorOpened
    <2>3. y8.open \in BOOLEAN /\ y8.loaded \in BOOLEAN
        BY <1>3 DEF EditorOpened
    <2>4. y8' \in EditorOpened
        BY <1>5, <2>1, <2>2, <2>3 DEF EditorOpened
    <2>5. y8'.open = y8.open /\ y8'.loaded = y8.loaded /\ y8'.id = y9.res.id /\ y8'.stamp = y9.res.stamp
        BY <2>2
    <2> QED BY <1>1, <1>4, <1>5, <2>4, <2>5
<1>8. y8' \in EditorOpened' /\ y9' \in EditorAsked' /\ y10' \in 0..y5'
    <2>1. Editor!NoReq \in EditorAsked /\ 0 \in 0..y5
        BY <1>3, EditorNone
    <2> QED BY <1>1, <1>2, <1>3, <1>7, <2>1, EditorTypesGrow
<1>9. Editor!SaysSaved'
    BY <1>1, <1>5, <1>6, <1>7 DEF Editor!SaysSaved
<1>10. Editor!EditsStand'
    <2> SUFFICES ASSUME y10' # 0
                 PROVE  y8'.inputs = y10' /\ y8'.dirty
        BY DEF Editor!EditsStand
    <2>1. y10' = y10 /\ y8.inputs = y10 /\ ~(y9.kind \in {"save", "version"} /\ y10 = y9.sent)
        BY <1>1, <1>3 DEF Editor!EditsStand
    <2>2. y8.inputs # y9.held
        BY <1>4, <1>5, <2>1 DEF Editor!Mutation
    <2> QED BY <1>6, <2>1, <2>2
<1>11. Editor!EditorHolds' /\ Editor!RequestHolds'
    BY <1>1, <1>7 DEF Editor!EditorHolds, Editor!RequestHolds, Editor!NoReq, Editor!Mutation
<1> QED BY <1>2, <1>8, <1>9, <1>10, <1>11
        DEF Editor!IInv, Editor!TypeOK, EditorServer, EditorClient, EditorOpened, EditorAsked

LEMMA EditorAccepts ==
    ASSUME Editor!IInv, Editor!Accepted
    PROVE  Editor!IInv'
<1>1. /\ EditorServer /\ EditorClient /\ y1' = y1 /\ y2' = y2 /\ y3' = y3 /\ y4' = y4 /\ y5' = y5 /\ y6' = y6
      /\ y7' = Editor!Unread /\ y9' = Editor!NoReq /\ ~y8.open /\ y10' = y10
      /\ y8' = [Editor!Closed EXCEPT !.open = TRUE]
    BY EditorParts DEF Editor!Accepted, Editor!server, Editor!Invalidate
<1>2. EditorServer' /\ EditorGrew
    BY <1>1, EditorServerStays
<1>3. /\ y4 \in Nat /\ y5 \in Nat /\ y4' \in Nat /\ y5' \in Nat /\ y10 \in 0..y5 /\ Editor!EditorHolds
    BY <1>1, <1>2, ValuationAssumption DEF EditorServer, EditorClient
<1>4. y10 = 0
    BY <1>1, <1>3 DEF Editor!EditorHolds, Editor!Closed
<1>5. y8' = [open |-> TRUE, loaded |-> FALSE, id |-> 0, stamp |-> 0, inputs |-> 0, dirty |-> FALSE]
    BY <1>1 DEF Editor!Closed
<1>6. y8' \in EditorOpened'
    <2>1. 0 \in 0..y4' /\ 0 \in 0..y5'
        BY <1>3
    <2> QED BY <1>5, <2>1 DEF EditorOpened
<1>7. y9' \in EditorAsked' /\ y10' \in 0..y5'
    <2>1. Editor!NoReq \in EditorAsked
        BY <1>3, EditorNone
    <2> QED BY <1>1, <1>2, <1>3, <2>1, EditorTypesGrow
<1>8. Editor!EditorHolds' /\ Editor!RequestHolds' /\ Editor!SaysSaved' /\ Editor!EditsStand'
    BY <1>1, <1>4, <1>5 DEF Editor!EditorHolds, Editor!RequestHolds, Editor!SaysSaved, Editor!EditsStand, Editor!NoReq,
        Editor!Mutation
<1> QED BY <1>2, <1>6, <1>7, <1>8 DEF Editor!IInv, Editor!TypeOK, EditorServer, EditorClient, EditorOpened, EditorAsked

LEMMA EditorStep == Editor!IInv /\ [Editor!Next]_(Editor!vars) => Editor!IInv'
<1> SUFFICES ASSUME Editor!IInv, [Editor!Next]_(Editor!vars)
             PROVE  Editor!IInv'
    OBVIOUS
<1>1. CASE UNCHANGED Editor!vars
    <2>1. EditorServer /\ EditorClient /\ y8' = y8 /\ y9' = y9 /\ y10' = y10
        BY <1>1, EditorParts DEF Editor!vars
    <2>2. EditorServer' /\ EditorGrew
        BY <1>1, <2>1, EditorServerStays DEF Editor!vars
    <2>3. EditorClient'
        BY <2>1, <2>2, EditorClientStays
    <2> QED BY <2>2, <2>3 DEF Editor!IInv, Editor!TypeOK, EditorServer, EditorClient, EditorOpened, EditorAsked
<1>2. CASE Editor!Next
    BY <1>2, EditorOthers, EditorAtScreen, EditorAsks, EditorServes, EditorIsTold, EditorAccepts DEF Editor!Next
<1> QED BY <1>1, <1>2

LEMMA EditorInit == Editor!Init => Editor!IInv
<1> SUFFICES ASSUME Editor!Init
             PROVE  Editor!IInv
    OBVIOUS
<1>1. /\ y1 = Editor!None /\ y2 = {} /\ y3 = [s \in 1..MaxStamp |-> 0] /\ y4 = 0 /\ y5 = 0
      /\ y6 = Editor!Unread /\ y7 = Editor!Unread
      /\ y8 = Editor!Closed /\ y9 = Editor!NoReq /\ y10 = 0
    BY DEF Editor!Init
<1>2. y4 \in 0..MaxStamp /\ y5 \in Nat /\ 0 \in 0..y5
    BY <1>1, ValuationAssumption
<1>3. Editor!None \in Editor!Version /\ Editor!Unread \in Editor!Version /\ Editor!NoReq \in EditorAsked
      /\ Editor!Closed \in EditorOpened
    BY <1>1, EditorNone
<1>4. EditorServer
    BY <1>1, <1>2, <1>3 DEF EditorServer, Editor!VersionsKnown
<1>5. Editor!EditorHolds /\ Editor!RequestHolds /\ Editor!SaysSaved /\ Editor!EditsStand
    BY <1>1 DEF Editor!EditorHolds, Editor!RequestHolds, Editor!SaysSaved, Editor!EditsStand, Editor!NoReq,
        Editor!Closed, Editor!Mutation
<1> QED BY <1>1, <1>2, <1>3, <1>4, <1>5, EditorParts DEF EditorClient

\* The screen matches a review to what it is showing: the query is the very version the editor holds, unedited.
LEMMA EditorTrue == Editor!IInv => Editor!EditorSound
<1> SUFFICES ASSUME Editor!IInv, y8.loaded, y8.id # 0, Editor!MatchesReview
             PROVE  y8.inputs = y6.covers
    BY DEF Editor!IInv, Editor!EditorSound, Editor!ReviewIsOfThese
<1>1. y6.id > 0 /\ y6.covers = y6.inputs /\ y6.stamp = y8.stamp /\ ~y8.dirty
    BY DEF Editor!MatchesReview, Editor!Unverified
<1>2. y8.inputs = y3[y8.stamp]
    BY <1>1 DEF Editor!IInv, Editor!EditorHolds, Editor!SaysSaved, Editor!Closed
<1>3. y6.inputs = y3[y6.stamp]
    BY <1>1 DEF Editor!IInv, Editor!VersionsKnown, Editor!Known, Editor!None, Editor!Unread
<1> QED BY <1>1, <1>2, <1>3

-----------------------------------------------------------------------------
(***************************************************************************)
(* EvidenceGrid.  What one person does says nothing new of another's screen, *)
(* and writes no column but with a figure that person typed.                *)
(***************************************************************************)

\* The parts of the invariant that are of one person.
EvidenceOwn(p) ==
    /\ Evidence!TypedIn(p, y4[p])
    /\ \A i \in DOMAIN y5[p] : Evidence!TypedIn(p, y5[p][i].patch)
    /\ y6[p] # Evidence!Rest => Evidence!TypedIn(p, y6[p].edits)
EvidenceFlush(p) == y6[p].at = "flush" =>
    \/ y5[p] = <<>> /\ Evidence!IsApplied(p)
    \/ y5[p] = <<[patch |-> y6[p].edits, at |-> "sent"]>>
    \/ y5[p] = <<[patch |-> y6[p].edits, at |-> "written"]>> /\ Evidence!IsApplied(p)
EvidenceRead(p) == y6[p].at = "read" =>
    \A c \in Evidence!Touches(y6[p].edits) : y6[p].by[c] \in {p, "nobody"} => y6[p].read[c] = y6[p].edits[c]

LEMMA EvidenceParts ==
    Evidence!IInv <=>
        /\ Evidence!TypeOK /\ Evidence!OthersColumnsKept
        /\ \A p \in Valuer : EvidenceOwn(p) /\ EvidenceFlush(p) /\ EvidenceRead(p)
    BY DEF Evidence!IInv, Evidence!OwnColumns, Evidence!FlushHolds, Evidence!AppliesTheEdits, Evidence!NoOne,
           EvidenceOwn, EvidenceFlush, EvidenceRead

LEMMA EvidenceConcat ==
    ASSUME NEW S, NEW a \in Seq(S), NEW b \in Seq(S), NEW j \in 1..(Len(a) + Len(b)), ~(j <= Len(a))
    PROVE  (a \o b)[j] = b[j - Len(a)]
    OBVIOUS

\* A save that is answered or fails leaves the others as they were; the only one leaves none.
LEMMA EvidenceWithout ==
    ASSUME NEW S, NEW s \in Seq(S), NEW i \in DOMAIN s
    PROVE  /\ Evidence!Without(s, i) \in Seq(S)
           /\ \A j \in DOMAIN Evidence!Without(s, i) : \E k \in DOMAIN s : Evidence!Without(s, i)[j] = s[k]
           /\ Len(s) = 1 => Evidence!Without(s, i) = <<>>
<1> DEFINE a == SubSeq(s, 1, i - 1)
           b == SubSeq(s, i + 1, Len(s))
<1>1. i \in 1..Len(s) /\ Len(s) \in Nat
    OBVIOUS
<1>2. a \in Seq(S) /\ Len(a) = i - 1 /\ \A j \in 1..(i - 1) : a[j] = s[j]
    BY <1>1
<1>3. b \in Seq(S) /\ Len(b) = Len(s) - i /\ \A j \in 1..(Len(s) - i) : b[j] = s[i + j]
    BY <1>1
<1> HIDE DEF a, b
<1>4. a \o b \in Seq(S) /\ Len(a \o b) = Len(s) - 1 /\ DOMAIN (a \o b) = 1..(Len(s) - 1)
    BY <1>1, <1>2, <1>3
<1>5. \A j \in 1..(Len(s) - 1) : \E k \in DOMAIN s : (a \o b)[j] = s[k]
    <2> SUFFICES ASSUME NEW j \in 1..(Len(s) - 1)
                 PROVE  \E k \in DOMAIN s : (a \o b)[j] = s[k]
        OBVIOUS
    <2>1. CASE j <= i - 1
        <3>1. (a \o b)[j] = a[j]
            BY <1>1, <1>2, <1>3, <2>1
        <3> QED BY <1>1, <1>2, <2>1, <3>1
    <2>2. CASE j > i - 1
        <3>0. j \in 1..(Len(a) + Len(b)) /\ ~(j <= Len(a)) /\ Len(a) = i - 1
            BY <1>1, <1>2, <1>3, <2>2
        <3>a. (a \o b)[j] = b[j - Len(a)]
            BY <1>2, <1>3, <3>0, EvidenceConcat, Zenon
        <3>1. (a \o b)[j] = b[j - (i - 1)]
            BY <3>0, <3>a, Zenon
        <3>2. j - (i - 1) \in 1..(Len(s) - i) /\ j + 1 \in DOMAIN s
            BY <1>1, <2>2
        <3>3. b[j - (i - 1)] = s[i + (j - (i - 1))] /\ i + (j - (i - 1)) = j + 1
            BY <1>1, <1>3, <3>2
        <3> QED BY <3>1, <3>2, <3>3
    <2>3. j <= i - 1 \/ j > i - 1
        BY <1>1
    <2> QED BY <2>1, <2>2, <2>3
<1>6. Evidence!Without(s, i) = a \o b
    BY DEF Evidence!Without, a, b
<1>7. Len(s) = 1 => a \o b = <<>>
    BY <1>4
<1> QED BY <1>4, <1>5, <1>6, <1>7

\* A step of one person: the others' screens stay, and a column is left or is p's and typed by p.
EvidenceStepOf(p) ==
    /\ y1' = y1
    /\ \A q \in Valuer \ {p} : y4'[q] = y4[q] /\ y5'[q] = y5[q] /\ y6'[q] = y6[q] /\ y7'[q] = y7[q]
    /\ \A c \in Column : y7[p][c] # 0 => y7'[p][c] # 0
    /\ \A c \in Column : (y2'[c] = y2[c] /\ y3'[c] = y3[c]) \/ (y3'[c] = p /\ y7[p][c] # 0)

LEMMA EvidenceKeeps ==
    ASSUME Evidence!IInv, Evidence!TypeOK', NEW p \in Valuer, EvidenceStepOf(p),
           EvidenceOwn(p)', EvidenceFlush(p)', EvidenceRead(p)'
    PROVE  Evidence!IInv'
<1>1. Evidence!TypeOK /\ Evidence!OthersColumnsKept
      /\ \A q \in Valuer : EvidenceOwn(q) /\ EvidenceFlush(q) /\ EvidenceRead(q)
    BY EvidenceParts
<1>2. Evidence!OthersColumnsKept'
    <2> SUFFICES ASSUME NEW c \in Column, y3'[c] # "nobody"
                 PROVE  y7'[y3'[c]][c] # 0
        BY DEF Evidence!OthersColumnsKept, Evidence!NoOne, Evidence!NoFigure
    <2>1. CASE y3'[c] = y3[c]
        <3>1. y3[c] \in Valuer /\ y7[y3[c]][c] # 0
            BY <1>1, <2>1 DEF Evidence!OthersColumnsKept, Evidence!NoOne, Evidence!NoFigure, Evidence!TypeOK, Evidence!Writer
        <3> QED BY <2>1, <3>1 DEF EvidenceStepOf
    <2>2. CASE y3'[c] = p /\ y7[p][c] # 0
        BY <2>2 DEF EvidenceStepOf
    <2> QED BY <2>1, <2>2 DEF EvidenceStepOf
<1>3. ASSUME NEW q \in Valuer \ {p}
      PROVE  EvidenceOwn(q)' /\ EvidenceFlush(q)' /\ EvidenceRead(q)'
    <2>1. y4'[q] = y4[q] /\ y5'[q] = y5[q] /\ y6'[q] = y6[q] /\ y7'[q] = y7[q]
        BY DEF EvidenceStepOf
    <2>2. EvidenceOwn(q)'
        BY <1>1, <2>1 DEF EvidenceOwn, Evidence!TypedIn, Evidence!Touches
    <2>3. EvidenceRead(q)'
        BY <1>1, <2>1 DEF EvidenceRead, Evidence!Touches
    <2>4. Evidence!IsApplied(q) => Evidence!IsApplied(q)'
        <3>1. q # p /\ p # "nobody"
            BY ValuationAssumption
        <3>2. \A c \in Column : y3'[c] \in {q, "nobody"} => y2'[c] = y2[c] /\ y3'[c] = y3[c]
            BY <3>1 DEF EvidenceStepOf
        <3> QED BY <2>1, <3>2 DEF Evidence!IsApplied, Evidence!Touches, Evidence!NoOne
    <2>5. EvidenceFlush(q)'
        BY <1>1, <2>1, <2>4 DEF EvidenceFlush
    <2> QED BY <2>2, <2>3, <2>5
<1>4. \A q \in Valuer : EvidenceOwn(q)' /\ EvidenceFlush(q)' /\ EvidenceRead(q)'
    BY <1>3
<1> QED BY <1>2, <1>4 DEF Evidence!IInv, Evidence!OwnColumns, Evidence!FlushHolds, Evidence!AppliesTheEdits, Evidence!NoOne,
        EvidenceOwn, EvidenceFlush, EvidenceRead

\* What is asked of a save that is put last, or has been written.
LEMMA EvidenceOverlays ==
    /\ Evidence!Call = [patch : Evidence!Overlay, at : {"sent", "written"}]
    /\ \A o \in Evidence!Overlay : Evidence!Touches(o) = {c \in Column : o[c] # 0}
    BY DEF Evidence!Call, Evidence!Touches, Evidence!NoFigure

LEMMA EvidenceSaves ==
    ASSUME Evidence!TypeOK, NEW p \in Valuer, NEW o \in Evidence!Overlay, Evidence!Save(p, o)
    PROVE  /\ y5' \in [Valuer -> Seq(Evidence!Call)]
           /\ \A q \in Valuer \ {p} : y5'[q] = y5[q]
           /\ y5'[p] = Append(y5[p], [patch |-> o, at |-> "sent"])
<1> DEFINE k == [patch |-> o, at |-> "sent"]
<1>1. k \in Evidence!Call
    BY DEF Evidence!Call
<1>2. y5' = [y5 EXCEPT ![p] = Append(y5[p], k)]
    BY DEF Evidence!Save, Evidence!Patch
<1> HIDE DEF k
<1>3. y5 \in [Valuer -> Seq(Evidence!Call)] /\ Append(y5[p], k) \in Seq(Evidence!Call)
    BY <1>1 DEF Evidence!TypeOK
<1>4. /\ y5' \in [Valuer -> Seq(Evidence!Call)] /\ y5'[p] = Append(y5[p], k)
      /\ \A q \in Valuer \ {p} : y5'[q] = y5[q]
    BY <1>2, <1>3
<1> QED BY <1>4 DEF k

LEMMA EvidenceType ==
    ASSUME Evidence!IInv, NEW p \in Valuer, NEW c \in Column, NEW v \in Value, Evidence!Type(p, c, v)
    PROVE  Evidence!IInv'
<1>1. /\ Evidence!TypeOK /\ EvidenceOwn(p) /\ v # 0 /\ y6[p] = Evidence!Rest
      /\ y1' = y1 /\ y2' = y2 /\ y3' = y3 /\ y5' = y5 /\ y6' = y6 /\ y9' = y9 /\ y8' = y8 + 1
      /\ y4' = [y4 EXCEPT ![p] = [y4[p] EXCEPT ![c] = v]] /\ y7' = [y7 EXCEPT ![p] = [y7[p] EXCEPT ![c] = v]]
    BY EvidenceParts, ValuationAssumption DEF Evidence!Type
<1> DEFINE o == [y4[p] EXCEPT ![c] = v]
           t == [y7[p] EXCEPT ![c] = v]
<1>2. y4[p] \in Evidence!Overlay /\ y7[p] \in Evidence!Overlay
    BY <1>1 DEF Evidence!TypeOK
<1>3. o \in Evidence!Overlay /\ t \in Evidence!Overlay /\ o[c] = v /\ t[c] = v
      /\ \A d \in Column \ {c} : o[d] = y4[p][d] /\ t[d] = y7[p][d]
    BY <1>2 DEF Evidence!Overlay
<1>4. y4' = [y4 EXCEPT ![p] = o] /\ y7' = [y7 EXCEPT ![p] = t]
    BY <1>1
<1> HIDE DEF o, t
<1>5. y4' \in [Valuer -> Evidence!Overlay] /\ y7' \in [Valuer -> Evidence!Overlay] /\ y4'[p] = o /\ y7'[p] = t
      /\ \A q \in Valuer \ {p} : y4'[q] = y4[q] /\ y7'[q] = y7[q]
    <2>1. y4 \in [Valuer -> Evidence!Overlay] /\ y7 \in [Valuer -> Evidence!Overlay]
        BY <1>1 DEF Evidence!TypeOK
    <2>2. y4' \in [Valuer -> Evidence!Overlay] /\ y4'[p] = o /\ \A q \in Valuer \ {p} : y4'[q] = y4[q]
        BY <1>3, <1>4, <2>1
    <2>3. y7' \in [Valuer -> Evidence!Overlay] /\ y7'[p] = t /\ \A q \in Valuer \ {p} : y7'[q] = y7[q]
        BY <1>3, <1>4, <2>1
    <2> QED BY <2>2, <2>3
<1>6. Evidence!TypeOK'
    BY <1>1, <1>5 DEF Evidence!TypeOK
<1>7. \A d \in Column : y7[p][d] # 0 => y7'[p][d] # 0
    BY <1>1, <1>3, <1>5
<1>8. EvidenceStepOf(p)
    BY <1>1, <1>5, <1>7 DEF EvidenceStepOf
<1>9. EvidenceOwn(p)'
    <2>1. Evidence!TypedIn(p, y4[p]) /\ \A i \in DOMAIN y5[p] : Evidence!TypedIn(p, y5[p][i].patch)
        BY <1>1 DEF EvidenceOwn
    <2>2. Evidence!TypedIn(p, y4[p])'
        BY <1>1, <1>3, <1>5, <2>1 DEF Evidence!TypedIn, Evidence!Touches, Evidence!NoFigure
    <2>3. ASSUME NEW i \in DOMAIN y5[p]
          PROVE  Evidence!TypedIn(p, y5[p][i].patch)'
        BY <1>1, <1>7, <2>1 DEF Evidence!TypedIn, Evidence!Touches, Evidence!NoFigure
    <2> QED BY <1>1, <2>2, <2>3 DEF EvidenceOwn
<1>10. EvidenceFlush(p)' /\ EvidenceRead(p)'
    BY <1>1 DEF EvidenceFlush, EvidenceRead, Evidence!Rest
<1> QED BY <1>6, <1>8, <1>9, <1>10, EvidenceKeeps

\* Steps that only ask: a save is sent, or somebody applies the evidence.
LEMMA EvidencePersists ==
    ASSUME Evidence!IInv, NEW p \in Valuer, Evidence!persist(p)
    PROVE  Evidence!IInv'
<1>1. /\ Evidence!TypeOK /\ EvidenceOwn(p) /\ y6[p] = Evidence!Rest /\ y4[p] \in Evidence!Overlay /\ Evidence!Save(p, y4[p])
      /\ y1' = y1 /\ y2' = y2 /\ y3' = y3 /\ y4' = y4 /\ y6' = y6 /\ y7' = y7 /\ y8' = y8 /\ y9' = y9
    BY EvidenceParts DEF Evidence!persist, Evidence!TypeOK
<1>2. /\ y5' \in [Valuer -> Seq(Evidence!Call)]
      /\ \A q \in Valuer \ {p} : y5'[q] = y5[q]
      /\ y5'[p] = Append(y5[p], [patch |-> y4[p], at |-> "sent"])
    BY <1>1, EvidenceSaves
<1>3. Evidence!TypeOK'
    BY <1>1, <1>2 DEF Evidence!TypeOK
<1>4. EvidenceStepOf(p)
    BY <1>1, <1>2 DEF EvidenceStepOf
<1>5. EvidenceOwn(p)'
    <2>1. y5[p] \in Seq(Evidence!Call)
        BY <1>1 DEF Evidence!TypeOK
    <2>2. \A i \in DOMAIN y5'[p] : y5'[p][i].patch = y4[p] \/ (i \in DOMAIN y5[p] /\ y5'[p][i] = y5[p][i])
        BY <1>2, <2>1
    <2> QED BY <1>1, <2>2 DEF EvidenceOwn, Evidence!TypedIn, Evidence!Touches
<1>6. EvidenceFlush(p)' /\ EvidenceRead(p)'
    BY <1>1 DEF EvidenceFlush, EvidenceRead, Evidence!Rest
<1> QED BY <1>3, <1>4, <1>5, <1>6, EvidenceKeeps

LEMMA EvidenceApplies ==
    ASSUME Evidence!IInv, NEW p \in Valuer, Evidence!Click(p) \/ Evidence!applyToAppraisal(p) \/ Evidence!Applied(p)
    PROVE  Evidence!IInv'
<1>1. /\ Evidence!TypeOK /\ EvidenceOwn(p) /\ EvidenceFlush(p)
      /\ y1' = y1 /\ y2' = y2 /\ y3' = y3 /\ y4' = y4 /\ y5' = y5 /\ y7' = y7 /\ y8' = y8 /\ y9' = y9
    BY EvidenceParts DEF Evidence!Click, Evidence!applyToAppraisal, Evidence!Applied
<1>2. PICK a : y6' = [y6 EXCEPT ![p] = a] /\
               \/ a = [at |-> "wait", edits |-> y4[p]]
               \/ /\ y6[p].at = "flush" /\ y5[p] = <<>>
                  /\ a = [at |-> "read", edits |-> y6[p].edits, read |-> y2, by |-> y3]
               \/ a = Evidence!Rest
    BY DEF Evidence!Click, Evidence!applyToAppraisal, Evidence!Flushed, Evidence!Applied
<1>3. /\ y6 \in [Valuer -> {Evidence!Rest} \cup [at : {"wait", "flush"}, edits : Evidence!Overlay]
                     \cup [at : {"read"}, edits : Evidence!Overlay, read : [Column -> Value \cup {1}], by : Evidence!Writer]]
      /\ y4[p] \in Evidence!Overlay /\ y2 \in [Column -> Value \cup {1}] /\ y3 \in Evidence!Writer
    BY <1>1 DEF Evidence!TypeOK
<1>4. /\ a \in {Evidence!Rest} \cup [at : {"wait", "flush"}, edits : Evidence!Overlay]
                     \cup [at : {"read"}, edits : Evidence!Overlay, read : [Column -> Value \cup {1}], by : Evidence!Writer]
      /\ a # Evidence!Rest => Evidence!TypedIn(p, a.edits)
      /\ a.at # "flush"
    <2>1. CASE a = [at |-> "wait", edits |-> y4[p]]
        BY <1>1, <1>3, <2>1 DEF EvidenceOwn
    <2>2. CASE /\ y6[p].at = "flush" /\ y5[p] = <<>>
               /\ a = [at |-> "read", edits |-> y6[p].edits, read |-> y2, by |-> y3]
        <3>1. y6[p] # Evidence!Rest /\ y6[p].edits \in Evidence!Overlay
            BY <1>3, <2>2 DEF Evidence!Rest
        <3> QED BY <1>1, <1>3, <2>2, <3>1 DEF EvidenceOwn
    <2>3. CASE a = Evidence!Rest
        BY <2>3 DEF Evidence!Rest
    <2> QED BY <1>2, <2>1, <2>2, <2>3
<1>5. /\ y6' \in [Valuer -> {Evidence!Rest} \cup [at : {"wait", "flush"}, edits : Evidence!Overlay]
                     \cup [at : {"read"}, edits : Evidence!Overlay, read : [Column -> Value \cup {1}], by : Evidence!Writer]]
      /\ y6'[p] = a /\ \A q \in Valuer \ {p} : y6'[q] = y6[q]
    BY <1>2, <1>3, <1>4
<1>6. Evidence!TypeOK'
    BY <1>1, <1>5 DEF Evidence!TypeOK
<1>7. EvidenceStepOf(p)
    BY <1>1, <1>5 DEF EvidenceStepOf
<1>8. EvidenceOwn(p)'
    BY <1>1, <1>4, <1>5 DEF EvidenceOwn, Evidence!TypedIn, Evidence!Touches, Evidence!Rest
<1>9. EvidenceFlush(p)'
    BY <1>4, <1>5 DEF EvidenceFlush
<1>10. EvidenceRead(p)'
    <2> SUFFICES ASSUME y6'[p].at = "read"
                 PROVE  \A c \in Evidence!Touches(y6'[p].edits) :
                            y6'[p].by[c] \in {p, "nobody"} => y6'[p].read[c] = y6'[p].edits[c]
        BY DEF EvidenceRead, Evidence!Touches
    <2>1. y6[p].at = "flush" /\ y5[p] = <<>> /\ a.edits = y6[p].edits /\ a.read = y2 /\ a.by = y3
        BY <1>2, <1>5 DEF Evidence!Rest
    <2>2. Evidence!IsApplied(p)
        BY <1>1, <2>1 DEF EvidenceFlush
    <2> QED BY <1>5, <2>1, <2>2 DEF Evidence!IsApplied, Evidence!NoOne
<1> QED BY <1>6, <1>7, <1>8, <1>9, <1>10, EvidenceKeeps

LEMMA EvidenceFlushes ==
    ASSUME Evidence!IInv, NEW p \in Valuer, Evidence!Flush(p)
    PROVE  Evidence!IInv'
<1>1. /\ Evidence!TypeOK /\ EvidenceOwn(p) /\ y6[p].at = "wait" /\ y5[p] = <<>>
      /\ y1' = y1 /\ y2' = y2 /\ y3' = y3 /\ y4' = y4 /\ y7' = y7 /\ y8' = y8 /\ y9' = y9
      /\ y6' = [y6 EXCEPT ![p] = [y6[p] EXCEPT !.at = "flush"]]
      /\ (Evidence!Touches(y6[p].edits) = {} /\ y5' = y5) \/ Evidence!Save(p, y6[p].edits)
    BY EvidenceParts DEF Evidence!Flush
<1>2. /\ y6 \in [Valuer -> {Evidence!Rest} \cup [at : {"wait", "flush"}, edits : Evidence!Overlay]
                     \cup [at : {"read"}, edits : Evidence!Overlay, read : [Column -> Value \cup {1}], by : Evidence!Writer]]
      /\ y5 \in [Valuer -> Seq(Evidence!Call)]
    BY <1>1 DEF Evidence!TypeOK
<1> DEFINE a == [y6[p] EXCEPT !.at = "flush"]
<1>3. y6[p] \in [at : {"wait", "flush"}, edits : Evidence!Overlay] /\ y6[p] # Evidence!Rest
    BY <1>1, <1>2 DEF Evidence!Rest
<1>4. a \in [at : {"wait", "flush"}, edits : Evidence!Overlay] /\ a.at = "flush" /\ a.edits = y6[p].edits
      /\ y6[p].edits \in Evidence!Overlay
    BY <1>3
<1>5. y6' = [y6 EXCEPT ![p] = a]
    BY <1>1
<1> HIDE DEF a
<1>6. /\ y6' \in [Valuer -> {Evidence!Rest} \cup [at : {"wait", "flush"}, edits : Evidence!Overlay]
                     \cup [at : {"read"}, edits : Evidence!Overlay, read : [Column -> Value \cup {1}], by : Evidence!Writer]]
      /\ y6'[p] = a /\ \A q \in Valuer \ {p} : y6'[q] = y6[q]
    BY <1>2, <1>4, <1>5
<1>7. /\ y5' \in [Valuer -> Seq(Evidence!Call)] /\ \A q \in Valuer \ {p} : y5'[q] = y5[q]
      /\ \/ Evidence!Touches(y6[p].edits) = {} /\ y5'[p] = <<>>
         \/ y5'[p] = Append(<<>>, [patch |-> a.edits, at |-> "sent"])
    BY <1>1, <1>2, <1>4, EvidenceSaves
<1>8. y5'[p] = <<[patch |-> a.edits, at |-> "sent"]>> \/ (Evidence!Touches(a.edits) = {} /\ y5'[p] = <<>>)
    BY <1>4, <1>7
<1>9. Evidence!TypeOK'
    BY <1>1, <1>6, <1>7 DEF Evidence!TypeOK
<1>10. EvidenceStepOf(p)
    BY <1>1, <1>6, <1>7 DEF EvidenceStepOf
<1>11. EvidenceOwn(p)'
    <2>1. Evidence!TypedIn(p, a.edits) /\ Evidence!TypedIn(p, y4[p])
        BY <1>1, <1>3, <1>4 DEF EvidenceOwn
    <2>2. \A i \in DOMAIN y5'[p] : y5'[p][i].patch = a.edits
        BY <1>8
    <2> QED BY <1>1, <1>6, <2>1, <2>2 DEF EvidenceOwn, Evidence!TypedIn, Evidence!Touches
<1>12. EvidenceFlush(p)' /\ EvidenceRead(p)'
    BY <1>4, <1>6, <1>8 DEF EvidenceFlush, EvidenceRead, Evidence!IsApplied, Evidence!Touches
<1> QED BY <1>9, <1>10, <1>11, <1>12, EvidenceKeeps

\* The save that evidence waits for is the only one of its person.
LEMMA EvidenceLone ==
    ASSUME Evidence!IInv, NEW p \in Valuer, y6[p].at = "flush", NEW i \in DOMAIN y5[p]
    PROVE  /\ i = 1 /\ Len(y5[p]) = 1 /\ y5[p][i].patch = y6[p].edits
           /\ y5[p][i].at = "written" => Evidence!IsApplied(p)
<1>1. EvidenceFlush(p)
    BY EvidenceParts
<1>2. y5[p] # <<>>
    OBVIOUS
<1>3. \/ y5[p] = <<[patch |-> y6[p].edits, at |-> "sent"]>>
      \/ y5[p] = <<[patch |-> y6[p].edits, at |-> "written"]>> /\ Evidence!IsApplied(p)
    BY <1>1, <1>2 DEF EvidenceFlush
<1> QED BY <1>3

LEMMA EvidenceUpserts ==
    ASSUME Evidence!IInv, NEW p \in Valuer, NEW i \in 1..2, Evidence!upsert(p, i)
    PROVE  Evidence!IInv'
<1> DEFINE k == y5[p][i].patch
           w == [y5[p][i] EXCEPT !.at = "written"]
           s == [y5[p] EXCEPT ![i] = w]
<1>1. /\ Evidence!TypeOK /\ EvidenceOwn(p) /\ EvidenceRead(p) /\ i \in DOMAIN y5[p] /\ y5[p][i].at = "sent"
      /\ y1' = y1 /\ y4' = y4 /\ y6' = y6 /\ y7' = y7 /\ y8' = y8 /\ y9' = y9
      /\ y2' = Evidence!Patched(y2, k)
      /\ y3' = [c \in Column |-> IF c \in Evidence!Touches(k) THEN p ELSE y3[c]]
      /\ y5' = [y5 EXCEPT ![p] = s]
    BY EvidenceParts DEF Evidence!upsert, Evidence!Serves
<1>2. /\ y5 \in [Valuer -> Seq(Evidence!Call)] /\ y2 \in [Column -> Value \cup {1}] /\ y3 \in Evidence!Writer
      /\ y4 \in [Valuer -> Evidence!Overlay] /\ y7 \in [Valuer -> Evidence!Overlay]
    BY <1>1 DEF Evidence!TypeOK
<1>3. y5[p] \in Seq(Evidence!Call) /\ y5[p][i] \in Evidence!Call
    BY <1>1, <1>2
<1>4. k \in Evidence!Overlay /\ w \in Evidence!Call /\ w.patch = k /\ w.at = "written"
    BY <1>3 DEF Evidence!Call
<1>5. k \in [Column -> Value \cup {0}] /\ Evidence!Touches(k) = {c \in Column : k[c] # 0}
    BY <1>4 DEF Evidence!Overlay, Evidence!Touches, Evidence!NoFigure
<1> HIDE DEF w
<1>6. s \in Seq(Evidence!Call) /\ Len(s) = Len(y5[p]) /\ s[i] = w /\ \A j \in DOMAIN s : j \in DOMAIN y5[p] /\ (j # i => s[j] = y5[p][j])
    BY <1>1, <1>3, <1>4
<1> HIDE DEF s
<1>7. y5' \in [Valuer -> Seq(Evidence!Call)] /\ y5'[p] = s /\ \A q \in Valuer \ {p} : y5'[q] = y5[q]
    BY <1>1, <1>2, <1>6
<1>8. EvidenceOwn(p) /\ Evidence!TypedIn(p, k)
    BY <1>1 DEF EvidenceOwn
<1> HIDE DEF k
<1>9. /\ y2' = [c \in Column |-> IF k[c] = 0 THEN y2[c] ELSE k[c]]
      /\ y3' = [c \in Column |-> IF k[c] # 0 THEN p ELSE y3[c]]
    BY <1>1, <1>5 DEF Evidence!Patched, Evidence!NoFigure
<1>10. y2' \in [Column -> Value \cup {1}]
    BY <1>2, <1>5, <1>9
<1>11. y3' \in Evidence!Writer
    BY <1>2, <1>9 DEF Evidence!Writer
<1>12. Evidence!TypeOK'
    BY <1>1, <1>7, <1>10, <1>11 DEF Evidence!TypeOK
<1>13. \A c \in Column : k[c] # 0 => y7[p][c] # 0
    BY <1>5, <1>8 DEF Evidence!TypedIn, Evidence!Touches, Evidence!NoFigure
<1>14. EvidenceStepOf(p)
    <2>1. \A c \in Column : (y2'[c] = y2[c] /\ y3'[c] = y3[c]) \/ (y3'[c] = p /\ y7[p][c] # 0)
        BY <1>9, <1>13
    <2> QED BY <1>1, <1>7, <2>1 DEF EvidenceStepOf
<1>15. EvidenceOwn(p)'
    <2>1. \A j \in DOMAIN y5'[p] : j \in DOMAIN y5[p] /\ y5'[p][j].patch = y5[p][j].patch
        BY <1>4, <1>6, <1>7 DEF k
    <2> QED BY <1>1, <1>8, <2>1 DEF EvidenceOwn, Evidence!TypedIn, Evidence!Touches
<1>16. EvidenceRead(p)'
    BY <1>1 DEF EvidenceRead, Evidence!Touches
<1>17. EvidenceFlush(p)'
    <2> SUFFICES ASSUME y6[p].at = "flush"
                 PROVE  y5'[p] = <<[patch |-> y6[p].edits, at |-> "written"]>> /\ Evidence!IsApplied(p)'
        BY <1>1 DEF EvidenceFlush
    <2>1. i = 1 /\ Len(y5[p]) = 1 /\ k = y6[p].edits
        BY <1>1, EvidenceLone DEF k
    <2>2. w = [patch |-> k, at |-> "written"]
        BY <1>4 DEF Evidence!Call
    <2>3. s = <<w>>
        BY <1>6, <2>1
    <2>4. Evidence!IsApplied(p)'
        BY <1>1, <1>5, <1>9, <2>1 DEF Evidence!IsApplied, Evidence!Touches, Evidence!NoFigure
    <2> QED BY <1>7, <2>1, <2>2, <2>3, <2>4
<1> QED BY <1>12, <1>14, <1>15, <1>16, <1>17, EvidenceKeeps

\* A save leaves the queue: answered, when what it sent leaves the overlay of the comparables, or failed.
LEMMA EvidenceLeaves ==
    ASSUME Evidence!IInv, NEW p \in Valuer, NEW i \in 1..2, Evidence!Answer(p, i) \/ Evidence!FailSave(p, i)
    PROVE  Evidence!IInv'
<1> DEFINE s == Evidence!Without(y5[p], i)
<1>1. /\ Evidence!TypeOK /\ EvidenceOwn(p) /\ EvidenceRead(p) /\ i \in DOMAIN y5[p]
      /\ y1' = y1 /\ y2' = y2 /\ y3' = y3 /\ y7' = y7 /\ y8' = y8
      /\ y5' = [y5 EXCEPT ![p] = s]
    BY EvidenceParts DEF Evidence!Answer, Evidence!FailSave, Evidence!Serves
<1>2. /\ y5 \in [Valuer -> Seq(Evidence!Call)] /\ y4 \in [Valuer -> Evidence!Overlay]
      /\ y6 \in [Valuer -> {Evidence!Rest} \cup [at : {"wait", "flush"}, edits : Evidence!Overlay]
                     \cup [at : {"read"}, edits : Evidence!Overlay, read : [Column -> Value \cup {1}], by : Evidence!Writer]]
    BY <1>1 DEF Evidence!TypeOK
<1>3. /\ s \in Seq(Evidence!Call) /\ \A j \in DOMAIN s : \E m \in DOMAIN y5[p] : s[j] = y5[p][m]
      /\ Len(y5[p]) = 1 => s = <<>>
    BY <1>1, <1>2, EvidenceWithout
<1> HIDE DEF s
<1>4. y5' \in [Valuer -> Seq(Evidence!Call)] /\ y5'[p] = s /\ \A q \in Valuer \ {p} : y5'[q] = y5[q]
    BY <1>1, <1>2, <1>3
<1>5. /\ y9' \in Nat /\ y4' \in [Valuer -> Evidence!Overlay] /\ \A q \in Valuer \ {p} : y4'[q] = y4[q]
      /\ \A c \in Column : y4'[p][c] # 0 => y4[p][c] # 0
    <2>1. CASE Evidence!Answer(p, i)
        <3> DEFINE o == Evidence!Remaining(y4[p], y5[p][i].patch)
        <3>1. y4' = [y4 EXCEPT ![p] = o] /\ y9' = y9
            BY <2>1 DEF Evidence!Answer
        <3>2. o \in Evidence!Overlay /\ \A c \in Column : o[c] # 0 => y4[p][c] # 0
            BY <1>2 DEF Evidence!Remaining, Evidence!Overlay, Evidence!NoFigure
        <3> HIDE DEF o
        <3>3. y4' \in [Valuer -> Evidence!Overlay] /\ y4'[p] = o /\ \A q \in Valuer \ {p} : y4'[q] = y4[q]
            BY <1>2, <3>1, <3>2
        <3> QED BY <1>1, <3>1, <3>2, <3>3 DEF Evidence!TypeOK
    <2>2. CASE Evidence!FailSave(p, i)
        BY <1>1, <1>2, <2>2 DEF Evidence!FailSave, Evidence!TypeOK
    <2> QED BY <2>1, <2>2
<1>6. /\ y6'[p] = y6[p] \/ y6'[p] = Evidence!Rest
      /\ \A q \in Valuer \ {p} : y6'[q] = y6[q]
      /\ y6' \in [Valuer -> {Evidence!Rest} \cup [at : {"wait", "flush"}, edits : Evidence!Overlay]
                     \cup [at : {"read"}, edits : Evidence!Overlay, read : [Column -> Value \cup {1}], by : Evidence!Writer]]
      /\ y6'[p].at = "flush" => Evidence!Answer(p, i) /\ y6' = y6
    <2>1. CASE Evidence!Answer(p, i)
        <3>1. y6' = y6
            BY <2>1 DEF Evidence!Answer
        <3> QED BY <1>2, <2>1, <3>1
    <2>2. CASE Evidence!FailSave(p, i)
        <3>1. PICK a : y6' = [y6 EXCEPT ![p] = a] /\ (a = Evidence!Rest \/ (a = y6[p] /\ a.at # "flush"))
            BY <2>2 DEF Evidence!FailSave
        <3>2. Evidence!Rest.at # "flush"
            BY DEF Evidence!Rest
        <3>3. a \in {Evidence!Rest} \cup [at : {"wait", "flush"}, edits : Evidence!Overlay]
                     \cup [at : {"read"}, edits : Evidence!Overlay, read : [Column -> Value \cup {1}], by : Evidence!Writer]
            BY <1>2, <3>1
        <3>4. y6'[p] = a /\ \A q \in Valuer \ {p} : y6'[q] = y6[q]
            BY <1>2, <3>1
        <3> QED BY <1>2, <3>1, <3>2, <3>3, <3>4
    <2> QED BY <2>1, <2>2
<1>7. Evidence!TypeOK'
    BY <1>1, <1>4, <1>5, <1>6 DEF Evidence!TypeOK
<1>8. EvidenceStepOf(p)
    BY <1>1, <1>4, <1>5, <1>6 DEF EvidenceStepOf
<1>9. EvidenceOwn(p)'
    <2>1. Evidence!TypedIn(p, y4[p])'
        BY <1>1, <1>5 DEF EvidenceOwn, Evidence!TypedIn, Evidence!Touches, Evidence!NoFigure
    <2>2. ASSUME NEW j \in DOMAIN y5'[p]
          PROVE  Evidence!TypedIn(p, y5[p][j].patch)'
        <3>1. PICK m \in DOMAIN y5[p] : y5'[p][j] = y5[p][m]
            BY <1>3, <1>4
        <3>2. Evidence!TypedIn(p, y5[p][m].patch)
            BY <1>1 DEF EvidenceOwn
        <3> QED BY <1>1, <3>1, <3>2 DEF Evidence!TypedIn, Evidence!Touches
    <2>3. y6'[p] # Evidence!Rest => Evidence!TypedIn(p, y6[p].edits)'
        BY <1>1, <1>6 DEF EvidenceOwn, Evidence!TypedIn, Evidence!Touches
    <2> QED BY <2>1, <2>2, <2>3 DEF EvidenceOwn, Evidence!Rest
<1>10. EvidenceRead(p)'
    BY <1>1, <1>6 DEF EvidenceRead, Evidence!Touches, Evidence!Rest
<1>11. EvidenceFlush(p)'
    <2> SUFFICES ASSUME y6'[p].at = "flush"
                 PROVE  y5'[p] = <<>> /\ Evidence!IsApplied(p)'
        BY DEF EvidenceFlush
    <2>1. Evidence!Answer(p, i) /\ y6' = y6 /\ y5[p][i].at = "written"
        BY <1>6 DEF Evidence!Answer
    <2>2. Len(y5[p]) = 1 /\ Evidence!IsApplied(p)
        BY <1>1, <2>1, EvidenceLone
    <2> QED BY <1>1, <1>3, <1>4, <2>1, <2>2 DEF Evidence!IsApplied, Evidence!Touches
<1> QED BY <1>7, <1>8, <1>9, <1>10, <1>11, EvidenceKeeps

LEMMA EvidenceStep == Evidence!IInv /\ [Evidence!Next]_(Evidence!vars) => Evidence!IInv'
<1> SUFFICES ASSUME Evidence!IInv, [Evidence!Next]_(Evidence!vars)
             PROVE  Evidence!IInv'
    OBVIOUS
<1>1. CASE UNCHANGED Evidence!vars
    BY <1>1 DEF Evidence!vars, Evidence!IInv, Evidence!TypeOK, Evidence!OthersColumnsKept, Evidence!AppliesTheEdits,
        Evidence!OwnColumns, Evidence!FlushHolds, Evidence!IsApplied, Evidence!TypedIn, Evidence!Touches
<1>2. CASE Evidence!Next
    <2>1. PICK p \in Valuer :
              \/ \E c \in Column, v \in Value : Evidence!Type(p, c, v)
              \/ Evidence!persist(p) \/ Evidence!Click(p) \/ Evidence!Flush(p) \/ Evidence!applyToAppraisal(p)
              \/ Evidence!Applied(p)
              \/ \E i \in 1..2 : Evidence!upsert(p, i) \/ Evidence!Answer(p, i) \/ Evidence!FailSave(p, i)
        BY <1>2 DEF Evidence!Next
    <2> QED BY <2>1, EvidenceType, EvidencePersists, EvidenceApplies, EvidenceFlushes, EvidenceUpserts, EvidenceLeaves
<1> QED BY <1>1, <1>2

LEMMA EvidenceInit == Evidence!Init => Evidence!IInv
<1> SUFFICES ASSUME Evidence!Init
             PROVE  Evidence!IInv
    OBVIOUS
<1>1. Evidence!NoEdits \in Evidence!Overlay /\ Evidence!Touches(Evidence!NoEdits) = {} /\ <<>> \in Seq(Evidence!Call)
    BY DEF Evidence!NoEdits, Evidence!Overlay, Evidence!Touches, Evidence!NoFigure
<1>2. Evidence!TypeOK
    BY <1>1 DEF Evidence!Init, Evidence!TypeOK, Evidence!Writer, Evidence!NoOne
<1>3. Evidence!OthersColumnsKept
    BY DEF Evidence!Init, Evidence!OthersColumnsKept, Evidence!NoOne
<1>4. \A p \in Valuer : EvidenceOwn(p) /\ EvidenceFlush(p) /\ EvidenceRead(p)
    BY <1>1 DEF Evidence!Init, Evidence!Rest, EvidenceOwn, EvidenceFlush, EvidenceRead, Evidence!TypedIn
<1> QED BY <1>2, <1>3, <1>4, EvidenceParts

-----------------------------------------------------------------------------
(***************************************************************************)
(* Sums.  What a recursive function computes cannot be proved with the      *)
(* induction theorems of the library, which take a predicate; but numbers   *)
(* are well-founded, so that what fails of some fails of a least one.       *)
(***************************************************************************)
LEMMA LeastOf ==
    ASSUME NEW T, T \subseteq Nat, T # {}
    PROVE  \E x \in T : \A y \in T : x <= y
<1>1. PICK x \in T : \A y \in T : ~(<<y, x>> \in OpToRel(<, Nat))
    BY NatLessThanWellFounded, WFMin
<1>2. \A y \in T : ~(y < x)
    BY <1>1 DEF OpToRel
<1> QED BY <1>2

\* What grows by no more, step by step, ends no higher.
LEMMA Compare ==
    ASSUME NEW M \in Nat, NEW f, NEW h, \A n \in 0..M : f[n] \in Int /\ h[n] \in Int, f[0] <= h[0],
           \A n \in 1..M : f[n] - f[n - 1] <= h[n] - h[n - 1]
    PROVE  \A n \in 0..M : f[n] <= h[n]
<1> DEFINE B == {n \in 0..M : ~(f[n] <= h[n])}
<1>1. ASSUME B # {} PROVE FALSE
    <2>1. B \subseteq Nat
        OBVIOUS
    <2>2. PICK m \in B : \A y \in B : m <= y
        <3> HIDE DEF B
        <3> QED BY <1>1, <2>1, LeastOf
    <2>3. m \in 1..M /\ m - 1 \in 0..M /\ m - 1 \notin B
        BY <2>2
    <2> QED BY <2>3
<1> QED BY <1>1

LEMMA Agree ==
    ASSUME NEW M \in Nat, NEW f, NEW h, \A n \in 0..M : f[n] \in Int /\ h[n] \in Int, f[0] = h[0],
           \A n \in 1..M : f[n] - f[n - 1] = h[n] - h[n - 1]
    PROVE  \A n \in 0..M : f[n] = h[n]
<1>1. f[0] <= h[0] /\ h[0] <= f[0]
    OBVIOUS
<1>2. \A n \in 1..M : f[n] - f[n - 1] <= h[n] - h[n - 1] /\ h[n] - h[n - 1] <= f[n] - f[n - 1]
    <2> SUFFICES ASSUME NEW n \in 1..M
                 PROVE  f[n] - f[n - 1] <= h[n] - h[n - 1] /\ h[n] - h[n - 1] <= f[n] - f[n - 1]
        OBVIOUS
    <2>1. n \in 0..M /\ n - 1 \in 0..M
        OBVIOUS
    <2> QED BY <2>1
<1>3. \A n \in 0..M : f[n] <= h[n]
    BY <1>1, <1>2, Compare
<1>4. \A n \in 0..M : h[n] <= f[n]
    BY <1>1, <1>2, Compare
<1> QED BY <1>3, <1>4

\* s adds up g: what the recursive functions of the modules are, if there is one.
IsSum(s, g, M) == s = [i \in 0..M |-> IF i = 0 THEN 0 ELSE s[i - 1] + g[i]]
Summed(g, n) == LET sum[i \in 0..n] == IF i = 0 THEN 0 ELSE sum[i - 1] + g[i] IN sum[n]

LEMMA SumExists ==
    ASSUME NEW M \in Nat, NEW g, \A n \in 1..M : g[n] \in Int
    PROVE  \E s \in [0..M -> Int] : IsSum(s, g, M)
<1> DEFINE B == {k \in 0..M : ~ \E s \in [0..k -> Int] : IsSum(s, g, k)}
<1>1. ASSUME B # {} PROVE FALSE
    <2>1. PICK m \in B : \A y \in B : m <= y
        <3>1. B \subseteq Nat
            OBVIOUS
        <3> HIDE DEF B
        <3> QED BY <1>1, <3>1, LeastOf
    <2>2. m # 0
        <3> DEFINE z == [n \in 0..0 |-> 0]
        <3>1. z \in [0..0 -> Int] /\ IsSum(z, g, 0)
            BY DEF IsSum
        <3> QED BY <3>1
    <2>3. m - 1 \in 0..M /\ m - 1 \notin B
        BY <2>1, <2>2
    <2>4. PICK s \in [0..m - 1 -> Int] : IsSum(s, g, m - 1)
        BY <2>3
    <2> DEFINE t == [n \in 0..m |-> IF n = m THEN s[m - 1] + g[m] ELSE s[n]]
    <2>5. t \in [0..m -> Int]
        BY <2>2, <2>4
    <2>6. IsSum(t, g, m)
        <3>1. ASSUME NEW n \in 0..m PROVE t[n] = IF n = 0 THEN 0 ELSE t[n - 1] + g[n]
            <4>1. CASE n = m
                BY <4>1, <2>2
            <4>2. CASE n # m
                BY <4>2, <2>2, <2>4 DEF IsSum
            <4> QED BY <4>1, <4>2
        <3> QED BY <3>1, Zenon DEF IsSum
    <2> QED BY <2>5, <2>6, <2>1
<1> QED BY <1>1

AddsUp(s, g, M) ==
    /\ s[0] = 0 /\ \A n \in 0..M : s[n] \in Int
    /\ \A n \in 1..M : s[n - 1] \in Int /\ s[n] = s[n - 1] + g[n]

\* So the sum is the last of a column that starts at nothing and goes up by each number.
LEMMA SumIs ==
    ASSUME NEW M \in Nat, NEW g, \A n \in 1..M : g[n] \in Int
    PROVE  \E s : AddsUp(s, g, M) /\ Summed(g, M) = s[M]
<1> DEFINE c == CHOOSE s : IsSum(s, g, M)
<1>1. PICK s \in [0..M -> Int] : IsSum(s, g, M)
    BY SumExists
<1>2. IsSum(c, g, M)
    BY <1>1, Zenon
<1>3. Summed(g, M) = c[M]
    BY Zenon DEF Summed, IsSum
<1> HIDE DEF c
<1>4. c[0] = 0 /\ (\A n \in 1..M : c[n] = c[n - 1] + g[n])
    BY <1>2 DEF IsSum
<1>5. c \in [0..M -> Int]
    <2> DEFINE B == {n \in 0..M : c[n] # s[n]}
    <2>1. ASSUME B # {} PROVE FALSE
        <3>1. B \subseteq Nat
            OBVIOUS
        <3>2. PICK m \in B : \A y \in B : m <= y
            <4> HIDE DEF B
            <4> QED BY <3>1, <2>1, LeastOf
        <3>3. m # 0
            BY <1>4, <1>1 DEF IsSum
        <3>4. m - 1 \in 0..M /\ m - 1 \notin B
            BY <3>2, <3>3
        <3> QED BY <3>3, <3>4, <1>4, <1>1 DEF IsSum
    <2>2. \A n \in 0..M : c[n] = s[n]
        BY <2>1
    <2> QED BY <2>2, <1>2 DEF IsSum
<1>6. \A n \in 1..M : n - 1 \in 0..M
    OBVIOUS
<1>7. AddsUp(c, g, M)
    BY <1>4, <1>5, <1>6 DEF AddsUp
<1> QED BY <1>3, <1>7

LEMMA SumMonotone ==
    ASSUME NEW M \in Nat, NEW g, NEW k, \A n \in 1..M : g[n] \in Int /\ k[n] \in Int /\ g[n] <= k[n]
    PROVE  Summed(g, M) \in Int /\ Summed(k, M) \in Int /\ Summed(g, M) <= Summed(k, M)
<1>1. PICK s : AddsUp(s, g, M) /\ Summed(g, M) = s[M]
    BY SumIs
<1>2. PICK t : AddsUp(t, k, M) /\ Summed(k, M) = t[M]
    BY SumIs
<1>3. \A n \in 1..M : s[n] - s[n - 1] <= t[n] - t[n - 1]
    BY <1>1, <1>2 DEF AddsUp
<1>4. \A n \in 0..M : s[n] \in Int /\ t[n] \in Int
    BY <1>1, <1>2 DEF AddsUp
<1>5. s[0] <= t[0]
    BY <1>1, <1>2 DEF AddsUp
<1>6. \A n \in 0..M : s[n] <= t[n]
    BY <1>3, <1>4, <1>5, Compare
<1> QED BY <1>1, <1>2, <1>4, <1>6

LEMMA SumNat ==
    ASSUME NEW M \in Nat, NEW g, \A n \in 1..M : g[n] \in Nat
    PROVE  Summed(g, M) \in Nat
<1>1. PICK s : AddsUp(s, g, M) /\ Summed(g, M) = s[M]
    BY SumIs
<1> DEFINE z == [n \in 0..M |-> 0]
<1>2. \A n \in 1..M : z[n] - z[n - 1] <= s[n] - s[n - 1]
    <2>1. \A n \in 1..M : z[n] = 0 /\ z[n - 1] = 0
        OBVIOUS
    <2> HIDE DEF z
    <2> QED BY <1>1, <2>1 DEF AddsUp
<1>3. \A n \in 0..M : z[n] \in Int /\ s[n] \in Int
    BY <1>1 DEF AddsUp
<1>4. z[0] <= s[0] /\ z[M] = 0
    BY <1>1 DEF AddsUp
<1> HIDE DEF z
<1>5. \A n \in 0..M : z[n] <= s[n]
    BY <1>2, <1>3, <1>4, Compare
<1> QED BY <1>1, <1>3, <1>4, <1>5

LEMMA SumSame ==
    ASSUME NEW M \in Nat, NEW g, NEW k, \A n \in 1..M : g[n] \in Int /\ k[n] = g[n]
    PROVE  Summed(k, M) = Summed(g, M)
<1>1. Summed(g, M) \in Int /\ Summed(k, M) \in Int /\ Summed(g, M) <= Summed(k, M)
    BY SumMonotone
<1>2. Summed(k, M) <= Summed(g, M)
    BY SumMonotone
<1> QED BY <1>1, <1>2

\* One number more.
LEMMA SumAppend ==
    ASSUME NEW M \in Nat, NEW g, NEW k, \A n \in 1..M : g[n] \in Int /\ k[n] = g[n], k[M + 1] \in Int
    PROVE  Summed(k, M + 1) = Summed(g, M) + k[M + 1]
<1>1. M + 1 \in Nat /\ \A n \in 1..M + 1 : k[n] \in Int
    OBVIOUS
<1>2. PICK t : AddsUp(t, k, M + 1) /\ Summed(k, M + 1) = t[M + 1]
    BY <1>1, SumIs
<1>3. PICK s : AddsUp(s, g, M) /\ Summed(g, M) = s[M]
    BY SumIs
<1>4. \A n \in 0..M : s[n] \in Int /\ t[n] \in Int
    BY <1>2, <1>3 DEF AddsUp
<1>5. \A n \in 1..M : s[n] - s[n - 1] = t[n] - t[n - 1]
    BY <1>2, <1>3 DEF AddsUp
<1>6. s[0] = t[0]
    BY <1>2, <1>3 DEF AddsUp
<1>7. \A n \in 0..M : s[n] = t[n]
    BY <1>4, <1>5, <1>6, Agree
<1>8. t[M + 1] = t[M] + k[M + 1]
    <2>1. M + 1 \in 1..M + 1 /\ M + 1 - 1 = M
        OBVIOUS
    <2> QED BY <1>2, <2>1 DEF AddsUp
<1> QED BY <1>2, <1>3, <1>7, <1>8

\* One number changed.
LEMMA SumChange ==
    ASSUME NEW M \in Nat, NEW g, NEW k, NEW i \in 1..M,
           \A n \in 1..M : g[n] \in Int /\ k[n] \in Int /\ (n # i => k[n] = g[n])
    PROVE  Summed(k, M) = Summed(g, M) + (k[i] - g[i])
<1>1. PICK s : AddsUp(s, g, M) /\ Summed(g, M) = s[M]
    BY SumIs
<1>2. PICK t : AddsUp(t, k, M) /\ Summed(k, M) = t[M]
    BY SumIs
<1> DEFINE u == [n \in 0..M |-> IF n < i THEN s[n] ELSE s[n] + (k[i] - g[i])]
<1>3. \A n \in 0..M : u[n] \in Int /\ t[n] \in Int
    BY <1>1, <1>2 DEF AddsUp
<1>4. u[0] = t[0]
    BY <1>1, <1>2 DEF AddsUp
<1>5. \A n \in 1..M : u[n] - u[n - 1] = t[n] - t[n - 1]
    <2> SUFFICES ASSUME NEW n \in 1..M PROVE u[n] - u[n - 1] = t[n] - t[n - 1]
        OBVIOUS
    <2>1. s[n] = s[n - 1] + g[n] /\ t[n] = t[n - 1] + k[n] /\ s[n - 1] \in Int /\ t[n - 1] \in Int
        BY <1>1, <1>2 DEF AddsUp
    <2>2. n \in 0..M /\ n - 1 \in 0..M /\ g[n] \in Int /\ k[n] \in Int /\ g[i] \in Int /\ k[i] \in Int
        OBVIOUS
    <2>3. CASE n < i
        <3>1. u[n] = s[n] /\ u[n - 1] = s[n - 1] /\ k[n] = g[n]
            BY <2>2, <2>3
        <3> HIDE DEF u
        <3> QED BY <2>1, <2>2, <3>1
    <2>4. CASE n = i
        <3>1. u[n] = s[n] + (k[i] - g[i]) /\ u[n - 1] = s[n - 1]
            BY <2>2, <2>4
        <3> HIDE DEF u
        <3> QED BY <2>1, <2>2, <2>4, <3>1
    <2>5. CASE n > i
        <3>1. u[n] = s[n] + (k[i] - g[i]) /\ u[n - 1] = s[n - 1] + (k[i] - g[i]) /\ k[n] = g[n]
            BY <2>2, <2>5
        <3> HIDE DEF u
        <3> QED BY <2>1, <2>2, <3>1
    <2> QED BY <2>3, <2>4, <2>5
<1>6. u[M] = s[M] + (k[i] - g[i])
    OBVIOUS
<1> HIDE DEF u
<1>7. \A n \in 0..M : u[n] = t[n]
    BY <1>3, <1>4, <1>5, Agree
<1> QED BY <1>1, <1>2, <1>6, <1>7

\* The first few, and the rest.
LEMMA SumSplit ==
    ASSUME NEW M \in Nat, NEW g, \A n \in 1..M : g[n] \in Int, NEW j \in 0..M,
           NEW k, \A n \in 1..(M - j) : k[n] = g[j + n]
    PROVE  /\ Summed(g, j) \in Int /\ Summed(k, M - j) \in Int
           /\ Summed(g, M) = Summed(g, j) + Summed(k, M - j)
<1>0. /\ j \in Nat /\ \A n \in 1..j : g[n] \in Int
      /\ M - j \in Nat /\ \A n \in 1..(M - j) : k[n] \in Int
    <2>1. \A n \in 1..(M - j) : j + n \in 1..M
        OBVIOUS
    <2>2. \A n \in 1..(M - j) : k[n] \in Int
        BY <2>1
    <2> QED BY <2>2
<1>1. PICK s : AddsUp(s, g, M) /\ Summed(g, M) = s[M]
    BY SumIs
<1>2. PICK p : AddsUp(p, g, j) /\ Summed(g, j) = p[j]
    BY <1>0, SumIs
<1>3. PICK q : AddsUp(q, k, M - j) /\ Summed(k, M - j) = q[M - j]
    BY <1>0, SumIs
<1> DEFINE u == [n \in 0..M |-> IF n <= j THEN p[n] ELSE p[j] + q[n - j]]
<1>4. p[j] \in Int /\ q[M - j] \in Int /\ q[0] = 0
    BY <1>0, <1>2, <1>3 DEF AddsUp
<1>5. \A n \in 0..M : u[n] \in Int /\ s[n] \in Int
    <2> SUFFICES ASSUME NEW n \in 0..M PROVE u[n] \in Int /\ s[n] \in Int
        OBVIOUS
    <2>1. CASE n <= j
        <3>1. n \in 0..j /\ u[n] = p[n]
            BY <2>1
        <3> HIDE DEF u
        <3> QED BY <3>1, <1>1, <1>2 DEF AddsUp
    <2>2. CASE ~(n <= j)
        <3>1. n - j \in 0..(M - j) /\ u[n] = p[j] + q[n - j]
            BY <2>2
        <3>2. q[n - j] \in Int
            BY <3>1, <1>3 DEF AddsUp
        <3> HIDE DEF u
        <3> QED BY <3>1, <3>2, <1>1, <1>4 DEF AddsUp
    <2> QED BY <2>1, <2>2
<1>6. u[0] = s[0]
    BY <1>1, <1>2 DEF AddsUp
<1>7. \A n \in 1..M : u[n] - u[n - 1] = s[n] - s[n - 1]
    <2> SUFFICES ASSUME NEW n \in 1..M PROVE u[n] - u[n - 1] = s[n] - s[n - 1]
        OBVIOUS
    <2>1. s[n] = s[n - 1] + g[n] /\ s[n - 1] \in Int /\ n \in 0..M /\ n - 1 \in 0..M /\ g[n] \in Int
        BY <1>1 DEF AddsUp
    <2>2. CASE n <= j
        <3>1. n \in 1..j /\ u[n] = p[n] /\ u[n - 1] = p[n - 1]
            BY <2>1, <2>2
        <3>2. p[n] = p[n - 1] + g[n] /\ p[n - 1] \in Int
            BY <3>1, <1>2 DEF AddsUp
        <3> HIDE DEF u
        <3> QED BY <3>1, <3>2, <2>1
    <2>3. CASE ~(n <= j)
        <3> DEFINE m == n - j
        <3>1. m \in 1..(M - j) /\ j + m = n /\ m - 1 = n - 1 - j
            BY <2>3
        <3>2. u[n] = p[j] + q[m] /\ u[n - 1] = p[j] + q[m - 1]
            <4>1. u[n] = p[j] + q[m]
                BY <2>1, <2>3
            <4>2. CASE n - 1 <= j
                <5>1. n - 1 = j /\ m - 1 = 0 /\ u[n - 1] = p[j]
                    BY <2>1, <2>3, <4>2
                <5> HIDE DEF u, m
                <5> QED BY <4>1, <5>1, <1>4
            <4>3. CASE ~(n - 1 <= j)
                <5>1. u[n - 1] = p[j] + q[n - 1 - j]
                    BY <2>1, <4>3
                <5> HIDE DEF u, m
                <5> QED BY <4>1, <5>1, <3>1
            <4> QED BY <4>2, <4>3
        <3>3. q[m] = q[m - 1] + k[m] /\ q[m - 1] \in Int /\ k[m] = g[j + m]
            <4> HIDE DEF m
            <4> QED BY <3>1, <1>3 DEF AddsUp
        <3> HIDE DEF u, m
        <3> QED BY <3>1, <3>2, <3>3, <2>1, <1>4
    <2> QED BY <2>2, <2>3
<1>8. u[M] = p[j] + q[M - j]
    BY <1>4
<1> HIDE DEF u
<1>9. \A n \in 0..M : u[n] = s[n]
    BY <1>5, <1>6, <1>7, Agree
<1> QED BY <1>1, <1>2, <1>3, <1>4, <1>8, <1>9

LEMMA SameSums == \A g, n : Errors!Total(g, n) = Summed(g, n) /\ Tiles!Total(g, n) = Summed(g, n)
    BY Zenon DEF Errors!Total, Tiles!Total, Summed

-----------------------------------------------------------------------------
(***************************************************************************)
(* MapTiles: the keys held are y1, the bytes of each y2, the count y3, the  *)
(* keys being fetched y4.                                                   *)
(***************************************************************************)
Bytes(keys, sz) == Summed([i \in DOMAIN keys |-> sz[keys[i]]], Len(keys))

LEMMA TilesBytes ==
    /\ \A keys : Tiles!BytesOf(keys) = Bytes(keys, y2)
    /\ Tiles!BytesOf(y1)' = Bytes(y1', y2')
    BY SameSums DEF Tiles!BytesOf, Bytes

LEMMA BytesNat ==
    ASSUME NEW keys \in Seq(Tile), NEW sz \in [Tile -> Nat]
    PROVE  Bytes(keys, sz) \in Nat
<1> DEFINE g == [i \in DOMAIN keys |-> sz[keys[i]]]
<1>1. Len(keys) \in Nat /\ \A n \in 1..Len(keys) : g[n] \in Nat
    OBVIOUS
<1> HIDE DEF g
<1>2. Summed(g, Len(keys)) \in Nat
    BY <1>1, SumNat
<1> QED BY <1>2 DEF Bytes, g

LEMMA BytesNone == ASSUME NEW sz PROVE Bytes(<<>>, sz) = 0
<1> DEFINE g == [i \in DOMAIN <<>> |-> sz[<<>>[i]]]
<1>1. 0 \in Nat /\ \A n \in 1..0 : g[n] \in Int
    OBVIOUS
<1> HIDE DEF g
<1>2. PICK s : AddsUp(s, g, 0) /\ Summed(g, 0) = s[0]
    BY <1>1, SumIs
<1>3. Summed(g, 0) = 0
    BY <1>2 DEF AddsUp
<1> QED BY <1>3 DEF Bytes, g

\* The oldest go: what they held and what the rest hold.
LEMMA BytesSplit ==
    ASSUME NEW keys \in Seq(Tile), NEW sz \in [Tile -> Nat], NEW j \in 0..Len(keys)
    PROVE  /\ SubSeq(keys, 1, j) \in Seq(Tile) /\ SubSeq(keys, j + 1, Len(keys)) \in Seq(Tile)
           /\ Bytes(keys, sz) = Bytes(SubSeq(keys, 1, j), sz) + Bytes(SubSeq(keys, j + 1, Len(keys)), sz)
<1> DEFINE M == Len(keys)
           old == SubSeq(keys, 1, j)
           left == SubSeq(keys, j + 1, M)
           g == [i \in DOMAIN keys |-> sz[keys[i]]]
           p == [i \in DOMAIN old |-> sz[old[i]]]
           k == [i \in DOMAIN left |-> sz[left[i]]]
<1>1. M \in Nat /\ j \in Nat /\ DOMAIN keys = 1..M /\ \A i \in 1..M : keys[i] \in Tile
    OBVIOUS
<1>2. old \in Seq(Tile) /\ Len(old) = j /\ \A i \in 1..j : old[i] = keys[i]
    OBVIOUS
<1>3. left \in Seq(Tile) /\ Len(left) = M - j /\ \A i \in 1..(M - j) : left[i] = keys[j + i]
    OBVIOUS
<1>4. \A n \in 1..M : g[n] \in Int
    BY <1>1
<1>5. DOMAIN old = 1..j /\ DOMAIN left = 1..(M - j)
    BY <1>2, <1>3
<1>6. \A n \in 1..j : p[n] = g[n] /\ g[n] \in Int
    <2> HIDE DEF old
    <2> QED BY <1>1, <1>2, <1>4, <1>5
<1>7. \A n \in 1..(M - j) : k[n] = g[j + n]
    <2> SUFFICES ASSUME NEW n \in 1..(M - j) PROVE k[n] = g[j + n]
        OBVIOUS
    <2>1. j + n \in 1..M
        BY <1>1
    <2> HIDE DEF left
    <2> QED BY <1>1, <1>3, <1>5, <2>1
<1> HIDE DEF g, p, k, old, left
<1>8. Summed(g, j) \in Int /\ Summed(k, M - j) \in Int /\ Summed(g, M) = Summed(g, j) + Summed(k, M - j)
    <2>1. M \in Nat /\ j \in 0..M
        BY <1>1
    <2> HIDE DEF M
    <2> QED BY <1>4, <1>7, <2>1, SumSplit
<1>9. Summed(p, j) = Summed(g, j)
    BY <1>1, <1>6, SumSame
<1>10. Bytes(keys, sz) = Summed(g, M) /\ Bytes(old, sz) = Summed(p, j) /\ Bytes(left, sz) = Summed(k, M - j)
    BY <1>2, <1>3 DEF Bytes, g, p, k
<1>11. Bytes(keys, sz) = Bytes(old, sz) + Bytes(left, sz)
    BY <1>8, <1>9, <1>10
<1> QED BY <1>2, <1>3, <1>11 DEF old, left

LEMMA BytesAppend ==
    ASSUME NEW keys \in Seq(Tile), NEW t \in Tile, NEW sz \in [Tile -> Nat], NEW new \in [Tile -> Nat],
           \A i \in DOMAIN keys : new[keys[i]] = sz[keys[i]]
    PROVE  Bytes(Append(keys, t), new) = Bytes(keys, sz) + new[t]
<1> DEFINE M == Len(keys)
           more == Append(keys, t)
           g == [i \in DOMAIN keys |-> sz[keys[i]]]
           k == [i \in DOMAIN more |-> new[more[i]]]
<1>1. M \in Nat /\ DOMAIN keys = 1..M /\ \A i \in 1..M : keys[i] \in Tile
    OBVIOUS
<1>2. Len(more) = M + 1 /\ DOMAIN more = 1..(M + 1) /\ more[M + 1] = t /\ \A i \in 1..M : more[i] = keys[i]
    OBVIOUS
<1>3. k[M + 1] = new[t] /\ new[t] \in Int
    <2>1. M + 1 \in 1..(M + 1)
        BY <1>1
    <2> HIDE DEF more, M
    <2> QED BY <1>2, <2>1
<1>4. \A n \in 1..M : g[n] \in Int /\ k[n] = g[n]
    <2> SUFFICES ASSUME NEW n \in 1..M PROVE g[n] \in Int /\ k[n] = g[n]
        OBVIOUS
    <2>1. n \in 1..(M + 1) /\ n \in DOMAIN keys /\ keys[n] \in Tile
        BY <1>1
    <2>2. g[n] = sz[keys[n]] /\ new[keys[n]] = sz[keys[n]] /\ sz[keys[n]] \in Nat
        BY <2>1
    <2> HIDE DEF more, M, g
    <2>3. k[n] = new[more[n]] /\ more[n] = keys[n]
        BY <1>2, <2>1
    <2> HIDE DEF k
    <2> QED BY <2>2, <2>3
<1> HIDE DEF g, k, more
<1>5. Summed(k, M + 1) = Summed(g, M) + k[M + 1]
    BY <1>1, <1>3, <1>4, SumAppend, ZenonT(40)
<1>6. Bytes(keys, sz) = Summed(g, M) /\ Bytes(more, new) = Summed(k, M + 1)
    BY <1>2 DEF Bytes, g, k
<1> QED BY <1>3, <1>5, <1>6 DEF more

\* An image in the place of itself.
SameBut(keys, m, sz, new) == \A i \in DOMAIN keys : i # m => new[keys[i]] = sz[keys[i]]
LEMMA BytesReplace ==
    ASSUME NEW keys \in Seq(Tile), NEW sz \in [Tile -> Nat], NEW new \in [Tile -> Nat],
           NEW m \in DOMAIN keys, SameBut(keys, m, sz, new)
    PROVE  Bytes(keys, new) <= Bytes(keys, sz) + new[keys[m]]
<1> DEFINE M == Len(keys)
           g == [i \in DOMAIN keys |-> sz[keys[i]]]
           k == [i \in DOMAIN keys |-> new[keys[i]]]
<1>1. M \in Nat /\ DOMAIN keys = 1..M /\ m \in 1..M /\ \A i \in 1..M : keys[i] \in Tile
    OBVIOUS
<1>2. \A n \in 1..M : g[n] \in Nat /\ k[n] \in Nat /\ (n # m => k[n] = g[n])
    BY <1>1 DEF SameBut
<1>3. k[m] = new[keys[m]]
    OBVIOUS
<1> HIDE DEF g, k, M
<1>4. Summed(k, M) = Summed(g, M) + (k[m] - g[m])
    <2>1. \A n \in 1..M : g[n] \in Int /\ k[n] \in Int /\ (n # m => k[n] = g[n])
        BY <1>2
    <2>2. M \in Nat /\ m \in 1..M
        BY <1>1
    <2> QED BY <2>1, <2>2, SumChange
<1>5. Summed(g, M) \in Nat
    BY <1>1, <1>2, SumNat
<1>6. Bytes(keys, sz) = Summed(g, M) /\ Bytes(keys, new) = Summed(k, M)
    BY DEF Bytes, g, k, M
<1>7. k[m] \in Nat /\ g[m] \in Nat
    BY <1>1, <1>2
<1> QED BY <1>3, <1>4, <1>5, <1>6, <1>7

\* How many go: the fewest that make room, or all.
LEMMA TilesEvicted ==
    ASSUME Tiles!IInv, NEW n \in Nat
    PROVE  /\ Tiles!Evicted(n) \in 0..Len(y1)
           /\ \/ Tiles!Evicted(n) = Len(y1)
              \/ y3 - Tiles!BytesOf(SubSeq(y1, 1, Tiles!Evicted(n))) + n <= MAX_BYTES
<1> DEFINE Room(k) == k = Len(y1) \/ y3 - Tiles!BytesOf(SubSeq(y1, 1, k)) + n <= MAX_BYTES
           K == {k \in 0..Len(y1) : Room(k)}
<1>1. Len(y1) \in Nat /\ K \subseteq Nat /\ Len(y1) \in K
    BY DEF Tiles!IInv
<1>2. PICK k \in K : \A j \in K : k <= j
    <2> HIDE DEF K
    <2> QED BY <1>1, LeastOf
<1>3. \A j \in 0..k - 1 : y3 - Tiles!BytesOf(SubSeq(y1, 1, j)) + n > MAX_BYTES
    <2> SUFFICES ASSUME NEW j \in 0..k - 1 PROVE y3 - Tiles!BytesOf(SubSeq(y1, 1, j)) + n > MAX_BYTES
        OBVIOUS
    <2>1. k \in 0..Len(y1) /\ j \in 0..Len(y1) /\ ~(k <= j) /\ j # Len(y1)
        BY <1>1, <1>2
    <2>2. ~Room(j)
        BY <1>2, <2>1
    <2>3. Tiles!BytesOf(SubSeq(y1, 1, j)) \in Nat
        BY <2>1, TilesBytes, BytesSplit, BytesNat DEF Tiles!IInv
    <2>4. ~(y3 - Tiles!BytesOf(SubSeq(y1, 1, j)) + n <= MAX_BYTES) /\ y3 \in Int
        BY <2>2 DEF Tiles!IInv
    <2> QED BY <2>3, <2>4, ValuationAssumption
<1>4. \E e \in 0..Len(y1) :
         /\ e = Len(y1) \/ y3 - Tiles!BytesOf(SubSeq(y1, 1, e)) + n <= MAX_BYTES
         /\ \A j \in 0..e - 1 : y3 - Tiles!BytesOf(SubSeq(y1, 1, j)) + n > MAX_BYTES
    BY <1>2, <1>3
<1> QED BY <1>4, Zenon DEF Tiles!Evicted

\* Whatever is fetched twice at once, what is held fits.
LEMMA TilesRemember ==
    ASSUME Tiles!IInv, NEW r \in MapRequest, Tiles!remember(r)
    PROVE  Tiles!IInv'
<1>1. PICK n \in Size :
        LET k == Tiles!Evicted(n)
            left == SubSeq(y1, k + 1, Len(y1)) IN
        /\ y3' = y3 - Tiles!BytesOf(SubSeq(y1, 1, k)) + n
        /\ y1' = IF y4[r] \in Tiles!Keys(left) THEN left ELSE Append(left, y4[r])
        /\ y2' = [t \in Tile |-> IF t = y4[r] THEN n ELSE IF t \in Tiles!Keys(left) THEN y2[t] ELSE 0]
    BY DEF Tiles!remember
<1> DEFINE k == Tiles!Evicted(n)
           left == SubSeq(y1, k + 1, Len(y1))
           old == SubSeq(y1, 1, k)
<1>2. n \in Nat /\ y4[r] \in Tile /\ y4' = [y4 EXCEPT ![r] = Tiles!Nothing]
    BY ValuationAssumption DEF Tiles!remember, Tiles!IInv
<1>3. k \in 0..Len(y1) /\ (k = Len(y1) \/ y3 - Tiles!BytesOf(old) + n <= MAX_BYTES)
    BY <1>2, TilesEvicted
<1>4. /\ y1 \in Seq(Tile) /\ y2 \in [Tile -> Nat] /\ y3 \in Int /\ Len(y1) \in Nat
      /\ \A i, j \in DOMAIN y1 : y1[i] = y1[j] => i = j
    BY DEF Tiles!IInv
<1>5. /\ left \in Seq(Tile) /\ old \in Seq(Tile) /\ Bytes(y1, y2) = Bytes(old, y2) + Bytes(left, y2)
      /\ Bytes(old, y2) \in Nat /\ Bytes(left, y2) \in Nat
    BY <1>3, <1>4, BytesSplit, BytesNat
<1>6. /\ Len(left) = Len(y1) - k /\ DOMAIN left = 1..(Len(y1) - k)
      /\ \A i \in DOMAIN left : left[i] = y1[k + i] /\ k + i \in DOMAIN y1
    <2> HIDE DEF k
    <2>1. Len(left) = Len(y1) - k /\ DOMAIN left = 1..(Len(y1) - k)
        BY <1>3, <1>4
    <2>2. \A i \in 1..(Len(y1) - k) : left[i] = y1[k + 1 + i - 1] /\ k + i \in 1..Len(y1)
        BY <1>3, <1>4
    <2>3. \A i \in 1..(Len(y1) - k) : k + 1 + i - 1 = k + i
        BY <1>3, <1>4
    <2>4. DOMAIN y1 = 1..Len(y1)
        BY <1>4
    <2> HIDE DEF left
    <2> QED BY <2>1, <2>2, <2>3, <2>4
<1>7. \A i, j \in DOMAIN left : left[i] = left[j] => i = j
    <2> SUFFICES ASSUME NEW i \in DOMAIN left, NEW j \in DOMAIN left, left[i] = left[j] PROVE i = j
        OBVIOUS
    <2>1. k + i = k + j
        BY <1>4, <1>6
    <2>2. i \in Int /\ j \in Int /\ k \in Int
        BY <1>3, <1>4, <1>6
    <2> QED BY <2>1, <2>2
<1>8. y2' \in [Tile -> Nat] /\ y2'[y4[r]] = n
    BY <1>1, <1>2, <1>4
<1>9. \A i \in DOMAIN left : left[i] # y4[r] => y2'[left[i]] = y2[left[i]]
    <2> SUFFICES ASSUME NEW i \in DOMAIN left, left[i] # y4[r] PROVE y2'[left[i]] = y2[left[i]]
        OBVIOUS
    <2>1. left[i] \in Tile /\ left[i] \in Tiles!Keys(left)
        <3> HIDE DEF left
        <3> QED BY <1>5 DEF Tiles!Keys
    <2> HIDE DEF left
    <2> QED BY <1>1, <2>1 DEF left
<1>10. y3' = y3 - Bytes(old, y2) + n /\ y3 >= Bytes(y1, y2)
    BY <1>1, TilesBytes DEF Tiles!IInv
<1>11. y3' \in Int /\ y3' >= Bytes(left, y2) + n
    BY <1>2, <1>4, <1>5, <1>10
<1>12. k = Len(y1) \/ y3' <= MAX_BYTES
    BY <1>3, <1>10, TilesBytes
<1>13. y4' \in [MapRequest -> Tile \cup {Tiles!Nothing}]
    BY <1>2 DEF Tiles!IInv
<1>14. /\ y1' \in Seq(Tile) /\ \A i, j \in DOMAIN y1' : y1'[i] = y1'[j] => i = j
       /\ Bytes(y1', y2') <= Bytes(left, y2) + n
       /\ k = Len(y1) => Len(y1') = 1
    <2>1. CASE y4[r] \in Tiles!Keys(left)
        <3>1. y1' = left
            BY <1>1, <2>1
        <3>2. PICK m \in DOMAIN left : left[m] = y4[r]
            BY <2>1 DEF Tiles!Keys
        <3>3. SameBut(left, m, y2, y2')
            BY <1>7, <1>9, <3>2 DEF SameBut
        <3>4. k # Len(y1)
            BY <1>3, <1>4, <1>6, <3>2
        <3> HIDE DEF left, k
        <3>5. Bytes(left, y2') <= Bytes(left, y2) + y2'[left[m]]
            BY <1>4, <1>5, <1>8, <3>3, BytesReplace
        <3> QED BY <3>1, <3>2, <3>4, <3>5, <1>5, <1>7, <1>8
    <2>2. CASE y4[r] \notin Tiles!Keys(left)
        <3>1. y1' = Append(left, y4[r])
            BY <1>1, <2>2
        <3>2. \A i \in DOMAIN left : left[i] # y4[r]
            BY <2>2 DEF Tiles!Keys
        <3>3. \A i \in DOMAIN left : y2'[left[i]] = y2[left[i]]
            BY <1>9, <3>2
        <3>4. k = Len(y1) => Len(left) = 0
            BY <1>3, <1>4, <1>6
        <3> HIDE DEF left, k
        <3>5. Bytes(Append(left, y4[r]), y2') = Bytes(left, y2) + y2'[y4[r]]
            <4>1. left \in Seq(Tile) /\ y4[r] \in Tile /\ y2 \in [Tile -> Nat] /\ y2' \in [Tile -> Nat]
                BY <1>2, <1>4, <1>5, <1>8
            <4> QED BY <3>3, <4>1, BytesAppend, SMTT(30)
        <3>6. /\ y1' \in Seq(Tile) /\ Len(y1') = Len(left) + 1 /\ DOMAIN y1' = 1..(Len(left) + 1)
              /\ DOMAIN left = 1..Len(left) /\ Len(left) \in Nat
              /\ y1'[Len(left) + 1] = y4[r] /\ \A i \in 1..Len(left) : y1'[i] = left[i]
            BY <3>1, <1>2, <1>5
        <3>7. \A i, j \in DOMAIN y1' : y1'[i] = y1'[j] => i = j
            <4> SUFFICES ASSUME NEW i \in DOMAIN y1', NEW j \in DOMAIN y1', y1'[i] = y1'[j] PROVE i = j
                OBVIOUS
            <4>1. i \in DOMAIN left \/ i = Len(left) + 1
                BY <3>6
            <4>2. j \in DOMAIN left \/ j = Len(left) + 1
                BY <3>6
            <4> QED BY <4>1, <4>2, <3>2, <3>6, <1>7
        <3> QED BY <3>1, <3>4, <3>5, <3>6, <3>7, <1>5, <1>8
    <2> QED BY <2>1, <2>2
<1>15. Bytes(y1', y2') \in Nat
    BY <1>8, <1>14, BytesNat
<1>16. y3' >= Bytes(y1', y2')
    BY <1>2, <1>5, <1>11, <1>14, <1>15
<1>17. Bytes(y1', y2') <= MAX_BYTES \/ Len(y1') = 1
    BY <1>11, <1>12, <1>14, <1>15, <1>16, ValuationAssumption
<1> QED BY <1>8, <1>11, <1>13, <1>14, <1>16, <1>17, TilesBytes DEF Tiles!IInv, Tiles!HeldFits

LEMMA TilesStep == Tiles!IInv /\ [Tiles!Next]_(Tiles!vars) => Tiles!IInv'
<1> SUFFICES ASSUME Tiles!IInv, [Tiles!Next]_(Tiles!vars) PROVE Tiles!IInv'
    OBVIOUS
<1>1. ASSUME UNCHANGED <<y1, y2, y3>>, y4' \in [MapRequest -> Tile \cup {Tiles!Nothing}] PROVE Tiles!IInv'
    <2>1. Bytes(y1', y2') = Bytes(y1, y2)
        BY <1>1
    <2> QED BY <1>1, <2>1, TilesBytes DEF Tiles!IInv, Tiles!HeldFits
<1>2. CASE UNCHANGED Tiles!vars
    BY <1>1, <1>2 DEF Tiles!vars, Tiles!IInv
<1>3. CASE \E r \in MapRequest : Tiles!Miss(r) \/ Tiles!Fail(r)
    <2>1. y4' \in [MapRequest -> Tile \cup {Tiles!Nothing}] /\ UNCHANGED <<y1, y2, y3>>
        BY <1>3 DEF Tiles!Miss, Tiles!Fail, Tiles!IInv
    <2> QED BY <2>1, <1>1
<1>4. CASE \E r \in MapRequest : Tiles!remember(r)
    BY <1>4, TilesRemember
<1> QED BY <1>2, <1>3, <1>4 DEF Tiles!Next

LEMMA TilesInit == Tiles!Init => Tiles!IInv
<1> SUFFICES ASSUME Tiles!Init PROVE Tiles!IInv
    OBVIOUS
<1>1. y1 = <<>> /\ y2 \in [Tile -> Nat] /\ y3 = 0 /\ y4 \in [MapRequest -> Tile \cup {Tiles!Nothing}]
    BY DEF Tiles!Init
<1>2. Tiles!BytesOf(y1) = 0
    BY <1>1, TilesBytes, BytesNone
<1>3. y1 \in Seq(Tile) /\ DOMAIN y1 = {}
    BY <1>1
<1> QED BY <1>1, <1>2, <1>3, ValuationAssumption DEF Tiles!IInv, Tiles!HeldFits

-----------------------------------------------------------------------------
(***************************************************************************)
(* ErrorLog's counts.  What the rows of a workspace tell of a fault, and    *)
(* what the captures under way have still to count, has all occurred.       *)
(***************************************************************************)
OwnRow(rs, i, o, f) == i \in DOMAIN rs /\ rs[i].org = o /\ rs[i].fault = f
CountOf(rs, i, o, f) == IF OwnRow(rs, i, o, f) THEN rs[i].count ELSE 0
CountsOf(rs, n, o, f) == Summed([i \in 1..n |-> CountOf(rs, i, o, f)], n)
Rows(rs, n) == DOMAIN rs \subseteq 1..n /\ \A i \in DOMAIN rs : rs[i] \in Errors!LogRow

LEMMA ErrorsTold ==
    /\ \A o, f : Errors!Told(o, f) = CountsOf(y1, y2, o, f)
    /\ \A o, f : Errors!Told(o, f)' = CountsOf(y1', y2', o, f)
    /\ \A i, o, f : Errors!Own(i, o, f) <=> OwnRow(y1, i, o, f)
    /\ \A i, o, f : Errors!Own(i, o, f)' <=> OwnRow(y1', i, o, f)
<1>1. /\ \A i, o, f : Errors!Own(i, o, f) <=> OwnRow(y1, i, o, f)
      /\ \A i, o, f : Errors!Own(i, o, f)' <=> OwnRow(y1', i, o, f)
    BY DEF Errors!Own, OwnRow
<1>2. ASSUME NEW o, NEW f PROVE Errors!Told(o, f) = CountsOf(y1, y2, o, f)
    <2>1. [i \in 1..y2 |-> IF Errors!Own(i, o, f) THEN y1[i].count ELSE 0] = [i \in 1..y2 |-> CountOf(y1, i, o, f)]
        BY <1>1 DEF CountOf
    <2> QED BY <2>1, SameSums DEF Errors!Told, CountsOf
<1>3. ASSUME NEW o, NEW f PROVE Errors!Told(o, f)' = CountsOf(y1', y2', o, f)
    <2>1. [i \in 1..y2' |-> IF Errors!Own(i, o, f)' THEN y1'[i].count ELSE 0] = [i \in 1..y2' |-> CountOf(y1', i, o, f)]
        BY <1>1 DEF CountOf
    <2> QED BY <2>1, SameSums DEF Errors!Told, CountsOf
<1> QED BY <1>1, <1>2, <1>3

LEMMA CountNat ==
    ASSUME NEW n \in Nat, NEW rs, Rows(rs, n), NEW i, NEW o, NEW f
    PROVE  CountOf(rs, i, o, f) \in Nat
    BY DEF CountOf, OwnRow, Rows, Errors!LogRow

LEMMA CountsNat ==
    ASSUME NEW n \in Nat, NEW rs, Rows(rs, n), NEW o, NEW f
    PROVE  CountsOf(rs, n, o, f) \in Nat
<1> DEFINE g == [i \in 1..n |-> CountOf(rs, i, o, f)]
<1>1. \A i \in 1..n : g[i] \in Nat
    BY CountNat
<1> HIDE DEF g
<1>2. Summed(g, n) \in Nat
    BY <1>1, SumNat
<1> QED BY <1>2 DEF CountsOf, g

\* Rows go.
LEMMA CountsFewer ==
    ASSUME NEW n \in Nat, NEW rs, NEW fewer, Rows(rs, n), Rows(fewer, n),
           DOMAIN fewer \subseteq DOMAIN rs, \A i \in DOMAIN fewer : fewer[i] = rs[i], NEW o, NEW f
    PROVE  CountsOf(fewer, n, o, f) <= CountsOf(rs, n, o, f)
<1> DEFINE g == [i \in 1..n |-> CountOf(fewer, i, o, f)]
           k == [i \in 1..n |-> CountOf(rs, i, o, f)]
<1>1. \A i \in 1..n : CountOf(fewer, i, o, f) \in Nat /\ CountOf(rs, i, o, f) \in Nat
    BY CountNat
<1>2. \A i \in 1..n : CountOf(fewer, i, o, f) = 0 \/ CountOf(fewer, i, o, f) = CountOf(rs, i, o, f)
    BY DEF CountOf, OwnRow
<1>3. \A i \in 1..n : g[i] \in Int /\ k[i] \in Int /\ g[i] <= k[i]
    <2> SUFFICES ASSUME NEW i \in 1..n PROVE g[i] \in Int /\ k[i] \in Int /\ g[i] <= k[i]
        OBVIOUS
    <2> QED BY <1>1, <1>2
<1> HIDE DEF g, k
<1>4. Summed(g, n) <= Summed(k, n)
    BY <1>3, SumMonotone
<1> QED BY <1>4 DEF CountsOf, g, k

\* A row counts one more.
LEMMA CountsOneMore ==
    ASSUME NEW n \in Nat, NEW rs, NEW more, Rows(rs, n), Rows(more, n), DOMAIN more = DOMAIN rs, NEW i \in DOMAIN rs,
           more[i].org = rs[i].org, more[i].fault = rs[i].fault, more[i].count = rs[i].count + 1,
           \A j \in DOMAIN rs \ {i} : more[j] = rs[j], NEW o, NEW f
    PROVE  CountsOf(more, n, o, f) = CountsOf(rs, n, o, f) + IF OwnRow(rs, i, o, f) THEN 1 ELSE 0
<1> DEFINE g == [j \in 1..n |-> CountOf(rs, j, o, f)]
           k == [j \in 1..n |-> CountOf(more, j, o, f)]
<1>1. i \in 1..n
    BY DEF Rows
<1>2. \A j \in 1..n : CountOf(rs, j, o, f) \in Nat /\ CountOf(more, j, o, f) \in Nat
    BY CountNat
<1>3. \A j \in 1..n : j # i => CountOf(more, j, o, f) = CountOf(rs, j, o, f)
    BY DEF CountOf, OwnRow
<1>4. CountOf(more, i, o, f) = CountOf(rs, i, o, f) + IF OwnRow(rs, i, o, f) THEN 1 ELSE 0
    <2>1. OwnRow(more, i, o, f) <=> OwnRow(rs, i, o, f)
        BY DEF OwnRow
    <2>2. rs[i].count \in Nat
        BY DEF Rows, Errors!LogRow
    <2> QED BY <2>1, <2>2 DEF CountOf
<1>5. \A j \in 1..n : g[j] \in Int /\ k[j] \in Int /\ (j # i => k[j] = g[j])
    BY <1>2, <1>3
<1>6. g[i] = CountOf(rs, i, o, f) /\ k[i] = CountOf(more, i, o, f)
    BY <1>1
<1> DEFINE Ones == \A j \in 1..n : g[j] \in Int /\ k[j] \in Int /\ (j # i => k[j] = g[j])
<1> HIDE DEF g, k
<1>7. Summed(k, n) = Summed(g, n) + (k[i] - g[i])
    BY <1>1, <1>5, SumChange
<1>8. Summed(g, n) \in Int
    BY <1>5, SumMonotone
<1>9. CountsOf(more, n, o, f) = Summed(k, n) /\ CountsOf(rs, n, o, f) = Summed(g, n)
    BY DEF CountsOf, g, k
<1>10. g[i] \in Int /\ k[i] \in Int
    BY <1>1, <1>5
<1> QED BY <1>4, <1>6, <1>7, <1>8, <1>9, <1>10

\* A row is made.
OneRowMore(rs, more, n) ==
    /\ Rows(rs, n) /\ Rows(more, n + 1) /\ DOMAIN more = DOMAIN rs \cup {n + 1}
    /\ (\A j \in DOMAIN rs : more[j] = rs[j]) /\ more[n + 1].count = 1

LEMMA CountsNew ==
    ASSUME NEW n \in Nat, NEW rs, NEW more, OneRowMore(rs, more, n), NEW o, NEW f
    PROVE  CountsOf(more, n + 1, o, f) = CountsOf(rs, n, o, f) + CountOf(more, n + 1, o, f)
<1> USE DEF OneRowMore
<1> DEFINE g == [j \in 1..n |-> CountOf(rs, j, o, f)]
           k == [j \in 1..n + 1 |-> CountOf(more, j, o, f)]
<1>1. n + 1 \in Nat /\ n + 1 \notin DOMAIN rs /\ n + 1 \in 1..n + 1
    BY DEF Rows
<1>2. \A j \in 1..n : CountOf(rs, j, o, f) \in Nat
    BY CountNat
<1>3. \A j \in 1..n : CountOf(more, j, o, f) = CountOf(rs, j, o, f)
    <2> SUFFICES ASSUME NEW j \in 1..n PROVE CountOf(more, j, o, f) = CountOf(rs, j, o, f)
        OBVIOUS
    <2>1. j # n + 1
        OBVIOUS
    <2> QED BY <2>1 DEF CountOf, OwnRow
<1>4. \A j \in 1..n : g[j] \in Int /\ k[j] = g[j]
    <2> SUFFICES ASSUME NEW j \in 1..n PROVE g[j] \in Int /\ k[j] = g[j]
        OBVIOUS
    <2>1. j \in 1..n + 1
        OBVIOUS
    <2> QED BY <1>2, <1>3, <2>1
<1>5. k[n + 1] = CountOf(more, n + 1, o, f)
    BY <1>1
<1>6. k[n + 1] \in Int
    BY <1>1, <1>5, CountNat
<1> HIDE DEF g, k
<1>7. Summed(k, n + 1) = Summed(g, n) + k[n + 1]
    BY <1>4, <1>6, SumAppend
<1>8. CountsOf(more, n + 1, o, f) = Summed(k, n + 1) /\ CountsOf(rs, n, o, f) = Summed(g, n)
    BY DEF CountsOf, g, k
<1> QED BY <1>5, <1>7, <1>8

-----------------------------------------------------------------------------
CountsTyped ==
    /\ Errors!TypeOK /\ y5 \in [Org -> [Fault -> Nat]]
    /\ \A r \in Failing : y4[r].at = "fold" => y4[r].row \in 1..y2
CountsOwed(o, f) == Errors!Told(o, f) + Cardinality(Errors!Owing(o, f)) <= y5[o][f]

LEMMA CountsParts ==
    /\ Errors!CountsInv <=> CountsTyped /\ \A o \in Org, f \in Fault : CountsOwed(o, f)
    /\ Errors!CountsInv' <=> CountsTyped' /\ \A o \in Org, f \in Fault : CountsOwed(o, f)'
<1>1. \A S : Errors!Cardinality(S) = Cardinality(S)
    BY DEF Cardinality, Errors!Cardinality
<1>2. Errors!CountsInv <=> CountsTyped /\ \A o \in Org, f \in Fault : CountsOwed(o, f)
    BY <1>1 DEF Errors!CountsInv, CountsTyped, CountsOwed
<1>3. Errors!CountsInv' <=> CountsTyped' /\ \A o \in Org, f \in Fault : CountsOwed(o, f)'
    BY <1>1 DEF Errors!CountsInv, CountsTyped, CountsOwed
<1> QED BY <1>2, <1>3

\* Who owes what, as numbers.
LEMMA OwingFinite ==
    ASSUME NEW o, NEW f
    PROVE  /\ IsFiniteSet(Errors!Owing(o, f)) /\ Cardinality(Errors!Owing(o, f)) \in Nat
           /\ IsFiniteSet(Errors!Owing(o, f)') /\ Cardinality(Errors!Owing(o, f)') \in Nat
           /\ Errors!Owing(o, f)' \subseteq Errors!Owing(o, f)
                 => Cardinality(Errors!Owing(o, f)') <= Cardinality(Errors!Owing(o, f))
           /\ \A r \in Errors!Owing(o, f) : Errors!Owing(o, f)' \subseteq Errors!Owing(o, f) \ {r}
                 => Cardinality(Errors!Owing(o, f)') + 1 <= Cardinality(Errors!Owing(o, f))
           /\ \A r \in Failing : Errors!Owing(o, f)' \subseteq Errors!Owing(o, f) \cup {r}
                 => Cardinality(Errors!Owing(o, f)') <= Cardinality(Errors!Owing(o, f)) + 1
<1> DEFINE A == Errors!Owing(o, f)
           B == Errors!Owing(o, f)'
<1>1. IsFiniteSet(A) /\ IsFiniteSet(B)
    BY ValuationAssumption, FS_Subset DEF Errors!Owing
<1> HIDE DEF A, B
<1>2. Cardinality(A) \in Nat /\ Cardinality(B) \in Nat
    BY <1>1, FS_CardinalityType
<1>3. B \subseteq A => Cardinality(B) <= Cardinality(A)
    BY <1>1, FS_Subset
<1>4. ASSUME NEW r \in A, B \subseteq A \ {r} PROVE Cardinality(B) + 1 <= Cardinality(A)
    <2>1. IsFiniteSet(A \ {r}) /\ Cardinality(A \ {r}) = Cardinality(A) - 1
        BY <1>1, FS_RemoveElement
    <2>2. Cardinality(B) <= Cardinality(A \ {r})
        BY <1>4, <2>1, FS_Subset
    <2> QED BY <1>2, <2>1, <2>2
<1>5. ASSUME NEW r \in Failing, B \subseteq A \cup {r} PROVE Cardinality(B) <= Cardinality(A) + 1
    <2>1. IsFiniteSet(A \cup {r}) /\ Cardinality(A \cup {r}) <= Cardinality(A) + 1
        <3>1. IsFiniteSet(A \cup {r})
            BY <1>1, FS_AddElement
        <3>2. Cardinality(A \cup {r}) = IF r \in A THEN Cardinality(A) ELSE Cardinality(A) + 1
            BY <1>1, FS_AddElement
        <3> QED BY <1>2, <3>1, <3>2
    <2>2. Cardinality(B) <= Cardinality(A \cup {r})
        BY <1>5, <2>1, FS_Subset
    <2>3. Cardinality(A \cup {r}) \in Nat
        BY <2>1, FS_CardinalityType
    <2> QED BY <1>2, <2>1, <2>2, <2>3
<1> QED BY <1>1, <1>2, <1>3, <1>4, <1>5 DEF A, B

LEMMA CountsRows == CountsTyped => Rows(y1, y2) /\ y2 \in Nat
    BY DEF CountsTyped, Errors!TypeOK, Rows

\* Nothing is counted, nothing new is owed: a capture moves on or ends, rows go.
LEMMA CountsStay ==
    ASSUME CountsTyped, CountsTyped', y2' = y2, y5' = y5, DOMAIN y1' \subseteq DOMAIN y1,
           \A i \in DOMAIN y1' : y1'[i] = y1[i],
           NEW o \in Org, NEW f \in Fault, CountsOwed(o, f), Errors!Owing(o, f)' \subseteq Errors!Owing(o, f)
    PROVE  CountsOwed(o, f)'
<1>1. Rows(y1, y2) /\ y2 \in Nat /\ Rows(y1', y2)
    <2>1. Rows(y1', y2') /\ y2' \in Nat
        BY DEF CountsTyped, Errors!TypeOK, Rows
    <2> QED BY <2>1, CountsRows
<1>2. CountsOf(y1', y2, o, f) <= CountsOf(y1, y2, o, f)
    BY <1>1, CountsFewer
<1>3. CountsOf(y1', y2, o, f) \in Nat /\ CountsOf(y1, y2, o, f) \in Nat
    BY <1>1, CountsNat
<1>4. Cardinality(Errors!Owing(o, f)') <= Cardinality(Errors!Owing(o, f))
    BY OwingFinite
<1>5. y5[o][f] \in Nat
    BY DEF CountsTyped
<1>6. Errors!Told(o, f) = CountsOf(y1, y2, o, f) /\ Errors!Told(o, f)' = CountsOf(y1', y2, o, f)
    BY ErrorsTold
<1>7. Cardinality(Errors!Owing(o, f)) \in Nat /\ Cardinality(Errors!Owing(o, f)') \in Nat
    BY OwingFinite
<1>8. CountsOf(y1', y2, o, f) + Cardinality(Errors!Owing(o, f)') <= y5[o][f]
    BY <1>2, <1>3, <1>4, <1>5, <1>6, <1>7 DEF CountsOwed
<1> QED BY <1>6, <1>8 DEF CountsOwed

\* What is owed is paid: the one that owed it counts it.
LEMMA CountsPaid ==
    ASSUME CountsTyped, y5' = y5, NEW r, NEW o \in Org, NEW f \in Fault, CountsOwed(o, f),
           r \in Errors!Owing(o, f), Errors!Owing(o, f)' \subseteq Errors!Owing(o, f) \ {r},
           Errors!Told(o, f)' = Errors!Told(o, f) + 1
    PROVE  CountsOwed(o, f)'
<1>1. Cardinality(Errors!Owing(o, f)') + 1 <= Cardinality(Errors!Owing(o, f))
    BY OwingFinite
<1>2. Cardinality(Errors!Owing(o, f)) \in Nat /\ Cardinality(Errors!Owing(o, f)') \in Nat
    BY OwingFinite
<1>3. Errors!Told(o, f) \in Nat
    BY CountsRows, CountsNat, ErrorsTold
<1>4. y5[o][f] \in Nat
    BY DEF CountsTyped
<1>5. Errors!Told(o, f)' + Cardinality(Errors!Owing(o, f)') <= y5[o][f]
    BY <1>1, <1>2, <1>3, <1>4 DEF CountsOwed
<1> QED BY <1>5 DEF CountsOwed

LEMMA CountsFold ==
    ASSUME CountsTyped, CountsTyped', NEW r \in Failing, Errors!Fold(r), NEW o \in Org, NEW f \in Fault, CountsOwed(o, f)
    PROVE  CountsOwed(o, f)'
<1> DEFINE i == y4[r].row
<1>1. y4[r].at = "fold" /\ y4' = [y4 EXCEPT ![r] = Errors!Rest] /\ y2' = y2 /\ y5' = y5
    BY DEF Errors!Fold, Errors!Moves
<1>2. y4'[r].at = "rest" /\ \A q \in Failing \ {r} : y4'[q] = y4[q]
    BY <1>1 DEF CountsTyped, Errors!TypeOK, Errors!Rest
<1>3. CASE i \notin DOMAIN y1
    <2>1. y1' = y1
        BY <1>3 DEF Errors!Fold
    <2>2. Errors!Owing(o, f)' \subseteq Errors!Owing(o, f)
        BY <1>2, <2>1 DEF Errors!Owing, Errors!Own
    <2> QED BY <1>1, <2>1, <2>2, CountsStay
<1>4. CASE i \in DOMAIN y1
    <2>1. y1' = [y1 EXCEPT ![i].count = @ + 1, ![i].last = y3 + 1]
        BY <1>4 DEF Errors!Fold
    <2>2. y1[i] \in Errors!LogRow
        BY <1>4 DEF CountsTyped, Errors!TypeOK
    <2>3. /\ DOMAIN y1' = DOMAIN y1 /\ \A j \in DOMAIN y1 \ {i} : y1'[j] = y1[j]
          /\ y1'[i].org = y1[i].org /\ y1'[i].fault = y1[i].fault /\ y1'[i].count = y1[i].count + 1
        <3> HIDE DEF i
        <3> QED BY <1>4, <2>1, <2>2, ZenonT(40) DEF Errors!LogRow
    <2>4. \A j : OwnRow(y1', j, o, f) <=> OwnRow(y1, j, o, f)
        BY <2>3 DEF OwnRow
    <2>5. Errors!Owing(o, f)' \subseteq Errors!Owing(o, f) \ {r}
        BY <1>2, <2>4, ErrorsTold DEF Errors!Owing
    <2>6. CASE OwnRow(y1, i, o, f)
        <3>1. r \in Errors!Owing(o, f)
            BY <1>1, <2>6, ErrorsTold DEF Errors!Owing
        <3>2. Errors!Told(o, f)' = Errors!Told(o, f) + 1
            <4>1. Rows(y1, y2) /\ y2 \in Nat /\ Rows(y1', y2)
                <5>1. Rows(y1', y2')
                    BY DEF CountsTyped, Errors!TypeOK, Rows
                <5> QED BY <5>1, <1>1, CountsRows
            <4> HIDE DEF i
            <4>2. CountsOf(y1', y2, o, f) = CountsOf(y1, y2, o, f) + IF OwnRow(y1, i, o, f) THEN 1 ELSE 0
                BY <1>4, <2>3, <4>1, CountsOneMore
            <4> QED BY <4>2, <2>6, <1>1, ErrorsTold
        <3> QED BY <1>1, <2>5, <3>1, <3>2, CountsPaid
    <2>7. CASE ~OwnRow(y1, i, o, f)
        <3>1. Rows(y1, y2) /\ y2 \in Nat /\ Rows(y1', y2)
            <4>1. Rows(y1', y2')
                BY DEF CountsTyped, Errors!TypeOK, Rows
            <4> QED BY <4>1, <1>1, CountsRows
        <3>2. CountsOf(y1', y2, o, f) = CountsOf(y1, y2, o, f) + IF OwnRow(y1, i, o, f) THEN 1 ELSE 0
            <4> HIDE DEF i
            <4> QED BY <1>4, <2>3, <3>1, CountsOneMore
        <3>3. Errors!Told(o, f)' = Errors!Told(o, f)
            <4>1. CountsOf(y1, y2, o, f) \in Nat
                BY <3>1, CountsNat
            <4> QED BY <3>2, <4>1, <2>7, <1>1, ErrorsTold
        <3>4. Cardinality(Errors!Owing(o, f)') <= Cardinality(Errors!Owing(o, f))
            BY <2>5, OwingFinite
        <3>5. Cardinality(Errors!Owing(o, f)) \in Nat /\ Cardinality(Errors!Owing(o, f)') \in Nat
            BY OwingFinite
        <3>6. Errors!Told(o, f) \in Nat /\ y5[o][f] \in Nat
            BY CountsRows, CountsNat, ErrorsTold DEF CountsTyped
        <3>7. Errors!Told(o, f)' + Cardinality(Errors!Owing(o, f)') <= y5[o][f]
            BY <3>3, <3>4, <3>5, <3>6 DEF CountsOwed
        <3> QED BY <3>7, <1>1 DEF CountsOwed
    <2> QED BY <2>6, <2>7
<1> QED BY <1>3, <1>4

LEMMA CountsCreate ==
    ASSUME CountsTyped, CountsTyped', NEW r \in Failing, Errors!Create(r), NEW o \in Org, NEW f \in Fault, CountsOwed(o, f)
    PROVE  CountsOwed(o, f)'
<1> DEFINE c == y4[r]
<1>1. /\ c.at = "create" /\ y4' = [y4 EXCEPT ![r] = [at |-> "count"]] /\ y2' = y2 + 1 /\ y5' = y5
      /\ y1' = [i \in DOMAIN y1 \cup {y2 + 1} |-> IF i = y2 + 1
               THEN [org |-> c.org, fault |-> c.fault, count |-> 1, last |-> y3 + 1] ELSE y1[i]]
    BY DEF Errors!Create, Errors!Moves
<1>2. y4'[r].at = "count" /\ \A q \in Failing \ {r} : y4'[q] = y4[q]
    BY <1>1 DEF CountsTyped, Errors!TypeOK
<1>3. Rows(y1, y2) /\ y2 \in Nat /\ Rows(y1', y2 + 1)
    <2>1. Rows(y1', y2')
        BY DEF CountsTyped, Errors!TypeOK, Rows
    <2> QED BY <2>1, <1>1, CountsRows
<1>4. y2 + 1 \notin DOMAIN y1
    BY <1>3 DEF Rows
<1>5. /\ DOMAIN y1' = DOMAIN y1 \cup {y2 + 1} /\ \A j \in DOMAIN y1 : y1'[j] = y1[j]
      /\ y1'[y2 + 1].count = 1 /\ y1'[y2 + 1].org = c.org /\ y1'[y2 + 1].fault = c.fault
    BY <1>1, <1>4
<1>6. CountsOf(y1', y2 + 1, o, f) = CountsOf(y1, y2, o, f) + CountOf(y1', y2 + 1, o, f)
    <2>1. OneRowMore(y1, y1', y2)
        BY <1>3, <1>5 DEF OneRowMore
    <2> QED BY <1>3, <2>1, CountsNew, Zenon
<1>7. CountOf(y1', y2 + 1, o, f) = IF c.org = o /\ c.fault = f THEN 1 ELSE 0
    BY <1>5 DEF CountOf, OwnRow
<1>8. Errors!Owing(o, f)' \subseteq Errors!Owing(o, f) \ {r}
    <2> SUFFICES ASSUME NEW q \in Errors!Owing(o, f)' PROVE q \in Errors!Owing(o, f) /\ q # r
        OBVIOUS
    <2>1. q \in Failing /\ q # r
        BY <1>2 DEF Errors!Owing
    <2>2. y4'[q] = y4[q]
        BY <1>2, <2>1
    <2>3. CASE y4[q].at = "fold"
        <3>1. y4[q].row \in 1..y2 /\ y4[q].row # y2 + 1
            BY <2>1, <2>3, <1>3 DEF CountsTyped
        <3>2. OwnRow(y1', y4[q].row, o, f)
            BY <2>2, <2>3, ErrorsTold DEF Errors!Owing
        <3>3. OwnRow(y1, y4[q].row, o, f)
            BY <3>1, <3>2, <1>5 DEF OwnRow
        <3> QED BY <2>1, <2>3, <3>3, ErrorsTold DEF Errors!Owing
    <2>4. CASE y4[q].at # "fold"
        BY <2>1, <2>2, <2>4 DEF Errors!Owing
    <2> QED BY <2>1, <2>3, <2>4
<1>9. CountsOf(y1, y2, o, f) \in Nat /\ Errors!Told(o, f) = CountsOf(y1, y2, o, f)
    BY <1>3, CountsNat, ErrorsTold
<1>10. Errors!Told(o, f)' = CountsOf(y1', y2 + 1, o, f)
    BY <1>1, ErrorsTold
<1>11. CASE c.org = o /\ c.fault = f
    <2>1. r \in Errors!Owing(o, f)
        BY <1>1, <1>11 DEF Errors!Owing
    <2>2. Errors!Told(o, f)' = Errors!Told(o, f) + 1
        BY <1>6, <1>7, <1>9, <1>10, <1>11
    <2> QED BY <1>1, <1>8, <2>1, <2>2, CountsPaid
<1>12. CASE ~(c.org = o /\ c.fault = f)
    <2>1. Errors!Told(o, f)' = Errors!Told(o, f)
        BY <1>6, <1>7, <1>9, <1>10, <1>12
    <2>2. Cardinality(Errors!Owing(o, f)') <= Cardinality(Errors!Owing(o, f))
        BY <1>8, OwingFinite
    <2>3. Cardinality(Errors!Owing(o, f)) \in Nat /\ Cardinality(Errors!Owing(o, f)') \in Nat /\ y5[o][f] \in Nat
        BY OwingFinite DEF CountsTyped
    <2>4. Errors!Told(o, f)' + Cardinality(Errors!Owing(o, f)') <= y5[o][f]
        BY <1>9, <2>1, <2>2, <2>3 DEF CountsOwed
    <2> QED BY <2>4, <1>1 DEF CountsOwed
<1> QED BY <1>11, <1>12

LEMMA CountsOccur ==
    ASSUME CountsTyped, CountsTyped', NEW r \in Failing, NEW oo \in Org, NEW ff \in Fault, Errors!Occur(r, oo, ff),
           NEW o \in Org, NEW f \in Fault, CountsOwed(o, f)
    PROVE  CountsOwed(o, f)'
<1>1. /\ y4[r] = Errors!Rest /\ y4' = [y4 EXCEPT ![r] = [at |-> "find", org |-> oo, fault |-> ff]]
      /\ y5' = [y5 EXCEPT ![oo][ff] = @ + 1] /\ y1' = y1 /\ y2' = y2
    BY DEF Errors!Occur
<1>2. /\ y4'[r] = [at |-> "find", org |-> oo, fault |-> ff]
      /\ \A q \in Failing \ {r} : y4'[q] = y4[q]
    BY <1>1 DEF CountsTyped, Errors!TypeOK
<1>3. Errors!Told(o, f)' = Errors!Told(o, f) /\ Errors!Told(o, f) \in Nat
    BY <1>1, CountsRows, CountsNat, ErrorsTold
<1>4. /\ Cardinality(Errors!Owing(o, f)) \in Nat /\ Cardinality(Errors!Owing(o, f)') \in Nat
      /\ y5[o][f] \in Nat
    BY OwingFinite DEF CountsTyped
<1>5. CASE oo = o /\ ff = f
    <2>1. y5'[o][f] = y5[o][f] + 1
        BY <1>1, <1>5 DEF CountsTyped
    <2>2. Errors!Owing(o, f)' \subseteq Errors!Owing(o, f) \cup {r}
        BY <1>1, <1>2 DEF Errors!Owing, Errors!Own
    <2>3. Cardinality(Errors!Owing(o, f)') <= Cardinality(Errors!Owing(o, f)) + 1
        BY <2>2, OwingFinite
    <2>4. Errors!Told(o, f)' + Cardinality(Errors!Owing(o, f)') <= y5'[o][f]
        BY <1>3, <1>4, <2>1, <2>3 DEF CountsOwed
    <2> QED BY <2>4 DEF CountsOwed
<1>6. CASE ~(oo = o /\ ff = f)
    <2>1. y5'[o][f] = y5[o][f]
        BY <1>1, <1>6 DEF CountsTyped
    <2>2. Errors!Owing(o, f)' \subseteq Errors!Owing(o, f)
        BY <1>1, <1>2, <1>6 DEF Errors!Owing, Errors!Own
    <2>3. Cardinality(Errors!Owing(o, f)') <= Cardinality(Errors!Owing(o, f))
        BY <2>2, OwingFinite
    <2>4. Errors!Told(o, f)' + Cardinality(Errors!Owing(o, f)') <= y5'[o][f]
        BY <1>3, <1>4, <2>1, <2>3 DEF CountsOwed
    <2> QED BY <2>4 DEF CountsOwed
<1> QED BY <1>5, <1>6

LEMMA CountsStep ==
    ASSUME Errors!CountsInv, Errors!TypeOK', [Errors!Next]_(Errors!vars)
    PROVE  Errors!CountsInv'
<1>1. CountsTyped /\ \A o \in Org, f \in Fault : CountsOwed(o, f)
    BY CountsParts
<1>2. y5' \in [Org -> [Fault -> Nat]]
    <2>1. ASSUME NEW o \in Org, NEW f \in Fault, y5' = [y5 EXCEPT ![o][f] = @ + 1] PROVE y5' \in [Org -> [Fault -> Nat]]
        BY <1>1, <2>1 DEF CountsTyped
    <2>2. y5' = y5 \/ \E o \in Org, f \in Fault : y5' = [y5 EXCEPT ![o][f] = @ + 1]
        BY DEF Errors!Next, Errors!vars, Errors!Occur, Errors!Find, Errors!Fold, Errors!Create, Errors!Count,
               Errors!FindOldest, Errors!Prune, Errors!Fail
    <2> QED BY <1>1, <2>1, <2>2 DEF CountsTyped
<1>3. y2' \in Nat /\ y2 \in Nat /\ y2 <= y2'
    <2>1. y2' = y2 \/ y2' = y2 + 1
        BY DEF Errors!Next, Errors!vars, Errors!Occur, Errors!Find, Errors!Fold, Errors!Create, Errors!Count,
               Errors!FindOldest, Errors!Prune, Errors!Fail
    <2>2. y2 \in Nat
        BY <1>1, CountsRows
    <2> QED BY <2>1, <2>2
<1>4. \A q \in Failing : y4[q].at = "fold" => y4[q].row \in 1..y2'
    BY <1>1, <1>3 DEF CountsTyped
<1>5. ASSUME NEW r \in Failing, NEW c, y4' = [y4 EXCEPT ![r] = c], c.at = "fold" => c.row \in 1..y2'
      PROVE  /\ CountsTyped' /\ y4'[r] = c /\ \A q \in Failing \ {r} : y4'[q] = y4[q]
    <2>1. y4'[r] = c /\ \A q \in Failing \ {r} : y4'[q] = y4[q]
        BY <1>1, <1>5 DEF CountsTyped, Errors!TypeOK
    <2>2. \A q \in Failing : y4'[q].at = "fold" => y4'[q].row \in 1..y2'
        BY <1>4, <1>5, <2>1
    <2> QED BY <1>2, <2>1, <2>2 DEF CountsTyped
<1>6. CASE UNCHANGED Errors!vars
    BY <1>6 DEF Errors!vars, Errors!CountsInv, Errors!TypeOK, Errors!Told, Errors!Owing, Errors!Own
\* A capture that moves on and owes no more than it did.
<1>7. ASSUME NEW r \in Failing, NEW c, y4' = [y4 EXCEPT ![r] = c], c.at = "fold" => c.row \in 1..y2',
             y2' = y2, y5' = y5, DOMAIN y1' \subseteq DOMAIN y1, \A i \in DOMAIN y1' : y1'[i] = y1[i],
             \A o \in Org, f \in Fault :
                (\/ c.at \in {"find", "create"} /\ c.org = o /\ c.fault = f
                 \/ c.at = "fold" /\ OwnRow(y1', c.row, o, f)) => r \in Errors!Owing(o, f)
      PROVE  Errors!CountsInv'
    <2>1. CountsTyped' /\ y4'[r] = c /\ \A q \in Failing \ {r} : y4'[q] = y4[q]
        BY <1>5, <1>7
    <2>2. ASSUME NEW o \in Org, NEW f \in Fault PROVE CountsOwed(o, f)'
        <3>1. \A i : OwnRow(y1', i, o, f) => OwnRow(y1, i, o, f)
            BY <1>7 DEF OwnRow
        <3>2. Errors!Owing(o, f)' \subseteq Errors!Owing(o, f)
            <4> SUFFICES ASSUME NEW q \in Errors!Owing(o, f)' PROVE q \in Errors!Owing(o, f)
                OBVIOUS
            <4>1. q \in Failing
                BY DEF Errors!Owing
            <4>2. CASE q = r
                BY <4>2, <2>1, <1>7, ErrorsTold DEF Errors!Owing
            <4>3. CASE q # r
                BY <4>1, <4>3, <2>1, <3>1, ErrorsTold DEF Errors!Owing
            <4> QED BY <4>2, <4>3
        <3>3. CountsOwed(o, f)
            BY <1>1
        <3> QED BY <1>1, <1>7, <2>1, <3>2, <3>3, CountsStay
    <2> QED BY <2>1, <2>2, CountsParts
<1>8. ASSUME NEW r \in Failing, NEW o \in Org, NEW f \in Fault, Errors!Occur(r, o, f) PROVE Errors!CountsInv'
    <2>1. CountsTyped'
        BY <1>5, <1>8 DEF Errors!Occur
    <2> QED BY <1>1, <1>8, <2>1, CountsOccur, CountsParts
<1>9. ASSUME NEW r \in Failing, Errors!Find(r) PROVE Errors!CountsInv'
    <2>1. y4[r].at = "find" /\ y1' = y1 /\ y2' = y2 /\ y5' = y5 /\ y4[r] \in Errors!Capture
        BY <1>1, <1>9 DEF Errors!Find, CountsTyped, Errors!TypeOK
    <2>2. PICK oo \in Org, ff \in Fault : y4[r] = [at |-> "find", org |-> oo, fault |-> ff]
        BY <2>1 DEF Errors!Capture
    <2>3. \A o, f : oo = o /\ ff = f => r \in Errors!Owing(o, f)
        BY <2>2 DEF Errors!Owing
    <2>4. CASE y4' = [y4 EXCEPT ![r] = [y4[r] EXCEPT !.at = "create"]]
        <3> DEFINE c == [at |-> "create", org |-> oo, fault |-> ff]
        <3>1. y4' = [y4 EXCEPT ![r] = c]
            <4>1. [y4[r] EXCEPT !.at = "create"] = c
                BY <2>2
            <4> QED BY <4>1, <2>4
        <3>2. c.at = "create" /\ c.org = oo /\ c.fault = ff
            OBVIOUS
        <3> HIDE DEF c
        <3> QED BY <3>1, <3>2, <2>1, <2>3, <1>7
    <2>5. CASE \E i \in DOMAIN y1 : Errors!Folds(i, y4[r]) /\ y4' = [y4 EXCEPT ![r] = [at |-> "fold", row |-> i]]
        <3>1. PICK i \in DOMAIN y1 : Errors!Folds(i, y4[r]) /\ y4' = [y4 EXCEPT ![r] = [at |-> "fold", row |-> i]]
            BY <2>5
        <3> DEFINE c == [at |-> "fold", row |-> i]
        <3>2. c.at = "fold" /\ c.row = i /\ y4' = [y4 EXCEPT ![r] = c]
            BY <3>1
        <3>3. i \in 1..y2'
            BY <2>1, <1>1 DEF CountsTyped, Errors!TypeOK
        <3>4. \A o, f : OwnRow(y1', i, o, f) => r \in Errors!Owing(o, f)
            BY <2>1, <2>2, <2>3, <3>1 DEF OwnRow, Errors!Folds
        <3> HIDE DEF c
        <3> QED BY <3>2, <3>3, <3>4, <2>1, <1>7
    <2> QED BY <2>4, <2>5, <1>9 DEF Errors!Find, Errors!Moves
<1>10. ASSUME NEW r \in Failing, Errors!Fold(r) PROVE Errors!CountsInv'
    <2>1. CountsTyped'
        BY <1>5, <1>10 DEF Errors!Fold, Errors!Moves, Errors!Rest
    <2> QED BY <1>1, <1>10, <2>1, CountsFold, CountsParts
<1>11. ASSUME NEW r \in Failing, Errors!Create(r) PROVE Errors!CountsInv'
    <2>1. CountsTyped'
        BY <1>5, <1>11 DEF Errors!Create, Errors!Moves
    <2> QED BY <1>1, <1>11, <2>1, CountsCreate, CountsParts
<1>12. ASSUME NEW r \in Failing, Errors!Count(r) \/ Errors!FindOldest(r) \/ Errors!Fail(r) PROVE Errors!CountsInv'
    <2>1. PICK c : y4' = [y4 EXCEPT ![r] = c] /\ c.at \notin {"find", "create", "fold"}
        BY <1>12 DEF Errors!Count, Errors!FindOldest, Errors!Fail, Errors!Moves, Errors!Rest
    <2>2. y1' = y1 /\ y2' = y2 /\ y5' = y5
        BY <1>12 DEF Errors!Count, Errors!FindOldest, Errors!Fail
    <2> QED BY <2>1, <2>2, <1>7
<1>13. ASSUME NEW r \in Failing, Errors!Prune(r) PROVE Errors!CountsInv'
    <2>1. y4' = [y4 EXCEPT ![r] = Errors!Rest] /\ Errors!Rest.at = "rest"
        BY <1>13 DEF Errors!Prune, Errors!Moves, Errors!Rest
    <2>2. y2' = y2 /\ y5' = y5 /\ DOMAIN y1' \subseteq DOMAIN y1 /\ \A i \in DOMAIN y1' : y1'[i] = y1[i]
        BY <1>13 DEF Errors!Prune, Errors!Minus
    <2> QED BY <2>1, <2>2, <1>7
<1> QED BY <1>6, <1>8, <1>9, <1>10, <1>11, <1>12, <1>13 DEF Errors!Next

LEMMA CountsInit == Errors!Init => Errors!CountsInv
<1> SUFFICES ASSUME Errors!Init PROVE Errors!CountsInv
    OBVIOUS
<1>1. y1 = << >> /\ y2 = 0 /\ y3 = 0 /\ y7 = 0 /\ y4 = [r \in Failing |-> Errors!Rest]
      /\ y5 = [o \in Org |-> [f \in Fault |-> 0]]
    BY DEF Errors!Init
<1>2. Errors!Rest \in Errors!Capture /\ Errors!Rest.at = "rest"
    BY DEF Errors!Rest, Errors!Capture
<1>3. CountsTyped
    BY <1>1, <1>2 DEF CountsTyped, Errors!TypeOK
<1>4. ASSUME NEW o \in Org, NEW f \in Fault PROVE CountsOwed(o, f)
    <2>1. Errors!Owing(o, f) = {}
        BY <1>1, <1>2 DEF Errors!Owing
    <2>2. Errors!Told(o, f) = 0
        <3> DEFINE g == [i \in 1..0 |-> CountOf(y1, i, o, f)]
        <3>1. 0 \in Nat /\ \A i \in 1..0 : g[i] \in Int
            OBVIOUS
        <3>2. CountsOf(y1, 0, o, f) = Summed(g, 0)
            BY DEF CountsOf
        <3> HIDE DEF g
        <3>3. PICK s : AddsUp(s, g, 0) /\ Summed(g, 0) = s[0]
            BY <3>1, SumIs
        <3> QED BY <1>1, <3>2, <3>3, ErrorsTold DEF AddsUp
    <2>3. Cardinality(Errors!Owing(o, f)) = 0
        BY <2>1, FS_EmptySet
    <2> QED BY <1>1, <2>2, <2>3 DEF CountsOwed
<1> QED BY <1>3, <1>4, CountsParts

LEMMA CountsHold == Errors!CountsInv => Errors!CountsItsOwn
<1> SUFFICES ASSUME Errors!CountsInv, NEW o \in Org, NEW f \in Fault PROVE Errors!Told(o, f) <= y5[o][f]
    BY DEF Errors!CountsItsOwn
<1>1. CountsTyped /\ CountsOwed(o, f)
    BY CountsParts
<1>2. Errors!Told(o, f) \in Nat
    BY <1>1, CountsRows, CountsNat, ErrorsTold
<1>3. Cardinality(Errors!Owing(o, f)) \in Nat /\ y5[o][f] \in Nat
    BY <1>1, OwingFinite DEF CountsTyped
<1> QED BY <1>1, <1>2, <1>3 DEF CountsOwed

-----------------------------------------------------------------------------
(***************************************************************************)
(* All of them: a step of the run is a step of the one machine it is of.    *)
(***************************************************************************)
MachinesHold ==
    /\ desk = "Pool" => Pool!IInv
    /\ desk = "Review" => Review!IInv
    /\ desk = "Reports" => Reports!IInv
    /\ desk = "Errors" => Errors!IInv /\ Errors!CountsInv
    /\ desk = "Tiles" => Tiles!IInv
    /\ desk = "Editor" => Editor!IInv
    /\ desk = "Evidence" => Evidence!IInv

LEMMA MachinesInit == ValuationInit \/ ValuationIdle => MachinesHold
    BY PoolInit, ReviewInit, ReportsInit, ErrorsInit, CountsInit, TilesInit, EditorInit, EvidenceInit
    DEF ValuationInit, ValuationIdle, MachinesHold

LEMMA MachinesStep ==
    ASSUME MachinesHold, [ValuationNext]_valuation
    PROVE  MachinesHold'
<1>1. desk' = desk
    BY DEF ValuationNext, valuation
<1>2. CASE desk = "Pool"
    <2>1. Pool!IInv /\ [Pool!Next]_(Pool!vars)
        BY <1>2 DEF MachinesHold, ValuationNext, valuation, places, Pool!vars
    <2> QED BY <1>1, <1>2, <2>1, PoolStep DEF MachinesHold
<1>3. CASE desk = "Review"
    <2>1. Review!IInv /\ [Review!Next]_(Review!vars)
        BY <1>3 DEF MachinesHold, ValuationNext, valuation, places, Review!vars
    <2> QED BY <1>1, <1>3, <2>1, ReviewStep DEF MachinesHold
<1>4. CASE desk = "Reports"
    <2>1. Reports!IInv /\ [Reports!Next]_(Reports!vars)
        BY <1>4 DEF MachinesHold, ValuationNext, valuation, places, Reports!vars
    <2> QED BY <1>1, <1>4, <2>1, ReportsStep DEF MachinesHold
<1>5. CASE desk = "Errors"
    <2>1. Errors!IInv /\ Errors!CountsInv /\ [Errors!Next]_(Errors!vars)
        BY <1>5 DEF MachinesHold, ValuationNext, valuation, places, Errors!vars
    <2>2. Errors!IInv'
        BY <2>1, ErrorsStep
    <2>3. Errors!CountsInv'
        BY <2>1, <2>2, CountsStep DEF Errors!IInv
    <2> QED BY <1>1, <1>5, <2>2, <2>3 DEF MachinesHold
<1>6. CASE desk = "Editor"
    <2>1. Editor!IInv /\ [Editor!Next]_(Editor!vars)
        BY <1>6 DEF MachinesHold, ValuationNext, valuation, places, Editor!vars
    <2> QED BY <1>1, <1>6, <2>1, EditorStep DEF MachinesHold
<1>7. CASE desk = "Evidence"
    <2>1. Evidence!IInv /\ [Evidence!Next]_(Evidence!vars)
        BY <1>7 DEF MachinesHold, ValuationNext, valuation, places, Evidence!vars
    <2> QED BY <1>1, <1>7, <2>1, EvidenceStep DEF MachinesHold
<1>8. CASE desk = "Tiles"
    <2>1. Tiles!IInv /\ [Tiles!Next]_(Tiles!vars)
        BY <1>8 DEF MachinesHold, ValuationNext, valuation, places, Tiles!vars
    <2> QED BY <1>1, <1>8, <2>1, TilesStep DEF MachinesHold
<1> QED BY <1>1, <1>2, <1>3, <1>4, <1>5, <1>6, <1>7, <1>8 DEF MachinesHold

-----------------------------------------------------------------------------
\* No point that a firm gave before it withdrew its consent is left in the pool, whatever was being
\* filed, moved or approved meanwhile (setContribution, benchmarks.ts).
THEOREM WithdrawalHolds == ValuationSpec => []WithdrawalReachesAll
<1>1. MachinesHold => WithdrawalReachesAll
    BY DEF MachinesHold, WithdrawalReachesAll, Pool!IInv
<1> QED BY MachinesInit, MachinesStep, <1>1, PTL DEF ValuationSpec

\* A source review is recorded of the very result somebody accepted, however many answers come back
\* between the tick and the save (onOpenFull, AutoAppraisal.tsx).
THEOREM ReviewsWereAccepted == ValuationSpec => []AcceptedIsRecorded
<1>1. MachinesHold => AcceptedIsRecorded
    BY DEF MachinesHold, AcceptedIsRecorded, Review!IInv
<1> QED BY MachinesInit, MachinesStep, <1>1, PTL DEF ValuationSpec

\* The slots of renders are counted as they are held, and the log of faults comes down to its bound,
\* for any bounds and any number of renders and captures (report.ts, errors.ts).
THEOREM BoundsAreKept == ValuationSpec => []BoundsHold
<1>1. MachinesHold => BoundsHold
    BY ReportsHold, ErrorsHold DEF MachinesHold, BoundsHold
<1> QED BY MachinesInit, MachinesStep, <1>1, PTL DEF ValuationSpec

\* An editor that says "Saved" shows what was written under the stamp it will send back, no answer takes an
\* edit that nobody saved, a matching review is of the inputs on the screen; and a grid of evidence writes no
\* column but what its person typed, and applies what was on the screen (DevelopmentAppraisal.tsx, Comparables.tsx).
THEOREM EditorTells == ValuationSpec => []EditorSound
<1>1. MachinesHold => EditorSound
    BY EditorTrue DEF MachinesHold, EditorSound, Evidence!IInv, Evidence!EvidenceSound
<1> QED BY MachinesInit, MachinesStep, <1>1, PTL DEF ValuationSpec

\* What is added up adds up: the images held fit their bound for any sizes and however many are fetched twice at
\* once, though the count of them runs ahead; and the log tells a workspace of no fault more often than it occurred
\* there, whichever captures fail on the way (remember, tiles.ts; captureError, errors.ts).
THEOREM WhatIsAddedUp == ValuationSpec => []CountsAddUp
<1>1. MachinesHold => CountsAddUp
    BY CountsHold DEF MachinesHold, CountsAddUp, Tiles!IInv
<1> QED BY MachinesInit, MachinesStep, <1>1, PTL DEF ValuationSpec
-----------------------------------------------------------------------------
(***************************************************************************)
(* A sum of DevelopmentFigures or PortfolioFigures is a fold of the library *)
(* over a set, a function somebody chose that takes one element after       *)
(* another: there is one, it takes them in any order, and over 1..n it is    *)
(* the sum that is added month by month, which can be reasoned about one    *)
(* month at a time.                                                         *)
(***************************************************************************)

Pick(s) == CHOOSE x \in s : TRUE
Fold(it, f, s) == IF s = {} THEN 0 ELSE f[Pick(s)] + it[s \ {Pick(s)}]
IsFold(it, f) == it = [s \in SUBSET DOMAIN f |-> Fold(it, f, s)]
Small(f, k) == {s \in SUBSET DOMAIN f : Cardinality(s) <= k}
FoldsUpTo(it, f, k) == it \in [Small(f, k) -> Int] /\ \A s \in Small(f, k) : it[s] = Fold(it, f, s)
AllFolds(it, f) == \A s \in SUBSET DOMAIN f : it[s] \in Int /\ it[s] = Fold(it, f, s)
Numbers(f) == IsFiniteSet(DOMAIN f) /\ \A x \in DOMAIN f : f[x] \in Int

LEMMA FoldOf == \A f : Dev!SumOver(f) = (CHOOSE it : IsFold(it, f))[DOMAIN f]
    BY Zenon DEF Dev!SumOver, Dev!MapThenSumSet, Dev!MapThenFoldSet, IsFold, Fold, Pick

LEMMA FoldSizes ==
    ASSUME NEW f, Numbers(f), NEW s, s \subseteq DOMAIN f
    PROVE  /\ Cardinality(s) \in Nat /\ Cardinality(s) <= Cardinality(DOMAIN f)
           /\ Cardinality(DOMAIN f) \in Nat
           /\ s # {} => Pick(s) \in s
           /\ \A x \in s : s \ {x} \subseteq DOMAIN f /\ Cardinality(s \ {x}) = Cardinality(s) - 1
<1>1. IsFiniteSet(DOMAIN f) /\ IsFiniteSet(s) /\ Cardinality(s) <= Cardinality(DOMAIN f)
    BY FS_Subset DEF Numbers
<1>2. Cardinality(s) \in Nat /\ Cardinality(DOMAIN f) \in Nat
    BY <1>1, FS_CardinalityType
<1>3. \A x \in s : Cardinality(s \ {x}) = Cardinality(s) - 1
    BY <1>1, FS_RemoveElement
<1>4. s # {} => Pick(s) \in s
    BY DEF Pick
<1> QED BY <1>1, <1>2, <1>3, <1>4

LEMMA FoldExists ==
    ASSUME NEW f, Numbers(f), NEW k \in Nat
    PROVE  \E it : FoldsUpTo(it, f, k)
<1> DEFINE B == {n \in Nat : ~ \E it : FoldsUpTo(it, f, n)}
<1>1. ASSUME B # {} PROVE FALSE
    <2>1. PICK m \in B : \A y \in B : m <= y
        <3>1. B \subseteq Nat
            OBVIOUS
        <3> HIDE DEF B
        <3> QED BY <1>1, <3>1, LeastOf
    <2>2. m # 0
        <3> DEFINE z == [s \in Small(f, 0) |-> 0]
        <3>1. \A s \in Small(f, 0) : s = {}
            <4> SUFFICES ASSUME NEW s \in Small(f, 0) PROVE s = {}
                OBVIOUS
            <4>1. IsFiniteSet(s) /\ Cardinality(s) \in Nat /\ Cardinality(s) <= 0
                BY FoldSizes, FS_Subset DEF Small, Numbers
            <4> QED BY <4>1, FS_EmptySet
        <3>2. FoldsUpTo(z, f, 0)
            BY <3>1 DEF FoldsUpTo, Fold
        <3> HIDE DEF z
        <3> QED BY <3>2, <2>1
    <2>3. m \in Nat /\ m - 1 \in Nat /\ m - 1 \notin B
        BY <2>1, <2>2
    <2>4. PICK it : FoldsUpTo(it, f, m - 1)
        BY <2>3
    <2> DEFINE t == [s \in Small(f, m) |-> Fold(it, f, s)]
    <2>5. ASSUME NEW s \in Small(f, m), s # {}
          PROVE  Pick(s) \in DOMAIN f /\ s \ {Pick(s)} \in Small(f, m - 1) /\ s \ {Pick(s)} \in Small(f, m)
        <3>1. s \subseteq DOMAIN f /\ Cardinality(s) <= m
            BY DEF Small
        <3>2. /\ Pick(s) \in s /\ Cardinality(s) \in Nat /\ s \ {Pick(s)} \subseteq DOMAIN f
              /\ Cardinality(s \ {Pick(s)}) = Cardinality(s) - 1
            BY <2>5, <3>1, FoldSizes
        <3>3. Cardinality(s \ {Pick(s)}) <= m - 1 /\ Cardinality(s \ {Pick(s)}) <= m
            BY <3>1, <3>2, <2>3
        <3> QED BY <3>1, <3>2, <3>3 DEF Small
    <2>6. t \in [Small(f, m) -> Int]
        <3>1. ASSUME NEW s \in Small(f, m) PROVE Fold(it, f, s) \in Int
            <4>1. CASE s = {}
                BY <4>1 DEF Fold
            <4>2. CASE s # {}
                <5>1. f[Pick(s)] \in Int /\ it[s \ {Pick(s)}] \in Int
                    BY <4>2, <2>4, <2>5 DEF Numbers, FoldsUpTo
                <5> QED BY <4>2, <5>1 DEF Fold
            <4> QED BY <4>1, <4>2
        <3> QED BY <3>1
    <2>7. ASSUME NEW s \in Small(f, m - 1) PROVE s \in Small(f, m) /\ t[s] = it[s]
        <3>1. s \in Small(f, m)
            <4>1. s \subseteq DOMAIN f /\ Cardinality(s) <= m - 1
                BY DEF Small
            <4>2. Cardinality(s) \in Nat
                BY <4>1, FoldSizes
            <4> QED BY <4>1, <4>2, <2>3 DEF Small
        <3>2. it[s] = Fold(it, f, s)
            BY <2>4 DEF FoldsUpTo
        <3> QED BY <3>1, <3>2
    <2>8. ASSUME NEW s \in Small(f, m) PROVE t[s] = Fold(t, f, s)
        <3>1. t[s] = Fold(it, f, s)
            OBVIOUS
        <3>2. s # {} => t[s \ {Pick(s)}] = it[s \ {Pick(s)}]
            BY <2>5, <2>7
        <3> HIDE DEF t
        <3> QED BY <3>1, <3>2 DEF Fold
    <2> HIDE DEF t
    <2>9. FoldsUpTo(t, f, m)
        BY <2>6, <2>8 DEF FoldsUpTo
    <2> QED BY <2>9, <2>1
<1> QED BY <1>1

\* A fold adds the numbers of every subset, and there is one.
LEMMA FoldThere ==
    ASSUME NEW f, Numbers(f)
    PROVE  \E it : IsFold(it, f) /\ AllFolds(it, f)
<1> DEFINE n == Cardinality(DOMAIN f)
<1>1. n \in Nat /\ Small(f, n) = SUBSET DOMAIN f
    BY FoldSizes DEF Small
<1>2. PICK it : FoldsUpTo(it, f, n)
    BY <1>1, FoldExists
<1>3. it \in [SUBSET DOMAIN f -> Int] /\ \A s \in SUBSET DOMAIN f : it[s] = Fold(it, f, s)
    BY <1>1, <1>2 DEF FoldsUpTo
<1>4. IsFold(it, f)
    BY <1>3 DEF IsFold
<1>5. AllFolds(it, f)
    BY <1>3 DEF AllFolds
<1> QED BY <1>4, <1>5

LEMMA FoldAdds ==
    ASSUME NEW f, Numbers(f), NEW c, IsFold(c, f)
    PROVE  AllFolds(c, f)
<1>1. PICK it : AllFolds(it, f)
    BY FoldThere
<1>3. \A s \in SUBSET DOMAIN f : it[s] \in Int /\ it[s] = Fold(it, f, s)
    BY <1>1 DEF AllFolds
<1>7. \A s \in SUBSET DOMAIN f : c[s] = Fold(c, f, s)
    BY DEF IsFold
<1> DEFINE B == {k \in Nat : \E s \in SUBSET DOMAIN f : Cardinality(s) = k /\ c[s] # it[s]}
<1>8. ASSUME B # {} PROVE FALSE
    <2>1. PICK m \in B : \A y \in B : m <= y
        <3>1. B \subseteq Nat
            OBVIOUS
        <3> HIDE DEF B
        <3> QED BY <1>8, <3>1, LeastOf
    <2>2. PICK s \in SUBSET DOMAIN f : Cardinality(s) = m /\ c[s] # it[s]
        BY <2>1
    <2>3. s # {}
        BY <2>2, <1>3, <1>7 DEF Fold
    <2>4. /\ s \ {Pick(s)} \in SUBSET DOMAIN f /\ Cardinality(s \ {Pick(s)}) = m - 1
          /\ Cardinality(s \ {Pick(s)}) \in Nat
        <3>1. Pick(s) \in s /\ s \subseteq DOMAIN f
            BY <2>3, FoldSizes
        <3>2. s \ {Pick(s)} \subseteq DOMAIN f /\ Cardinality(s \ {Pick(s)}) = m - 1
            BY <2>2, <3>1, FoldSizes
        <3> QED BY <3>2, FoldSizes
    <2>5. m - 1 \notin B /\ m - 1 \in Nat
        BY <2>1, <2>4
    <2>6. c[s \ {Pick(s)}] = it[s \ {Pick(s)}]
        BY <2>4, <2>5
    <2> QED BY <2>2, <2>3, <2>6, <1>3, <1>7 DEF Fold
<1>9. \A s \in SUBSET DOMAIN f : c[s] = it[s]
    BY <1>8, FoldSizes
<1>10. \A s \in SUBSET DOMAIN f : c[s] \in Int
    BY <1>9, <1>3
<1> QED BY <1>7, <1>10 DEF AllFolds

LEMMA FoldIs ==
    ASSUME NEW f, Numbers(f)
    PROVE  \E it : /\ Dev!SumOver(f) = it[DOMAIN f]
                   /\ AllFolds(it, f)
<1> DEFINE c == CHOOSE it : IsFold(it, f)
<1>1. IsFold(c, f)
    <2>1. \E it : IsFold(it, f)
        BY FoldThere
    <2> QED BY <2>1, Zenon
<1>2. Dev!SumOver(f) = c[DOMAIN f]
    BY FoldOf, Zenon
<1> HIDE DEF c
<1>3. AllFolds(c, f)
    BY <1>1, FoldAdds
<1> QED BY <1>2, <1>3

\* It does not matter in which order.
AnyOrder(it, f) == \A s \in SUBSET DOMAIN f : \A x \in s : it[s] = f[x] + it[s \ {x}]

LEMMA FoldTakes ==
    ASSUME NEW f, Numbers(f), NEW it,
           AllFolds(it, f)
    PROVE  AnyOrder(it, f)
<1> DEFINE B == {k \in Nat : \E s \in SUBSET DOMAIN f : Cardinality(s) = k /\ \E x \in s : it[s] # f[x] + it[s \ {x}]}
<1>1. ASSUME B # {} PROVE FALSE
    <2>1. PICK m \in B : \A y \in B : m <= y
        <3>1. B \subseteq Nat
            OBVIOUS
        <3> HIDE DEF B
        <3> QED BY <1>1, <3>1, LeastOf
    <2>2. PICK s \in SUBSET DOMAIN f : Cardinality(s) = m /\ \E x \in s : it[s] # f[x] + it[s \ {x}]
        BY <2>1
    <2>3. PICK x \in s : it[s] # f[x] + it[s \ {x}]
        BY <2>2
    <2> DEFINE p == Pick(s)
    <2>4. p \in s /\ it[s] = f[p] + it[s \ {p}] /\ p # x
        <3>1. s # {} /\ s \subseteq DOMAIN f
            BY <2>3
        <3>2. p \in s
            BY <3>1, FoldSizes
        <3>3. it[s] = f[p] + it[s \ {p}]
            BY <3>1 DEF Fold, AllFolds
        <3> QED BY <3>2, <3>3, <2>3
    <2> HIDE DEF p
    <2>5. ASSUME NEW w \in s
          PROVE  /\ s \ {w} \in SUBSET DOMAIN f /\ \A y \in s \ {w} : it[s \ {w}] = f[y] + it[(s \ {w}) \ {y}]
        <3>1. s \ {w} \subseteq DOMAIN f /\ Cardinality(s \ {w}) = m - 1
            BY <2>2, FoldSizes
        <3>2. Cardinality(s \ {w}) \in Nat
            BY <3>1, FoldSizes
        <3>3. m - 1 \in Nat /\ m - 1 \notin B
            BY <2>1, <3>1, <3>2
        <3>4. \A t \in SUBSET DOMAIN f : Cardinality(t) = m - 1 => \A y \in t : it[t] = f[y] + it[t \ {y}]
            BY <3>3
        <3> QED BY <3>1, <3>4, Zenon
    <2>6. it[s \ {p}] = f[x] + it[(s \ {p}) \ {x}] /\ it[s \ {x}] = f[p] + it[(s \ {x}) \ {p}]
        BY <2>4, <2>5
    <2>7. PICK v : v = it[(s \ {p}) \ {x}] /\ v = it[(s \ {x}) \ {p}]
        <3>1. (s \ {p}) \ {x} = (s \ {x}) \ {p}
            BY Zenon
        <3> QED BY <3>1, Zenon
    <2>8. f[x] \in Int /\ f[p] \in Int /\ v \in Int
        BY <2>4, <2>7 DEF Numbers, AllFolds
    <2> QED BY <2>3, <2>4, <2>6, <2>7, <2>8
<1>2. \A s \in SUBSET DOMAIN f : \A x \in s : it[s] = f[x] + it[s \ {x}]
    <2> SUFFICES ASSUME NEW s \in SUBSET DOMAIN f, NEW x \in s PROVE it[s] = f[x] + it[s \ {x}]
        OBVIOUS
    <2>1. Cardinality(s) \in Nat
        BY FoldSizes
    <2> QED BY <1>1, <2>1
<1> QED BY <1>2 DEF AnyOrder

\* What a fold over 1..n computes is the sum of the n numbers.
LEMMA FoldOfSeries ==
    ASSUME NEW n \in Nat, NEW f, Numbers(f), 1..n \subseteq DOMAIN f, NEW it, AllFolds(it, f)
    PROVE  it[1..n] = Summed(f, n)
<1>1. \A m \in 1..n : f[m] \in Int
    BY DEF Numbers
<1>3. AnyOrder(it, f)
    BY FoldTakes, Zenon
<1> DEFINE c == [m \in 0..n |-> it[1..m]]
<1>4. ASSUME NEW m \in 0..n PROVE 1..m \in SUBSET DOMAIN f /\ c[m] = it[1..m] /\ c[m] \in Int
    BY DEF AllFolds
<1>5. c[0] = 0
    <2>1. 1..0 = {} /\ 0 \in 0..n
        OBVIOUS
    <2>2. it[1..0] = 0
        BY <2>1 DEF Fold, AllFolds
    <2> QED BY <2>1, <2>2
<1>6. ASSUME NEW m \in 1..n PROVE c[m] - c[m - 1] = f[m] /\ c[m] = c[m - 1] + f[m]
    <2>1. m \in 0..n /\ m - 1 \in 0..n /\ m \in 1..m /\ (1..m) \ {m} = 1..(m - 1)
        OBVIOUS
    <2>2. it[1..m] = f[m] + it[1..(m - 1)]
        BY <1>3, <1>4, <2>1 DEF AnyOrder
    <2>3. c[m] = f[m] + c[m - 1] /\ c[m - 1] \in Int
        BY <1>4, <2>1, <2>2
    <2> HIDE DEF c
    <2> QED BY <1>1, <2>3
<1>7. PICK s : AddsUp(s, f, n) /\ Summed(f, n) = s[n]
    BY <1>1, SumIs
<1>8. \A m \in 0..n : c[m] \in Int /\ s[m] \in Int
    BY <1>4, <1>7 DEF AddsUp
<1>9. c[0] = s[0]
    BY <1>5, <1>7 DEF AddsUp
<1>10. c[n] = it[1..n]
    BY <1>4
<1> HIDE DEF c
<1>11. \A m \in 1..n : c[m] - c[m - 1] = s[m] - s[m - 1]
    BY <1>1, <1>6, <1>7 DEF AddsUp
<1>12. c[n] = s[n]
    <2>1. \A m \in 0..n : c[m] = s[m]
        BY <1>8, <1>9, <1>11, Agree, ZenonT(40)
    <2> QED BY <2>1
<1> QED BY <1>7, <1>10, <1>12

LEMMA FoldSums ==
    ASSUME NEW n \in Nat, NEW f, DOMAIN f = 1..n, \A m \in 1..n : f[m] \in Int
    PROVE  Dev!SumOver(f) = Summed(f, n)
<1>1. Numbers(f)
    BY FS_Interval DEF Numbers
<1>2. PICK it : /\ Dev!SumOver(f) = it[DOMAIN f]
                /\ AllFolds(it, f)
    BY <1>1, FoldIs
<1>3. it[1..n] = Summed(f, n)
    <2>1. AllFolds(it, f) /\ 1..n \subseteq DOMAIN f
        BY <1>2
    <2> QED BY <1>1, <2>1, FoldOfSeries, Zenon
<1> QED BY <1>2, <1>3

\* Two sums that start together and rise together are the same.
SameSteps(h, w, n) ==
    /\ \A m \in 0..n : h[m] \in Int /\ w[m] \in Int
    /\ h[0] = w[0] /\ \A m \in 1..n : h[m] - h[m - 1] = w[m] - w[m - 1]

LEMMA Matched == ASSUME NEW n \in Nat, NEW h, NEW w, SameSteps(h, w, n) PROVE \A m \in 0..n : h[m] = w[m]
    BY Agree DEF SameSteps

\* The same with a first number in month 0.
LEMMA FoldSumsFrom0 ==
    ASSUME NEW n \in Nat, NEW f, DOMAIN f = 0..n, \A m \in 0..n : f[m] \in Int
    PROVE  Dev!SumOver(f) = f[0] + Summed(f, n)
<1>1. Numbers(f)
    BY FS_Interval DEF Numbers
<1>2. PICK it : /\ Dev!SumOver(f) = it[DOMAIN f]
                /\ AllFolds(it, f)
    BY <1>1, FoldIs
<1>3. AnyOrder(it, f)
    <2>1. AllFolds(it, f)
        BY <1>2
    <2> QED BY <1>1, <2>1, FoldTakes, Zenon
<1>4. 1..n \subseteq DOMAIN f /\ DOMAIN f \in SUBSET DOMAIN f /\ 0 \in DOMAIN f /\ DOMAIN f \ {0} = 1..n
    OBVIOUS
<1>5. it[1..n] = Summed(f, n)
    <2>1. AllFolds(it, f)
        BY <1>2
    <2> QED BY <1>1, <1>4, <2>1, FoldOfSeries, Zenon
<1>6. it[DOMAIN f] = f[0] + it[DOMAIN f \ {0}]
    BY <1>3, <1>4, Zenon DEF AnyOrder
<1> QED BY <1>2, <1>4, <1>5, <1>6

LEMMA MaxOfTwo == \A x, y \in Int : Dev!Max({x, y}) = IF x >= y THEN x ELSE y
<1> SUFFICES ASSUME NEW x \in Int, NEW y \in Int PROVE Dev!Max({x, y}) = IF x >= y THEN x ELSE y
    OBVIOUS
<1> DEFINE P(z) == z \in {x, y} /\ \A w \in {x, y} : z >= w
           m == IF x >= y THEN x ELSE y
<1>1. P(m) /\ \A z : P(z) => z = m
    OBVIOUS
<1>2. Dev!Max({x, y}) = CHOOSE z \in {x, y} : \A w \in {x, y} : z >= w
    BY Zenon DEF Dev!Max
<1> HIDE DEF m
<1> QED BY <1>1, <1>2

LEMMA MinOfTwo == \A x, y \in Int : Dev!Min({x, y}) = IF x <= y THEN x ELSE y
<1> SUFFICES ASSUME NEW x \in Int, NEW y \in Int PROVE Dev!Min({x, y}) = IF x <= y THEN x ELSE y
    OBVIOUS
<1> DEFINE P(z) == z \in {x, y} /\ \A w \in {x, y} : z <= w
           m == IF x <= y THEN x ELSE y
<1>1. P(m) /\ \A z : P(z) => z = m
    OBVIOUS
<1>2. Dev!Min({x, y}) = CHOOSE z \in {x, y} : \A w \in {x, y} : z <= w
    BY Zenon DEF Dev!Min
<1> HIDE DEF m
<1> QED BY <1>1, <1>2

LEMMA PctNat == ASSUME NEW x \in Nat, NEW p \in Nat PROVE Dev!Pct(x, p) \in Nat
<1>1. PICK h \in Nat, l \in Nat : h = x \div 100 /\ l = x % 100
    OBVIOUS
<1>2. h * p \in Nat /\ l * p \in Nat
    OBVIOUS
<1>3. PICK t \in Nat : t = l * p
    BY <1>2
<1>4. t \div 100 \in Nat
    OBVIOUS
<1>5. Dev!Pct(x, p) = h * p + t \div 100
    BY <1>1, <1>3 DEF Dev!Pct, Dev!Ratio
<1> QED BY <1>2, <1>4, <1>5

LEMMA PctInt == ASSUME NEW x \in Int, NEW p \in Int PROVE Dev!Pct(x, p) \in Int
<1>1. PICK h \in Int, l \in Int : h = x \div 100 /\ l = x % 100
    OBVIOUS
<1>2. h * p \in Int /\ l * p \in Int
    OBVIOUS
<1>3. PICK t \in Int : t = l * p
    BY <1>2
<1>4. t \div 100 \in Int
    OBVIOUS
<1>5. Dev!Pct(x, p) = h * p + t \div 100
    BY <1>1, <1>3 DEF Dev!Pct, Dev!Ratio
<1> QED BY <1>2, <1>4, <1>5

-----------------------------------------------------------------------------
(***************************************************************************)
(* Sums of parts, of nothing and of ones, and the largest of finitely many  *)
(* numbers.                                                                 *)
(***************************************************************************)

LEMMA SumInt ==
    ASSUME NEW n \in Nat, NEW g, \A i \in 1..n : g[i] \in Int
    PROVE  Summed(g, n) \in Int
<1>1. PICK t : AddsUp(t, g, n) /\ Summed(g, n) = t[n]
    BY SumIs
<1>2. n \in 0..n
    OBVIOUS
<1> QED BY <1>1, <1>2 DEF AddsUp

\* How many they are.
LEMMA OnesAdd == ASSUME NEW n \in Nat, NEW g, \A i \in 1..n : g[i] = 1 PROVE Summed(g, n) = n
<1>1. PICK t : AddsUp(t, g, n) /\ Summed(g, n) = t[n]
    BY SumIs, SMTT(15), ZenonT(30)
<1> DEFINE h == [i \in 0..n |-> i]
<1>2. SameSteps(t, h, n)
    <2>1. \A i \in 0..n : t[i] \in Int /\ h[i] = i /\ h[i] \in Int
        BY <1>1 DEF AddsUp
    <2>2. t[0] = 0 /\ 0 \in 0..n
        BY <1>1 DEF AddsUp
    <2>3. \A i \in 1..n : t[i] = t[i - 1] + g[i] /\ i \in 0..n /\ i - 1 \in 0..n
        BY <1>1 DEF AddsUp
    <2> HIDE DEF h
    <2>4. ASSUME NEW i \in 1..n PROVE t[i] - t[i - 1] = h[i] - h[i - 1]
        <3>1. t[i] = t[i - 1] + 1 /\ t[i - 1] \in Int /\ h[i] = i /\ h[i - 1] = i - 1
            BY <2>1, <2>3
        <3> QED BY <3>1
    <2> QED BY <2>1, <2>2, <2>4 DEF SameSteps
<1>3. n \in 0..n /\ h[n] = n
    OBVIOUS
<1> HIDE DEF h
<1>4. t[n] = h[n]
    BY <1>2, <1>3, Matched
<1> QED BY <1>1, <1>3, <1>4

Numbers1(b, c, Q) == /\ b \in [1..c -> Q] /\ \A i, j \in 1..c : i # j => b[i] # b[j]
                     /\ \A k \in Q : \E i \in 1..c : b[i] = k
LEMMA Enumerated ==
    ASSUME NEW Q, IsFiniteSet(Q)
    PROVE  \E c \in Nat : \E b : Numbers1(b, c, Q)
<1>1. PICK c \in Nat : ExistsBijection(1..c, Q)
    BY FS_NatBijection
<1>2. PICK b : b \in Bijection(1..c, Q)
    BY <1>1 DEF ExistsBijection
<1>3. Numbers1(b, c, Q)
    BY <1>2 DEF Bijection, Injection, Surjection, IsInjective, Numbers1
<1> QED BY <1>3

LEMMA ZeroSum == ASSUME NEW n \in Nat, NEW g, \A i \in 1..n : g[i] = 0 PROVE Summed(g, n) = 0
<1>1. PICK t : AddsUp(t, g, n) /\ Summed(g, n) = t[n]
    BY SumIs
<1> DEFINE h == [i \in 0..n |-> 0]
<1>2. SameSteps(t, h, n)
    BY <1>1 DEF SameSteps, AddsUp
<1>3. n \in 0..n /\ h[n] = 0
    OBVIOUS
<1> HIDE DEF h
<1>4. t[n] = h[n]
    BY <1>2, <1>3, Matched
<1> QED BY <1>1, <1>3, <1>4

LEMMA ImageFinite == ASSUME NEW n \in Nat, NEW tag PROVE IsFiniteSet({tag[i] : i \in 1..n})
<1> DEFINE Q == {tag[i] : i \in 1..n}
           f == [i \in 1..n |-> tag[i]]
<1>1. f \in [1..n -> Q] /\ \A k \in Q : \E i \in 1..n : f[i] = k
    OBVIOUS
<1>2. f \in Surjection(1..n, Q)
    BY <1>1 DEF Surjection
<1>3. IsFiniteSet(1..n)
    BY FS_Interval
<1> HIDE DEF Q, f
<1> QED BY <1>2, <1>3, FS_Surjection DEF Q

\* The largest of finitely many numbers, and the smallest.
LEMMA TopOf ==
    ASSUME NEW n \in Nat \ {0}, NEW g, \A i \in 1..n : g[i] \in Int
    PROVE  \E k \in 1..n : \A i \in 1..n : g[i] <= g[k]
<1> DEFINE Top(m, k) == k \in 1..m /\ \A i \in 1..m : g[i] <= g[k]
           B == {m \in 1..n : ~ \E k : Top(m, k)}
<1>1. ASSUME B # {} PROVE FALSE
    <2>1. PICK m \in B : \A y \in B : m <= y
        <3>1. B \subseteq Nat
            OBVIOUS
        <3> HIDE DEF B
        <3> QED BY <1>1, <3>1, LeastOf
    <2>2. m \in 1..n /\ ~ \E k : Top(m, k)
        BY <2>1
    <2>3. CASE m = 1
        <3>1. Top(1, 1)
            OBVIOUS
        <3> QED BY <2>2, <2>3, <3>1
    <2>4. CASE m # 1
        <3>1. m - 1 \in 1..n /\ m - 1 \notin B
            <4>1. m - 1 \in 1..n
                BY <2>2, <2>4
            <4> HIDE DEF B
            <4> QED BY <2>1, <2>2, <4>1
        <3>2. PICK k : Top(m - 1, k)
            BY <3>1
        <3>3. g[k] \in Int /\ g[m] \in Int
            BY <2>2, <3>2
        <3>4. CASE g[m] <= g[k]
            <4>1. Top(m, k)
                BY <2>2, <3>2, <3>4
            <4> QED BY <2>2, <4>1
        <3>5. CASE g[k] < g[m]
            <4>1. ASSUME NEW i \in 1..m PROVE g[i] <= g[m]
                <5>1. CASE i = m
                    BY <3>3, <5>1
                <5>2. CASE i # m
                    <6>1. i \in 1..(m - 1) /\ i \in 1..n
                        BY <2>2, <5>2
                    <6>2. g[i] <= g[k] /\ g[i] \in Int
                        BY <3>2, <6>1
                    <6> QED BY <3>3, <3>5, <6>2
                <5> QED BY <5>1, <5>2
            <4>2. Top(m, m)
                BY <2>2, <4>1
            <4> QED BY <2>2, <4>2
        <3> QED BY <3>3, <3>4, <3>5
    <2> QED BY <2>3, <2>4
<1>2. n \in 1..n
    OBVIOUS
<1> QED BY <1>1, <1>2

LEMMA MaxIs ==
    ASSUME NEW S, IsFiniteSet(S), S # {}, \A x \in S : x \in Int
    PROVE  Pf!Max(S) \in S /\ \A y \in S : y <= Pf!Max(S)
<1>1a. PICK c \in Nat : \E b : Numbers1(b, c, S)
    BY Enumerated
<1>1. PICK b : Numbers1(b, c, S)
    BY <1>1a
<1>2. c \in Nat \ {0} /\ \A i \in 1..c : b[i] \in S /\ b[i] \in Int
    BY <1>1 DEF Numbers1
<1>3. PICK k \in 1..c : \A i \in 1..c : b[i] <= b[k]
    BY <1>2, TopOf
<1>4. b[k] \in S /\ \A y \in S : b[k] >= y
    BY <1>1, <1>2, <1>3 DEF Numbers1
<1>5. Pf!Max(S) = CHOOSE x \in S : \A y \in S : x >= y
    BY Zenon DEF Pf!Max
<1>6. Pf!Max(S) \in S /\ \A y \in S : Pf!Max(S) >= y
    BY <1>4, <1>5, Zenon
<1> QED BY <1>6

\* g is a list of m numbers put after another of n.
InParts(g, k, n, m) ==
    /\ \A i \in 1..(n + m) : g[i] \in Int
    /\ \A i \in 1..m : k[i] = g[n + i]
LEMMA SumParts ==
    ASSUME NEW n \in Nat, NEW m \in Nat, NEW g, NEW k, InParts(g, k, n, m)
    PROVE  Summed(g, n + m) = Summed(g, n) + Summed(k, m)
<1>1. PICK M \in Nat : M = n + m /\ n \in 0..M /\ m = M - n
    OBVIOUS
<1>2. \A i \in 1..M : g[i] \in Int
    BY <1>1 DEF InParts
<1>3. \A i \in 1..(M - n) : k[i] = g[n + i]
    BY <1>1 DEF InParts
<1>4. Summed(g, M) = Summed(g, n) + Summed(k, M - n)
    BY <1>1, <1>2, <1>3, SumSplit, SMTT(15), ZenonT(30)
<1> QED BY <1>1, <1>4

-----------------------------------------------------------------------------
(***************************************************************************)
(* The facility, month by month: the balance is what was drawn and         *)
(* charged, less what the receipts repaid.                                 *)
(***************************************************************************)

\* A month of the facility, from the one before it.
Month == [bal : Nat, intr : Nat, draw : Nat, peak : Nat]
Opened == [bal |-> 0, intr |-> 0, draw |-> 0, peak |-> 0]
Funded(a, constr, rev, last, m) ==
    LET intr == Dev!Pct(last.bal, a.ratePct \div 12)
        draw == Dev!Pct(constr[m], a.ltcPct)
        due == last.bal + intr + draw
        bal == IF rev[m] > 0 THEN due - Dev!Min({rev[m], due}) ELSE due
    IN  [bal |-> bal, intr |-> intr, draw |-> draw, peak |-> Dev!Max({last.peak, bal})]
IsFunding(f, a, constr, rev, n) ==
    f = [m \in 0..n |-> IF m = 0 THEN Opened ELSE Funded(a, constr, rev, f[m - 1], m)]
Funding(a, constr, rev, n) == SubSeq([m \in 1..n |-> (CHOOSE f : IsFunding(f, a, constr, rev, n))[m]], 1, n)

\* Months of costs and receipts, and the terms of a loan.
Months(constr, rev, n) ==
    /\ constr \in Seq(Nat) /\ rev \in Seq(Nat) /\ n \in Nat \ {0} /\ Len(constr) = n /\ Len(rev) = n
Terms(a) == a.ltcPct \in Nat /\ a.ratePct \in Nat

\* What a month does to the balance.
Bears(last, now, received) ==
    /\ now \in Month /\ now.bal <= now.peak /\ last.peak <= now.peak
    /\ now.bal <= last.bal + now.intr + now.draw
    /\ now.bal >= last.bal + now.intr + now.draw - received

LEMMA FundedBears ==
    ASSUME NEW a, NEW constr, NEW rev, NEW n, Months(constr, rev, n), Terms(a), NEW last \in Month, NEW m \in 1..n
    PROVE  Bears(last, Funded(a, constr, rev, last, m), rev[m])
<1>1. constr[m] \in Nat /\ rev[m] \in Nat
    BY DEF Months
<1>2. PICK i \in Nat : i = Dev!Pct(last.bal, a.ratePct \div 12)
    <2>1. a.ratePct \div 12 \in Nat
        BY DEF Terms
    <2> QED BY <2>1, PctNat DEF Month
<1>3. PICK w \in Nat : w = Dev!Pct(constr[m], a.ltcPct)
    BY <1>1, PctNat DEF Terms
<1>4. PICK b, k, v \in Nat : b = last.bal /\ k = last.peak /\ v = rev[m]
    BY <1>1 DEF Month
<1> DEFINE due == b + i + w
           bal == IF v > 0 THEN due - Dev!Min({v, due}) ELSE due
           peak == Dev!Max({k, bal})
<1>5. Funded(a, constr, rev, last, m) = [bal |-> bal, intr |-> i, draw |-> w, peak |-> peak]
    BY <1>2, <1>3, <1>4, Zenon DEF Funded
<1>6. due \in Int
    OBVIOUS
<1>7. bal \in Nat /\ bal <= due /\ bal >= due - v
    <2>1. Dev!Min({v, due}) = IF v <= due THEN v ELSE due
        BY <1>6, MinOfTwo
    <2> QED BY <2>1
<1>8. peak \in Nat /\ bal <= peak /\ k <= peak
    <2> HIDE DEF bal
    <2>1. Dev!Max({k, bal}) = IF k >= bal THEN k ELSE bal
        BY <1>7, MaxOfTwo
    <2> QED BY <1>7, <2>1
<1> HIDE DEF bal, peak
<1> QED BY <1>4, <1>5, <1>7, <1>8 DEF Bears, Month

LEMMA FundingExists ==
    ASSUME NEW a, NEW constr, NEW rev, NEW n, Months(constr, rev, n), Terms(a)
    PROVE  \E f \in [0..n -> Month] : IsFunding(f, a, constr, rev, n)
<1> DEFINE B == {k \in 0..n : ~ \E f \in [0..k -> Month] : IsFunding(f, a, constr, rev, k)}
<1>0. n \in Nat
    BY DEF Months
<1>1. ASSUME B # {} PROVE FALSE
    <2>1. PICK m \in B : \A y \in B : m <= y
        <3>1. B \subseteq Nat
            BY <1>0
        <3> HIDE DEF B
        <3> QED BY <1>1, <3>1, LeastOf
    <2>2. m # 0
        <3> DEFINE z == [j \in 0..0 |-> Opened]
        <3>1. z \in [0..0 -> Month] /\ IsFunding(z, a, constr, rev, 0)
            BY DEF IsFunding, Opened, Month
        <3> HIDE DEF z
        <3> QED BY <3>1, <2>1
    <2>3. m \in 1..n /\ m - 1 \in 0..n /\ m - 1 \notin B
        BY <1>0, <2>1, <2>2
    <2>4. PICK f \in [0..m - 1 -> Month] : IsFunding(f, a, constr, rev, m - 1)
        BY <2>3
    <2>5. f[m - 1] \in Month
        BY <2>3
    <2>6. Funded(a, constr, rev, f[m - 1], m) \in Month
        BY <2>3, <2>5, FundedBears DEF Bears
    <2> DEFINE t == [j \in 0..m |-> IF j = m THEN Funded(a, constr, rev, f[m - 1], m) ELSE f[j]]
    <2>7. t \in [0..m -> Month]
        BY <2>3, <2>6
    <2>8. IsFunding(t, a, constr, rev, m)
        <3>1. ASSUME NEW j \in 0..m PROVE t[j] = IF j = 0 THEN Opened ELSE Funded(a, constr, rev, t[j - 1], j)
            <4>1. CASE j = m
                BY <4>1, <2>3
            <4>2. CASE j # m
                BY <4>2, <2>3, <2>4 DEF IsFunding
            <4> QED BY <4>1, <4>2
        <3> QED BY <3>1, Zenon DEF IsFunding
    <2> QED BY <2>7, <2>8, <2>1
<1>2. n \in 0..n /\ n \notin B
    BY <1>0, <1>1
<1> QED BY <1>2

\* The facility is such a series of months.
IsFacility(f, a, constr, rev, n) ==
    /\ f[0] = Opened
    /\ \A m \in 1..n : f[m] = Funded(a, constr, rev, f[m - 1], m) /\ Dev!Facility(a, constr, rev)[m] = f[m]
    /\ \A m \in 0..n : f[m] \in Month

LEMMA FacilityIs ==
    ASSUME NEW a, NEW constr, NEW rev, NEW n, Months(constr, rev, n), Terms(a)
    PROVE  \E f : IsFacility(f, a, constr, rev, n)
<1> DEFINE c == CHOOSE f : IsFunding(f, a, constr, rev, n)
<1>1. PICK f \in [0..n -> Month] : IsFunding(f, a, constr, rev, n)
    BY FundingExists
<1>2. IsFunding(c, a, constr, rev, n)
    BY <1>1, Zenon
<1>3. n \in Nat /\ Len(constr) = n
    BY DEF Months
<1>4. Dev!Facility(a, constr, rev) = SubSeq([m \in 1..n |-> c[m]], 1, n)
    <2>1. Dev!Facility(a, constr, rev) = Funding(a, constr, rev, Len(constr))
        BY Zenon DEF Dev!Facility, Dev!Series, Funding, IsFunding, Funded, Opened
    <2>2. Dev!Facility(a, constr, rev) = Funding(a, constr, rev, n)
        BY <1>3, <2>1, Zenon
    <2> QED BY <2>2, Zenon DEF Funding
<1> HIDE DEF c
<1>5. c[0] = Opened /\ \A m \in 1..n : c[m] = Funded(a, constr, rev, c[m - 1], m)
    BY <1>2, <1>3 DEF IsFunding
<1>6. \A m \in 0..n : c[m] = f[m]
    <2> DEFINE B == {m \in 0..n : c[m] # f[m]}
    <2>1. ASSUME B # {} PROVE FALSE
        <3>1. B \subseteq Nat
            BY <1>3
        <3>2. PICK m \in B : \A y \in B : m <= y
            <4> HIDE DEF B
            <4> QED BY <3>1, <2>1, LeastOf
        <3>3. m # 0
            BY <1>1, <1>3, <1>5 DEF IsFunding
        <3>4. m - 1 \in 0..n /\ m - 1 \notin B
            BY <1>3, <3>2, <3>3
        <3> QED BY <1>1, <1>3, <1>5, <3>2, <3>3, <3>4 DEF IsFunding
    <2> QED BY <2>1
<1>7. \A m \in 0..n : c[m] \in Month
    BY <1>1, <1>6
<1>8. \A m \in 1..n : SubSeq([j \in 1..n |-> c[j]], 1, n)[m] = c[m]
    BY <1>3
<1>9. IsFacility(c, a, constr, rev, n)
    BY <1>4, <1>5, <1>7, <1>8 DEF IsFacility
<1> QED BY <1>9

LEMMA FacilityCovers ==
    ASSUME NEW a, Terms(a), NEW constr, NEW rev, NEW s, Months(constr, rev, s.total)
    PROVE  Dev!FacilityCoversBalance(Dev!Solved(a, s, constr, rev, Dev!Facility(a, constr, rev)))
<1> DEFINE n == s.total
           f == Dev!Facility(a, constr, rev)
           r == Dev!Solved(a, s, constr, rev, f)
           D == [m \in 1..n |-> f[m].draw]
           I == [m \in 1..n |-> f[m].intr]
<1>1. /\ r.constr = constr /\ r.rev = rev /\ r.f = f /\ r.facility = f[n].peak
      /\ r.interest = Dev!SumOver(I) /\ r.drawn = Dev!SumOver(D)
    BY DEF Dev!Solved
<1>2. n \in Nat \ {0} /\ DOMAIN constr = 1..n /\ DOMAIN rev = 1..n /\ Len(constr) = n /\ \A m \in 1..n : rev[m] \in Nat
    BY DEF Months
<1>3. PICK g : /\ g[0] = Opened
               /\ \A m \in 1..n : g[m] = Funded(a, constr, rev, g[m - 1], m) /\ f[m] = g[m]
               /\ \A m \in 0..n : g[m] \in Month
    <2>1. Months(constr, rev, n)
        OBVIOUS
    <2> HIDE DEF n, f, r, D, I
    <2>2. PICK g : IsFacility(g, a, constr, rev, n)
        BY <2>1, FacilityIs
    <2>3. \A m \in 1..n : f[m] = Dev!Facility(a, constr, rev)[m]
        BY DEF f
    <2> QED BY <2>2, <2>3 DEF IsFacility
<1> HIDE DEF n, f, r
<1>4. \A m \in 1..n : Bears(g[m - 1], g[m], rev[m])
    <2> SUFFICES ASSUME NEW m \in 1..n PROVE Bears(g[m - 1], g[m], rev[m])
        OBVIOUS
    <2>1. m - 1 \in 0..n
        BY <1>2
    <2> QED BY <1>3, <2>1, FundedBears DEF n
<1>5. \A m \in 0..n : g[m].bal \in Nat /\ g[m].peak \in Nat /\ g[m].intr \in Nat /\ g[m].draw \in Nat /\ g[m].bal <= g[m].peak
    <2> SUFFICES ASSUME NEW m \in 0..n
                 PROVE  g[m].bal \in Nat /\ g[m].peak \in Nat /\ g[m].intr \in Nat /\ g[m].draw \in Nat /\ g[m].bal <= g[m].peak
        OBVIOUS
    <2>1. m = 0 \/ m \in 1..n
        BY <1>2
    <2> QED BY <2>1, <1>3, <1>4 DEF Bears, Opened, Month
\* The peak is the highest of the balances.
<1>6. ASSUME NEW m \in 1..n PROVE f[m].bal \in 0..f[n].peak
    <2> DEFINE B == {k \in Nat : m + k \in 1..n /\ ~ (g[m].bal <= g[m + k].peak)}
    <2>1. ASSUME B # {} PROVE FALSE
        <3>1. B \subseteq Nat
            OBVIOUS
        <3>2. PICK k \in B : \A y \in B : k <= y
            <4> HIDE DEF B
            <4> QED BY <3>1, <2>1, LeastOf
        <3>3. k # 0
            BY <1>5
        <3>4. k - 1 \in Nat /\ m + k \in 1..n /\ m + (k - 1) = m + k - 1 /\ m + (k - 1) \in 1..n /\ k - 1 \notin B
            <4>1. k \in Nat \ {0} /\ m + k \in 1..n
                BY <3>2, <3>3
            <4>2. k - 1 \notin B
                <5>1. k \in B /\ k - 1 < k
                    BY <3>2, <4>1
                <5> HIDE DEF B
                <5> QED BY <3>2, <4>1, <5>1
            <4> HIDE DEF B
            <4>3. m + (k - 1) = m + k - 1 /\ m + (k - 1) \in 1..n /\ k - 1 \in Nat
                BY <1>2, <4>1
            <4> QED BY <4>1, <4>2, <4>3
        <3>5. g[m].bal <= g[m + k - 1].peak
            BY <3>4
        <3>6. g[m + k - 1].peak <= g[m + k].peak
            BY <1>4, <3>4 DEF Bears
        <3>7. g[m].bal \in Nat /\ g[m + k].peak \in Nat /\ g[m + k - 1].peak \in Nat
            <4>1. m \in 0..n /\ m + k \in 0..n /\ m + k - 1 \in 0..n
                BY <1>2, <3>4
            <4> QED BY <1>5, <4>1
        <3>8. ~(g[m].bal <= g[m + k].peak)
            BY <3>2
        <3> QED BY <3>5, <3>6, <3>7, <3>8
    <2>2. n - m \in Nat /\ m + (n - m) = n /\ n \in 1..n /\ m \in 0..n /\ n \in 0..n
        BY <1>2
    <2>3. g[m].bal <= g[n].peak
        <3>1. n - m \notin B
            BY <2>1
        <3> QED BY <2>2, <3>1
    <2> QED BY <1>3, <1>5, <2>2, <2>3
\* What is owed is no more than was drawn and charged.
<1>7. ASSUME NEW m \in 1..n PROVE f[m].bal <= Dev!SumOver([k \in 1..m |-> f[k].draw + f[k].intr])
    <2> DEFINE w == [k \in 1..m |-> f[k].draw + f[k].intr]
               bal == [k \in 0..m |-> g[k].bal]
    <2>1. m \in Nat /\ (\A k \in 1..m : k \in 1..n /\ k \in 0..n /\ k - 1 \in 0..n) /\ \A k \in 0..m : k \in 0..n
        BY <1>2
    <2>2. \A k \in 1..m : w[k] = g[k].draw + g[k].intr /\ w[k] \in Int
        BY <1>3, <1>5, <2>1
    <2>3. DOMAIN w = 1..m
        OBVIOUS
    <2>4. \A k \in 0..m : bal[k] = g[k].bal /\ bal[k] \in Int
        BY <1>5, <2>1
    <2> HIDE DEF w, bal
    <2>5. Dev!SumOver(w) = Summed(w, m)
        BY <2>1, <2>2, <2>3, FoldSums
    <2>6. PICK t : AddsUp(t, w, m) /\ Summed(w, m) = t[m]
        BY <2>1, <2>2, SumIs
    <2>7. \A k \in 0..m : bal[k] \in Int /\ t[k] \in Int
        BY <2>4, <2>6 DEF AddsUp
    <2>8. bal[0] <= t[0]
        <3>1. 0 \in 0..m
            BY <2>1
        <3> QED BY <1>3, <2>4, <2>6, <3>1 DEF AddsUp, Opened
    <2>9. \A k \in 1..m : bal[k] - bal[k - 1] <= t[k] - t[k - 1]
        <3> SUFFICES ASSUME NEW k \in 1..m PROVE bal[k] - bal[k - 1] <= t[k] - t[k - 1]
            OBVIOUS
        <3>1. k \in 0..m /\ k - 1 \in 0..m
            BY <2>1
        <3>2. g[k].bal <= g[k - 1].bal + g[k].intr + g[k].draw
            BY <1>4, <2>1 DEF Bears
        <3>3. g[k].bal \in Nat /\ g[k - 1].bal \in Nat /\ g[k].intr \in Nat /\ g[k].draw \in Nat
            BY <1>5, <2>1
        <3>4. t[k] = t[k - 1] + w[k] /\ t[k - 1] \in Int
            BY <2>6 DEF AddsUp
        <3> QED BY <2>2, <2>4, <3>1, <3>2, <3>3, <3>4
    <2>10. \A k \in 0..m : bal[k] <= t[k]
        BY <2>1, <2>7, <2>8, <2>9, Compare
    <2>11. m \in 0..m
        BY <2>1
    <2>12. f[m].bal <= Dev!SumOver(w)
        BY <1>3, <2>4, <2>5, <2>6, <2>10, <2>11
    <2> QED BY <2>12 DEF w
\* It is repaid as far as the receipts reach.
<1>8. f[n].bal >= Dev!SumOver(D) + Dev!SumOver(I) - Dev!SumOver(rev)
    <2>1. /\ n \in Nat /\ n \in 1..n /\ 0 \in 0..n /\ n \in 0..n /\ \A m \in 1..n : m \in 0..n /\ m - 1 \in 0..n
          /\ DOMAIN D = 1..n /\ DOMAIN I = 1..n
        BY <1>2
    <2>2. \A m \in 1..n : D[m] = g[m].draw /\ I[m] = g[m].intr /\ D[m] \in Int /\ I[m] \in Int /\ rev[m] \in Int
        BY <1>2, <1>3, <1>5, <2>1
    <2> HIDE DEF D, I
    <2>3. Dev!SumOver(D) = Summed(D, n) /\ Dev!SumOver(I) = Summed(I, n) /\ Dev!SumOver(rev) = Summed(rev, n)
        <3>1. Dev!SumOver(D) = Summed(D, n)
            BY <2>1, <2>2, FoldSums
        <3>2. Dev!SumOver(I) = Summed(I, n)
            BY <2>1, <2>2, FoldSums
        <3>3. Dev!SumOver(rev) = Summed(rev, n)
            BY <1>2, <2>1, <2>2, FoldSums
        <3> QED BY <3>1, <3>2, <3>3
    <2>4. PICK d : AddsUp(d, D, n) /\ Summed(D, n) = d[n]
        BY <2>1, <2>2, SumIs
    <2>5. PICK i : AddsUp(i, I, n) /\ Summed(I, n) = i[n]
        BY <2>1, <2>2, SumIs
    <2>6. PICK v : AddsUp(v, rev, n) /\ Summed(rev, n) = v[n]
        BY <2>1, <2>2, SumIs
    <2> DEFINE bal == [m \in 0..n |-> g[m].bal]
               owed == [m \in 0..n |-> d[m] + i[m] - v[m]]
    <2>7. \A m \in 0..n : bal[m] = g[m].bal /\ owed[m] = d[m] + i[m] - v[m]
        OBVIOUS
    <2> HIDE DEF bal, owed
    <2>8. \A m \in 0..n : owed[m] \in Int /\ bal[m] \in Int
        BY <1>5, <2>4, <2>5, <2>6, <2>7 DEF AddsUp
    <2>9. owed[0] <= bal[0]
        BY <1>3, <2>1, <2>4, <2>5, <2>6, <2>7 DEF AddsUp, Opened
    <2>10. \A m \in 1..n : owed[m] - owed[m - 1] <= bal[m] - bal[m - 1]
        <3> SUFFICES ASSUME NEW m \in 1..n PROVE owed[m] - owed[m - 1] <= bal[m] - bal[m - 1]
            OBVIOUS
        <3>1. m \in 0..n /\ m - 1 \in 0..n
            BY <2>1
        <3>2. g[m].bal >= g[m - 1].bal + g[m].intr + g[m].draw - rev[m]
            BY <1>4 DEF Bears
        <3>3. g[m].bal \in Nat /\ g[m - 1].bal \in Nat /\ g[m].intr \in Nat /\ g[m].draw \in Nat /\ rev[m] \in Int
            BY <1>5, <2>2, <3>1
        <3>4. /\ d[m] = d[m - 1] + D[m] /\ i[m] = i[m - 1] + I[m] /\ v[m] = v[m - 1] + rev[m]
              /\ d[m - 1] \in Int /\ i[m - 1] \in Int /\ v[m - 1] \in Int
            BY <2>4, <2>5, <2>6 DEF AddsUp
        <3> QED BY <2>2, <2>7, <3>1, <3>2, <3>3, <3>4
    <2>11. \A m \in 0..n : owed[m] <= bal[m]
        BY <2>1, <2>8, <2>9, <2>10, Compare
    <2> QED BY <1>3, <2>1, <2>3, <2>4, <2>5, <2>6, <2>7, <2>11
<1>9. \A m \in DOMAIN r.constr : r.f[m].bal \in 0..r.facility
    BY <1>1, <1>2, <1>6
<1>10. \A m \in DOMAIN r.constr : r.f[m].bal <= Dev!SumOver([k \in 1..m |-> r.f[k].draw + r.f[k].intr])
    BY <1>1, <1>2, <1>7
<1>11. r.f[Len(r.constr)].bal >= r.drawn + r.interest - Dev!SumOver(r.rev)
    BY <1>1, <1>2, <1>8
<1>12. Dev!FacilityCoversBalance(r)
    BY <1>9, <1>10, <1>11, Zenon DEF Dev!FacilityCoversBalance
<1> QED BY <1>12 DEF r, f

-----------------------------------------------------------------------------
(***************************************************************************)
(* The cash pages of an appraisal, each a sum over its months of its own.  *)
(***************************************************************************)

\* What a debt comes down to as receipts serve it.
Served(owed, x) == owed - Dev!Min({x, owed})
IsDebt(debt, rev, n, owed) ==
    debt = [m \in 0..n |-> IF m = 0 THEN owed ELSE Served(debt[m - 1], rev[m])]
Receipts(rev, n) == \A m \in 1..n : rev[m] \in Nat
Left(owed, v) == IF v <= owed THEN owed - v ELSE 0

LEMMA ServedIs == \A d, x \in Int : Served(d, x) = IF x <= d THEN d - x ELSE 0
<1> SUFFICES ASSUME NEW d \in Int, NEW x \in Int PROVE Served(d, x) = IF x <= d THEN d - x ELSE 0
    OBVIOUS
<1>1. Dev!Min({x, d}) = IF x <= d THEN x ELSE d
    BY MinOfTwo
<1>2. PICK k \in Int : k = Dev!Min({x, d}) /\ k = IF x <= d THEN x ELSE d
    BY <1>1
<1>3. Served(d, x) = d - k
    BY <1>2, Zenon DEF Served
<1> QED BY <1>2, <1>3

LEMMA DebtIs ==
    ASSUME NEW n \in Nat, NEW owed \in Nat, NEW rev, Receipts(rev, n), NEW v, AddsUp(v, rev, n),
           NEW debt, IsDebt(debt, rev, n, owed)
    PROVE  \A m \in 0..n : debt[m] = Left(owed, v[m]) /\ debt[m] \in Nat
<1> USE DEF Receipts
<1>1. \A m \in 0..n : v[m] \in Int
    BY DEF AddsUp
<1>2. \A m \in 1..n : v[m] = v[m - 1] + rev[m] /\ v[m - 1] \in Int
    BY DEF AddsUp
<1>3. v[0] = 0 /\ debt[0] = owed
    BY DEF AddsUp, IsDebt
<1>4. \A m \in 1..n : debt[m] = Served(debt[m - 1], rev[m])
    BY DEF IsDebt
<1> DEFINE B == {m \in 0..n : ~(debt[m] = Left(owed, v[m]) /\ debt[m] \in Nat /\ v[m] \in Nat)}
<1>5. ASSUME B # {} PROVE FALSE
    <2>1. B \subseteq Nat
        OBVIOUS
    <2>2. PICK m \in B : \A y \in B : m <= y
        <3> HIDE DEF B
        <3> QED BY <2>1, <1>5, LeastOf
    <2>3. m # 0
        BY <1>3 DEF Left
    <2>4. m \in 1..n /\ m - 1 \in 0..n /\ m - 1 \notin B
        BY <2>2, <2>3
    <2>5. PICK d, w, x \in Nat : d = debt[m - 1] /\ w = v[m - 1] /\ x = rev[m]
        BY <2>4
    <2>6. d = Left(owed, w)
        BY <2>4, <2>5
    <2>7. Served(d, x) = IF x <= d THEN d - x ELSE 0
        BY ServedIs
    <2>8. debt[m] = (IF x <= d THEN d - x ELSE 0) /\ v[m] = w + x
        BY <1>2, <1>4, <2>4, <2>5, <2>7
    <2>9. debt[m] = Left(owed, v[m]) /\ debt[m] \in Nat /\ v[m] \in Nat
        BY <2>6, <2>8 DEF Left
    <2> QED BY <2>2, <2>9
<1> QED BY <1>5

LEMMA DebtExists ==
    ASSUME NEW n \in Nat, NEW owed \in Nat, NEW rev, \A m \in 1..n : rev[m] \in Nat
    PROVE  \E debt : IsDebt(debt, rev, n, owed)
<1>1. PICK v : AddsUp(v, rev, n)
    BY SumIs
<1>2. \A m \in 0..n : v[m] \in Int
    BY <1>1 DEF AddsUp
<1>3. \A m \in 1..n : v[m] = v[m - 1] + rev[m] /\ v[m - 1] \in Int
    BY <1>1 DEF AddsUp
<1>4. v[0] = 0
    BY <1>1 DEF AddsUp
<1> DEFINE z == [m \in 0..n |-> Left(owed, v[m])]
<1>5. ASSUME NEW m \in 1..n PROVE z[m] = Served(z[m - 1], rev[m])
    <2>1. m \in 0..n /\ m - 1 \in 0..n
        OBVIOUS
    <2>2. PICK w, x \in Int : w = v[m - 1] /\ x = rev[m] /\ x \in Nat
        BY <1>3
    <2>3. v[m] = w + x
        BY <1>3, <2>2
    <2>4. z[m] = Left(owed, w + x) /\ z[m - 1] = Left(owed, w)
        BY <2>1, <2>2, <2>3
    <2> HIDE DEF z
    <2>5. PICK d \in Int : d = Left(owed, w)
        BY DEF Left
    <2>6. Served(d, x) = IF x <= d THEN d - x ELSE 0
        BY ServedIs
    <2>7. Left(owed, w + x) = IF x <= d THEN d - x ELSE 0
        <3>1. CASE w <= owed
            BY <2>2, <2>5, <3>1 DEF Left
        <3>2. CASE w > owed
            BY <2>2, <2>5, <3>2 DEF Left
        <3> QED BY <3>1, <3>2
    <2> QED BY <2>2, <2>4, <2>5, <2>6, <2>7
<1>6. z[0] = owed
    BY <1>4 DEF Left
<1>7. z = [m \in 0..n |-> z[m]]
    OBVIOUS
<1> HIDE DEF z
<1>8. ASSUME NEW m \in 0..n PROVE z[m] = IF m = 0 THEN owed ELSE Served(z[m - 1], rev[m])
    BY <1>5, <1>6
<1> DEFINE zz == [m \in 0..n |-> IF m = 0 THEN owed ELSE Served(z[m - 1], rev[m])]
<1>9. z = zz
    BY <1>7, <1>8
<1>10. IsDebt(z, rev, n, owed)
    BY <1>9, Zenon DEF IsDebt
<1> QED BY <1>10

\* The amounts of an appraisal, and the parts of a month's spend the loan and the equity pay.
Amounts(a, s) ==
    /\ a.ltcPct \in 0..100 /\ a.arrangementPct \in Int /\ a.targetPct \in Int
    /\ a.land \in Int /\ a.acqPct \in Nat
    /\ s.gdv \in Int /\ s.saleCosts \in Int
    /\ s.build \in Int /\ s.fees \in Int /\ s.cont \in Int /\ s.other \in Int

Levied(s, f, i) == i \in Int /\ i = Dev!SumOver([m \in 1..s.total |-> f[m].intr]) /\ f[s.total].peak \in Int
Costed(r, s, i) ==
    /\ r.landGross \in Int /\ r.arrangement \in Int /\ r.profit \in Int
    /\ r.totalCost = s.saleCosts + Dev!Construction(s) + i + r.arrangement + r.landGross

LEMMA SolvedIs ==
    ASSUME NEW a, NEW constr, NEW rev, NEW s, NEW f, Amounts(a, s), NEW i, Levied(s, f, i)
    PROVE  Costed(Dev!Solved(a, s, constr, rev, f), s, i)
<1> USE DEF Levied
<1> DEFINE r == Dev!Solved(a, s, constr, rev, f)
<1>1. Dev!Construction(s) \in Int
    BY DEF Dev!Construction, Amounts
<1>2. PICK arrangement \in Int : arrangement = Dev!Pct(f[s.total].peak, a.arrangementPct)
    BY PctInt DEF Amounts
<1>3. PICK target \in Int : target = Dev!Pct(s.gdv, a.targetPct)
    BY PctInt DEF Amounts
<1> DEFINE outlay == s.saleCosts + Dev!Construction(s) + i + arrangement
           residual == IF a.mode = "residual"
                       THEN Dev!Ratio(s.gdv - outlay - target, 100, 100 + a.acqPct) ELSE a.land
           land == Dev!Pct(residual, 100 + a.acqPct)
<1>4. outlay \in Int
    BY <1>1 DEF Amounts
<1>5. residual \in Int
    <2> HIDE DEF outlay
    <2>1. PICK x \in Int, d \in Nat \ {0} : x = s.gdv - outlay - target /\ d = 100 + a.acqPct
        <3>1. s.gdv \in Int /\ a.acqPct \in Nat
            BY DEF Amounts
        <3> QED BY <1>4, <3>1
    <2>2. PICK h \in Int, l \in Int : h = x \div d /\ l = (x % d) * 100
        BY <2>1
    <2>3. l \div d \in Int
        BY <2>1, <2>2
    <2>4. Dev!Ratio(x, 100, d) = h * 100 + l \div d
        BY <2>2, Zenon DEF Dev!Ratio
    <2>5. Dev!Ratio(x, 100, d) \in Int
        BY <2>2, <2>3, <2>4
    <2> QED BY <2>1, <2>5 DEF Amounts
<1>6. land \in Int
    <2> HIDE DEF residual
    <2>1. 100 + a.acqPct \in Int
        BY DEF Amounts
    <2> QED BY <1>5, <2>1, PctInt
<1>7. r = [s |-> s, constr |-> constr, rev |-> rev, f |-> f, facility |-> f[s.total].peak,
           interest |-> i, arrangement |-> arrangement,
           drawn |-> Dev!SumOver([m \in 1..s.total |-> f[m].draw]),
           residualNet |-> residual, landGross |-> land,
           profit |-> IF a.mode = "residual" THEN target ELSE s.gdv - (outlay + land),
           totalCost |-> outlay + land]
    BY <1>2, <1>3 DEF Dev!Solved
<1> HIDE DEF residual, land, r
<1>8. Costed(r, s, i)
    BY <1>4, <1>6, <1>7 DEF Amounts, Costed
<1> QED BY <1>8 DEF r

\* What each page adds up to: n months of r, with the columns of its numbers.
ProjectOf(r, n, v, k) ==
    /\ n \in Nat \ {0} /\ r.s.total = n /\ r.landGross \in Int /\ AddsUp(v, r.rev, n) /\ AddsUp(k, r.constr, n)
    /\ \A m \in 1..n : r.rev[m] \in Nat /\ r.constr[m] \in Int
InterestOf(r, n, I, i) == AddsUp(i, I, n) /\ \A m \in 1..n : I[m] \in Int /\ r.f[m].intr = I[m]
EquityOf(a, r, n, E, e) ==
    AddsUp(e, E, n) /\ \A m \in 1..n : E[m] \in Int /\ E[m] = Dev!Pct(r.constr[m], 100 - a.ltcPct)
Equity(a, r, n, owed) ==
    [m \in 0..n |->
        IF m = 0 THEN -r.landGross
        ELSE r.rev[m] - ((CHOOSE x : IsDebt(x, r.rev, n, owed))[m - 1] - (CHOOSE x : IsDebt(x, r.rev, n, owed))[m])
               - Dev!Pct(r.constr[m], 100 - a.ltcPct)]

LEMMA RowsAdd ==
    ASSUME NEW r, NEW n, NEW v, NEW k, NEW I, NEW i, ProjectOf(r, n, v, k), InterestOf(r, n, I, i)
    PROVE  Dev!SumOver(Dev!cashRows(r)) = v[n] - k[n] - i[n] - r.landGross
<1> USE DEF ProjectOf, InterestOf
<1> DEFINE R == Dev!cashRows(r)
<1>1. PICK land \in Int : land = r.landGross
    OBVIOUS
<1>2. DOMAIN R = 1..n /\ \A m \in 1..n : R[m] = r.rev[m] - (r.constr[m] + (IF m = 1 THEN land ELSE 0)) - I[m]
    BY <1>1 DEF Dev!cashRows
<1> HIDE DEF R
<1>3. \A m \in 1..n : R[m] \in Int
    <2> SUFFICES ASSUME NEW m \in 1..n PROVE R[m] \in Int
        OBVIOUS
    <2>1. PICK x, y, z, l \in Int : x = r.rev[m] /\ y = r.constr[m] /\ z = I[m] /\ l = IF m = 1 THEN land ELSE 0
        OBVIOUS
    <2>2. R[m] = x - (y + l) - z
        BY <1>2, <2>1
    <2> QED BY <2>1, <2>2
<1>4. PICK w : AddsUp(w, R, n) /\ Dev!SumOver(R) = w[n]
    <2>1. PICK w : AddsUp(w, R, n) /\ Summed(R, n) = w[n]
        BY <1>3, SumIs
    <2> QED BY <1>2, <1>3, <2>1, FoldSums
<1> DEFINE h == [m \in 0..n |-> v[m] - k[m] - i[m] - IF m = 0 THEN 0 ELSE land]
<1>5. \A m \in 0..n : v[m] \in Int /\ k[m] \in Int /\ i[m] \in Int /\ w[m] \in Int
    BY <1>4 DEF AddsUp
<1>6. \A m \in 0..n : h[m] = (v[m] - k[m] - i[m] - IF m = 0 THEN 0 ELSE land) /\ h[m] \in Int
    BY <1>1, <1>5
<1> HIDE DEF h
<1>7. \A m \in 1..n : h[m] - h[m - 1] = w[m] - w[m - 1]
    <2> SUFFICES ASSUME NEW m \in 1..n PROVE h[m] - h[m - 1] = w[m] - w[m - 1]
        OBVIOUS
    <2>1. m \in 0..n /\ m - 1 \in 0..n /\ m # 0
        OBVIOUS
    <2>2. v[m] = v[m - 1] + r.rev[m] /\ k[m] = k[m - 1] + r.constr[m] /\ i[m] = i[m - 1] + I[m] /\ w[m] = w[m - 1] + R[m]
        BY <1>4 DEF AddsUp
    <2>3. PICK x, y, z \in Int : x = r.rev[m] /\ y = r.constr[m] /\ z = I[m]
        OBVIOUS
    <2>4. R[m] = x - (y + (IF m = 1 THEN land ELSE 0)) - z
        BY <1>2, <2>3
    <2>5. h[m] = v[m] - k[m] - i[m] - land
        BY <1>6, <2>1
    <2>6. h[m - 1] = v[m - 1] - k[m - 1] - i[m - 1] - IF m = 1 THEN 0 ELSE land
        BY <1>6, <2>1
    <2>7. /\ v[m - 1] \in Int /\ k[m - 1] \in Int /\ i[m - 1] \in Int /\ w[m - 1] \in Int
        BY <1>5, <2>1
    <2> QED BY <1>1, <2>2, <2>3, <2>4, <2>5, <2>6, <2>7, SMTT(15), ZenonT(30)
<1>8. h[0] = w[0]
    BY <1>4, <1>6 DEF AddsUp
<1>9. \A m \in 0..n : h[m] = w[m]
    <2>1. SameSteps(h, w, n)
        BY <1>5, <1>6, <1>7, <1>8 DEF SameSteps
    <2> QED BY <2>1, Matched
<1>10. n \in 0..n /\ n # 0
    OBVIOUS
<1>11. Dev!SumOver(R) = v[n] - k[n] - i[n] - land
    BY <1>4, <1>6, <1>9, <1>10
<1> QED BY <1>1, <1>11 DEF R

LEMMA ProjectAdds ==
    ASSUME NEW r, NEW n, NEW v, NEW k, ProjectOf(r, n, v, k)
    PROVE  Dev!SumOver(Dev!cfU(r)) = v[n] - k[n] - r.landGross
<1> USE DEF ProjectOf
<1> DEFINE R == Dev!cfU(r)
<1>1. PICK land \in Int : land = r.landGross
    OBVIOUS
<1>2. DOMAIN R = 0..n /\ R[0] = -land /\ \A m \in 1..n : R[m] = r.rev[m] - r.constr[m]
    BY <1>1 DEF Dev!cfU
<1> HIDE DEF R
<1>3. \A m \in 0..n : R[m] \in Int
    BY <1>1, <1>2
<1>4. PICK w : AddsUp(w, R, n) /\ Dev!SumOver(R) = R[0] + w[n]
    <2>1. PICK w : AddsUp(w, R, n) /\ Summed(R, n) = w[n]
        BY <1>3, SumIs
    <2> QED BY <1>2, <1>3, <2>1, FoldSumsFrom0
<1> DEFINE h == [m \in 0..n |-> v[m] - k[m]]
<1>5. \A m \in 0..n : v[m] \in Int /\ k[m] \in Int /\ w[m] \in Int
    BY <1>4 DEF AddsUp
<1>6. \A m \in 0..n : h[m] = v[m] - k[m] /\ h[m] \in Int
    BY <1>5
<1> HIDE DEF h
<1>7. \A m \in 1..n : h[m] - h[m - 1] = w[m] - w[m - 1]
    <2> SUFFICES ASSUME NEW m \in 1..n PROVE h[m] - h[m - 1] = w[m] - w[m - 1]
        OBVIOUS
    <2>1. m \in 0..n /\ m - 1 \in 0..n
        OBVIOUS
    <2>2. v[m] = v[m - 1] + r.rev[m] /\ k[m] = k[m - 1] + r.constr[m] /\ w[m] = w[m - 1] + R[m]
        BY <1>4 DEF AddsUp
    <2>3. PICK x, y \in Int : x = r.rev[m] /\ y = r.constr[m] /\ R[m] = x - y
        BY <1>2
    <2>4. v[m - 1] \in Int /\ k[m - 1] \in Int /\ w[m - 1] \in Int
        BY <1>5, <2>1
    <2> QED BY <1>6, <2>1, <2>2, <2>3, <2>4
<1>8. h[0] = w[0]
    BY <1>4, <1>6 DEF AddsUp
<1>9. \A m \in 0..n : h[m] = w[m]
    <2>1. SameSteps(h, w, n)
        BY <1>5, <1>6, <1>7, <1>8 DEF SameSteps
    <2> QED BY <2>1, Matched
<1>10. n \in 0..n
    OBVIOUS
<1>11. Dev!SumOver(R) = v[n] - k[n] - land
    <2>1. Dev!SumOver(R) = -land + (v[n] - k[n])
        BY <1>2, <1>4, <1>6, <1>9, <1>10
    <2> QED BY <1>5, <1>10, <2>1
<1> QED BY <1>1, <1>11 DEF R

LEMMA EquityAdds ==
    ASSUME NEW a, NEW r, NEW n, NEW v, NEW k, NEW E, NEW e, NEW owed \in Nat, ProjectOf(r, n, v, k),
           EquityOf(a, r, n, E, e), owed = r.drawn + r.interest
    PROVE  Dev!SumOver(Dev!cfE(a, r)) = v[n] - (owed - Left(owed, v[n])) - e[n] - r.landGross
<1> USE DEF ProjectOf, EquityOf
<1> DEFINE R == Dev!cfE(a, r)
           debt == CHOOSE x : IsDebt(x, r.rev, n, owed)
<1>1. PICK land \in Int : land = r.landGross
    OBVIOUS
<1>2. IsDebt(debt, r.rev, n, owed)
    <2>1. \E x : IsDebt(x, r.rev, n, owed)
        BY DebtExists
    <2> QED BY <2>1, Zenon
<1>3. R = Equity(a, r, r.s.total, r.drawn + r.interest)
    BY Zenon DEF Dev!cfE, Equity, IsDebt, Served
<1>4. R = Equity(a, r, n, owed)
    BY <1>3, Zenon
<1>5. R = [m \in 0..n |-> IF m = 0 THEN -r.landGross
                           ELSE r.rev[m] - (debt[m - 1] - debt[m]) - Dev!Pct(r.constr[m], 100 - a.ltcPct)]
    BY <1>4, Zenon DEF Equity
<1>6. \A m \in 0..n : debt[m] = Left(owed, v[m]) /\ debt[m] \in Nat
    <2> HIDE DEF debt
    <2>1. n \in Nat /\ Receipts(r.rev, n)
        BY DEF Receipts
    <2> QED BY <1>2, <2>1, DebtIs
<1> HIDE DEF debt
<1>7. DOMAIN R = 0..n /\ R[0] = -land /\ \A m \in 1..n : R[m] = r.rev[m] - (debt[m - 1] - debt[m]) - E[m]
    <2> HIDE DEF R
    <2> QED BY <1>1, <1>5
<1> HIDE DEF R
<1>8. \A m \in 0..n : R[m] \in Int
    <2> SUFFICES ASSUME NEW m \in 0..n PROVE R[m] \in Int
        OBVIOUS
    <2>1. CASE m = 0
        BY <1>1, <1>7, <2>1
    <2>2. CASE m # 0
        <3>1. m \in 1..n /\ m - 1 \in 0..n
            BY <2>2
        <3>2. debt[m] \in Int /\ debt[m - 1] \in Int /\ r.rev[m] \in Int /\ E[m] \in Int
            BY <1>6, <3>1
        <3> QED BY <1>7, <3>1, <3>2, SMTT(15), ZenonT(30)
    <2> QED BY <2>1, <2>2
<1>9. PICK w : AddsUp(w, R, n) /\ Dev!SumOver(R) = R[0] + w[n]
    <2>1. PICK w : AddsUp(w, R, n) /\ Summed(R, n) = w[n]
        BY <1>8, SumIs
    <2>2. n \in Nat /\ DOMAIN R = 0..n
        BY <1>7
    <2>3. Dev!SumOver(R) = R[0] + Summed(R, n)
        BY <1>8, <2>2, FoldSumsFrom0, Zenon
    <2> QED BY <2>1, <2>3
<1> DEFINE h == [m \in 0..n |-> v[m] - (owed - debt[m]) - e[m]]
<1>10. \A m \in 0..n : v[m] \in Int /\ e[m] \in Int /\ w[m] \in Int
    BY <1>9 DEF AddsUp
<1>11. \A m \in 0..n : h[m] = v[m] - (owed - debt[m]) - e[m] /\ h[m] \in Int
    BY <1>6, <1>10
<1> HIDE DEF h
<1>12. \A m \in 1..n : h[m] - h[m - 1] = w[m] - w[m - 1]
    <2> SUFFICES ASSUME NEW m \in 1..n PROVE h[m] - h[m - 1] = w[m] - w[m - 1]
        OBVIOUS
    <2>1. m \in 0..n /\ m - 1 \in 0..n
        OBVIOUS
    <2>2. v[m] = v[m - 1] + r.rev[m] /\ e[m] = e[m - 1] + E[m] /\ w[m] = w[m - 1] + R[m]
        BY <1>9 DEF AddsUp
    <2>3. PICK x, y, b, c \in Int : x = r.rev[m] /\ y = E[m] /\ b = debt[m - 1] /\ c = debt[m]
        BY <1>6, <2>1, SMTT(15), ZenonT(30)
    <2>4. R[m] = x - (b - c) - y
        BY <1>7, <2>3
    <2>5. v[m - 1] \in Int /\ e[m - 1] \in Int /\ w[m - 1] \in Int
        BY <1>10, <2>1
    <2> QED BY <1>11, <2>1, <2>2, <2>3, <2>4, <2>5
<1>13. h[0] = w[0]
    <2>1. v[0] = 0 /\ e[0] = 0 /\ w[0] = 0 /\ 0 \in 0..n
        BY <1>9 DEF AddsUp
    <2>2. debt[0] = owed
        BY <1>2 DEF IsDebt
    <2> QED BY <1>11, <2>1, <2>2
<1>14. \A m \in 0..n : h[m] = w[m]
    <2>1. SameSteps(h, w, n)
        BY <1>10, <1>11, <1>12, <1>13 DEF SameSteps
    <2> QED BY <2>1, Matched
<1>15. n \in 0..n
    OBVIOUS
<1>16. Dev!SumOver(R) = v[n] - (owed - Left(owed, v[n])) - e[n] - land
    <2>1. PICK q \in Int : q = Left(owed, v[n]) /\ q = debt[n]
        BY <1>6, <1>15
    <2>2. Dev!SumOver(R) = -land + (v[n] - (owed - q) - e[n])
        BY <1>7, <1>9, <1>11, <1>14, <1>15, <2>1
    <2> QED BY <1>10, <1>15, <2>1, <2>2
<1> QED BY <1>1, <1>16 DEF R

LEMMA ColumnOf ==
    ASSUME NEW n \in Nat, NEW g, DOMAIN g = 1..n, \A m \in 1..n : g[m] \in Nat
    PROVE  \E v : AddsUp(v, g, n) /\ Dev!SumOver(g) = v[n] /\ v[n] \in Nat
<1>1. PICK v : AddsUp(v, g, n) /\ Summed(g, n) = v[n]
    BY SumIs
<1> QED BY <1>1, SumNat, FoldSums

LEMMA CashPages ==
    ASSUME NEW a, Terms(a), NEW constr, NEW rev, NEW s, Months(constr, rev, s.total), Amounts(a, s),
           NEW r, r = Dev!Solved(a, s, constr, rev, Dev!Facility(a, constr, rev)),
           Dev!SumOver(constr) = Dev!Construction(s), r.profit + r.totalCost = s.gdv,
           \A m \in 1..s.total : Dev!Pct(constr[m], a.ltcPct) + Dev!Pct(constr[m], 100 - a.ltcPct) = constr[m]
    PROVE  Dev!CashReconciles(a, r)
<1> DEFINE n == s.total
           f == Dev!Facility(a, constr, rev)
           D == [m \in 1..n |-> f[m].draw]
           I == [m \in 1..n |-> f[m].intr]
           E == [m \in 1..n |-> Dev!Pct(constr[m], 100 - a.ltcPct)]
<1>1. n \in Nat \ {0} /\ DOMAIN constr = 1..n /\ DOMAIN rev = 1..n /\ \A m \in 1..n : rev[m] \in Nat /\ constr[m] \in Nat
    BY DEF Months
<1>2. PICK g : /\ g[0] = Opened
               /\ \A m \in 1..n : g[m] = Funded(a, constr, rev, g[m - 1], m) /\ f[m] = g[m]
               /\ \A m \in 0..n : g[m] \in Month
    <2>1. Months(constr, rev, n)
        OBVIOUS
    <2> HIDE DEF n, f, D, I, E
    <2>2. PICK g : IsFacility(g, a, constr, rev, n)
        BY <2>1, FacilityIs
    <2>3. \A m \in 1..n : f[m] = Dev!Facility(a, constr, rev)[m]
        BY DEF f
    <2> QED BY <2>2, <2>3 DEF IsFacility
<1> HIDE DEF f
<1>3. \A m \in 1..n : /\ f[m].intr \in Nat /\ f[m].draw \in Nat /\ f[m].peak \in Nat
                       /\ f[m].draw = Dev!Pct(constr[m], a.ltcPct)
    <2> SUFFICES ASSUME NEW m \in 1..n
                 PROVE  /\ f[m].intr \in Nat /\ f[m].draw \in Nat /\ f[m].peak \in Nat
                        /\ f[m].draw = Dev!Pct(constr[m], a.ltcPct)
        OBVIOUS
    <2>1. f[m] \in Month /\ f[m] = Funded(a, constr, rev, g[m - 1], m)
        BY <1>1, <1>2
    <2>2. Funded(a, constr, rev, g[m - 1], m).draw = Dev!Pct(constr[m], a.ltcPct)
        BY DEF Funded
    <2> QED BY <2>1, <2>2 DEF Month
<1>4. \A m \in 1..n : Dev!Pct(constr[m], 100 - a.ltcPct) \in Int
    <2> SUFFICES ASSUME NEW m \in 1..n PROVE Dev!Pct(constr[m], 100 - a.ltcPct) \in Int
        OBVIOUS
    <2>1. PICK p \in Int : p = 100 - a.ltcPct
        BY DEF Amounts
    <2>2. PICK x \in Int : x = constr[m]
        BY <1>1
    <2> QED BY <2>1, <2>2, PctInt
<1> HIDE DEF n
<1>5. PICK v : AddsUp(v, rev, n) /\ Dev!SumOver(rev) = v[n] /\ v[n] \in Nat
    BY <1>1, ColumnOf
<1>6. PICK k : AddsUp(k, constr, n) /\ Dev!SumOver(constr) = k[n] /\ k[n] \in Nat
    BY <1>1, ColumnOf
<1>7. DOMAIN D = 1..n /\ DOMAIN I = 1..n /\ \A m \in 1..n : D[m] = f[m].draw /\ I[m] = f[m].intr /\ D[m] \in Nat /\ I[m] \in Nat
    BY <1>3
<1>8. DOMAIN E = 1..n /\ \A m \in 1..n : E[m] = Dev!Pct(constr[m], 100 - a.ltcPct) /\ E[m] \in Int
    BY <1>4
<1>9. r = Dev!Solved(a, s, constr, rev, f)
    BY DEF f
<1>10. r.s = s /\ r.constr = constr /\ r.rev = rev /\ r.f = f
    BY <1>9 DEF Dev!Solved
<1>11. r.interest = Dev!SumOver(I) /\ r.drawn = Dev!SumOver(D)
    BY <1>9 DEF Dev!Solved, n
<1> HIDE DEF D, I, E
<1>12. PICK d : AddsUp(d, D, n) /\ Dev!SumOver(D) = d[n] /\ d[n] \in Nat
    BY <1>1, <1>7, ColumnOf
<1>13. PICK i : AddsUp(i, I, n) /\ Dev!SumOver(I) = i[n] /\ i[n] \in Nat
    BY <1>1, <1>7, ColumnOf
<1>14. PICK e : AddsUp(e, E, n)
    BY <1>1, <1>8, SumIs
<1>15. f[n].peak \in Int /\ i[n] \in Int /\ i[n] = Dev!SumOver([m \in 1..s.total |-> f[m].intr])
    <2>1. n \in 1..n
        BY <1>1
    <2> QED BY <1>3, <1>13, <2>1 DEF I, n
<1>16. PICK land \in Int, arrangement \in Int :
           /\ land = r.landGross /\ arrangement = r.arrangement /\ r.profit \in Int
           /\ r.totalCost = s.saleCosts + Dev!Construction(s) + i[n] + arrangement + land
    <2>1. Levied(s, f, i[n])
        BY <1>15 DEF Levied, n
    <2>2. Costed(r, s, i[n])
        BY <1>9, <2>1, SolvedIs
    <2> QED BY <2>2 DEF Costed
<1>17. Dev!Construction(s) = k[n]
    BY <1>6
<1>31. ProjectOf(r, n, v, k)
    <2>1. r.s.total = n
        BY <1>10 DEF n
    <2> QED BY <2>1, <1>1, <1>5, <1>6, <1>10, <1>16 DEF ProjectOf
<1> DEFINE page == Dev!cashRows(r)
<1>18. Dev!SumOver(page) = v[n] - k[n] - i[n] - land
    <2>1. InterestOf(r, n, I, i)
        BY <1>7, <1>10, <1>13 DEF InterestOf
    <2>2. Dev!SumOver(page) = v[n] - k[n] - i[n] - r.landGross
        BY <1>31, <2>1, RowsAdd
    <2> QED BY <1>16, <2>2
<1>19. Dev!SumOver(Dev!cfU(r)) = v[n] - k[n] - land
    <2>1. Dev!SumOver(Dev!cfU(r)) = v[n] - k[n] - r.landGross
        BY <1>31, ProjectAdds
    <2> QED BY <1>16, <2>1
<1>20. Dev!SumOver(Dev!cfE(a, r)) = v[n] - ((d[n] + i[n]) - Left(d[n] + i[n], v[n])) - e[n] - land
    <2>1. EquityOf(a, r, n, E, e)
        BY <1>8, <1>10, <1>14 DEF EquityOf
    <2>2. d[n] + i[n] \in Nat /\ d[n] + i[n] = r.drawn + r.interest
        BY <1>11, <1>12, <1>13
    <2>3. PICK owed \in Nat : owed = d[n] + i[n] /\ owed = r.drawn + r.interest
        BY <2>2
    <2>4. Dev!SumOver(Dev!cfE(a, r)) = v[n] - (owed - Left(owed, v[n])) - e[n] - r.landGross
        BY <1>31, <2>1, <2>3, EquityAdds
    <2> QED BY <1>16, <2>3, <2>4
<1>21. k[n] = d[n] + e[n]
    <2> DEFINE h == [m \in 0..n |-> d[m] + e[m]]
    <2>1. \A m \in 0..n : k[m] \in Int /\ d[m] \in Int /\ e[m] \in Int
        BY <1>6, <1>12, <1>14 DEF AddsUp
    <2>2. \A m \in 0..n : h[m] = d[m] + e[m] /\ h[m] \in Int
        BY <2>1
    <2> HIDE DEF h
    <2>3. \A m \in 1..n : h[m] - h[m - 1] = k[m] - k[m - 1]
        <3> SUFFICES ASSUME NEW m \in 1..n PROVE h[m] - h[m - 1] = k[m] - k[m - 1]
            OBVIOUS
        <3>1. m \in 0..n /\ m - 1 \in 0..n
            BY <1>1
        <3>2. D[m] + E[m] = constr[m]
            BY <1>3, <1>7, <1>8 DEF n
        <3>3. /\ k[m] = k[m - 1] + constr[m] /\ d[m] = d[m - 1] + D[m] /\ e[m] = e[m - 1] + E[m]
            BY <1>6, <1>12, <1>14 DEF AddsUp
        <3>4. constr[m] \in Int /\ D[m] \in Int /\ E[m] \in Int
            BY <1>1, <1>7, <1>8
        <3> QED BY <2>1, <2>2, <3>1, <3>2, <3>3, <3>4
    <2>4. h[0] = k[0] /\ 0 \in 0..n /\ n \in 0..n
        BY <1>1, <1>6, <1>12, <1>14, <2>2 DEF AddsUp
    <2>5. \A m \in 0..n : h[m] = k[m]
        <3>1. SameSteps(h, k, n)
            BY <2>1, <2>2, <2>3, <2>4 DEF SameSteps
        <3> QED BY <1>1, <3>1, Matched
    <2> QED BY <2>2, <2>4, <2>5
<1>22. e[n] \in Int
    <2>1. n \in 0..n
        BY <1>1
    <2> QED BY <2>1, <1>14 DEF AddsUp
<1>23. Dev!Min({v[n], d[n] + i[n]}) = (d[n] + i[n]) - Left(d[n] + i[n], v[n])
    <2>1. PICK x, y \in Int : x = v[n] /\ y = d[n] + i[n]
        BY <1>5, <1>12, <1>13
    <2>2. Dev!Min({x, y}) = IF x <= y THEN x ELSE y
        BY MinOfTwo
    <2> QED BY <2>1, <2>2 DEF Left
<1>24. PICK p \in Int, c \in Int : p = r.profit /\ c = r.totalCost /\ p + c = s.gdv
    BY <1>16, <1>17, <1>6, <1>13 DEF Amounts
<1>25. PICK gdv \in Int, sales \in Int : gdv = s.gdv /\ sales = s.saleCosts
    BY DEF Amounts
<1> DEFINE received == Dev!SumOver(r.rev)
           lost == r.s.gdv - r.s.saleCosts - received
           served == Dev!Min({received, r.drawn + r.interest})
<1>26. received = v[n] /\ lost = gdv - sales - v[n] /\ served = Dev!Min({v[n], d[n] + i[n]})
    BY <1>5, <1>10, <1>11, <1>12, <1>13, <1>25
<1> HIDE DEF received, lost, served, page
<1>27. r.profit + r.totalCost = r.s.gdv
    BY <1>10
<1>28. Dev!SumOver(page) = r.profit + r.arrangement - lost
    <2>1. c = sales + k[n] + i[n] + arrangement + land /\ p + c = gdv
        BY <1>16, <1>17, <1>24, <1>25
    <2>2. v[n] \in Int /\ k[n] \in Int /\ i[n] \in Int
        BY <1>5, <1>6, <1>13
    <2>3. v[n] - k[n] - i[n] - land = p + arrangement - (gdv - sales - v[n])
        BY <2>1, <2>2
    <2> QED BY <2>3, <1>16, <1>18, <1>24, <1>26
<1>29. Dev!SumOver(Dev!cfU(r)) = Dev!SumOver(page) + r.interest
    BY <1>5, <1>6, <1>11, <1>13, <1>18, <1>19
<1>30. Dev!SumOver(Dev!cfE(a, r)) = Dev!SumOver(Dev!cfU(r)) + r.drawn - served
    <2>1. PICK q \in Int : q = Left(d[n] + i[n], v[n])
        BY <1>5, <1>12, <1>13 DEF Left
    <2>2. served = (d[n] + i[n]) - q
        <3>1. served = (d[n] + i[n]) - Left(d[n] + i[n], v[n])
            BY <1>23, <1>26, Zenon
        <3> QED BY <2>1, <3>1, Zenon
    <2>3. r.drawn = d[n] /\ d[n] \in Int /\ v[n] \in Int /\ k[n] \in Int /\ i[n] \in Int
        BY <1>5, <1>6, <1>11, <1>12, <1>13
    <2> QED BY <2>1, <2>2, <2>3, <1>19, <1>20, <1>21, <1>22
<1> QED BY <1>27, <1>28, <1>29, <1>30, Zenon DEF Dev!CashReconciles, received, lost, served, page

\* Where the profit is what is left, it and the costs are the value.
LEMMA ProfitIsLeft ==
    ASSUME NEW a, a.mode # "residual", NEW constr, NEW rev, NEW s, NEW f, Amounts(a, s), NEW i, Levied(s, f, i)
    PROVE  Dev!Solved(a, s, constr, rev, f).profit + Dev!Solved(a, s, constr, rev, f).totalCost = s.gdv
<1> DEFINE r == Dev!Solved(a, s, constr, rev, f)
<1>1. r.profit = s.gdv - r.totalCost
    BY DEF Dev!Solved
<1>2. r.totalCost \in Int /\ s.gdv \in Int
    <2>1. Costed(r, s, i)
        BY SolvedIs
    <2>2. s.saleCosts \in Int /\ Dev!Construction(s) \in Int /\ i \in Int
        BY SMTT(30) DEF Amounts, Dev!Construction, Levied
    <2> HIDE DEF r
    <2> QED BY <2>1, <2>2 DEF Costed, Amounts
<1> HIDE DEF r
<1>3. r.profit + r.totalCost = s.gdv
    BY <1>1, <1>2
<1> QED BY <1>3 DEF r

\* A share and its gross: where the division leaves nothing over, grossing the share up gives back the amount.
LEMMA ShareIs ==
    ASSUME NEW x \in Int, NEW d \in Nat \ {0}, ((x * 100) % d) = 0
    PROVE  Dev!Ratio(x, 100, d) \in Int /\ Dev!Ratio(x, 100, d) * d = x * 100
<1>1. PICK q \in Int, l \in Int : q = x \div d /\ l = (x % d) /\ x = d * q + l
    OBVIOUS
<1>2. PICK k \in Int, e \in Int : k = (l * 100) \div d /\ e = ((l * 100) % d) /\ l * 100 = d * k + e /\ 0 <= e /\ e < d
    OBVIOUS
<1>3. PICK h \in Int : x * 100 = d * h
    <2>1. PICK y \in Int : y = x * 100
        OBVIOUS
    <2>2. (y % d) = 0
        BY <2>1
    <2>3. y = d * (y \div d) /\ y \div d \in Int
        BY <2>2
    <2> QED BY <2>1, <2>3
<1>4. e = 0
    <2>1. PICK u \in Int, v \in Int, w \in Int : u = d * q /\ v = d * k /\ w = d * h
        <3>1. \A z \in Int : d * z \in Int
            OBVIOUS
        <3> QED BY <3>1, <1>1, <1>2, <1>3, Zenon
    <2>2. e = w - 100 * u - v
        <3>1. x = u + l /\ l * 100 = v + e /\ x * 100 = w
            BY <1>1, <1>2, <1>3, <2>1
        <3> QED BY <3>1, <2>1, <1>1, <1>2
    <2>3. PICK z \in Int : z = h - 100 * q - k /\ e = d * z
        <3>1. d * (h - 100 * q - k) = w - 100 * u - v
            <4>1. d * (h - 100 * q - k) = d * h - 100 * (d * q) - d * k
                BY <1>1, <1>2, <1>3
            <4> QED BY <4>1, <2>1
        <3>2. PICK z \in Int : z = h - 100 * q - k
            BY <1>1, <1>2, <1>3
        <3> QED BY <2>2, <3>1, <3>2
    <2>4. CASE z >= 1
        <3>1. d * z >= d
            BY <2>4
        <3> QED BY <1>2, <2>3, <3>1
    <2>5. CASE z <= -1
        <3>1. d * z <= -d
            BY <2>5
        <3> QED BY <1>2, <2>3, <3>1
    <2>6. CASE z = 0
        BY <2>3, <2>6
    <2> QED BY <2>3, <2>4, <2>5, <2>6
<1>5. Dev!Ratio(x, 100, d) = q * 100 + k
    BY <1>1, <1>2 DEF Dev!Ratio
<1>6. (q * 100 + k) * d = x * 100
    BY <1>1, <1>2, <1>4
<1> QED BY <1>5, <1>6

LEMMA GrossIs ==
    ASSUME NEW x \in Int, NEW d \in Nat \ {0}, NEW y \in Int, y * d = x * 100
    PROVE  Dev!Pct(y, d) = x
<1>1. PICK h \in Int, l \in Int : h = y \div 100 /\ l = (y % 100) /\ y = 100 * h + l
    OBVIOUS
<1>2. PICK u \in Int, w \in Int : u = h * d /\ w = l * d
    BY <1>1
<1>3. y * d = 100 * u + w
    BY <1>1, <1>2
<1>4. w = 100 * (x - u)
    BY <1>2, <1>3
<1>5. w \div 100 = x - u
    BY <1>2, <1>4
<1> QED BY <1>1, <1>2, <1>5 DEF Dev!Pct, Dev!Ratio

\* What a residual appraisal has left to pay for its land, charges included, when it has taken its profit.
Remains(a, r) ==
    r.s.gdv - (r.s.saleCosts + Dev!Construction(r.s) + r.interest + r.arrangement) - Dev!Pct(r.s.gdv, a.targetPct)

\* Where the land is what is left and dividing it from its charges leaves nothing over, value is cost and profit.
LEMMA LandIsLeft ==
    ASSUME NEW a, a.mode = "residual", NEW constr, NEW rev, NEW s, NEW f, Amounts(a, s), NEW i, Levied(s, f, i),
           ((Remains(a, Dev!Solved(a, s, constr, rev, f)) * 100) % (100 + a.acqPct)) = 0
    PROVE  Dev!Solved(a, s, constr, rev, f).profit + Dev!Solved(a, s, constr, rev, f).totalCost = s.gdv
<1> DEFINE r == Dev!Solved(a, s, constr, rev, f)
<1>1. PICK arrangement \in Int : arrangement = Dev!Pct(f[s.total].peak, a.arrangementPct)
    BY PctInt DEF Amounts, Levied
<1>2. PICK target \in Int : target = Dev!Pct(s.gdv, a.targetPct)
    BY PctInt DEF Amounts
<1>3. PICK outlay \in Int : outlay = s.saleCosts + Dev!Construction(s) + i + arrangement
    <2>1. Dev!Construction(s) \in Int
        BY DEF Dev!Construction, Amounts
    <2>2. s.saleCosts \in Int /\ i \in Int
        BY DEF Amounts, Levied
    <2> QED BY <1>1, <2>1, <2>2
<1>4. PICK d \in Nat \ {0} : d = 100 + a.acqPct
    BY DEF Amounts
<1>5. PICK x \in Int : x = s.gdv - outlay - target
    BY <1>2, <1>3 DEF Amounts
<1>6. /\ r.s = s /\ r.interest = i /\ r.arrangement = arrangement
      /\ r.profit = target /\ r.totalCost = outlay + Dev!Pct(Dev!Ratio(x, 100, d), d)
    BY <1>1, <1>2, <1>3, <1>4, <1>5 DEF Dev!Solved, Levied
<1>7. Remains(a, r) = x
    BY <1>2, <1>3, <1>5, <1>6 DEF Remains
<1>8. ((x * 100) % d) = 0
    BY <1>4, <1>7
<1> HIDE DEF r
<1>9. PICK y \in Int : y = Dev!Ratio(x, 100, d) /\ y * d = x * 100
    BY <1>8, ShareIs
<1>10. Dev!Pct(y, d) = x
    BY <1>9, GrossIs
<1>11. r.profit + r.totalCost = s.gdv
    <2>1. r.profit = target /\ r.totalCost = outlay + x
        BY <1>6, <1>9, <1>10
    <2> QED BY <2>1, <1>5 DEF Amounts
<1> QED BY <1>11 DEF r

\* An appraisal spread over its months of costs and receipts.
Costs(a, opts) == Dev!constrSeries(a, opts, Dev!Scheme(a, opts))
Proceeds(a, opts) == Dev!revSeries(a, Dev!Scheme(a, opts))
Spread(a, opts) == Terms(a) /\ Months(Costs(a, opts), Proceeds(a, opts), Dev!Scheme(a, opts).total)

LEMMA AppraisalIs ==
    \A a, opts : Dev!computeAppraisal(a, opts)
                   = Dev!Solved(a, Dev!Scheme(a, opts), Costs(a, opts), Proceeds(a, opts),
                                Dev!Facility(a, Costs(a, opts), Proceeds(a, opts)))
    BY Zenon DEF Dev!computeAppraisal, Costs, Proceeds

\* The facility of an appraisal never runs negative, is never above the peak the screens show, is never above what
\* was drawn and what it cost, and is repaid as far as the receipts reach: for any terms of the loan and any months
\* of costs and receipts that are not negative, however the percentages round (computeAppraisal, engine.ts).
THEOREM FacilityCovered ==
    ASSUME NEW a, NEW opts, Spread(a, opts)
    PROVE  Dev!FacilityCoversBalance(Dev!computeAppraisal(a, opts))
<1> DEFINE s == Dev!Scheme(a, opts)
           constr == Costs(a, opts)
           rev == Proceeds(a, opts)
<1>1. Terms(a) /\ Months(constr, rev, s.total)
    BY DEF Spread
<1>2. Dev!computeAppraisal(a, opts) = Dev!Solved(a, s, constr, rev, Dev!Facility(a, constr, rev))
    BY AppraisalIs, Zenon
<1> HIDE DEF s, constr, rev
<1>3. Dev!FacilityCoversBalance(Dev!Solved(a, s, constr, rev, Dev!Facility(a, constr, rev)))
    BY <1>1, FacilityCovers
<1> QED BY <1>2, <1>3, Zenon

-----------------------------------------------------------------------------
(***************************************************************************)
(* The months of an appraisal hold what it costs: each line falls whole     *)
(* within its window, the lines of a phase add up to its cost, and the      *)
(* phases and what is in none of them to the cost of the scheme.            *)
(***************************************************************************)

\* A share of an amount: where the division leaves nothing over, so many of the shares are the whole again.
LEMMA RatioIs ==
    ASSUME NEW x \in Int, NEW w \in Int, NEW d \in Nat \ {0}, ((x * w) % d) = 0
    PROVE  Dev!Ratio(x, w, d) \in Int /\ Dev!Ratio(x, w, d) * d = x * w
<1>1. PICK q \in Int, l \in Int : q = x \div d /\ l = (x % d) /\ x = d * q + l
    OBVIOUS
<1>2. PICK t \in Int : t = l * w
    OBVIOUS
<1>3. PICK k \in Int, e \in Int : k = t \div d /\ e = (t % d) /\ t = d * k + e /\ 0 <= e /\ e < d
    OBVIOUS
<1>4. PICK h \in Int : x * w = d * h
    <2>1. PICK y \in Int : y = x * w
        OBVIOUS
    <2>2. y = d * (y \div d) /\ y \div d \in Int
        BY <2>1
    <2> QED BY <2>1, <2>2
<1>5. PICK z \in Int : z = q * w
    OBVIOUS
<1>6. x * w = d * z + t
    <2>1. x * w = (d * q) * w + l * w
        BY <1>1
    <2>2. (d * q) * w = d * (q * w)
        OBVIOUS
    <2> QED BY <1>2, <1>5, <2>1, <2>2
<1>7. e = 0
    <2>1. PICK y \in Int : y = h - z - k
        OBVIOUS
    <2>2. e = d * y
        <3>1. d * y = d * h - d * z - d * k
            BY <2>1
        <3> QED BY <1>3, <1>4, <1>6, <3>1
    <2>3. CASE y >= 1
        <3>1. d * y >= d
            BY <2>3
        <3> QED BY <1>3, <2>2, <3>1
    <2>4. CASE y <= -1
        <3>1. d * y <= -d
            BY <2>4
        <3> QED BY <1>3, <2>2, <3>1
    <2>5. CASE y = 0
        BY <2>2, <2>5
    <2> QED BY <2>3, <2>4, <2>5
<1>8. Dev!Ratio(x, w, d) = z + k
    BY <1>1, <1>2, <1>3, <1>5 DEF Dev!Ratio
<1>9. (z + k) * d = x * w
    <2>1. (z + k) * d = d * z + d * k
        OBVIOUS
    <2> QED BY <1>3, <1>6, <1>7, <2>1
<1> QED BY <1>8, <1>9

\* A percentage that is a whole number.
LEMMA PctIs == ASSUME NEW x \in Int, NEW p \in Int, NEW y \in Int, 100 * y = x * p PROVE Dev!Pct(x, p) = y
<1>1. PICK t \in Int : t = x * p
    OBVIOUS
<1>2. (t % 100) = 0
    BY <1>1
<1>3. Dev!Ratio(x, p, 100) \in Int /\ Dev!Ratio(x, p, 100) * 100 = x * p
    BY <1>1, <1>2, RatioIs
<1> QED BY <1>3 DEF Dev!Pct

\* An amount of which so many hundredths leave nothing over.
Whole(x, p) == ((x * p) % 100) = 0
LEMMA PctWhole == ASSUME NEW x \in Int, NEW p \in Int, Whole(x, p) PROVE Dev!Pct(x, p) \in Int /\ 100 * Dev!Pct(x, p) = x * p
<1>1. Dev!Ratio(x, p, 100) \in Int /\ Dev!Ratio(x, p, 100) * 100 = x * p
    BY RatioIs DEF Whole
<1> QED BY <1>1 DEF Dev!Pct

\* Numbers that are, each for each, the sums of two others.
AreSums(f, g, h, n) == \A i \in 1..n : g[i] \in Int /\ h[i] \in Int /\ f[i] = g[i] + h[i]
LEMMA SumPlus ==
    ASSUME NEW n \in Nat, NEW f, NEW g, NEW h, AreSums(f, g, h, n)
    PROVE  Summed(f, n) = Summed(g, n) + Summed(h, n)
<1> USE DEF AreSums
<1>1. \A i \in 1..n : f[i] \in Int
    OBVIOUS
<1>2. PICK t : AddsUp(t, f, n) /\ Summed(f, n) = t[n]
    BY <1>1, SumIs
<1>3. PICK v : AddsUp(v, g, n) /\ Summed(g, n) = v[n]
    BY SumIs
<1>4. PICK w : AddsUp(w, h, n) /\ Summed(h, n) = w[n]
    BY SumIs
<1> DEFINE both == [j \in 0..n |-> v[j] + w[j]]
<1>5. \A j \in 0..n : t[j] \in Int /\ v[j] \in Int /\ w[j] \in Int /\ both[j] = v[j] + w[j] /\ both[j] \in Int
    <2>1. \A j \in 0..n : t[j] \in Int /\ v[j] \in Int /\ w[j] \in Int
        BY <1>2, <1>3, <1>4 DEF AddsUp
    <2> QED BY <2>1
<1> HIDE DEF both
<1>6. SameSteps(t, both, n)
    <2>1. 0 \in 0..n /\ t[0] = 0 /\ v[0] = 0 /\ w[0] = 0
        BY <1>2, <1>3, <1>4 DEF AddsUp
    <2>2. t[0] = both[0]
        BY <1>5, <2>1
    <2>3. ASSUME NEW j \in 1..n PROVE t[j] - t[j - 1] = both[j] - both[j - 1]
        <3>1. /\ j \in 0..n /\ j - 1 \in 0..n /\ t[j] = t[j - 1] + f[j]
              /\ v[j] = v[j - 1] + g[j] /\ w[j] = w[j - 1] + h[j]
            BY <1>2, <1>3, <1>4 DEF AddsUp
        <3>2. PICK a \in Int, b \in Int : f[j] = a + b /\ g[j] = a /\ h[j] = b
            OBVIOUS
        <3>3. PICK x \in Int, y \in Int : v[j - 1] = x /\ w[j - 1] = y /\ t[j - 1] \in Int /\ both[j - 1] = x + y
            BY <1>5, <3>1
        <3>4. both[j] = (x + a) + (y + b) /\ t[j] = t[j - 1] + (a + b)
            BY <1>5, <3>1, <3>2, <3>3
        <3> QED BY <3>2, <3>3, <3>4
    <2> QED BY <1>5, <2>2, <2>3 DEF SameSteps
<1>7. n \in 0..n
    OBVIOUS
<1>8. t[n] = both[n]
    <2>1. \A j \in 0..n : t[j] = both[j]
        BY <1>6, Matched
    <2> QED BY <1>7, <2>1
<1> QED BY <1>2, <1>3, <1>4, <1>5, <1>7, <1>8

\* Numbers that are d for k of the others, each for each, are so in sum.
LEMMA SumScaled ==
    ASSUME NEW n \in Nat, NEW g, NEW h, NEW d \in Int, NEW k \in Int,
           \A i \in 1..n : g[i] \in Int /\ h[i] \in Int /\ d * h[i] = k * g[i]
    PROVE  d * Summed(h, n) = k * Summed(g, n)
<1>1. PICK v : AddsUp(v, g, n) /\ Summed(g, n) = v[n]
    BY SumIs
<1>2. PICK w : AddsUp(w, h, n) /\ Summed(h, n) = w[n]
    BY SumIs
<1> DEFINE p == [j \in 0..n |-> k * v[j]]
           q == [j \in 0..n |-> d * w[j]]
<1>3. \A j \in 0..n : v[j] \in Int /\ w[j] \in Int
    BY <1>1, <1>2 DEF AddsUp
<1>4. \A j \in 0..n : p[j] = k * v[j] /\ q[j] = d * w[j] /\ p[j] \in Int /\ q[j] \in Int
    <2>1. \A x \in Int : k * x \in Int /\ d * x \in Int
        OBVIOUS
    <2> QED BY <1>3, <2>1
<1> HIDE DEF p, q
<1>5. SameSteps(q, p, n)
    <2>1. 0 \in 0..n /\ v[0] = 0 /\ w[0] = 0
        BY <1>1, <1>2 DEF AddsUp
    <2>2. q[0] = p[0]
        BY <1>4, <2>1
    <2>3. ASSUME NEW j \in 1..n PROVE q[j] - q[j - 1] = p[j] - p[j - 1]
        <3>1. j \in 0..n /\ j - 1 \in 0..n /\ v[j] = v[j - 1] + g[j] /\ w[j] = w[j - 1] + h[j]
            BY <1>1, <1>2 DEF AddsUp
        <3>2. PICK a \in Int, b \in Int, x \in Int, y \in Int : g[j] = a /\ h[j] = b /\ v[j - 1] = x /\ w[j - 1] = y
            BY <1>3, <3>1
        <3>3. d * b = k * a
            BY <3>2
        <3>4. p[j] = k * (x + a) /\ p[j - 1] = k * x /\ q[j] = d * (y + b) /\ q[j - 1] = d * y
            BY <1>4, <3>1, <3>2
        <3>5. k * (x + a) = k * x + k * a /\ d * (y + b) = d * y + d * b /\ k * x \in Int /\ d * y \in Int /\ k * a \in Int /\ d * b \in Int
            OBVIOUS
        <3> HIDE <3>2
        <3> QED BY <3>3, <3>4, <3>5
    <2> QED BY <1>4, <2>2, <2>3 DEF SameSteps
<1>6. n \in 0..n
    OBVIOUS
<1>7. q[n] = p[n]
    <2>1. \A j \in 0..n : q[j] = p[j]
        BY <1>5, Matched
    <2> QED BY <1>6, <2>1
<1> QED BY <1>1, <1>2, <1>4, <1>6, <1>7

\* The weights of a spend: so many integers whose sum is more than nothing.
Spending(w, n) ==
    /\ DOMAIN w = 1..n /\ \A i \in 1..n : w[i] \in Int
    /\ Dev!SumOver(w) = Summed(w, n) /\ Summed(w, n) \in Nat \ {0}

LEMMA SmoothAdds ==
    ASSUME NEW n \in Nat \ {0}, NEW w,
           \A i \in 1..n : w[i] = i * i * (3 * n - 2 * i) - (i - 1) * (i - 1) * (3 * n - 2 * (i - 1))
    PROVE  Summed(w, n) \in Nat \ {0}
<1> DEFINE c == [i \in 0..n |-> i * i * (3 * n - 2 * i)]
<1>1. \A i \in 0..n : c[i] = i * i * (3 * n - 2 * i) /\ c[i] \in Int
    <2>1. \A i \in 0..n : i * i * (3 * n - 2 * i) \in Int
        OBVIOUS
    <2> QED BY <2>1
<1>2. c[0] = 0 /\ c[n] = n * n * n
    <2>1. 0 \in 0..n /\ n \in 0..n /\ 3 * n - 2 * n = n
        OBVIOUS
    <2> QED BY <1>1, <2>1
<1>3. \A i \in 1..n : w[i] = c[i] - c[i - 1] /\ i \in 0..n /\ i - 1 \in 0..n
    <2>1. \A i \in 1..n : i \in 0..n /\ i - 1 \in 0..n
        OBVIOUS
    <2> HIDE DEF c
    <2> QED BY <1>1, <2>1
<1> HIDE DEF c
<1>4. \A i \in 1..n : w[i] \in Int
    BY <1>1, <1>3
<1>5. PICK t : AddsUp(t, w, n) /\ Summed(w, n) = t[n]
    BY <1>4, SumIs
<1>6. SameSteps(t, c, n)
    <2>1. (\A i \in 0..n : t[i] \in Int /\ c[i] \in Int) /\ t[0] = c[0]
        BY <1>1, <1>2, <1>5 DEF AddsUp
    <2>2. ASSUME NEW i \in 1..n PROVE t[i] - t[i - 1] = c[i] - c[i - 1]
        <3>1. t[i] = t[i - 1] + w[i] /\ t[i - 1] \in Int /\ w[i] \in Int
            BY <1>4, <1>5 DEF AddsUp
        <3> QED BY <1>3, <3>1
    <2> QED BY <2>1, <2>2 DEF SameSteps
<1>7. Summed(w, n) = n * n * n
    <2>1. \A i \in 0..n : t[i] = c[i]
        BY <1>6, Matched
    <2>2. n \in 0..n
        OBVIOUS
    <2> QED BY <1>2, <1>5, <2>1, <2>2
<1>8. n * n * n \in Nat \ {0}
    <2>1. n * n \in Nat /\ n * n >= 1
        OBVIOUS
    <2>2. PICK m \in Nat : m = n * n /\ m >= 1
        BY <2>1
    <2>3. m * n \in Nat /\ m * n >= 1
        BY <2>2
    <2> QED BY <2>2, <2>3
<1> QED BY <1>7, <1>8

LEMMA ProfileSpends ==
    ASSUME NEW n \in Nat \ {0}, NEW profile
    PROVE  Spending(Dev!buildSpendProfile(n, profile), n)
<1> DEFINE w == Dev!buildSpendProfile(n, profile)
<1>1. DOMAIN w = 1..n
    BY DEF Dev!buildSpendProfile
<1>2. (\A i \in 1..n : w[i] \in Int) /\ Summed(w, n) \in Nat \ {0}
    <2>1. CASE profile \notin {"even", "linear", "front", "back"}
        <3>1. \A i \in 1..n : w[i] = i * i * (3 * n - 2 * i) - (i - 1) * (i - 1) * (3 * n - 2 * (i - 1))
            BY <2>1 DEF Dev!buildSpendProfile
        <3>2. \A i \in Int : i * i * (3 * n - 2 * i) \in Int
            OBVIOUS
        <3>3. \A i \in 1..n : w[i] \in Int
            <4>1. \A i \in 1..n : i \in Int /\ i - 1 \in Int
                OBVIOUS
            <4> HIDE DEF w
            <4> QED BY <3>1, <3>2, <4>1
        <3> HIDE DEF w
        <3> QED BY <3>1, <3>3, SmoothAdds
    <2>2. CASE profile \in {"even", "linear", "front", "back"}
        <3>1. \A i \in 1..n : w[i] \in Int /\ w[i] >= 1
            <4> SUFFICES ASSUME NEW i \in 1..n PROVE w[i] \in Int /\ w[i] >= 1
                OBVIOUS
            <4>1. w[i] \in {1, n - i + 1, i}
                BY <2>2 DEF Dev!buildSpendProfile
            <4> QED BY <4>1
        <3> DEFINE ones == [i \in 1..n |-> 1]
        <3>2. \A i \in 1..n : ones[i] = 1
            OBVIOUS
        <3> HIDE DEF w, ones
        <3>3. Summed(ones, n) = n
            BY <3>2, OnesAdd
        <3>4. Summed(w, n) \in Int /\ Summed(ones, n) <= Summed(w, n)
            <4>1. n \in Nat /\ \A i \in 1..n : ones[i] \in Int /\ w[i] \in Int /\ ones[i] <= w[i]
                BY <3>1, <3>2
            <4> QED BY <4>1, SumMonotone
        <3> QED BY <3>1, <3>3, <3>4
    <2> QED BY <2>1, <2>2
<1> HIDE DEF w
<1>3. Dev!SumOver(w) = Summed(w, n)
    BY <1>1, <1>2, FoldSums
<1> QED BY <1>1, <1>2, <1>3 DEF Spending, w

\* A line that lies inside the programme, and whose amount its weights divide.
Inside(l, total) ==
    l.amount \in Int /\ l.start \in Nat \ {0} /\ l.months \in Nat \ {0} /\ l.start + l.months - 1 <= total
Spreads(l) ==
    LET w == Dev!buildSpendProfile(l.months, l.profile)
    IN  \A i \in DOMAIN w : ((l.amount * w[i]) % Dev!SumOver(w)) = 0

FallsOf(l, total) == [m \in 1..total |-> Dev!Falls(l, total, m)]

\* The shares of an amount in the months of a window: g is what falls in each month, w its weights and sum theirs.
SharedOut(g, w, x, sum, start, n, total) ==
    \A m \in 1..total :
        /\ g[m] \in Int
        /\ (m >= start /\ m < start + n) => g[m] * sum = x * w[m - start + 1]
        /\ ~(m >= start /\ m < start + n) => g[m] = 0

\* A window inside the programme holds all of its amount.
LEMMA WindowHolds ==
    ASSUME NEW total \in Nat, NEW start \in Nat \ {0}, NEW n \in Nat \ {0}, start + n - 1 <= total,
           NEW x \in Int, NEW w, \A i \in 1..n : w[i] \in Int, NEW sum \in Nat \ {0}, sum = Summed(w, n),
           NEW g, SharedOut(g, w, x, sum, start, n, total)
    PROVE  Summed(g, total) = x
<1>1. PICK v : AddsUp(v, w, n) /\ sum = v[n]
    BY SumIs
<1>2. \A m \in 1..total : g[m] \in Int
    BY DEF SharedOut
<1>3. PICK t : AddsUp(t, g, total) /\ Summed(g, total) = t[total]
    BY <1>2, SumIs
<1> DEFINE reached(m) == IF m < start THEN 0 ELSE IF m >= start + n THEN n ELSE m - start + 1
           c == [m \in 0..total |-> x * v[reached(m)]]
           d == [m \in 0..total |-> t[m] * sum]
<1>4. \A m \in 0..total : reached(m) \in 0..n
    OBVIOUS
<1>5. \A m \in 0..total : c[m] = x * v[reached(m)] /\ v[reached(m)] \in Int /\ c[m] \in Int
    <2>1. \A i \in 0..n : v[i] \in Int
        BY <1>1 DEF AddsUp
    <2>2. \A y \in Int : x * y \in Int
        OBVIOUS
    <2>3. \A m \in 0..total : v[reached(m)] \in Int
        <3> HIDE DEF reached
        <3> QED BY <1>4, <2>1
    <2> QED BY <2>2, <2>3
<1>6. \A m \in 0..total : d[m] = t[m] * sum /\ t[m] \in Int /\ d[m] \in Int
    <2>1. \A m \in 0..total : t[m] \in Int
        BY <1>3 DEF AddsUp
    <2>2. \A y \in Int : y * sum \in Int
        OBVIOUS
    <2> QED BY <2>1, <2>2
<1>7. t[0] = 0 /\ v[0] = 0 /\ 0 \in 0..total /\ total \in 0..total /\ reached(0) = 0 /\ reached(total) = n
    BY <1>1, <1>3 DEF AddsUp
<1> HIDE DEF c, d
<1>8. SameSteps(d, c, total)
    <2>1. d[0] = c[0]
        <3> HIDE DEF reached
        <3> QED BY <1>5, <1>6, <1>7
    <2>2. ASSUME NEW m \in 1..total PROVE d[m] - d[m - 1] = c[m] - c[m - 1]
        <3>1. m \in 0..total /\ m - 1 \in 0..total
            OBVIOUS
        <3>2. PICK y \in Int : y = t[m - 1] /\ t[m] = y + g[m]
            BY <1>3, <1>6, <3>1 DEF AddsUp
        <3>3. d[m] - d[m - 1] = g[m] * sum
            <4>1. d[m] = (y + g[m]) * sum /\ d[m - 1] = y * sum
                BY <1>6, <3>1, <3>2
            <4>2. (y + g[m]) * sum = y * sum + g[m] * sum /\ y * sum \in Int /\ g[m] * sum \in Int
                BY <1>2
            <4> QED BY <4>1, <4>2
        <3>4. CASE m >= start /\ m < start + n
            <4>1. PICK i \in 1..n : i = m - start + 1 /\ reached(m) = i /\ reached(m - 1) = i - 1
                BY <3>4
            <4>2. g[m] * sum = x * w[i]
                BY <3>4, <4>1 DEF SharedOut
            <4>3. PICK z \in Int : z = v[i - 1] /\ v[i] = z + w[i]
                BY <1>1 DEF AddsUp
            <4>4. c[m] = x * (z + w[i]) /\ c[m - 1] = x * z
                <5> HIDE DEF reached
                <5> QED BY <1>5, <3>1, <4>1, <4>3
            <4>5. x * (z + w[i]) = x * z + x * w[i] /\ x * z \in Int /\ x * w[i] \in Int
                OBVIOUS
            <4> QED BY <3>3, <4>2, <4>4, <4>5
        <3>5. CASE ~(m >= start /\ m < start + n)
            <4>1. reached(m) = reached(m - 1)
                BY <3>5
            <4>2. g[m] = 0
                BY <3>5 DEF SharedOut
            <4>3. c[m] = c[m - 1] /\ c[m] \in Int
                <5> HIDE DEF reached
                <5> QED BY <1>5, <3>1, <4>1
            <4> QED BY <3>3, <4>2, <4>3
        <3> QED BY <3>4, <3>5
    <2> QED BY <1>5, <1>6, <2>1, <2>2 DEF SameSteps
<1>9. t[total] * sum = x * sum
    <2>1. d[total] = c[total]
        BY <1>7, <1>8, Matched
    <2> HIDE DEF reached
    <2> QED BY <1>1, <1>5, <1>6, <1>7, <2>1
<1>10. t[total] = x
    <2>1. PICK y \in Int : y = t[total]
        BY <1>6, <1>7
    <2>2. (y - x) * sum = 0
        <3>1. (y - x) * sum = y * sum - x * sum
            OBVIOUS
        <3> QED BY <1>9, <2>1, <3>1
    <2>3. ASSUME NEW e \in Int, e >= 1 PROVE e * sum >= 1 /\ (-e) * sum <= -1
        BY <2>3
    <2>4. CASE y - x >= 1
        BY <2>2, <2>3, <2>4
    <2>5. CASE x - y >= 1
        <3>1. (-(x - y)) * sum <= -1 /\ -(x - y) = y - x
            BY <2>3, <2>5
        <3> QED BY <2>2, <3>1
    <2> QED BY <2>1, <2>4, <2>5
<1> QED BY <1>3, <1>10

LEMMA LineHolds ==
    ASSUME NEW total \in Nat, NEW l, Inside(l, total), Spreads(l)
    PROVE  Summed(FallsOf(l, total), total) = l.amount /\ \A m \in 1..total : FallsOf(l, total)[m] \in Int
<1> DEFINE n == l.months
           start == l.start
           x == l.amount
           w == Dev!buildSpendProfile(n, l.profile)
           g == FallsOf(l, total)
<1>1. n \in Nat \ {0} /\ start \in Nat \ {0} /\ x \in Int /\ start + n - 1 <= total
    BY DEF Inside
<1>2. Spending(w, n)
    BY <1>1, ProfileSpends
<1>3. PICK sum \in Nat \ {0} : sum = Dev!SumOver(w) /\ sum = Summed(w, n)
    BY <1>2 DEF Spending
<1>4. \A i \in 1..n : w[i] \in Int /\ ((x * w[i]) % sum) = 0
    <2>1. DOMAIN w = 1..n /\ \A i \in 1..n : w[i] \in Int
        BY <1>2 DEF Spending
    <2>2. \A i \in DOMAIN w : ((x * w[i]) % Dev!SumOver(w)) = 0
        BY DEF Spreads
    <2> HIDE DEF w, x, n
    <2> QED BY <1>3, <2>1, <2>2
<1>5. ASSUME NEW m \in 1..total
      PROVE  g[m] = IF m - start + 1 \in 1..n THEN Dev!Ratio(x, w[m - start + 1], sum) ELSE 0
    <2>1. g[m] = Dev!Falls(l, total, m)
        BY DEF FallsOf
    <2>2. Dev!Falls(l, total, m) = IF m - start + 1 \in DOMAIN w /\ m \in 1..total
                                   THEN Dev!Ratio(x, w[m - start + 1], Dev!SumOver(w)) ELSE 0
        BY Zenon DEF Dev!Falls
    <2>3. DOMAIN w = 1..n
        BY <1>2 DEF Spending
    <2> HIDE DEF w, g, x, n, start
    <2> QED BY <1>3, <2>1, <2>2, <2>3
<1>6. SharedOut(g, w, x, sum, start, n, total)
    <2> HIDE DEF w, g, x, n, start
    <2>1. ASSUME NEW m \in 1..total
          PROVE  /\ g[m] \in Int
                 /\ (m >= start /\ m < start + n) => g[m] * sum = x * w[m - start + 1]
                 /\ ~(m >= start /\ m < start + n) => g[m] = 0
        <3>1. CASE m >= start /\ m < start + n
            <4>1. PICK i \in 1..n : i = m - start + 1
                BY <1>1, <3>1
            <4>2. g[m] = Dev!Ratio(x, w[i], sum)
                BY <1>5, <4>1
            <4>3. Dev!Ratio(x, w[i], sum) \in Int /\ Dev!Ratio(x, w[i], sum) * sum = x * w[i]
                BY <1>1, <1>4, RatioIs
            <4> QED BY <3>1, <4>1, <4>2, <4>3
        <3>2. CASE ~(m >= start /\ m < start + n)
            <4>1. m - start + 1 \notin 1..n
                BY <1>1, <3>2
            <4> QED BY <1>5, <3>2, <4>1
        <3> QED BY <3>1, <3>2
    <2> QED BY <2>1 DEF SharedOut
<1>7. \A m \in 1..total : g[m] \in Int
    BY <1>6 DEF SharedOut
<1>8. Summed(g, total) = x
    <2> HIDE DEF w, g, x, n, start
    <2>1. \A i \in 1..n : w[i] \in Int
        BY <1>4
    <2> QED BY <1>1, <1>3, <1>6, <2>1, WindowHolds, SMTT(20), ZenonT(30)
<1> QED BY <1>7, <1>8

LEMMA SumNext ==
    ASSUME NEW n \in Nat, NEW g, \A i \in 1..n : g[i] \in Int, NEW k \in 1..n
    PROVE  Summed(g, k) = Summed(g, k - 1) + g[k] /\ Summed(g, k) \in Int /\ Summed(g, k - 1) \in Int
<1>1. PICK j \in Nat : j = k - 1 /\ k = j + 1 /\ j <= n
    OBVIOUS
<1>2. (\A i \in 1..j : g[i] \in Int) /\ g[j + 1] \in Int
    BY <1>1
<1>3. Summed(g, j + 1) = Summed(g, j) + g[j + 1]
    BY <1>2, SumAppend
<1>4. Summed(g, j) \in Int
    BY <1>2, SumInt
<1> QED BY <1>1, <1>2, <1>3, <1>4

\* A table of n rows of M numbers adds up to the same by its rows and by its columns.
Table(G, n, M) == \A i \in 1..n, m \in 1..M : G[i][m] \in Int
ColumnAt(G, m, n) == [i \in 1..n |-> G[i][m]]
LEMMA SumTable ==
    ASSUME NEW n \in Nat, NEW M \in Nat, NEW G, Table(G, n, M),
           NEW across, \A i \in 1..n : across[i] = Summed(G[i], M),
           NEW cols, \A m \in 1..M : cols[m] = Summed(ColumnAt(G, m, n), n)
    PROVE  /\ \A i \in 1..n : across[i] \in Int
           /\ \A m \in 1..M : cols[m] \in Int
           /\ Summed(cols, M) = Summed(across, n)
<1> DEFINE part(k) == [m \in 1..M |-> Summed(ColumnAt(G, m, n), k)]
           p == [k \in 0..n |-> Summed(part(k), M)]
<1>1. \A m \in 1..M : \A i \in 1..n : ColumnAt(G, m, n)[i] = G[i][m] /\ ColumnAt(G, m, n)[i] \in Int
    BY DEF Table, ColumnAt
<1>2. \A i \in 1..n : across[i] \in Int
    <2>1. ASSUME NEW i \in 1..n PROVE across[i] \in Int
        <3>1. \A m \in 1..M : G[i][m] \in Int
            BY DEF Table
        <3> QED BY <3>1, SumInt
    <2> QED BY <2>1
<1>3. ASSUME NEW k \in 0..n PROVE (\A m \in 1..M : part(k)[m] = Summed(ColumnAt(G, m, n), k) /\ part(k)[m] \in Int) /\ p[k] = Summed(part(k), M) /\ p[k] \in Int
    <2>1. ASSUME NEW m \in 1..M PROVE Summed(ColumnAt(G, m, n), k) \in Int
        <3>1. k \in Nat /\ \A i \in 1..k : ColumnAt(G, m, n)[i] \in Int
            BY <1>1
        <3> QED BY <3>1, SumInt
    <2>2. \A m \in 1..M : part(k)[m] = Summed(ColumnAt(G, m, n), k) /\ part(k)[m] \in Int
        BY <2>1
    <2>3. p[k] = Summed(part(k), M)
        BY Zenon
    <2> HIDE DEF part, p
    <2>4. Summed(part(k), M) \in Int
        BY <2>2, SumInt
    <2> QED BY <2>2, <2>3, <2>4
<1> HIDE DEF p, part
<1>4. PICK t : AddsUp(t, across, n) /\ Summed(across, n) = t[n]
    BY <1>2, SumIs
<1>5. SameSteps(p, t, n)
    <2>1. p[0] = 0 /\ t[0] = 0
        <3>1. ASSUME NEW m \in 1..M PROVE part(0)[m] = 0
            <4>1. \A i \in 1..0 : ColumnAt(G, m, n)[i] = 0
                OBVIOUS
            <4>2. Summed(ColumnAt(G, m, n), 0) = 0
                BY <4>1, ZeroSum
            <4> QED BY <1>3, <4>2
        <3>2. Summed(part(0), M) = 0
            BY <3>1, ZeroSum
        <3>3. 0 \in 0..n
            OBVIOUS
        <3> QED BY <1>3, <1>4, <3>2, <3>3 DEF AddsUp
    <2>2. ASSUME NEW k \in 1..n PROVE p[k] - p[k - 1] = t[k] - t[k - 1]
        <3>1. k \in 0..n /\ k - 1 \in 0..n
            OBVIOUS
        <3>2. ASSUME NEW m \in 1..M PROVE part(k)[m] = part(k - 1)[m] + G[k][m] /\ G[k][m] \in Int /\ part(k - 1)[m] \in Int
            <4>1. Summed(ColumnAt(G, m, n), k) = Summed(ColumnAt(G, m, n), k - 1) + ColumnAt(G, m, n)[k]
                BY <1>1, SumNext
            <4> QED BY <1>1, <1>3, <3>1, <4>1
        <3>3. Summed(part(k), M) = Summed(part(k - 1), M) + Summed(G[k], M)
            <4>1. AreSums(part(k), part(k - 1), G[k], M)
                BY <3>2 DEF AreSums
            <4> QED BY <4>1, SumPlus
        <3>4. p[k] = p[k - 1] + across[k] /\ p[k - 1] \in Int /\ across[k] \in Int
            BY <1>2, <1>3, <3>1, <3>3
        <3>5. t[k] = t[k - 1] + across[k] /\ t[k - 1] \in Int
            BY <1>4 DEF AddsUp
        <3> QED BY <3>4, <3>5
    <2>3. \A k \in 0..n : p[k] \in Int /\ t[k] \in Int
        BY <1>3, <1>4 DEF AddsUp
    <2> QED BY <2>1, <2>2, <2>3 DEF SameSteps
<1>6. n \in 0..n
    OBVIOUS
<1>7. p[n] = t[n]
    BY <1>5, <1>6, Matched
<1>8. (\A m \in 1..M : cols[m] \in Int) /\ Summed(cols, M) = p[n]
    <2>1. \A m \in 1..M : part(n)[m] \in Int /\ cols[m] = part(n)[m]
        BY <1>3, <1>6
    <2>2. Summed(cols, M) = Summed(part(n), M)
        BY <2>1, SumSame
    <2> QED BY <1>3, <1>6, <2>1, <2>2
<1> QED BY <1>2, <1>4, <1>7, <1>8

\* A list of lines that the months hold: each is inside the programme and divides.
HeldLines(lines, n, total) == DOMAIN lines = 1..n /\ \A i \in 1..n : Inside(lines[i], total) /\ Spreads(lines[i])

\* What a list of lines brings to the months, x in all.
Monthly(lines, total) == [m \in 1..total |-> Dev!InMonth(lines, total, m)]
Carries(lines, total, x) ==
    x \in Int /\ (\A m \in 1..total : Monthly(lines, total)[m] \in Int) /\ Summed(Monthly(lines, total), total) = x

LEMMA InMonthIs ==
    \A lines, total, m : Dev!InMonth(lines, total, m) = Dev!SumOver([i \in DOMAIN lines |-> Dev!Falls(lines[i], total, m)])
    BY Zenon DEF Dev!InMonth, Dev!Total

AmountsAre(x, lines, n) == \A i \in 1..n : x[i] = lines[i].amount

LEMMA LinesHold ==
    ASSUME NEW total \in Nat, NEW n \in Nat, NEW lines, HeldLines(lines, n, total),
           NEW x, AmountsAre(x, lines, n)
    PROVE  Carries(lines, total, Summed(x, n))
<1> DEFINE G == [i \in 1..n |-> FallsOf(lines[i], total)]
           cols == Monthly(lines, total)
<1>1. ASSUME NEW i \in 1..n
      PROVE  G[i] = FallsOf(lines[i], total) /\ x[i] = Summed(G[i], total) /\ \A m \in 1..total : G[i][m] \in Int
    <2>1. G[i] = FallsOf(lines[i], total)
        OBVIOUS
    <2>2. Inside(lines[i], total) /\ Spreads(lines[i])
        BY DEF HeldLines
    <2>3. Summed(FallsOf(lines[i], total), total) = lines[i].amount /\ \A m \in 1..total : FallsOf(lines[i], total)[m] \in Int
        BY <2>2, LineHolds
    <2>4. x[i] = lines[i].amount
        BY DEF AmountsAre
    <2> HIDE DEF G
    <2> QED BY <2>1, <2>3, <2>4
<1>2. Table(G, n, total)
    <2> HIDE DEF G
    <2> QED BY <1>1 DEF Table
<1>3. ASSUME NEW m \in 1..total PROVE cols[m] = Summed(ColumnAt(G, m, n), n)
    <2> DEFINE g == [i \in 1..n |-> Dev!Falls(lines[i], total, m)]
    <2>1. cols[m] = Dev!SumOver([i \in DOMAIN lines |-> Dev!Falls(lines[i], total, m)])
        BY InMonthIs DEF Monthly
    <2>2. cols[m] = Dev!SumOver(g)
        BY <2>1 DEF HeldLines
    <2>3. DOMAIN g = 1..n /\ \A i \in 1..n : g[i] = G[i][m] /\ g[i] \in Int /\ ColumnAt(G, m, n)[i] = g[i]
        <3>1. \A i \in 1..n : g[i] = FallsOf(lines[i], total)[m]
            BY DEF FallsOf
        <3>2. \A i \in 1..n : g[i] = G[i][m]
            <4> HIDE DEF g, G
            <4> QED BY <1>1, <3>1
        <3>3. DOMAIN g = 1..n
            OBVIOUS
        <3> HIDE DEF g, G
        <3> QED BY <1>1, <3>2, <3>3 DEF ColumnAt
    <2> HIDE DEF g, G, cols
    <2>4. Dev!SumOver(g) = Summed(g, n)
        BY <2>3, FoldSums
    <2>5. Summed(ColumnAt(G, m, n), n) = Summed(g, n)
        BY <2>3, SumSame
    <2> QED BY <2>2, <2>4, <2>5
<1> HIDE DEF G, cols
<1>4. /\ \A i \in 1..n : x[i] \in Int
      /\ \A m \in 1..total : cols[m] \in Int
      /\ Summed(cols, total) = Summed(x, n)
    BY <1>1, <1>2, <1>3, SumTable
<1>5. Summed(x, n) \in Int
    BY <1>4, SumInt
<1> QED BY <1>4, <1>5 DEF Carries, cols

\* w is u put after s.
Joined(w, s, u, n, m) ==
    /\ DOMAIN s = 1..n /\ DOMAIN u = 1..m /\ DOMAIN w = 1..(n + m)
    /\ (\A i \in 1..n : w[i] = s[i]) /\ \A i \in 1..m : w[n + i] = u[i]

LEMMA JoinIs ==
    ASSUME NEW n \in Nat, NEW m \in Nat, NEW s, NEW u, s = [i \in 1..n |-> s[i]], u = [i \in 1..m |-> u[i]]
    PROVE  Joined(s \o u, s, u, n, m)
<1> DEFINE S == {s[i] : i \in 1..n} \cup {u[i] : i \in 1..m}
<1>1. s \in [1..n -> S] /\ u \in [1..m -> S]
    OBVIOUS
<1> HIDE DEF S
<1>2. s \in Seq(S) /\ u \in Seq(S) /\ Len(s) = n /\ Len(u) = m /\ DOMAIN s = 1..n /\ DOMAIN u = 1..m
    BY <1>1
<1>3. Len(s \o u) = n + m /\ DOMAIN (s \o u) = 1..(n + m)
    BY <1>2
<1>4. (\A i \in 1..n : (s \o u)[i] = s[i]) /\ \A i \in 1..m : (s \o u)[n + i] = u[i]
    BY <1>2
<1> QED BY <1>2, <1>3, <1>4 DEF Joined

LEMMA JoinHolds ==
    ASSUME NEW n \in Nat, NEW m \in Nat, NEW s, NEW u, NEW w, Joined(w, s, u, n, m), NEW total,
           \A i \in 1..n : Inside(s[i], total), \A i \in 1..m : Inside(u[i], total),
           \A i \in DOMAIN w : Spreads(w[i])
    PROVE  HeldLines(w, n + m, total) /\ HeldLines(s, n, total) /\ HeldLines(u, m, total)
<1>1. ASSUME NEW i \in 1..n PROVE Inside(s[i], total) /\ Spreads(s[i]) /\ w[i] = s[i]
    <2>1. i \in DOMAIN w /\ w[i] = s[i]
        BY DEF Joined
    <2> QED BY <2>1
<1>2. ASSUME NEW i \in 1..m PROVE Inside(u[i], total) /\ Spreads(u[i]) /\ w[n + i] = u[i]
    <2>1. n + i \in DOMAIN w /\ w[n + i] = u[i]
        BY DEF Joined
    <2>2. Spreads(w[n + i])
        BY <2>1
    <2> QED BY <2>1, <2>2
<1>3. ASSUME NEW i \in 1..(n + m) PROVE Inside(w[i], total) /\ Spreads(w[i])
    <2>1. CASE i <= n
        BY <1>1, <2>1
    <2>2. CASE i > n
        <3>1. PICK j \in 1..m : i = n + j
            <4>1. i - n \in 1..m /\ i = n + (i - n)
                BY <2>2
            <4> QED BY <4>1
        <3> QED BY <1>2, <3>1
    <2> QED BY <2>1, <2>2
<1> QED BY <1>1, <1>2, <1>3 DEF HeldLines, Joined

\* Two lists, one after the other.
LEMMA ListsHold ==
    ASSUME NEW total \in Nat, NEW n \in Nat, NEW m \in Nat, NEW s, NEW u, NEW w, Joined(w, s, u, n, m),
           HeldLines(w, n + m, total),
           NEW x, AmountsAre(x, s, n), NEW y, AmountsAre(y, u, m)
    PROVE  /\ Carries(w, total, Summed(x, n) + Summed(y, m))
           /\ Summed(x, n) \in Int /\ Summed(y, m) \in Int
<1> DEFINE z == [i \in 1..(n + m) |-> w[i].amount]
<1>1. \A i \in 1..(n + m) : z[i] = w[i].amount /\ z[i] \in Int
    BY DEF HeldLines, Inside
<1> HIDE DEF z
<1>2. n + m \in Nat /\ Carries(w, total, Summed(z, n + m))
    <2>1. n + m \in Nat /\ AmountsAre(z, w, n + m)
        BY <1>1 DEF AmountsAre
    <2> QED BY <2>1, LinesHold
<1>3. \A i \in 1..n : z[i] = x[i]
    <2>1. \A i \in 1..n : i \in 1..(n + m) /\ w[i] = s[i]
        BY DEF Joined
    <2> QED BY <1>1, <2>1 DEF AmountsAre
<1>4. \A i \in 1..m : z[n + i] = y[i]
    <2>1. \A i \in 1..m : n + i \in 1..(n + m) /\ w[n + i] = u[i]
        BY DEF Joined
    <2> QED BY <1>1, <2>1 DEF AmountsAre
<1>5. InParts(z, y, n, m)
    BY <1>1, <1>4 DEF InParts
<1>6. Summed(z, n + m) = Summed(z, n) + Summed(y, m)
    BY <1>5, SumParts
<1>7. Summed(z, n) = Summed(x, n) /\ Summed(x, n) \in Int
    <2>1. \A i \in 1..n : x[i] \in Int /\ z[i] = x[i]
        BY <1>1, <1>3
    <2> QED BY <2>1, SumSame, SumInt
<1>8. Summed(y, m) \in Int
    <2>1. \A i \in 1..m : y[i] \in Int
        <3>1. \A i \in 1..m : n + i \in 1..(n + m)
            OBVIOUS
        <3> QED BY <1>1, <1>4, <3>1
    <2> QED BY <2>1, SumInt
<1> QED BY <1>2, <1>6, <1>7, <1>8

LEMMA ClampedTo == \A v, lo, hi \in Int : lo <= hi => Dev!Clamp(v, lo, hi) \in lo..hi
<1> SUFFICES ASSUME NEW v \in Int, NEW lo \in Int, NEW hi \in Int, lo <= hi PROVE Dev!Clamp(v, lo, hi) \in lo..hi
    OBVIOUS
<1>1. PICK w \in Int : w = Dev!Min({v, hi}) /\ w <= hi
    <2>1. Dev!Min({v, hi}) = IF v <= hi THEN v ELSE hi
        BY MinOfTwo
    <2> QED BY <2>1
<1>2. Dev!Clamp(v, lo, hi) = Dev!Max({lo, w})
    BY <1>1, Zenon DEF Dev!Clamp
<1>3. Dev!Max({lo, w}) = IF lo >= w THEN lo ELSE w
    BY MaxOfTwo
<1> QED BY <1>1, <1>2, <1>3

LEMMA DevClamp == \A v \in Int, hi \in Nat \ {0} : Dev!Clamp(v, 1, hi) \in 1..hi
<1>1. 1 \in Int /\ \A hi \in Nat \ {0} : hi \in Int /\ 1 <= hi
    OBVIOUS
<1> QED BY <1>1, ClampedTo, Zenon

\* A line that Placed puts in the months is inside the programme, wherever its window was.
LEMMA PlacedInside ==
    ASSUME NEW total \in Nat \ {0}, NEW amount \in Int, NEW from \in Int, NEW months \in Int, NEW profile
    PROVE  /\ Inside(Dev!Placed(total, amount, from, months, profile), total)
           /\ Dev!Placed(total, amount, from, months, profile).amount = amount
<1>1. PICK start \in 1..total : start = Dev!Clamp(from, 1, total)
    BY DevClamp
<1>2. PICK n \in 1..(total - start + 1) : n = Dev!Clamp(months, 1, total - start + 1)
    <2>1. total - start + 1 \in Nat \ {0}
        OBVIOUS
    <2> QED BY <2>1, DevClamp
<1>3. Dev!Placed(total, amount, from, months, profile) = Dev!Line(amount, start, n, profile)
    BY <1>1, <1>2, Zenon DEF Dev!Placed
<1>4. Inside(Dev!Line(amount, start, n, profile), total) /\ Dev!Line(amount, start, n, profile).amount = amount
    BY DEF Inside, Dev!Line
<1> QED BY <1>3, <1>4

\* What an appraisal asks about: timings, bills, units and phases.
Times == {Dev!NoTiming} \cup [start : Int, months : Int, profile : {"even", "linear", "front", "back", "scurve"}]
Bill == [rate : Int, amount : Int, timing : Times]
Sized == [count : Int, area : Int, cap : Int]
Stage == [units : Seq(Sized), start : Int, build : Int, sales : Int, perMonth : Int,
          trades : Seq(Bill), other : Seq(Bill), feePct : Int, contPct : Int]

LEMMA TimesInt == ASSUME NEW t \in Times, NEW d \in Int PROVE Dev!StartOf(t) \in Int /\ Dev!MonthsOf(t, d) \in Int
<1>1. CASE t = Dev!NoTiming
    BY <1>1 DEF Dev!StartOf, Dev!MonthsOf
<1>2. CASE t # Dev!NoTiming
    <2>1. t.start \in Int /\ t.months \in Int
        BY <1>2 DEF Times
    <2> QED BY <1>2, <2>1 DEF Dev!StartOf, Dev!MonthsOf
<1> QED BY <1>1, <1>2

RatesOf(bills) == [i \in DOMAIN bills |-> bills[i].rate]
AmountsOf(bills) == [i \in DOMAIN bills |-> bills[i].amount]

LEMMA BillsAre ==
    ASSUME NEW bills \in Seq(Bill), NEW n, n = Len(bills)
    PROVE  /\ n \in Nat /\ DOMAIN bills = 1..n
           /\ \A i \in 1..n : /\ bills[i].rate \in Int /\ bills[i].amount \in Int /\ bills[i].timing \in Times
                              /\ RatesOf(bills)[i] = bills[i].rate /\ AmountsOf(bills)[i] = bills[i].amount
           /\ Dev!SumOver(RatesOf(bills)) = Summed(RatesOf(bills), n) /\ Summed(RatesOf(bills), n) \in Int
           /\ Dev!SumOver(AmountsOf(bills)) = Summed(AmountsOf(bills), n) /\ Summed(AmountsOf(bills), n) \in Int
<1>1. n \in Nat /\ DOMAIN bills = 1..n
    OBVIOUS
<1>2. \A i \in 1..n : bills[i].rate \in Int /\ bills[i].amount \in Int /\ bills[i].timing \in Times
    <2>1. \A i \in 1..n : bills[i] \in Bill
        BY <1>1
    <2> QED BY <2>1 DEF Bill
<1>3. DOMAIN RatesOf(bills) = 1..n /\ \A i \in 1..n : RatesOf(bills)[i] = bills[i].rate /\ RatesOf(bills)[i] \in Int
    BY <1>1, <1>2 DEF RatesOf
<1>4. DOMAIN AmountsOf(bills) = 1..n /\ \A i \in 1..n : AmountsOf(bills)[i] = bills[i].amount /\ AmountsOf(bills)[i] \in Int
    BY <1>1, <1>2 DEF AmountsOf
<1>5. Dev!SumOver(RatesOf(bills)) = Summed(RatesOf(bills), n) /\ Summed(RatesOf(bills), n) \in Int
    <2>1. \A i \in 1..n : RatesOf(bills)[i] \in Int
        BY <1>3
    <2> QED BY <1>1, <1>3, <2>1, FoldSums, SumInt
<1>6. Dev!SumOver(AmountsOf(bills)) = Summed(AmountsOf(bills), n) /\ Summed(AmountsOf(bills), n) \in Int
    <2>1. \A i \in 1..n : AmountsOf(bills)[i] \in Int
        BY <1>4
    <2> QED BY <1>1, <1>4, <2>1, FoldSums, SumInt
<1> QED BY <1>1, <1>2, <1>3, <1>4, <1>5, <1>6

\* Bills of an area whose cost, and the fees and the contingency on it, leave nothing over.
BuildOf(bill, area, build) == Dev!Pct(bill.rate * area, build)
Costable(bills, area, build, fee, cont) ==
    \A i \in DOMAIN bills :
        /\ Whole(bills[i].rate * area, build)
        /\ Whole(BuildOf(bills[i], area, build), fee) /\ Whole(BuildOf(bills[i], area, build), cont)

WithOnCosts(e, bills, n, area, build, onCosts) == \A i \in 1..n : e[i] = Dev!Pct(BuildOf(bills[i], area, build), onCosts)

\* Billed one by one with their on-costs, they come to the build, the fees and the contingency of them all.
LEMMA OnCostsAdd ==
    ASSUME NEW bills \in Seq(Bill), NEW n, n = Len(bills),
           NEW area \in Int, NEW build \in Int, NEW fee \in Int, NEW cont \in Int,
           Costable(bills, area, build, fee, cont),
           NEW e, WithOnCosts(e, bills, n, area, build, 100 + fee + cont),
           NEW b, b = Dev!Pct(Summed(RatesOf(bills), n) * area, build)
    PROVE  b \in Int /\ Dev!Pct(b, fee) \in Int /\ Dev!Pct(b, cont) \in Int /\ Summed(e, n) = b + Dev!Pct(b, fee) + Dev!Pct(b, cont)
<1>1. /\ n \in Nat /\ DOMAIN bills = 1..n /\ Summed(RatesOf(bills), n) \in Int
      /\ \A i \in 1..n : bills[i].rate \in Int /\ RatesOf(bills)[i] = bills[i].rate
    BY BillsAre
<1>2. PICK r : r = RatesOf(bills) /\ Summed(r, n) \in Int /\ \A i \in 1..n : r[i] = bills[i].rate /\ r[i] \in Int
    BY <1>1
<1> DEFINE c == [i \in 1..n |-> BuildOf(bills[i], area, build)]
           f == [i \in 1..n |-> Dev!Pct(c[i], fee)]
           k == [i \in 1..n |-> Dev!Pct(c[i], cont)]
<1>3. ASSUME NEW i \in 1..n PROVE c[i] \in Int /\ c[i] = BuildOf(bills[i], area, build) /\ 100 * c[i] = (area * build) * r[i]
    <2>1. PICK x \in Int : x = bills[i].rate * area /\ x = r[i] * area
        BY <1>2
    <2>2. c[i] = Dev!Pct(x, build) /\ Whole(x, build) /\ c[i] = BuildOf(bills[i], area, build)
        BY <1>1, <2>1 DEF Costable, BuildOf
    <2> HIDE DEF c
    <2>3. c[i] \in Int /\ 100 * c[i] = x * build
        BY <2>1, <2>2, PctWhole
    <2>4. x * build = (area * build) * r[i]
        <3>1. PICK y \in Int : y = r[i]
            BY <1>2
        <3>2. (y * area) * build = (area * build) * y
            OBVIOUS
        <3> QED BY <2>1, <3>1, <3>2
    <2> QED BY <2>2, <2>3, <2>4
<1>4. ASSUME NEW i \in 1..n PROVE f[i] \in Int /\ 100 * f[i] = fee * c[i]
    <2>1. f[i] = Dev!Pct(c[i], fee)
        BY Zenon
    <2>2. Whole(c[i], fee)
        BY <1>1, <1>3 DEF Costable
    <2> HIDE DEF c, f
    <2>3. Dev!Pct(c[i], fee) \in Int /\ 100 * Dev!Pct(c[i], fee) = c[i] * fee
        BY <1>3, <2>2, PctWhole
    <2> QED BY <1>3, <2>1, <2>3
<1>5. ASSUME NEW i \in 1..n PROVE k[i] \in Int /\ 100 * k[i] = cont * c[i]
    <2>1. k[i] = Dev!Pct(c[i], cont)
        BY Zenon
    <2>2. Whole(c[i], cont)
        BY <1>1, <1>3 DEF Costable
    <2> HIDE DEF c, k
    <2>3. Dev!Pct(c[i], cont) \in Int /\ 100 * Dev!Pct(c[i], cont) = c[i] * cont
        BY <1>3, <2>2, PctWhole
    <2> QED BY <1>3, <2>1, <2>3
<1> HIDE DEF c, f, k
<1>6. ASSUME NEW i \in 1..n PROVE e[i] = c[i] + (f[i] + k[i])
    <2>0. /\ c[i] \in Int /\ f[i] \in Int /\ k[i] \in Int /\ 100 * f[i] = fee * c[i] /\ 100 * k[i] = cont * c[i]
          /\ e[i] = Dev!Pct(c[i], 100 + fee + cont)
        BY <1>3, <1>4, <1>5 DEF WithOnCosts
    <2>1. PICK x \in Int, u \in Int, v \in Int : x = c[i] /\ u = f[i] /\ v = k[i]
        BY <2>0
    <2>2. 100 * (x + (u + v)) = x * (100 + fee + cont)
        <3>1. PICK y \in Int, z \in Int : y = fee * x /\ z = cont * x
            OBVIOUS
        <3>2. x * (100 + fee + cont) = 100 * x + y + z
            BY <3>1
        <3>3. 100 * u = y /\ 100 * v = z
            BY <2>0, <2>1, <3>1
        <3> HIDE <3>1
        <3> QED BY <3>2, <3>3
    <2>3. Dev!Pct(x, 100 + fee + cont) = x + (u + v)
        BY <2>2, PctIs
    <2> QED BY <2>0, <2>1, <2>3
<1> DEFINE fk == [i \in 1..n |-> f[i] + k[i]]
<1>7. \A i \in 1..n : fk[i] = f[i] + k[i] /\ fk[i] \in Int
    BY <1>4, <1>5
<1> HIDE DEF fk
<1>8. Summed(e, n) = Summed(c, n) + (Summed(f, n) + Summed(k, n))
    <2>0. n \in Nat
        BY <1>1
    <2>1. Summed(fk, n) = Summed(f, n) + Summed(k, n)
        <3>1. AreSums(fk, f, k, n)
            BY <1>4, <1>5, <1>7 DEF AreSums
        <3> QED BY <2>0, <3>1, SumPlus
    <2>2. AreSums(e, c, fk, n)
        BY <1>3, <1>6, <1>7 DEF AreSums
    <2>3. Summed(e, n) = Summed(c, n) + Summed(fk, n)
        BY <2>0, <2>2, SumPlus
    <2> QED BY <2>1, <2>3
<1>9. PICK C \in Int, F \in Int, K0 \in Int, R \in Int : C = Summed(c, n) /\ F = Summed(f, n) /\ K0 = Summed(k, n) /\ R = Summed(r, n)
    BY <1>1, <1>2, <1>3, <1>4, <1>5, SumInt
<1>10. 100 * C = (area * build) * R
    <2>1. PICK d \in Int, w \in Int : d = 100 /\ w = area * build
        OBVIOUS
    <2>2. \A i \in 1..n : r[i] \in Int /\ c[i] \in Int /\ d * c[i] = w * r[i]
        BY <1>2, <1>3, <2>1
    <2>3. n \in Nat
        BY <1>1
    <2>4. d * Summed(c, n) = w * Summed(r, n)
        BY <2>2, <2>3, SumScaled
    <2> QED BY <1>9, <2>1, <2>4
<1>11. 100 * F = fee * C
    <2>1. PICK d \in Int : d = 100
        OBVIOUS
    <2>2. \A i \in 1..n : c[i] \in Int /\ f[i] \in Int /\ d * f[i] = fee * c[i]
        BY <1>3, <1>4, <2>1
    <2>3. n \in Nat
        BY <1>1
    <2>4. d * Summed(f, n) = fee * Summed(c, n)
        BY <2>2, <2>3, SumScaled
    <2> QED BY <1>9, <2>1, <2>4
<1>12. 100 * K0 = cont * C
    <2>1. PICK d \in Int : d = 100
        OBVIOUS
    <2>2. \A i \in 1..n : c[i] \in Int /\ k[i] \in Int /\ d * k[i] = cont * c[i]
        BY <1>3, <1>5, <2>1
    <2>3. n \in Nat
        BY <1>1
    <2>4. d * Summed(k, n) = cont * Summed(c, n)
        BY <2>2, <2>3, SumScaled
    <2> QED BY <1>9, <2>1, <2>4
<1>13. b = C
    <2>1. PICK x \in Int : x = R * area
        OBVIOUS
    <2>2. 100 * C = x * build
        <3>1. (R * area) * build = (area * build) * R
            OBVIOUS
        <3> QED BY <1>10, <2>1, <3>1
    <2>3. Dev!Pct(x, build) = C
        BY <2>2, PctIs
    <2> QED BY <1>2, <1>9, <2>1, <2>3
<1>14. Dev!Pct(C, fee) = F /\ Dev!Pct(C, cont) = K0
    <2>1. 100 * F = C * fee /\ 100 * K0 = C * cont
        BY <1>11, <1>12
    <2> QED BY <2>1, PctIs
<1> QED BY <1>8, <1>9, <1>13, <1>14

\* The months a sale takes.
LEMMA SaleMonths ==
    ASSUME NEW count \in Int, NEW perMonth \in Int, NEW fallback \in Int, NEW cap \in Nat \ {0}
    PROVE  Dev!absorptionShare(count, perMonth, fallback, cap).months \in Nat \ {0}
<1>1. CASE perMonth > 0 /\ count > 0
    <2>1. PICK n \in Int : n = Dev!Ceiling(count, perMonth)
        <3>1. (count + perMonth - 1) \div perMonth \in Int
            BY <1>1
        <3> QED BY <3>1 DEF Dev!Ceiling
    <2>2. Dev!Clamp(n, 1, 24) \in 1..24
        <3>1. 24 \in Nat \ {0}
            OBVIOUS
        <3> QED BY <2>1, <3>1, DevClamp, Zenon
    <2>3. Dev!absorptionShare(count, perMonth, fallback, cap).months = Dev!Clamp(n, 1, 24)
        BY <1>1, <2>1 DEF Dev!absorptionShare
    <2> QED BY <2>2, <2>3
<1>2. CASE ~(perMonth > 0 /\ count > 0)
    <2>1. PICK n \in Int : n = Dev!OrElse(fallback, 1)
        BY DEF Dev!OrElse
    <2>2. Dev!Clamp(n, 1, cap) \in 1..cap
        BY <2>1, DevClamp, Zenon
    <2>3. Dev!absorptionShare(count, perMonth, fallback, cap).months = Dev!Clamp(n, 1, cap)
        BY <1>2, <2>1 DEF Dev!absorptionShare
    <2> QED BY <2>2, <2>3
<1> QED BY <1>1, <1>2

LEMMA UnitsAre ==
    ASSUME NEW units \in Seq(Sized)
    PROVE  Dev!Count(units) \in Int /\ Dev!Area(units) \in Int
<1>1. PICK n \in Nat : DOMAIN units = 1..n /\ \A i \in 1..n : units[i] \in Sized
    <2>1. Len(units) \in Nat /\ DOMAIN units = 1..Len(units) /\ \A i \in 1..Len(units) : units[i] \in Sized
        OBVIOUS
    <2> QED BY <2>1
<1> DEFINE c == [i \in DOMAIN units |-> units[i].count]
           g == [i \in DOMAIN units |-> units[i].count * units[i].area]
<1>2. \A x, y \in Int : x * y \in Int
    OBVIOUS
<1>3. \A i \in 1..n : units[i].count \in Int /\ units[i].area \in Int
    BY <1>1 DEF Sized
<1>4. DOMAIN c = 1..n /\ \A i \in 1..n : c[i] \in Int
    BY <1>1, <1>3
<1>5. DOMAIN g = 1..n /\ \A i \in 1..n : g[i] \in Int
    BY <1>1, <1>2, <1>3
<1>6. Dev!Count(units) = Dev!SumOver(c)
    BY Zenon DEF Dev!Count, Dev!Total
<1>7. Dev!Area(units) = Dev!SumOver(g)
    BY Zenon DEF Dev!Area, Dev!Total
<1> HIDE DEF c, g
<1>8. Dev!SumOver(c) = Summed(c, n) /\ Dev!SumOver(g) = Summed(g, n) /\ Summed(c, n) \in Int /\ Summed(g, n) \in Int
    BY <1>4, <1>5, FoldSums, SumInt
<1> QED BY <1>6, <1>7, <1>8

\* An appraisal, as it is asked about.
Typed(a, opts) ==
    /\ a.trades \in Seq(Bill) /\ a.other \in Seq(Bill) /\ a.phases \in Seq(Stage)
    /\ Dev!Units(a) \in Seq(Sized) /\ a.held.area \in Int /\ a.efficiency \in Nat
    /\ a.feePct \in Int /\ a.contPct \in Int
    /\ a.perMonth \in Int /\ a.sales \in Int /\ a.period \in Int /\ opts.build \in Int

FeeOf(a, ph) == IF ph.feePct = Dev!Inherit THEN a.feePct ELSE ph.feePct
ContOf(a, ph) == IF ph.contPct = Dev!Inherit THEN a.contPct ELSE ph.contPct

\* What phaseCalc returns.
Windowed(p) ==
    /\ p.start \in Nat \ {0} /\ p.months \in Nat \ {0} /\ p.sale.months \in Nat \ {0}
    /\ p.completion = p.start + p.months - 1 /\ p.end = p.start + p.months + p.sale.months - 1
Billed(p, build, fee, cont) ==
    /\ p.trades \in Seq(Bill) /\ p.other \in Seq(Bill) /\ p.gia \in Int /\ p.onCosts = 100 + fee + cont
    /\ p.build = Dev!Pct(Summed(RatesOf(p.trades), Len(p.trades)) * p.gia, build)
    /\ p.fees = Dev!Pct(p.build, fee) /\ p.cont = Dev!Pct(p.build, cont)
    /\ p.build \in Int /\ p.fees \in Int /\ p.cont \in Int

LEMMA PhaseIs ==
    ASSUME NEW a, NEW opts, Typed(a, opts), NEW ph \in Stage
    PROVE  /\ Windowed(Dev!phaseCalc(a, opts, ph)) /\ Billed(Dev!phaseCalc(a, opts, ph), opts.build, FeeOf(a, ph), ContOf(a, ph))
           /\ FeeOf(a, ph) \in Int /\ ContOf(a, ph) \in Int
<1> DEFINE p == Dev!phaseCalc(a, opts, ph)
           trades == IF ph.trades = <<>> THEN a.trades ELSE ph.trades
           gia == (Dev!Area(ph.units) * 100) \div Dev!OrElse(a.efficiency, 100)
           fee == FeeOf(a, ph)
           cont == ContOf(a, ph)
<1>1. /\ ph.units \in Seq(Sized) /\ ph.start \in Int /\ ph.build \in Int /\ ph.sales \in Int /\ ph.perMonth \in Int
      /\ ph.trades \in Seq(Bill) /\ ph.other \in Seq(Bill) /\ ph.feePct \in Int /\ ph.contPct \in Int
    BY DEF Stage
<1>2. fee \in Int /\ cont \in Int /\ trades \in Seq(Bill) /\ opts.build \in Int
    BY <1>1 DEF Typed, FeeOf, ContOf
<1>3. gia \in Int
    <2>1. PICK x \in Int : x = Dev!Area(ph.units) * 100
        BY <1>1, UnitsAre
    <2>2. PICK d \in Nat \ {0} : d = Dev!OrElse(a.efficiency, 100)
        <3>1. PICK e \in Nat : e = a.efficiency
            BY DEF Typed
        <3>2. Dev!OrElse(e, 100) \in Nat \ {0}
            BY DEF Dev!OrElse
        <3> QED BY <3>1, <3>2
    <2> QED BY <2>1, <2>2
<1>4. Dev!Clamp(Dev!OrElse(ph.start, 1), 1, 240) \in 1..240 /\ Dev!Clamp(Dev!OrElse(ph.build, 12), 1, 60) \in 1..60
    <2>1. PICK u \in Int, v \in Int : u = Dev!OrElse(ph.start, 1) /\ v = Dev!OrElse(ph.build, 12)
        BY <1>1 DEF Dev!OrElse
    <2>2. 240 \in Nat \ {0} /\ 60 \in Nat \ {0}
        OBVIOUS
    <2>3. Dev!Clamp(u, 1, 240) \in 1..240 /\ Dev!Clamp(v, 1, 60) \in 1..60
        BY <2>1, <2>2, DevClamp, Zenon
    <2> QED BY <2>1, <2>2, <2>3
<1>5. Dev!absorptionShare(Dev!Count(ph.units), ph.perMonth, ph.sales, 24).months \in Nat \ {0}
    <2>1. PICK c \in Int, m \in Int, d \in Int : c = Dev!Count(ph.units) /\ m = ph.perMonth /\ d = ph.sales
        BY <1>1, UnitsAre
    <2>2. Dev!absorptionShare(c, m, d, 24).months \in Nat \ {0}
        <3>1. 24 \in Nat \ {0}
            OBVIOUS
        <3> QED BY <3>1, SaleMonths
    <2> QED BY <2>1, <2>2
<1>6. /\ p.start = Dev!Clamp(Dev!OrElse(ph.start, 1), 1, 240) /\ p.months = Dev!Clamp(Dev!OrElse(ph.build, 12), 1, 60)
      /\ p.sale = Dev!absorptionShare(Dev!Count(ph.units), ph.perMonth, ph.sales, 24)
      /\ p.completion = p.start + p.months - 1 /\ p.end = p.start + p.months + p.sale.months - 1
    BY DEF Dev!phaseCalc
<1>7. /\ p.trades = trades /\ p.other = ph.other /\ p.gia = gia /\ p.onCosts = 100 + fee + cont
      /\ p.build = Dev!Pct(Dev!Rate(trades) * gia, opts.build)
      /\ p.fees = Dev!Pct(p.build, fee) /\ p.cont = Dev!Pct(p.build, cont)
    BY DEF Dev!phaseCalc, FeeOf, ContOf
<1> HIDE DEF p, trades, gia, fee, cont
<1>8. Windowed(p)
    BY <1>4, <1>5, <1>6 DEF Windowed
<1>9. Dev!Rate(trades) = Summed(RatesOf(trades), Len(trades)) /\ Dev!Rate(trades) \in Int
    <2>1. Dev!Rate(trades) = Dev!SumOver(RatesOf(trades))
        BY Zenon DEF Dev!Rate, Dev!Total, RatesOf
    <2>2. Dev!SumOver(RatesOf(trades)) = Summed(RatesOf(trades), Len(trades)) /\ Summed(RatesOf(trades), Len(trades)) \in Int
        BY <1>2, BillsAre
    <2> QED BY <2>1, <2>2
<1>10. p.build \in Int /\ p.fees \in Int /\ p.cont \in Int
    <2>1. PICK x \in Int : x = Dev!Rate(trades) * gia
        BY <1>3, <1>9
    <2>2. p.build \in Int
        BY <1>2, <1>7, <2>1, PctInt
    <2> QED BY <1>2, <1>7, <2>2, PctInt
<1>11. Billed(p, opts.build, fee, cont)
    BY <1>1, <1>2, <1>3, <1>7, <1>9, <1>10 DEF Billed
<1> QED BY <1>2, <1>8, <1>11 DEF p, fee, cont

\* The lines of a phase, in two lists.
Placing(total, bill, amount, from, months, a) ==
    Dev!Placed(total, amount, from, Dev!MonthsOf(bill.timing, months), Dev!Profile(a, bill.timing))
TradeLines(a, opts, total, p) ==
    [i \in DOMAIN p.trades |->
        Placing(total, p.trades[i], Dev!Pct(BuildOf(p.trades[i], p.gia, opts.build), p.onCosts),
                p.start + Dev!StartOf(p.trades[i].timing) - 1, p.months, a)]
OtherLines(a, total, p) ==
    [i \in DOMAIN p.other |->
        Placing(total, p.other[i], p.other[i].amount, p.start + Dev!StartOf(p.other[i].timing) - 1, p.months, a)]
OneLine(a, p) == <<Dev!Line(p.build + p.fees + p.cont, p.start, p.months, a.profile)>>

LEMMA PhaseLinesAre ==
    \A a, opts, s, p :
        Dev!PhaseLines(a, opts, s, p)
          = (IF \E i \in DOMAIN p.trades : p.trades[i].timing # Dev!NoTiming THEN TradeLines(a, opts, s.total, p) ELSE OneLine(a, p))
            \o OtherLines(a, s.total, p)
    BY Zenon DEF Dev!PhaseLines, TradeLines, OtherLines, OneLine, Placing, BuildOf

\* What a bill is placed as.
LEMMA PlacingIs ==
    ASSUME NEW total \in Nat \ {0}, NEW bill \in Bill, NEW amount \in Int, NEW from \in Int, NEW months \in Int, NEW a
    PROVE  /\ Inside(Placing(total, bill, amount, from, months, a), total)
           /\ Placing(total, bill, amount, from, months, a).amount = amount
<1>1. PICK n \in Int : n = Dev!MonthsOf(bill.timing, months)
    BY TimesInt DEF Bill
<1> QED BY <1>1, PlacedInside DEF Placing

\* The months hold what a phase costs.
LEMMA PhaseHolds ==
    ASSUME NEW a, NEW opts, opts.build \in Int, NEW s, s.total \in Nat \ {0}, NEW p, NEW fee \in Int, NEW cont \in Int,
           Windowed(p), Billed(p, opts.build, fee, cont), p.completion <= s.total,
           Costable(p.trades, p.gia, opts.build, fee, cont),
           \A i \in DOMAIN Dev!PhaseLines(a, opts, s, p) : Spreads(Dev!PhaseLines(a, opts, s, p)[i])
    PROVE  Carries(Dev!PhaseLines(a, opts, s, p), s.total, p.build + p.fees + p.cont + Dev!SumOver(AmountsOf(p.other)))
<1> DEFINE total == s.total
           build == opts.build
           firsts == IF \E i \in DOMAIN p.trades : p.trades[i].timing # Dev!NoTiming THEN TradeLines(a, opts, total, p) ELSE OneLine(a, p)
           others == OtherLines(a, total, p)
           lines == Dev!PhaseLines(a, opts, s, p)
           cost == p.build + p.fees + p.cont
<1>1. PICK n \in Nat, m \in Nat : n = Len(p.trades) /\ DOMAIN p.trades = 1..n /\ m = Len(p.other) /\ DOMAIN p.other = 1..m
    <2>1. p.trades \in Seq(Bill) /\ p.other \in Seq(Bill)
        BY DEF Billed
    <2>2. Len(p.trades) \in Nat /\ DOMAIN p.trades = 1..Len(p.trades)
        BY <2>1, BillsAre
    <2>3. Len(p.other) \in Nat /\ DOMAIN p.other = 1..Len(p.other)
        BY <2>1, BillsAre
    <2> QED BY <2>2, <2>3, Zenon
<1>2. \A i \in 1..m : p.other[i] \in Bill /\ p.other[i].amount \in Int /\ p.other[i].timing \in Times /\ AmountsOf(p.other)[i] = p.other[i].amount
    <2>1. p.other \in Seq(Bill) /\ m = Len(p.other)
        BY <1>1 DEF Billed
    <2>2. \A i \in 1..m : p.other[i] \in Bill
        BY <1>1, <2>1
    <2>3. \A i \in 1..m : p.other[i].amount \in Int /\ p.other[i].timing \in Times /\ AmountsOf(p.other)[i] = p.other[i].amount
        BY <2>1, BillsAre
    <2> QED BY <2>2, <2>3
<1>3. p.start \in Int /\ p.months \in Int /\ cost \in Int /\ build \in Int /\ total \in Nat \ {0}
    <2>1. p.build \in Int /\ p.fees \in Int /\ p.cont \in Int
        BY DEF Billed
    <2>2. p.start \in Int /\ p.months \in Int
        BY DEF Windowed
    <2> QED BY <2>1, <2>2
<1>4. others = [i \in 1..m |-> others[i]] /\ \A i \in 1..m : Inside(others[i], total) /\ others[i].amount = AmountsOf(p.other)[i]
    <2>1. others = [i \in 1..m |-> others[i]]
        BY <1>1 DEF OtherLines
    <2>2. ASSUME NEW i \in 1..m PROVE Inside(others[i], total) /\ others[i].amount = AmountsOf(p.other)[i]
        <3>1. others[i] = Placing(total, p.other[i], p.other[i].amount, p.start + Dev!StartOf(p.other[i].timing) - 1, p.months, a)
            BY <1>1 DEF OtherLines
        <3>2. PICK from \in Int : from = p.start + Dev!StartOf(p.other[i].timing) - 1
            <4>1. PICK t \in Times : t = p.other[i].timing
                BY <1>2
            <4>2. Dev!StartOf(t) \in Int
                BY TimesInt
            <4>3. p.start + Dev!StartOf(t) - 1 \in Int
                BY <1>3, <4>2
            <4> QED BY <4>1, <4>3
        <3> HIDE DEF others, total
        <3> QED BY <1>2, <1>3, <3>1, <3>2, PlacingIs
    <2> QED BY <2>1, <2>2
<1>5. \E k \in Nat : \E x : /\ firsts = [i \in 1..k |-> firsts[i]] /\ Summed(x, k) = cost
                        /\ \A i \in 1..k : Inside(firsts[i], total) /\ firsts[i].amount = x[i]
    <2>1. CASE \E i \in DOMAIN p.trades : p.trades[i].timing # Dev!NoTiming
        <3> DEFINE e == [i \in 1..n |-> Dev!Pct(BuildOf(p.trades[i], p.gia, build), 100 + fee + cont)]
        <3>1. firsts = TradeLines(a, opts, total, p)
            BY <2>1, Zenon
        <3>2. firsts = [i \in 1..n |-> firsts[i]]
            BY <1>1, <3>1 DEF TradeLines
        <3>3. ASSUME NEW i \in 1..n PROVE Inside(firsts[i], total) /\ firsts[i].amount = e[i]
            <4>1. p.trades[i] \in Bill /\ p.trades[i].timing \in Times /\ p.trades[i].rate \in Int
                <5>1. p.trades \in Seq(Bill) /\ n = Len(p.trades)
                    BY <1>1 DEF Billed
                <5>2. p.trades[i].timing \in Times /\ p.trades[i].rate \in Int
                    BY <5>1, BillsAre
                <5> QED BY <1>1, <5>1, <5>2
            <4>2. firsts[i] = Placing(total, p.trades[i], e[i], p.start + Dev!StartOf(p.trades[i].timing) - 1, p.months, a)
                BY <1>1, <3>1 DEF TradeLines, Billed
            <4>3. PICK from \in Int : from = p.start + Dev!StartOf(p.trades[i].timing) - 1
                <5>1. PICK t \in Times : t = p.trades[i].timing
                    BY <4>1
                <5>2. Dev!StartOf(t) \in Int
                    BY TimesInt
                <5>3. p.start + Dev!StartOf(t) - 1 \in Int
                    BY <1>3, <5>2
                <5> QED BY <5>1, <5>3
            <4>4. e[i] \in Int
                <5>1. PICK z \in Int : z = p.trades[i].rate * p.gia
                    BY <4>1 DEF Billed
                <5>2. PICK y \in Int : y = BuildOf(p.trades[i], p.gia, build)
                    BY <1>3, <5>1, PctInt DEF BuildOf
                <5>3. e[i] = Dev!Pct(y, 100 + fee + cont) /\ 100 + fee + cont \in Int
                    BY <5>2
                <5> QED BY <5>3, PctInt
            <4> HIDE DEF firsts, total, e
            <4> QED BY <1>3, <4>1, <4>2, <4>3, <4>4, PlacingIs
        <3>4. Summed(e, n) = cost
            <4>1. \A i \in 1..n : e[i] = Dev!Pct(BuildOf(p.trades[i], p.gia, build), 100 + fee + cont)
                OBVIOUS
            <4>2. p.trades \in Seq(Bill) /\ p.gia \in Int /\ p.build = Dev!Pct(Summed(RatesOf(p.trades), n) * p.gia, build)
                BY <1>1 DEF Billed
            <4>3. p.fees = Dev!Pct(p.build, fee) /\ p.cont = Dev!Pct(p.build, cont)
                BY DEF Billed
            <4> HIDE DEF e
            <4>4. PICK area \in Int : area = p.gia
                BY <4>2
            <4>4a. PICK bills, b : bills = p.trades /\ b = p.build
                OBVIOUS
            <4>5. bills \in Seq(Bill) /\ n = Len(bills) /\ Costable(bills, area, build, fee, cont)
                BY <1>1, <4>2, <4>4, <4>4a
            <4>6. WithOnCosts(e, bills, n, area, build, 100 + fee + cont)
                BY <4>1, <4>4, <4>4a DEF WithOnCosts
            <4>7. b = Dev!Pct(Summed(RatesOf(bills), n) * area, build)
                BY <4>2, <4>4, <4>4a
            <4>8. build \in Int
                BY <1>3
            <4> HIDE DEF build
            <4>9. Summed(e, n) = b + Dev!Pct(b, fee) + Dev!Pct(b, cont)
                BY <4>5, <4>6, <4>7, <4>8, OnCostsAdd, SMTT(20), ZenonT(30)
            <4> QED BY <4>3, <4>4a, <4>9
        <3> HIDE DEF e, firsts
        <3> QED BY <3>2, <3>3, <3>4
    <2>2. CASE ~ \E i \in DOMAIN p.trades : p.trades[i].timing # Dev!NoTiming
        <3> DEFINE line == Dev!Line(cost, p.start, p.months, a.profile)
                   x == [i \in 1..1 |-> cost]
        <3>1. firsts = <<line>>
            BY <2>2, Zenon DEF OneLine
        <3>2. Inside(line, total) /\ line.amount = cost
            BY <1>3 DEF Inside, Dev!Line, Windowed
        <3>3. x[1] = cost /\ \A i \in 1..1 : x[i] = cost
            OBVIOUS
        <3> HIDE DEF line, firsts, x, cost, total
        <3>4. firsts = [i \in 1..1 |-> firsts[i]] /\ firsts[1] = line
            BY <3>1
        <3>5. Summed(x, 1) = cost
            <4>1. PICK t : AddsUp(t, x, 1) /\ Summed(x, 1) = t[1]
                BY <1>3, <3>3, SumIs
            <4>2. t[1] = t[0] + x[1] /\ t[0] = 0
                BY <4>1 DEF AddsUp
            <4> QED BY <1>3, <3>3, <4>1, <4>2
        <3>6. \A i \in 1..1 : Inside(firsts[i], total) /\ firsts[i].amount = x[i]
            BY <3>2, <3>3, <3>4
        <3> QED BY <3>4, <3>5, <3>6
    <2> QED BY <2>1, <2>2
<1>6. lines = firsts \o others
    BY PhaseLinesAre, Zenon
<1>7. \A i \in DOMAIN lines : Spreads(lines[i])
    OBVIOUS
<1> HIDE DEF firsts, others, lines, total, cost
<1>8. PICK k \in Nat : \E x : /\ firsts = [i \in 1..k |-> firsts[i]] /\ Summed(x, k) = cost
                              /\ \A i \in 1..k : Inside(firsts[i], total) /\ firsts[i].amount = x[i]
    BY <1>5
<1>9. PICK x : /\ firsts = [i \in 1..k |-> firsts[i]] /\ Summed(x, k) = cost
               /\ \A i \in 1..k : Inside(firsts[i], total) /\ firsts[i].amount = x[i]
    BY <1>8
<1>10. Joined(lines, firsts, others, k, m)
    BY <1>1, <1>4, <1>6, <1>9, JoinIs
<1>11. HeldLines(lines, k + m, total)
    BY <1>1, <1>4, <1>7, <1>9, <1>10, JoinHolds
<1>12. Carries(lines, total, Summed(x, k) + Summed(AmountsOf(p.other), m))
    <2>1. PICK y : y = AmountsOf(p.other)
        OBVIOUS
    <2>2. AmountsAre(y, others, m)
        BY <1>4, <2>1 DEF AmountsAre
    <2>3. AmountsAre(x, firsts, k)
        BY <1>9 DEF AmountsAre
    <2>4. total \in Nat
        BY <1>3
    <2>5. Carries(lines, total, Summed(x, k) + Summed(y, m))
        BY <1>10, <1>11, <2>2, <2>3, <2>4, ListsHold, SMTT(20), ZenonT(30)
    <2> QED BY <2>1, <2>5
<1>13. Dev!SumOver(AmountsOf(p.other)) = Summed(AmountsOf(p.other), m)
    BY <1>1, BillsAre DEF Billed
<1> QED BY <1>9, <1>12, <1>13 DEF lines, total, cost

\* What Scheme returns, of what the months are made of.
FieldOf(phases, field) == [i \in DOMAIN phases |-> phases[i][field]]
OthersOf(phases) == [i \in DOMAIN phases |-> Dev!SumOver(AmountsOf(phases[i].other))]
Composed(s, a, opts) ==
    /\ s.phases = [i \in DOMAIN a.phases |-> Dev!phaseCalc(a, opts, a.phases[i])]
    /\ s.gia \in Int /\ s.rate \in Int /\ s.rate = Dev!Pct(Summed(RatesOf(a.trades), Len(a.trades)), opts.build)
    /\ s.loose = s.gia - Dev!SumOver(FieldOf(s.phases, "gia"))
    /\ s.build = Dev!SumOver(FieldOf(s.phases, "build")) + s.rate * s.loose
    /\ s.fees = Dev!SumOver(FieldOf(s.phases, "fees")) + Dev!Pct(s.rate * s.loose, a.feePct)
    /\ s.cont = Dev!SumOver(FieldOf(s.phases, "cont")) + Dev!Pct(s.rate * s.loose, a.contPct)
    /\ s.other = Dev!SumOver(AmountsOf(a.other)) + Dev!SumOver(OthersOf(s.phases))
Spans(s) ==
    /\ s.phases # <<>> => /\ s.P = Dev!Max({s.phases[i].completion : i \in DOMAIN s.phases})
                          /\ s.total = Dev!Max({s.phases[i].end : i \in DOMAIN s.phases})
    /\ s.phases = <<>> => s.P \in Nat \ {0} /\ s.total \in Nat \ {0} /\ s.P <= s.total

LEMMA SchemeIs ==
    ASSUME NEW a, NEW opts, Typed(a, opts)
    PROVE  Composed(Dev!Scheme(a, opts), a, opts) /\ Spans(Dev!Scheme(a, opts))
<1> DEFINE s == Dev!Scheme(a, opts)
           phases == [i \in DOMAIN a.phases |-> Dev!phaseCalc(a, opts, a.phases[i])]
           gia == ((Dev!Area(Dev!Units(a)) + a.held.area) * 100) \div Dev!OrElse(a.efficiency, 100)
           sale == Dev!absorptionShare(Dev!Count(Dev!Units(a)), a.perMonth, a.sales, 8)
<1>1. s.phases = phases
    BY DEF Dev!Scheme
<1>2. s.gia = gia /\ s.rate = Dev!Pct(Dev!Rate(a.trades), opts.build)
    BY DEF Dev!Scheme
<1>3. s.loose = gia - Dev!Total(phases, LAMBDA p : p.gia)
    BY DEF Dev!Scheme
<1>4. /\ s.build = Dev!Total(phases, LAMBDA p : p.build) + s.rate * s.loose
      /\ s.fees = Dev!Total(phases, LAMBDA p : p.fees) + Dev!Pct(s.rate * s.loose, a.feePct)
      /\ s.cont = Dev!Total(phases, LAMBDA p : p.cont) + Dev!Pct(s.rate * s.loose, a.contPct)
    BY DEF Dev!Scheme
<1>5. s.other = Dev!Total(a.other, LAMBDA o : o.amount) + Dev!Total(phases, LAMBDA p : Dev!Total(p.other, LAMBDA o : o.amount))
    BY DEF Dev!Scheme
<1>6. phases # <<>> => s.P = Dev!Max({phases[i].completion : i \in DOMAIN phases}) /\ s.total = Dev!Max({phases[i].end : i \in DOMAIN phases})
    BY DEF Dev!Scheme
<1>7. phases = <<>> => s.P = Dev!Clamp(Dev!OrElse(a.period, 12), 4, 22) /\ s.total = s.P + sale.months
    BY DEF Dev!Scheme
<1> HIDE DEF s
<1>8. gia \in Int
    <2>1. PICK x \in Int : x = (Dev!Area(Dev!Units(a)) + a.held.area) * 100
        <3>1. Dev!Area(Dev!Units(a)) \in Int
            BY UnitsAre DEF Typed
        <3> QED BY <3>1 DEF Typed
    <2>2. PICK d \in Nat \ {0} : d = Dev!OrElse(a.efficiency, 100)
        <3>1. PICK e \in Nat : e = a.efficiency
            BY DEF Typed
        <3>2. Dev!OrElse(e, 100) \in Nat \ {0}
            BY DEF Dev!OrElse
        <3> QED BY <3>1, <3>2
    <2> QED BY <2>1, <2>2
<1>9. s.rate \in Int /\ s.rate = Dev!Pct(Summed(RatesOf(a.trades), Len(a.trades)), opts.build)
    <2>1. a.trades \in Seq(Bill) /\ opts.build \in Int
        BY DEF Typed
    <2>2. Dev!Rate(a.trades) = Dev!SumOver(RatesOf(a.trades))
        BY Zenon DEF Dev!Rate, Dev!Total, RatesOf
    <2>3. PICK x \in Int : x = Summed(RatesOf(a.trades), Len(a.trades)) /\ Dev!SumOver(RatesOf(a.trades)) = x
        BY <2>1, BillsAre
    <2> HIDE DEF gia
    <2> QED BY <1>2, <2>1, <2>2, <2>3, PctInt
<1>10. Composed(s, a, opts)
    <2>1. /\ Dev!Total(phases, LAMBDA p : p.gia) = Dev!SumOver(FieldOf(phases, "gia"))
          /\ Dev!Total(phases, LAMBDA p : p.build) = Dev!SumOver(FieldOf(phases, "build"))
          /\ Dev!Total(phases, LAMBDA p : p.fees) = Dev!SumOver(FieldOf(phases, "fees"))
          /\ Dev!Total(phases, LAMBDA p : p.cont) = Dev!SumOver(FieldOf(phases, "cont"))
        BY Zenon DEF Dev!Total, FieldOf
    <2>2. Dev!Total(phases, LAMBDA p : Dev!Total(p.other, LAMBDA o : o.amount)) = Dev!SumOver(OthersOf(phases))
        BY Zenon DEF Dev!Total, OthersOf, AmountsOf
    <2>3. Dev!Total(a.other, LAMBDA o : o.amount) = Dev!SumOver(AmountsOf(a.other))
        BY Zenon DEF Dev!Total, AmountsOf
    <2> HIDE DEF gia
    <2> QED BY <1>1, <1>2, <1>3, <1>4, <1>5, <1>8, <1>9, <2>1, <2>2, <2>3 DEF Composed
<1>11. Spans(s)
    <2>1. ASSUME phases = <<>> PROVE s.P \in Nat \ {0} /\ s.total \in Nat \ {0} /\ s.P <= s.total
        <3>1. PICK v \in Int : v = Dev!OrElse(a.period, 12)
            <4>1. PICK u \in Int : u = a.period
                BY DEF Typed
            <4>2. Dev!OrElse(u, 12) \in Int
                BY DEF Dev!OrElse
            <4> QED BY <4>1, <4>2
        <3>2. Dev!Clamp(v, 4, 22) \in 4..22
            <4>1. 4 \in Int /\ 22 \in Int /\ 4 <= 22
                OBVIOUS
            <4> QED BY <3>1, <4>1, ClampedTo, Zenon
        <3>3. sale.months \in Nat \ {0}
            <4>1. PICK c \in Int, m \in Int, d \in Int : c = Dev!Count(Dev!Units(a)) /\ m = a.perMonth /\ d = a.sales
                <5>1. Dev!Count(Dev!Units(a)) \in Int
                    BY UnitsAre DEF Typed
                <5> QED BY <5>1 DEF Typed
            <4>2. 8 \in Nat \ {0}
                OBVIOUS
            <4>3. Dev!absorptionShare(c, m, d, 8).months \in Nat \ {0}
                BY <4>2, SaleMonths
            <4> QED BY <4>1, <4>3
        <3>4. PICK n \in Nat \ {0} : n = sale.months
            BY <3>3
        <3>5. s.P = Dev!Clamp(v, 4, 22) /\ s.total = s.P + n
            BY <1>7, <2>1, <3>1, <3>4
        <3> HIDE DEF sale, phases
        <3> QED BY <3>2, <3>5
    <2> HIDE DEF phases
    <2> QED BY <1>1, <1>6, <2>1 DEF Spans
<1> QED BY <1>10, <1>11 DEF s

\* The bills of the scheme itself, in lists.
SchemeBills(a, opts, s, onCosts) ==
    [i \in DOMAIN a.trades |->
        Placing(s.total, a.trades[i], Dev!Pct(BuildOf(a.trades[i], s.gia, opts.build), onCosts),
                Dev!StartOf(a.trades[i].timing), s.P, a)]
SchemeOthers(a, s) ==
    [i \in DOMAIN a.other |-> Placing(s.total, a.other[i], a.other[i].amount, Dev!StartOf(a.other[i].timing), s.P, a)]
LooseLine(a, s, onCosts) ==
    IF s.loose > 0 THEN <<Dev!Line(Dev!Pct(s.rate * s.loose, onCosts), 1, s.P, a.profile)>> ELSE <<>>
AnyTimed(a) == \E lines \in {a.trades, a.other} : \E i \in DOMAIN lines : lines[i].timing # Dev!NoTiming

LEMMA SchemeLinesAre ==
    \A a, opts, s :
        Dev!SchemeLines(a, opts, s)
          = IF s.phases # <<>> THEN SchemeOthers(a, s) \o LooseLine(a, s, 100 + a.feePct + a.contPct)
            ELSE IF ~AnyTimed(a) THEN <<Dev!Line(Dev!Construction(s), 1, s.P, a.profile)>>
            ELSE SchemeBills(a, opts, s, 100 + a.feePct + a.contPct) \o SchemeOthers(a, s)
    BY Zenon DEF Dev!SchemeLines, SchemeOthers, LooseLine, SchemeBills, AnyTimed, Placing, BuildOf

LEMMA OthersHold ==
    ASSUME NEW a, a.other \in Seq(Bill), NEW s, s.total \in Nat \ {0}, s.P \in Nat \ {0}, NEW m, m = Len(a.other)
    PROVE  /\ m \in Nat /\ SchemeOthers(a, s) = [i \in 1..m |-> SchemeOthers(a, s)[i]]
           /\ \A i \in 1..m : Inside(SchemeOthers(a, s)[i], s.total)
           /\ AmountsAre(AmountsOf(a.other), SchemeOthers(a, s), m)
<1> DEFINE others == SchemeOthers(a, s)
           total == s.total
<1>1. m \in Nat /\ DOMAIN a.other = 1..m /\ \A i \in 1..m : a.other[i] \in Bill
    OBVIOUS
<1>2. others = [i \in 1..m |-> others[i]]
    BY <1>1 DEF SchemeOthers
<1>3. ASSUME NEW i \in 1..m PROVE Inside(others[i], total) /\ AmountsOf(a.other)[i] = others[i].amount
    <2>1. PICK bill \in Bill : bill = a.other[i] /\ bill.amount \in Int /\ bill.timing \in Times
        BY <1>1 DEF Bill
    <2>2. PICK from \in Int, months \in Int : from = Dev!StartOf(bill.timing) /\ months = s.P
        <3>1. PICK t \in Times : t = bill.timing
            BY <2>1
        <3>2. Dev!StartOf(t) \in Int
            BY TimesInt
        <3>3. s.P \in Int
            OBVIOUS
        <3> QED BY <3>1, <3>2, <3>3
    <2>3. others[i] = Placing(total, bill, bill.amount, from, months, a)
        BY <1>1, <2>1, <2>2 DEF SchemeOthers
    <2>4. AmountsOf(a.other)[i] = bill.amount
        BY <1>1, <2>1 DEF AmountsOf
    <2> HIDE DEF others, total
    <2>5. total \in Nat \ {0}
        BY DEF total
    <2> QED BY <2>1, <2>2, <2>3, <2>4, <2>5, PlacingIs
<1> QED BY <1>1, <1>2, <1>3 DEF AmountsAre

\* The months hold what the scheme costs outside its phases.
LEMMA SchemeHolds ==
    ASSUME NEW a, NEW opts, Typed(a, opts), NEW s, Composed(s, a, opts), s.total \in Nat \ {0}, s.P \in Nat \ {0}, s.P <= s.total,
           s.loose \in Int, s.loose >= 0,
           s.phases # <<>> => Whole(s.rate * s.loose, a.feePct) /\ Whole(s.rate * s.loose, a.contPct),
           \A i \in DOMAIN Dev!SchemeLines(a, opts, s) : Spreads(Dev!SchemeLines(a, opts, s)[i]),
           s.phases # <<>>
    PROVE  Carries(Dev!SchemeLines(a, opts, s), s.total,
                   Dev!SumOver(AmountsOf(a.other)) + (s.rate * s.loose + Dev!Pct(s.rate * s.loose, a.feePct) + Dev!Pct(s.rate * s.loose, a.contPct)))
<1> DEFINE lines == Dev!SchemeLines(a, opts, s)
           onCosts == 100 + a.feePct + a.contPct
           others == SchemeOthers(a, s)
           loose == LooseLine(a, s, onCosts)
           m == Len(a.other)
           total == s.total
<1>1. PICK X \in Int, fee \in Int, cont \in Int : X = s.rate * s.loose /\ fee = a.feePct /\ cont = a.contPct
    <2>1. s.rate * s.loose \in Int
        BY DEF Composed
    <2>2. a.feePct \in Int /\ a.contPct \in Int
        BY DEF Typed
    <2> QED BY <2>1, <2>2
<1>2. PICK F \in Int, C \in Int : F = Dev!Pct(X, fee) /\ C = Dev!Pct(X, cont) /\ 100 * F = X * fee /\ 100 * C = X * cont
    <2>1. Whole(X, fee) /\ Whole(X, cont)
        BY <1>1
    <2>2. Dev!Pct(X, fee) \in Int /\ 100 * Dev!Pct(X, fee) = X * fee /\ Dev!Pct(X, cont) \in Int /\ 100 * Dev!Pct(X, cont) = X * cont
        BY <2>1, PctWhole
    <2> QED BY <2>2
<1>3. Dev!Pct(X, onCosts) = X + F + C
    <2>1. PICK p \in Int : p = onCosts /\ p = 100 + fee + cont
        BY <1>1
    <2>2. 100 * (X + F + C) = X * p
        <3>1. X * p = 100 * X + X * fee + X * cont
            BY <2>1
        <3>2. PICK y \in Int, z \in Int : y = X * fee /\ z = X * cont
            OBVIOUS
        <3>3. 100 * F = y /\ 100 * C = z /\ X * p = 100 * X + y + z
            BY <1>2, <3>1, <3>2
        <3> HIDE <1>2, <3>1, <3>2, <2>1
        <3> QED BY <3>3
    <2> QED BY <2>1, <2>2, PctIs
<1>4. lines = others \o loose
    BY SchemeLinesAre, Zenon
<1>5. /\ m \in Nat /\ others = [i \in 1..m |-> others[i]] /\ \A i \in 1..m : Inside(others[i], total)
      /\ AmountsAre(AmountsOf(a.other), others, m)
    BY OthersHold DEF Typed
<1>6. \E k \in Nat : \E x : /\ loose = [i \in 1..k |-> loose[i]] /\ Summed(x, k) = X + F + C
                            /\ AmountsAre(x, loose, k) /\ \A i \in 1..k : Inside(loose[i], total)
    <2>1. CASE s.loose > 0
        <3> DEFINE line == Dev!Line(Dev!Pct(X, onCosts), 1, s.P, a.profile)
                   x == [i \in 1..1 |-> X + F + C]
        <3>1. loose = <<line>>
            BY <1>1, <2>1, Zenon DEF LooseLine
        <3>2. Inside(line, total) /\ line.amount = X + F + C
            BY <1>3 DEF Inside, Dev!Line
        <3>3. x[1] = X + F + C /\ \A i \in 1..1 : x[i] = X + F + C
            OBVIOUS
        <3> HIDE DEF line, x, total, loose
        <3>4. loose = [i \in 1..1 |-> loose[i]] /\ loose[1] = line
            BY <3>1
        <3>5. Summed(x, 1) = X + F + C
            <4>1. PICK t : AddsUp(t, x, 1) /\ Summed(x, 1) = t[1]
                BY <3>3, SumIs
            <4>2. t[1] = t[0] + x[1] /\ t[0] = 0
                BY <4>1 DEF AddsUp
            <4> QED BY <3>3, <4>1, <4>2
        <3>6. AmountsAre(x, loose, 1) /\ \A i \in 1..1 : Inside(loose[i], total)
            BY <3>2, <3>3, <3>4 DEF AmountsAre
        <3> QED BY <3>4, <3>5, <3>6
    <2>2. CASE ~(s.loose > 0)
        <3> DEFINE x == [i \in 1..0 |-> 0]
        <3>1. loose = <<>>
            BY <2>2 DEF LooseLine
        <3>2. X = 0
            BY <1>1, <2>2 DEF Composed
        <3>3. F = 0 /\ C = 0
            BY <1>2, <3>2
        <3> HIDE DEF loose, x
        <3>4. loose = [i \in 1..0 |-> loose[i]]
            BY <3>1
        <3>5. Summed(x, 0) = 0
            <4>1. \A i \in 1..0 : x[i] = 0
                OBVIOUS
            <4> QED BY <4>1, ZeroSum
        <3>6. AmountsAre(x, loose, 0) /\ \A i \in 1..0 : Inside(loose[i], total)
            BY DEF AmountsAre
        <3>7. Summed(x, 0) = X + F + C
            BY <3>2, <3>3, <3>5
        <3> QED BY <3>4, <3>6, <3>7
    <2> QED BY <2>1, <2>2
<1>7. \A i \in DOMAIN lines : Spreads(lines[i])
    OBVIOUS
<1>8. total \in Nat
    OBVIOUS
<1> HIDE DEF lines, others, loose, total, onCosts, m
<1>9. PICK k \in Nat : \E x : /\ loose = [i \in 1..k |-> loose[i]] /\ Summed(x, k) = X + F + C
                              /\ AmountsAre(x, loose, k) /\ \A i \in 1..k : Inside(loose[i], total)
    BY <1>6
<1>10. PICK x : /\ loose = [i \in 1..k |-> loose[i]] /\ Summed(x, k) = X + F + C
                /\ AmountsAre(x, loose, k) /\ \A i \in 1..k : Inside(loose[i], total)
    BY <1>9
<1>11. Joined(lines, others, loose, m, k)
    BY <1>4, <1>5, <1>10, JoinIs
<1>12. HeldLines(lines, m + k, total)
    BY <1>5, <1>7, <1>10, <1>11, JoinHolds
<1>13. Carries(lines, total, Summed(AmountsOf(a.other), m) + Summed(x, k))
    BY <1>5, <1>8, <1>10, <1>11, <1>12, ListsHold
<1>14. Dev!SumOver(AmountsOf(a.other)) = Summed(AmountsOf(a.other), m)
    BY BillsAre DEF Typed, m
<1> QED BY <1>1, <1>2, <1>10, <1>13, <1>14 DEF lines, total

\* Nothing comes of no phases.
LEMMA NoPhases ==
    ASSUME NEW a, NEW opts, Typed(a, opts), NEW s, Composed(s, a, opts), s.phases = <<>>
    PROVE  /\ s.loose = s.gia /\ s.build = s.rate * s.gia /\ s.other = Dev!SumOver(AmountsOf(a.other))
           /\ s.fees = Dev!Pct(s.rate * s.gia, a.feePct) /\ s.cont = Dev!Pct(s.rate * s.gia, a.contPct)
<1>1. ASSUME NEW g, DOMAIN g = {} PROVE Dev!SumOver(g) = 0
    <2>1. DOMAIN g = 1..0 /\ (\A i \in 1..0 : g[i] \in Int) /\ \A i \in 1..0 : g[i] = 0
        BY <1>1
    <2>2. Dev!SumOver(g) = Summed(g, 0)
        BY <2>1, FoldSums
    <2>3. Summed(g, 0) = 0
        BY <2>1, ZeroSum
    <2> QED BY <2>2, <2>3
<1>2. /\ Dev!SumOver(FieldOf(s.phases, "gia")) = 0 /\ Dev!SumOver(FieldOf(s.phases, "build")) = 0
      /\ Dev!SumOver(FieldOf(s.phases, "fees")) = 0 /\ Dev!SumOver(FieldOf(s.phases, "cont")) = 0
    <2>1. /\ DOMAIN FieldOf(s.phases, "gia") = {} /\ DOMAIN FieldOf(s.phases, "build") = {}
          /\ DOMAIN FieldOf(s.phases, "fees") = {} /\ DOMAIN FieldOf(s.phases, "cont") = {}
        BY DEF FieldOf
    <2> QED BY <1>1, <2>1, Zenon
<1>3. Dev!SumOver(OthersOf(s.phases)) = 0
    <2>1. DOMAIN OthersOf(s.phases) = {}
        BY DEF OthersOf
    <2> QED BY <1>1, <2>1, Zenon
<1>4. PICK gia \in Int, rate \in Int, X \in Int : gia = s.gia /\ rate = s.rate /\ X = rate * gia
    BY DEF Composed
<1>5. s.loose = gia
    BY <1>2, <1>4 DEF Composed
<1>6. PICK fee \in Int, cont \in Int, sum \in Int : fee = a.feePct /\ cont = a.contPct /\ sum = Dev!SumOver(AmountsOf(a.other))
    <2>1. Dev!SumOver(AmountsOf(a.other)) \in Int
        BY BillsAre DEF Typed
    <2> QED BY <2>1 DEF Typed
<1>7. s.build = 0 + X /\ s.fees = 0 + Dev!Pct(X, fee) /\ s.cont = 0 + Dev!Pct(X, cont) /\ s.other = sum + 0
    BY <1>2, <1>3, <1>4, <1>5, <1>6 DEF Composed
<1>8. Dev!Pct(X, fee) \in Int /\ Dev!Pct(X, cont) \in Int
    BY PctInt
<1> QED BY <1>4, <1>5, <1>6, <1>7, <1>8

\* The months hold what a scheme without phases costs.
LEMMA AloneHolds ==
    ASSUME NEW a, NEW opts, Typed(a, opts), NEW s, Composed(s, a, opts), s.total \in Nat \ {0}, s.P \in Nat \ {0}, s.P <= s.total,
           s.phases = <<>>, \A i \in DOMAIN Dev!SchemeLines(a, opts, s) : Spreads(Dev!SchemeLines(a, opts, s)[i]),
           AnyTimed(a) => /\ Costable(a.trades, s.gia, opts.build, a.feePct, a.contPct)
                          /\ Whole(Summed(RatesOf(a.trades), Len(a.trades)), opts.build)
    PROVE  Carries(Dev!SchemeLines(a, opts, s), s.total, Dev!Construction(s))
<1> DEFINE lines == Dev!SchemeLines(a, opts, s)
           firsts == SchemeBills(a, opts, s, 100 + a.feePct + a.contPct)
           others == SchemeOthers(a, s)
           m == Len(a.other)
           n == Len(a.trades)
           total == s.total
<1>1. PICK gia \in Int, rate \in Int, fee \in Int, cont \in Int, build \in Int :
          gia = s.gia /\ rate = s.rate /\ fee = a.feePct /\ cont = a.contPct /\ build = opts.build
    <2>1. s.gia \in Int /\ s.rate \in Int
        BY DEF Composed
    <2> QED BY <2>1 DEF Typed
<1>2. PICK X \in Int, F \in Int, C \in Int, sum \in Int :
          /\ X = rate * gia /\ F = Dev!Pct(X, fee) /\ C = Dev!Pct(X, cont) /\ sum = Dev!SumOver(AmountsOf(a.other))
          /\ sum = Summed(AmountsOf(a.other), m)
    <2>1. Dev!SumOver(AmountsOf(a.other)) \in Int /\ Dev!SumOver(AmountsOf(a.other)) = Summed(AmountsOf(a.other), m)
        BY BillsAre DEF Typed
    <2>2. PICK X \in Int : X = rate * gia
        OBVIOUS
    <2>3. Dev!Pct(X, fee) \in Int /\ Dev!Pct(X, cont) \in Int
        BY PctInt
    <2> QED BY <2>1, <2>2, <2>3
<1>3. Dev!Construction(s) = X + F + C + sum
    <2>1. s.build = X /\ s.fees = F /\ s.cont = C /\ s.other = sum
        BY <1>1, <1>2, NoPhases
    <2> QED BY <2>1 DEF Dev!Construction
<1>4. total \in Nat /\ total \in Nat \ {0} /\ \A i \in DOMAIN lines : Spreads(lines[i])
    OBVIOUS
<1>5. CASE ~AnyTimed(a)
    <2> DEFINE line == Dev!Line(Dev!Construction(s), 1, s.P, a.profile)
               x == [i \in 1..1 |-> X + F + C + sum]
    <2>1. lines = <<line>>
        BY <1>5, SchemeLinesAre, Zenon
    <2>2. Inside(line, total) /\ line.amount = X + F + C + sum
        BY <1>3 DEF Inside, Dev!Line
    <2>3. x[1] = X + F + C + sum /\ x[1] \in Int
        OBVIOUS
    <2> HIDE DEF line, x, total, lines
    <2>4. DOMAIN lines = 1..1 /\ lines[1] = line
        BY <2>1
    <2>5. HeldLines(lines, 1, total) /\ AmountsAre(x, lines, 1)
        BY <1>4, <2>2, <2>3, <2>4 DEF HeldLines, AmountsAre
    <2>6. Carries(lines, total, Summed(x, 1))
        BY <1>4, <2>5, LinesHold
    <2>7. Summed(x, 1) = x[1]
        <3>1. PICK t : AddsUp(t, x, 1) /\ Summed(x, 1) = t[1]
            BY <2>3, SumIs
        <3>2. t[1] = t[0] + x[1] /\ t[0] = 0
            BY <3>1 DEF AddsUp
        <3> QED BY <2>3, <3>1, <3>2
    <2> QED BY <1>3, <2>3, <2>6, <2>7 DEF lines, total
<1>6. CASE AnyTimed(a)
    <2> DEFINE e == [i \in 1..n |-> Dev!Pct(BuildOf(a.trades[i], gia, build), 100 + fee + cont)]
    <2>1. lines = firsts \o others
        BY <1>6, SchemeLinesAre, Zenon
    <2>2. /\ m \in Nat /\ others = [i \in 1..m |-> others[i]] /\ \A i \in 1..m : Inside(others[i], total)
          /\ AmountsAre(AmountsOf(a.other), others, m)
        BY OthersHold DEF Typed
    <2>3. n \in Nat /\ DOMAIN a.trades = 1..n /\ a.trades \in Seq(Bill) /\ \A i \in 1..n : a.trades[i] \in Bill
        BY DEF Typed
    <2>4. firsts = [i \in 1..n |-> firsts[i]]
        BY <2>3 DEF SchemeBills
    <2>5. ASSUME NEW i \in 1..n PROVE Inside(firsts[i], total) /\ e[i] = firsts[i].amount
        <3>1. PICK bill \in Bill : bill = a.trades[i] /\ bill.rate \in Int /\ bill.timing \in Times
            BY <2>3 DEF Bill
        <3>2. PICK from \in Int, months \in Int : from = Dev!StartOf(bill.timing) /\ months = s.P
            <4>1. PICK t \in Times : t = bill.timing
                BY <3>1
            <4>2. Dev!StartOf(t) \in Int
                BY TimesInt
            <4>3. s.P \in Int
                OBVIOUS
            <4> QED BY <4>1, <4>2, <4>3
        <3>3. firsts[i] = Placing(total, bill, e[i], from, months, a)
            BY <1>1, <2>3, <3>1, <3>2 DEF SchemeBills
        <3>4. e[i] \in Int
            <4>1. PICK z \in Int : z = bill.rate * gia
                BY <3>1
            <4>2. PICK y \in Int : y = BuildOf(bill, gia, build)
                BY <4>1, PctInt DEF BuildOf
            <4>3. e[i] = Dev!Pct(y, 100 + fee + cont) /\ 100 + fee + cont \in Int
                BY <3>1, <4>2
            <4> QED BY <4>3, PctInt
        <3> HIDE DEF firsts, total, e
        <3>5. PICK t \in Nat \ {0}, amount \in Int : t = total /\ amount = e[i]
            BY <1>4, <3>4
        <3>6. Inside(Placing(t, bill, amount, from, months, a), t) /\ Placing(t, bill, amount, from, months, a).amount = amount
            BY PlacingIs
        <3> QED BY <3>3, <3>5, <3>6
    <2>6. Summed(e, n) = X + F + C
        <3>1. PICK R \in Int : R = Summed(RatesOf(a.trades), n)
            BY BillsAre DEF Typed
        <3>2. Whole(R, build) /\ Costable(a.trades, gia, build, fee, cont)
            BY <1>1, <1>6, <3>1
        <3>3. X = Dev!Pct(R * gia, build)
            <4>1. rate = Dev!Pct(R, build)
                BY <1>1, <3>1 DEF Composed
            <4>2. 100 * rate = R * build
                BY <3>2, <4>1, PctWhole
            <4>3. PICK z \in Int : z = R * gia
                OBVIOUS
            <4>4. 100 * X = z * build
                <5>1. 100 * (rate * gia) = (100 * rate) * gia
                    OBVIOUS
                <5>2. (R * build) * gia = (R * gia) * build
                    OBVIOUS
                <5> QED BY <1>2, <4>2, <4>3, <5>1, <5>2
            <4> QED BY <4>3, <4>4, PctIs
        <3>4. WithOnCosts(e, a.trades, n, gia, build, 100 + fee + cont)
            BY DEF WithOnCosts
        <3>5. PICK bills \in Seq(Bill) : bills = a.trades /\ n = Len(bills)
            BY <2>3
        <3> HIDE DEF e, n
        <3>6. Summed(e, n) = X + Dev!Pct(X, fee) + Dev!Pct(X, cont)
            BY <3>1, <3>2, <3>3, <3>4, <3>5, OnCostsAdd, SMTT(20), ZenonT(30)
        <3> QED BY <1>2, <3>6
    <2> HIDE DEF e, firsts, others, lines, total, n, m
    <2>7. AmountsAre(e, firsts, n) /\ \A i \in 1..n : Inside(firsts[i], total)
        BY <2>5 DEF AmountsAre
    <2>8. Joined(lines, firsts, others, n, m)
        BY <2>1, <2>2, <2>3, <2>4, JoinIs
    <2>9. HeldLines(lines, n + m, total)
        BY <1>4, <2>2, <2>3, <2>7, <2>8, JoinHolds
    <2>10. Carries(lines, total, Summed(e, n) + Summed(AmountsOf(a.other), m))
        BY <1>4, <2>2, <2>3, <2>7, <2>8, <2>9, ListsHold
    <2> QED BY <1>2, <1>3, <2>6, <2>10 DEF lines, total
<1> QED BY <1>5, <1>6

\* The lists of lines of the phases, and what each month takes from them.
PhaseLists(a, opts, s) == [i \in DOMAIN s.phases |-> Dev!PhaseLines(a, opts, s, s.phases[i])]
InPhases(lists, total) == [m \in 1..total |-> Dev!SumOver([i \in DOMAIN lists |-> Dev!InMonth(lists[i], total, m)])]
CarryAll(lists, n, total, x) == DOMAIN lists = 1..n /\ \A i \in 1..n : Carries(lists[i], total, x[i])

LEMMA ListsCarry ==
    ASSUME NEW n \in Nat, NEW total \in Nat, NEW lists, NEW x, CarryAll(lists, n, total, x)
    PROVE  /\ \A m \in 1..total : InPhases(lists, total)[m] \in Int
           /\ Summed(InPhases(lists, total), total) = Summed(x, n)
           /\ \A i \in 1..n : x[i] \in Int
<1> DEFINE G == [i \in 1..n |-> Monthly(lists[i], total)]
           cols == InPhases(lists, total)
<1>1. ASSUME NEW i \in 1..n
      PROVE  G[i] = Monthly(lists[i], total) /\ x[i] = Summed(G[i], total) /\ x[i] \in Int /\ \A m \in 1..total : G[i][m] \in Int
    <2>1. Carries(lists[i], total, x[i])
        BY DEF CarryAll
    <2>2. G[i] = Monthly(lists[i], total)
        OBVIOUS
    <2> HIDE DEF G
    <2> QED BY <2>1, <2>2 DEF Carries
<1>2. Table(G, n, total)
    <2> HIDE DEF G
    <2> QED BY <1>1 DEF Table
<1>3. ASSUME NEW m \in 1..total PROVE cols[m] = Summed(ColumnAt(G, m, n), n)
    <2> DEFINE g == [i \in 1..n |-> Dev!InMonth(lists[i], total, m)]
    <2>1. cols[m] = Dev!SumOver(g)
        BY DEF InPhases, CarryAll
    <2>2. \A i \in 1..n : g[i] = Monthly(lists[i], total)[m]
        BY DEF Monthly
    <2>3. DOMAIN g = 1..n
        OBVIOUS
    <2> HIDE DEF g, G, cols
    <2>4. \A i \in 1..n : g[i] \in Int /\ ColumnAt(G, m, n)[i] = g[i]
        BY <1>1, <2>2 DEF ColumnAt
    <2>5. Dev!SumOver(g) = Summed(g, n)
        BY <2>3, <2>4, FoldSums
    <2>6. Summed(ColumnAt(G, m, n), n) = Summed(g, n)
        BY <2>4, SumSame
    <2> QED BY <2>1, <2>5, <2>6
<1> HIDE DEF G, cols
<1>4. /\ \A m \in 1..total : cols[m] \in Int
      /\ Summed(cols, total) = Summed(x, n)
    BY <1>1, <1>2, <1>3, SumTable
<1> QED BY <1>1, <1>4 DEF cols

\* The series of costs, month by month.
LEMMA ConstrIs ==
    ASSUME NEW a, NEW opts, NEW s, s.total \in Nat
    PROVE  /\ DOMAIN Dev!constrSeries(a, opts, s) = 1..s.total
           /\ \A m \in 1..s.total : Dev!constrSeries(a, opts, s)[m]
                                      = InPhases(PhaseLists(a, opts, s), s.total)[m] + Monthly(Dev!SchemeLines(a, opts, s), s.total)[m]
<1> DEFINE lists == PhaseLists(a, opts, s)
           lines == Dev!SchemeLines(a, opts, s)
           e == [m \in 1..s.total |-> Dev!SumOver([i \in DOMAIN lists |-> Dev!InMonth(lists[i], s.total, m)]) + Dev!InMonth(lines, s.total, m)]
<1>1. Dev!constrSeries(a, opts, s) = SubSeq(e, 1, s.total)
    BY Zenon DEF Dev!constrSeries, Dev!Series, Dev!Total, PhaseLists
<1>2. \A m \in 1..s.total : e[m] = InPhases(lists, s.total)[m] + Monthly(lines, s.total)[m]
    BY DEF InPhases, Monthly
<1>3. DOMAIN e = 1..s.total
    OBVIOUS
<1>4. PICK n \in Nat : n = s.total
    OBVIOUS
<1> HIDE DEF e, lists, lines
<1>5. DOMAIN SubSeq(e, 1, n) = 1..n /\ \A m \in 1..n : SubSeq(e, 1, n)[m] = e[m]
    OBVIOUS
<1> QED BY <1>1, <1>2, <1>4, <1>5 DEF lists, lines

\* The four parts of the cost of each phase.
CostOf(p) == p.build + p.fees + p.cont + Dev!SumOver(AmountsOf(p.other))
LEMMA PhaseCostsAdd ==
    ASSUME NEW phases, NEW n \in Nat, DOMAIN phases = 1..n,
           \A i \in 1..n : phases[i].build \in Int /\ phases[i].fees \in Int /\ phases[i].cont \in Int
                           /\ Dev!SumOver(AmountsOf(phases[i].other)) \in Int,
           NEW x, \A i \in 1..n : x[i] = CostOf(phases[i])
    PROVE  /\ Summed(x, n) = Dev!SumOver(FieldOf(phases, "build")) + Dev!SumOver(FieldOf(phases, "fees"))
                             + Dev!SumOver(FieldOf(phases, "cont")) + Dev!SumOver(OthersOf(phases))
           /\ Dev!SumOver(FieldOf(phases, "build")) \in Int /\ Dev!SumOver(FieldOf(phases, "fees")) \in Int
           /\ Dev!SumOver(FieldOf(phases, "cont")) \in Int /\ Dev!SumOver(OthersOf(phases)) \in Int
<1> DEFINE b == FieldOf(phases, "build")
           f == FieldOf(phases, "fees")
           c == FieldOf(phases, "cont")
           o == OthersOf(phases)
<1>1. DOMAIN b = 1..n /\ DOMAIN f = 1..n /\ DOMAIN c = 1..n /\ DOMAIN o = 1..n
    BY DEF FieldOf, OthersOf
<1>2. ASSUME NEW i \in 1..n
      PROVE  b[i] \in Int /\ f[i] \in Int /\ c[i] \in Int /\ o[i] \in Int /\ x[i] = b[i] + f[i] + c[i] + o[i]
    <2>1. b[i] = phases[i].build /\ f[i] = phases[i].fees /\ c[i] = phases[i].cont /\ o[i] = Dev!SumOver(AmountsOf(phases[i].other))
        BY DEF FieldOf, OthersOf
    <2>2. x[i] = phases[i].build + phases[i].fees + phases[i].cont + Dev!SumOver(AmountsOf(phases[i].other))
        BY DEF CostOf
    <2> HIDE DEF b, f, c, o
    <2> QED BY <2>1, <2>2
<1> HIDE DEF b, f, c, o
<1> DEFINE bf == [i \in 1..n |-> b[i] + f[i]]
           bfc == [i \in 1..n |-> b[i] + f[i] + c[i]]
<1>3. AreSums(bf, b, f, n) /\ AreSums(bfc, bf, c, n) /\ AreSums(x, bfc, o, n)
    <2>1. \A i \in 1..n : bf[i] = b[i] + f[i] /\ bfc[i] = b[i] + f[i] + c[i]
        OBVIOUS
    <2> HIDE DEF bf, bfc
    <2>2. \A i \in 1..n : b[i] \in Int /\ f[i] \in Int /\ c[i] \in Int /\ o[i] \in Int /\ x[i] = b[i] + f[i] + c[i] + o[i]
        BY <1>2
    <2>3. ASSUME NEW i \in 1..n
          PROVE  /\ b[i] \in Int /\ f[i] \in Int /\ bf[i] = b[i] + f[i]
                 /\ bf[i] \in Int /\ c[i] \in Int /\ bfc[i] = bf[i] + c[i]
                 /\ bfc[i] \in Int /\ o[i] \in Int /\ x[i] = bfc[i] + o[i]
        <3>1. bf[i] = b[i] + f[i] /\ bfc[i] = b[i] + f[i] + c[i]
            BY <2>1
        <3>2. b[i] \in Int /\ f[i] \in Int /\ c[i] \in Int /\ o[i] \in Int /\ x[i] = b[i] + f[i] + c[i] + o[i]
            BY <2>2
        <3> QED BY ONLY <3>1, <3>2
    <2>4. AreSums(bf, b, f, n)
        BY <2>3 DEF AreSums
    <2>5. AreSums(bfc, bf, c, n)
        BY <2>3 DEF AreSums
    <2>6. AreSums(x, bfc, o, n)
        BY <2>3 DEF AreSums
    <2> QED BY <2>4, <2>5, <2>6
<1> HIDE DEF bf, bfc
<1>4. Summed(bf, n) = Summed(b, n) + Summed(f, n) /\ Summed(bfc, n) = Summed(bf, n) + Summed(c, n) /\ Summed(x, n) = Summed(bfc, n) + Summed(o, n)
    <2>1. Summed(bf, n) = Summed(b, n) + Summed(f, n)
        BY <1>3, SumPlus
    <2>2. Summed(bfc, n) = Summed(bf, n) + Summed(c, n)
        BY <1>3, SumPlus
    <2>3. Summed(x, n) = Summed(bfc, n) + Summed(o, n)
        BY <1>3, SumPlus
    <2> QED BY <2>1, <2>2, <2>3
<1>5. Dev!SumOver(b) = Summed(b, n) /\ Dev!SumOver(f) = Summed(f, n) /\ Dev!SumOver(c) = Summed(c, n) /\ Dev!SumOver(o) = Summed(o, n)
    BY <1>1, <1>2, FoldSums
<1>6. Summed(b, n) \in Int /\ Summed(f, n) \in Int /\ Summed(c, n) \in Int /\ Summed(o, n) \in Int
    BY <1>2, SumInt
<1> QED BY <1>4, <1>5, <1>6 DEF b, f, c, o

\* The programme ends after its last phase.
LEMMA PhasesEnd ==
    ASSUME NEW s, NEW n \in Nat \ {0}, DOMAIN s.phases = 1..n, \A i \in 1..n : Windowed(s.phases[i]),
           s.P = Dev!Max({s.phases[i].completion : i \in 1..n}), s.total = Dev!Max({s.phases[i].end : i \in 1..n})
    PROVE  /\ s.P \in Nat \ {0} /\ s.total \in Nat \ {0} /\ s.P <= s.total
           /\ \A i \in 1..n : s.phases[i].completion <= s.total
<1> DEFINE tag == [i \in 1..n |-> s.phases[i].completion]
           til == [i \in 1..n |-> s.phases[i].end]
           S == {tag[i] : i \in 1..n}
           T == {til[i] : i \in 1..n}
<1>1. ASSUME NEW i \in 1..n PROVE tag[i] \in Nat \ {0} /\ til[i] \in Nat \ {0} /\ tag[i] < til[i] /\ tag[i] = s.phases[i].completion
    <2>1. tag[i] = s.phases[i].completion /\ til[i] = s.phases[i].end /\ Windowed(s.phases[i])
        OBVIOUS
    <2> HIDE DEF tag, til
    <2>2. PICK p : p = s.phases[i]
        OBVIOUS
    <2>3. p.completion \in Nat \ {0} /\ p.end \in Nat \ {0} /\ p.completion < p.end
        <3>1. PICK b \in Nat \ {0}, k \in Nat \ {0}, e \in Nat \ {0} : b = p.start /\ k = p.months /\ e = p.sale.months
            BY <2>1, <2>2 DEF Windowed
        <3>2. p.completion = b + k - 1 /\ p.end = b + k + e - 1
            BY <2>1, <2>2, <3>1 DEF Windowed
        <3>3. b + k - 1 \in Nat \ {0} /\ b + k + e - 1 \in Nat \ {0} /\ b + k - 1 < b + k + e - 1
            OBVIOUS
        <3> QED BY <3>2, <3>3, Zenon
    <2> QED BY <2>1, <2>2, <2>3
<1>2. S = {s.phases[i].completion : i \in 1..n} /\ T = {s.phases[i].end : i \in 1..n}
    OBVIOUS
<1> HIDE DEF tag, til
<1>3. IsFiniteSet(S) /\ IsFiniteSet(T)
    BY ImageFinite
<1>4. S # {} /\ T # {} /\ (\A y \in S : y \in Nat \ {0}) /\ \A y \in T : y \in Nat \ {0}
    <2>1. 1 \in 1..n
        OBVIOUS
    <2> QED BY <1>1, <2>1
<1>5. \A X : Dev!Max(X) = Pf!Max(X)
    BY Zenon DEF Dev!Max, Pf!Max
<1> HIDE DEF S, T
<1>6. /\ s.P \in S /\ s.total \in T
      /\ \A y \in T : y <= s.total
    <2>1. (\A y \in S : y \in Int) /\ \A y \in T : y \in Int
        BY <1>4
    <2>2. Pf!Max(S) \in S /\ Pf!Max(T) \in T /\ \A y \in T : y <= Pf!Max(T)
        BY <1>3, <1>4, <2>1, MaxIs
    <2> QED BY <1>2, <1>5, <2>2
<1>7. s.P \in Nat \ {0} /\ s.total \in Nat \ {0}
    BY <1>4, <1>6
<1>8. ASSUME NEW i \in 1..n PROVE tag[i] <= s.total
    <2>1. til[i] \in T
        BY DEF T
    <2>2. PICK z \in Nat, y \in Nat, t \in Nat : z = tag[i] /\ y = til[i] /\ t = s.total /\ z < y
        BY <1>1, <1>7
    <2>3. y <= t
        BY <1>6, <2>1, <2>2
    <2> QED BY <2>2, <2>3
<1>9. PICK k \in 1..n : s.P = tag[k]
    BY <1>6 DEF S
<1> QED BY <1>1, <1>7, <1>8, <1>9

\* The costs of an appraisal divide as the model takes them: each bill by its percentages, each line by the weights
\* of its window.
CostsDivide(a, opts, s) ==
    /\ \A i \in DOMAIN s.phases :
          /\ Costable(s.phases[i].trades, s.phases[i].gia, opts.build, FeeOf(a, a.phases[i]), ContOf(a, a.phases[i]))
          /\ \A j \in DOMAIN Dev!PhaseLines(a, opts, s, s.phases[i]) : Spreads(Dev!PhaseLines(a, opts, s, s.phases[i])[j])
    /\ \A j \in DOMAIN Dev!SchemeLines(a, opts, s) : Spreads(Dev!SchemeLines(a, opts, s)[j])
    /\ s.phases # <<>> => s.loose >= 0 /\ Whole(s.rate * s.loose, a.feePct) /\ Whole(s.rate * s.loose, a.contPct)
    /\ s.phases = <<>> /\ AnyTimed(a) => /\ Costable(a.trades, s.gia, opts.build, a.feePct, a.contPct)
                                         /\ Whole(Summed(RatesOf(a.trades), Len(a.trades)), opts.build)

LEMMA PhasedHolds ==
    ASSUME NEW a, NEW opts, Typed(a, opts), NEW s, Composed(s, a, opts), Spans(s), s.phases # <<>>, CostsDivide(a, opts, s)
    PROVE  Dev!SumOver(Dev!constrSeries(a, opts, s)) = Dev!Construction(s)
<1> DEFINE lists == PhaseLists(a, opts, s)
           lines == Dev!SchemeLines(a, opts, s)
           series == Dev!constrSeries(a, opts, s)
           x == [i \in DOMAIN s.phases |-> CostOf(s.phases[i])]
<1>1. PICK n \in Nat \ {0} : DOMAIN s.phases = 1..n /\ DOMAIN a.phases = 1..n /\ \A i \in 1..n : a.phases[i] \in Stage
    <2>1. PICK k \in Nat : k = Len(a.phases) /\ DOMAIN a.phases = 1..k /\ \A i \in 1..k : a.phases[i] \in Stage
        BY DEF Typed
    <2>2. s.phases = [i \in 1..k |-> Dev!phaseCalc(a, opts, a.phases[i])]
        BY <2>1 DEF Composed
    <2>3. DOMAIN s.phases = 1..k
        BY <2>2
    <2>4. k # 0
        <3>1. ASSUME k = 0 PROVE FALSE
            <4>1. s.phases = <<>>
                BY <2>2, <3>1
            <4> QED BY <4>1
        <3> QED BY <3>1
    <2> QED BY <2>1, <2>3, <2>4
<1>2. ASSUME NEW i \in 1..n
      PROVE  /\ Windowed(s.phases[i]) /\ Billed(s.phases[i], opts.build, FeeOf(a, a.phases[i]), ContOf(a, a.phases[i]))
             /\ FeeOf(a, a.phases[i]) \in Int /\ ContOf(a, a.phases[i]) \in Int
    <2>1. PICK ph \in Stage : ph = a.phases[i]
        BY <1>1
    <2>2. s.phases[i] = Dev!phaseCalc(a, opts, ph)
        BY <1>1, <2>1 DEF Composed
    <2>3. /\ Windowed(Dev!phaseCalc(a, opts, ph)) /\ Billed(Dev!phaseCalc(a, opts, ph), opts.build, FeeOf(a, ph), ContOf(a, ph))
          /\ FeeOf(a, ph) \in Int /\ ContOf(a, ph) \in Int
        BY PhaseIs
    <2> QED BY <2>1, <2>2, <2>3, Zenon
<1>3. /\ s.P \in Nat \ {0} /\ s.total \in Nat \ {0} /\ s.P <= s.total
      /\ \A i \in 1..n : s.phases[i].completion <= s.total
    <2>1. s.P = Dev!Max({s.phases[i].completion : i \in 1..n}) /\ s.total = Dev!Max({s.phases[i].end : i \in 1..n})
        BY <1>1 DEF Spans
    <2>2. \A i \in 1..n : Windowed(s.phases[i])
        BY <1>2
    <2>3. DOMAIN s.phases = 1..n
        BY <1>1
    <2> QED BY <2>1, <2>2, <2>3, PhasesEnd
<1>4. PICK total \in Nat \ {0} : total = s.total
    BY <1>3
<1>5. ASSUME NEW i \in 1..n PROVE Carries(lists[i], total, x[i]) /\ x[i] = CostOf(s.phases[i])
    <2>0. PICK p : p = s.phases[i]
        OBVIOUS
    <2>1. PICK fee \in Int, cont \in Int : p = s.phases[i] /\ fee = FeeOf(a, a.phases[i]) /\ cont = ContOf(a, a.phases[i])
        BY <1>2, <2>0
    <2>2. Windowed(p) /\ Billed(p, opts.build, fee, cont)
        BY <1>2, <2>1
    <2>3. i \in DOMAIN s.phases
        BY <1>1
    <2>4. Costable(p.trades, p.gia, opts.build, fee, cont) /\ \A j \in DOMAIN Dev!PhaseLines(a, opts, s, p) : Spreads(Dev!PhaseLines(a, opts, s, p)[j])
        BY <2>1, <2>3 DEF CostsDivide
    <2>5. p.completion <= s.total /\ s.total \in Nat \ {0} /\ opts.build \in Int
        BY <1>3, <2>1 DEF Typed
    <2>6. Carries(Dev!PhaseLines(a, opts, s, p), s.total, p.build + p.fees + p.cont + Dev!SumOver(AmountsOf(p.other)))
        BY <2>2, <2>4, <2>5, PhaseHolds
    <2>7. lists[i] = Dev!PhaseLines(a, opts, s, p)
        BY <2>1, <2>3 DEF PhaseLists
    <2>8. x[i] = CostOf(p) /\ CostOf(p) = p.build + p.fees + p.cont + Dev!SumOver(AmountsOf(p.other))
        BY <2>1, <2>3 DEF CostOf
    <2> HIDE DEF lists, x
    <2> QED BY <1>4, <2>1, <2>6, <2>7, <2>8, Zenon
<1>6. DOMAIN lists = 1..n
    BY <1>1 DEF PhaseLists
<1> HIDE DEF lists, x
<1>7. /\ \A m \in 1..total : InPhases(lists, total)[m] \in Int
      /\ Summed(InPhases(lists, total), total) = Summed(x, n)
    <2>1. CarryAll(lists, n, total, x)
        BY <1>5, <1>6 DEF CarryAll
    <2> QED BY <2>1, ListsCarry
<1>8. ASSUME NEW i \in 1..n
      PROVE  s.phases[i].build \in Int /\ s.phases[i].fees \in Int /\ s.phases[i].cont \in Int
             /\ s.phases[i].gia \in Int /\ Dev!SumOver(AmountsOf(s.phases[i].other)) \in Int
    <2>1. PICK p : p = s.phases[i]
        OBVIOUS
    <2>2. Billed(p, opts.build, FeeOf(a, a.phases[i]), ContOf(a, a.phases[i]))
        BY <1>2, <2>1
    <2>3. p.build \in Int /\ p.fees \in Int /\ p.cont \in Int /\ p.gia \in Int /\ p.other \in Seq(Bill)
        BY <2>2 DEF Billed
    <2>4. Dev!SumOver(AmountsOf(p.other)) \in Int
        BY <2>3, BillsAre
    <2> QED BY <2>1, <2>3, <2>4
<1>9. PICK b \in Int, f \in Int, c \in Int, o \in Int :
          /\ b = Dev!SumOver(FieldOf(s.phases, "build")) /\ f = Dev!SumOver(FieldOf(s.phases, "fees"))
          /\ c = Dev!SumOver(FieldOf(s.phases, "cont")) /\ o = Dev!SumOver(OthersOf(s.phases))
          /\ Summed(x, n) = b + f + c + o
    <2>1. \A i \in 1..n : x[i] = CostOf(s.phases[i])
        BY <1>5
    <2>2. DOMAIN s.phases = 1..n
        BY <1>1
    <2>3. \A i \in 1..n : s.phases[i].build \in Int /\ s.phases[i].fees \in Int /\ s.phases[i].cont \in Int
                           /\ Dev!SumOver(AmountsOf(s.phases[i].other)) \in Int
        BY <1>8
    <2>4. /\ Summed(x, n) = Dev!SumOver(FieldOf(s.phases, "build")) + Dev!SumOver(FieldOf(s.phases, "fees"))
                             + Dev!SumOver(FieldOf(s.phases, "cont")) + Dev!SumOver(OthersOf(s.phases))
          /\ Dev!SumOver(FieldOf(s.phases, "build")) \in Int /\ Dev!SumOver(FieldOf(s.phases, "fees")) \in Int
          /\ Dev!SumOver(FieldOf(s.phases, "cont")) \in Int /\ Dev!SumOver(OthersOf(s.phases)) \in Int
        BY <2>1, <2>2, <2>3, PhaseCostsAdd
    <2> HIDE <2>1, <2>2, <2>3
    <2> QED BY <2>4
<1>10. s.loose \in Int /\ s.loose >= 0
    <2>1. Dev!SumOver(FieldOf(s.phases, "gia")) \in Int
        <3> DEFINE g == FieldOf(s.phases, "gia")
        <3>1. DOMAIN g = 1..n /\ \A i \in 1..n : g[i] = s.phases[i].gia
            BY <1>1 DEF FieldOf
        <3> HIDE DEF g
        <3>2. \A i \in 1..n : g[i] \in Int
            BY <1>8, <3>1
        <3>3. Dev!SumOver(g) \in Int
            BY <3>1, <3>2, FoldSums, SumInt
        <3> QED BY <3>3 DEF g
    <2>2. s.gia \in Int /\ s.loose = s.gia - Dev!SumOver(FieldOf(s.phases, "gia"))
        BY DEF Composed
    <2>3. s.loose >= 0
        BY DEF CostsDivide
    <2> QED BY <2>1, <2>2, <2>3
<1>11. PICK X \in Int, F \in Int, C \in Int, sum \in Int :
           /\ X = s.rate * s.loose /\ F = Dev!Pct(s.rate * s.loose, a.feePct) /\ C = Dev!Pct(s.rate * s.loose, a.contPct)
           /\ sum = Dev!SumOver(AmountsOf(a.other))
    <2>1. PICK X \in Int, fee \in Int, cont \in Int : X = s.rate * s.loose /\ fee = a.feePct /\ cont = a.contPct
        <3>1. s.rate \in Int
            BY DEF Composed
        <3>2. s.rate * s.loose \in Int
            BY <1>10, <3>1
        <3> QED BY <3>2 DEF Typed
    <2>2. Dev!Pct(X, fee) \in Int /\ Dev!Pct(X, cont) \in Int
        BY PctInt
    <2>3. Dev!SumOver(AmountsOf(a.other)) \in Int
        BY BillsAre DEF Typed
    <2> QED BY <2>1, <2>2, <2>3
<1>12. Carries(lines, total, sum + (X + F + C))
    <2>1. /\ s.phases # <<>> => Whole(s.rate * s.loose, a.feePct) /\ Whole(s.rate * s.loose, a.contPct)
          /\ \A i \in DOMAIN Dev!SchemeLines(a, opts, s) : Spreads(Dev!SchemeLines(a, opts, s)[i])
        BY DEF CostsDivide
    <2>2. Carries(Dev!SchemeLines(a, opts, s), s.total,
                   Dev!SumOver(AmountsOf(a.other)) + (s.rate * s.loose + Dev!Pct(s.rate * s.loose, a.feePct) + Dev!Pct(s.rate * s.loose, a.contPct)))
        BY <1>3, <1>10, <2>1, SchemeHolds
    <2> QED BY <1>4, <1>11, <2>2
<1>13. Dev!Construction(s) = (b + f + c + o) + (sum + (X + F + C))
    <2>1. s.build = b + X /\ s.fees = f + F /\ s.cont = c + C /\ s.other = sum + o
        BY <1>9, <1>11 DEF Composed
    <2>2. Dev!Construction(s) = (b + X) + (f + F) + (c + C) + (sum + o)
        BY <2>1 DEF Dev!Construction
    <2>3. (b + X) + (f + F) + (c + C) + (sum + o) = (b + f + c + o) + (sum + (X + F + C))
        OBVIOUS
    <2> QED BY <2>2, <2>3
<1> HIDE DEF lines
<1>14. DOMAIN series = 1..total /\ \A m \in 1..total : series[m] = InPhases(lists, total)[m] + Monthly(lines, total)[m]
    BY <1>4, ConstrIs DEF lists, lines
<1> HIDE DEF series
<1>15. (\A m \in 1..total : Monthly(lines, total)[m] \in Int) /\ Summed(Monthly(lines, total), total) = sum + (X + F + C)
    BY <1>12 DEF Carries
<1>16. AreSums(series, InPhases(lists, total), Monthly(lines, total), total)
    BY <1>7, <1>14, <1>15 DEF AreSums
<1>17. Summed(series, total) = Summed(x, n) + (sum + (X + F + C))
    <2>1. Summed(series, total) = Summed(InPhases(lists, total), total) + Summed(Monthly(lines, total), total)
        BY <1>16, SumPlus
    <2> QED BY <1>7, <1>15, <2>1
<1>18. Dev!SumOver(series) = Summed(series, total)
    <2>1. \A m \in 1..total : series[m] \in Int
        BY <1>16 DEF AreSums
    <2> QED BY <1>14, <2>1, FoldSums
<1> QED BY <1>9, <1>13, <1>17, <1>18 DEF series

LEMMA UnphasedHolds ==
    ASSUME NEW a, NEW opts, Typed(a, opts), NEW s, Composed(s, a, opts), Spans(s), s.phases = <<>>, CostsDivide(a, opts, s)
    PROVE  Dev!SumOver(Dev!constrSeries(a, opts, s)) = Dev!Construction(s)
<1> DEFINE lists == PhaseLists(a, opts, s)
           lines == Dev!SchemeLines(a, opts, s)
           series == Dev!constrSeries(a, opts, s)
<1>1. s.P \in Nat \ {0} /\ s.total \in Nat \ {0} /\ s.P <= s.total
    BY DEF Spans
<1>2. PICK total \in Nat \ {0} : total = s.total
    BY <1>1
<1>3. Carries(lines, total, Dev!Construction(s))
    <2>1. /\ \A i \in DOMAIN Dev!SchemeLines(a, opts, s) : Spreads(Dev!SchemeLines(a, opts, s)[i])
          /\ AnyTimed(a) => /\ Costable(a.trades, s.gia, opts.build, a.feePct, a.contPct)
                            /\ Whole(Summed(RatesOf(a.trades), Len(a.trades)), opts.build)
        BY DEF CostsDivide
    <2> QED BY <1>1, <1>2, <2>1, AloneHolds
<1>4. DOMAIN lists = {}
    BY DEF PhaseLists
<1> HIDE DEF lines, lists
<1>5. DOMAIN series = 1..total /\ \A m \in 1..total : series[m] = InPhases(lists, total)[m] + Monthly(lines, total)[m]
    BY <1>2, ConstrIs DEF lists, lines
<1>6. CarryAll(lists, 0, total, lists)
    BY <1>4 DEF CarryAll
<1>7. (\A m \in 1..total : InPhases(lists, total)[m] \in Int) /\ Summed(InPhases(lists, total), total) = Summed(lists, 0)
    BY <1>6, ListsCarry
<1>8. Summed(lists, 0) = 0
    BY ZeroSum
<1> HIDE DEF series
<1>9. (\A m \in 1..total : Monthly(lines, total)[m] \in Int) /\ Summed(Monthly(lines, total), total) = Dev!Construction(s) /\ Dev!Construction(s) \in Int
    BY <1>3 DEF Carries
<1>10. AreSums(series, InPhases(lists, total), Monthly(lines, total), total)
    BY <1>5, <1>7, <1>9 DEF AreSums
<1>11. Summed(series, total) = Dev!Construction(s)
    <2>1. Summed(series, total) = Summed(InPhases(lists, total), total) + Summed(Monthly(lines, total), total)
        BY <1>10, SumPlus
    <2> QED BY <1>7, <1>8, <1>9, <2>1
<1>12. Dev!SumOver(series) = Summed(series, total)
    <2>1. \A m \in 1..total : series[m] \in Int
        BY <1>10 DEF AreSums
    <2> QED BY <1>5, <2>1, FoldSums
<1> QED BY <1>11, <1>12 DEF series

\* No pound of the construction cost is lost from the months or put in them twice, whatever the phases, the windows of
\* their bills, the profiles and the percentages: a bill whose window lies outside the programme is brought inside it
\* before it is spread, and the floor area that is in no phase is a line of its own (constrSeries, engine.ts).
THEOREM CostsPlaced ==
    ASSUME NEW a, NEW opts, Typed(a, opts), CostsDivide(a, opts, Dev!Scheme(a, opts))
    PROVE  Dev!SumOver(Costs(a, opts)) = Dev!Construction(Dev!Scheme(a, opts))
<1>1. PICK s : s = Dev!Scheme(a, opts)
    OBVIOUS
<1>2. Composed(s, a, opts) /\ Spans(s) /\ CostsDivide(a, opts, s)
    BY <1>1, SchemeIs
<1>3. Dev!SumOver(Dev!constrSeries(a, opts, s)) = Dev!Construction(s)
    <2>1. CASE s.phases = <<>>
        BY <1>2, <2>1, UnphasedHolds
    <2>2. CASE s.phases # <<>>
        BY <1>2, <2>2, PhasedHolds
    <2> QED BY <2>1, <2>2
<1> QED BY <1>1, <1>3 DEF Costs

\* The amounts of an appraisal that divide as the model takes them: its costs do, each month's cost is the part the
\* loan pays and the part the equity does, and a residual's land divides from its charges.
Divides(a, opts) ==
    /\ Typed(a, opts) /\ CostsDivide(a, opts, Dev!Scheme(a, opts))
    /\ Amounts(a, Dev!Scheme(a, opts))
    /\ \A m \in 1..Dev!Scheme(a, opts).total :
          Dev!Pct(Costs(a, opts)[m], a.ltcPct) + Dev!Pct(Costs(a, opts)[m], 100 - a.ltcPct) = Costs(a, opts)[m]
    /\ a.mode = "residual" => ((Remains(a, Dev!computeAppraisal(a, opts)) * 100) % (100 + a.acqPct)) = 0

\* Value is cost plus profit, and the three cash pages of an appraisal agree with them and with each other: the rows
\* end where the profit does before the arrangement fee, the project's flows are theirs before interest, the equity's
\* are after the debt is served as far as the receipts reach, whatever the months and however long the programme
\* (computeAppraisal and the flows its returns are solved from, engine.ts).
THEOREM CashPagesAgree ==
    ASSUME NEW a, NEW opts, Spread(a, opts), Divides(a, opts)
    PROVE  Dev!CashReconciles(a, Dev!computeAppraisal(a, opts))
<1> DEFINE s == Dev!Scheme(a, opts)
           constr == Costs(a, opts)
           rev == Proceeds(a, opts)
           f == Dev!Facility(a, constr, rev)
           r == Dev!computeAppraisal(a, opts)
<1>1. Terms(a) /\ Months(constr, rev, s.total)
    BY DEF Spread
<1>2. r = Dev!Solved(a, s, constr, rev, f)
    BY AppraisalIs, Zenon
<1>3. /\ Amounts(a, s) /\ Dev!SumOver(constr) = Dev!Construction(s)
      /\ \A m \in 1..s.total : Dev!Pct(constr[m], a.ltcPct) + Dev!Pct(constr[m], 100 - a.ltcPct) = constr[m]
      /\ a.mode = "residual" => ((Remains(a, r) * 100) % (100 + a.acqPct)) = 0
    <2>1. /\ Typed(a, opts) /\ CostsDivide(a, opts, Dev!Scheme(a, opts))
          /\ Amounts(a, s)
          /\ \A m \in 1..s.total : Dev!Pct(constr[m], a.ltcPct) + Dev!Pct(constr[m], 100 - a.ltcPct) = constr[m]
          /\ a.mode = "residual" => ((Remains(a, r) * 100) % (100 + a.acqPct)) = 0
        BY DEF Divides
    <2>2. Dev!SumOver(constr) = Dev!Construction(s)
        BY <2>1, CostsPlaced
    <2> QED BY <2>1, <2>2
<1>4. \E i : Levied(s, f, i)
    <2> HIDE DEF s, constr, rev
    <2>1. s.total \in Nat \ {0}
        BY <1>1 DEF Months
    <2>2. PICK g : /\ \A m \in 1..s.total : f[m] = g[m]
                   /\ \A m \in 0..s.total : g[m] \in Month
        <3>1. PICK g : IsFacility(g, a, constr, rev, s.total)
            BY <1>1, FacilityIs
        <3> QED BY <3>1 DEF IsFacility
    <2> DEFINE I == [m \in 1..s.total |-> f[m].intr]
    <2>3. \A m \in 1..s.total : f[m].intr \in Nat /\ f[m].peak \in Nat
        <3> SUFFICES ASSUME NEW m \in 1..s.total PROVE f[m].intr \in Nat /\ f[m].peak \in Nat
            OBVIOUS
        <3>1. f[m] \in Month
            BY <2>1, <2>2
        <3> QED BY <3>1 DEF Month
    <2> HIDE DEF f
    <2>4. DOMAIN I = 1..s.total /\ \A m \in 1..s.total : I[m] \in Nat
        BY <2>3
    <2>5. s.total \in Nat /\ f[s.total].peak \in Int
        BY <2>1, <2>3
    <2> HIDE DEF I
    <2>6. PICK v : AddsUp(v, I, s.total) /\ Dev!SumOver(I) = v[s.total] /\ v[s.total] \in Nat
        BY <2>4, <2>5, ColumnOf
    <2>7. Dev!SumOver(I) \in Int
        BY <2>6
    <2> QED BY <2>5, <2>7 DEF Levied, I
<1> HIDE DEF s, constr, rev, f, r
<1>5. r.profit + r.totalCost = s.gdv
    <2>1. CASE a.mode = "residual"
        <3>1. PICK i : Levied(s, f, i)
            BY <1>4
        <3> QED BY <1>2, <1>3, <2>1, <3>1, LandIsLeft
    <2>2. CASE a.mode # "residual"
        <3>1. PICK i : Levied(s, f, i)
            BY <1>4
        <3> QED BY <1>2, <1>3, <2>2, <3>1, ProfitIsLeft
    <2> QED BY <2>1, <2>2
<1>6. r = Dev!Solved(a, s, constr, rev, Dev!Facility(a, constr, rev))
    BY <1>2, Zenon DEF f
<1>7. Dev!CashReconciles(a, r)
    BY <1>1, <1>3, <1>5, <1>6, CashPages, ZenonT(40)
<1> QED BY <1>7 DEF r
=============================================================================
