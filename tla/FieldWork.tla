----------------------------- MODULE FieldWork -----------------------------
(***************************************************************************)
(* Photographs and the inspection of one deal, taken on site and finished  *)
(* at a desk: the queue of a device (lib/photo-store.ts, photo-queue.ts,   *)
(* photo-drain.ts, routes/FieldApp.tsx), the desk (routes/Workbench.tsx),  *)
(* and what the server keeps (uploads.ts, routers/inspections.ts,          *)
(* photosRouter of routers/ops.ts).                                        *)
(*                                                                         *)
(* The queue is in IndexedDB and survives the page; the rooms a screen     *)
(* holds do not.  A photograph uploaded is a row of its own each time.     *)
(***************************************************************************)
EXTENDS Integers, FiniteSets

CONSTANTS
    Device,      \* field apps
    Desk,        \* workbenches
    Photo,       \* photographs taken
    None,
    MaxRows,     \* bound on the rows one photograph comes to
    MaxSaves,    \* bound on inspections written
    MaxFail,     \* bound on uploads and answers lost
    MaxReload    \* bound on pages closed

ASSUME FieldWorkAssumption ==
    /\ Photo # {} /\ Device \cap Desk = {} /\ None \notin Device
    /\ MaxRows \in Nat /\ MaxSaves \in Nat /\ MaxFail \in Nat /\ MaxReload \in Nat

VARIABLES
    kept,        \* the queue record of each photograph: its device, where it stands, its row once known
    drain,       \* the pass each device is making over its queue
    rows,        \* SitePhoto rows the server holds
    made,        \* rows made of each photograph
    insp,        \* inspection rows by id: stamp and rooms
    saved,       \* writes of inspections so far; a stamp is the number of one
    screen,      \* what each screen holds: the id it saves to, its stamp and its rooms
    save,        \* the save each screen has under way
    named,       \* photographs some accepted save has named
    fails, reloads

vars == <<kept, drain, rows, made, insp, saved, screen, save, named, fails, reloads>>
server == <<rows, made, insp, saved>>

Screen == Device \cup Desk
Id == 0..MaxSaves
NoInsp == [stamp |-> 0, rooms |-> {}]
Shut == [open |-> FALSE, id |-> 0, held |-> 0, rooms |-> {}]
Idle == [at |-> "idle", todo |-> {}, photo |-> CHOOSE p \in Photo : TRUE, row |-> 0]
NoSave == [at |-> "idle", id |-> 0, held |-> 0, rooms |-> {}]

Kept == [by : Device \cup {None}, at : {"none", "due", "backoff", "up", "forgotten"}, row : Nat]
Drain == [at : {"idle", "next", "sent", "answered", "failed"}, todo : SUBSET Photo, photo : Photo, row : Nat]
Row == Photo \X Nat
Inspection == [stamp : Nat, rooms : SUBSET Row]
View == [open : BOOLEAN, id : Id, held : Nat, rooms : SUBSET Row]
Save == [at : {"idle", "photos", "stamp", "write", "done"}, id : Id, held : Nat, rooms : SUBSET Row]

TypeOK ==
    /\ kept \in [Photo -> Kept]
    /\ drain \in [Device -> Drain]
    /\ rows \subseteq Row
    /\ made \in [Photo -> 0..MaxRows]
    /\ insp \in [1..MaxSaves -> Inspection]
    /\ saved \in 0..MaxSaves
    /\ screen \in [Screen -> View]
    /\ save \in [Screen -> Save]
    /\ named \subseteq Photo
    /\ fails \in 0..MaxFail /\ reloads \in 0..MaxReload

Init ==
    /\ kept = [p \in Photo |-> [by |-> None, at |-> "none", row |-> 0]]
    /\ drain = [d \in Device |-> Idle]
    /\ rows = {} /\ made = [p \in Photo |-> 0]
    /\ insp = [i \in 1..MaxSaves |-> NoInsp] /\ saved = 0
    /\ screen = [s \in Screen |-> Shut]
    /\ save = [s \in Screen |-> NoSave]
    /\ named = {} /\ fails = 0 /\ reloads = 0

\* The inspection a query answers with is the one saved last (inspectedAt).
Latest == IF saved = 0 THEN 0 ELSE CHOOSE i \in 1..MaxSaves : insp[i].stamp = saved
RoomsOf(i) == IF i = 0 THEN {} ELSE insp[i].rooms
StampOf(i) == IF i = 0 THEN 0 ELSE insp[i].stamp
Mine(d) == {p \in Photo : kept[p].by = d}

\* POST /uploads/photo
Store(p) ==
    /\ made[p] < MaxRows
    /\ made' = [made EXCEPT ![p] = @ + 1]
    /\ rows' = rows \cup {<<p, made[p] + 1>>}

-----------------------------------------------------------------------------
(* The screen                                                               *)

\* The page opens: its rooms, its stamp and the id it will save to come from the server.
Open(s) ==
    /\ ~screen[s].open
    /\ screen' = [screen EXCEPT ![s] = [open |-> TRUE, id |-> Latest, held |-> StampOf(Latest), rooms |-> RoomsOf(Latest)]]
    /\ UNCHANGED <<kept, drain, server, save, named, fails, reloads>>

\* The query is read again: the id follows it, and the rooms of a desk; the stamp does not.
Refetch(s) ==
    /\ screen[s].open /\ screen[s].id # Latest
    /\ screen' = [screen EXCEPT ![s].id = Latest, ![s].rooms = IF s \in Desk THEN RoomsOf(Latest) ELSE @]
    /\ UNCHANGED <<kept, drain, server, save, named, fails, reloads>>

\* refreshQueue, and the effect that writes what is uploaded into its room.
Attributed(d) == {<<p, kept[p].row>> : p \in {q \in Mine(d) : kept[q].at = "up"}}

refreshQueue(d) ==
    /\ screen[d].open /\ ~(Attributed(d) \subseteq screen[d].rooms)
    /\ screen' = [screen EXCEPT ![d].rooms = @ \cup Attributed(d)]
    /\ UNCHANGED <<kept, drain, server, save, named, fails, reloads>>

\* The page goes, with its rooms and whatever it was doing.  The request it had sent goes on.
Close(s) ==
    /\ screen[s].open /\ reloads < MaxReload /\ reloads' = reloads + 1
    /\ screen' = [screen EXCEPT ![s] = Shut]
    /\ save' = [save EXCEPT ![s] = NoSave]
    /\ \/ UNCHANGED <<rows, made>>
       \/ s \in Device /\ drain[s].at = "sent" /\ Store(drain[s].photo)
    /\ drain' = [d \in Device |-> IF d = s THEN Idle ELSE drain[d]]
    /\ UNCHANGED <<kept, insp, saved, named, fails>>

-----------------------------------------------------------------------------
(* The queue                                                                *)

\* addShot puts the record and its blob before anything is said.
addShot(d, p) ==
    /\ kept[p].at = "none" /\ screen[d].open
    /\ kept' = [kept EXCEPT ![p].by = d, ![p].at = "due"]
    /\ UNCHANGED <<drain, server, screen, save, named, fails, reloads>>

\* Its backoff runs out, or the network is back and bringForward cuts it short.
Due(p) ==
    /\ kept[p].at = "backoff"
    /\ kept' = [kept EXCEPT ![p].at = "due"]
    /\ UNCHANGED <<drain, server, screen, save, named, fails, reloads>>

\* One pass at a time over what is due when it starts.
drainOnce(d) ==
    /\ screen[d].open /\ drain[d].at = "idle"
    /\ \E p \in Mine(d) : kept[p].at = "due"
    /\ drain' = [drain EXCEPT ![d] = [Idle EXCEPT !.at = "next", !.todo = {p \in Mine(d) : kept[p].at = "due"}]]
    /\ UNCHANGED <<kept, server, screen, save, named, fails, reloads>>

NextRecord(d) ==
    /\ drain[d].at = "next"
    /\ IF drain[d].todo = {} THEN drain' = [drain EXCEPT ![d] = Idle]
       ELSE \E p \in drain[d].todo :
              drain' = [drain EXCEPT ![d].at = "sent", ![d].photo = p, ![d].todo = @ \ {p}]
    /\ UNCHANGED <<kept, server, screen, save, named, fails, reloads>>

\* The upload makes its row; the answer comes, or is lost with or without a row made.
uploadPhoto(d) ==
    LET p == drain[d].photo IN
    /\ drain[d].at = "sent"
    /\ \/ /\ Store(p)
          /\ \/ drain' = [drain EXCEPT ![d].at = "answered", ![d].row = made'[p]] /\ UNCHANGED fails
             \/ fails < MaxFail /\ fails' = fails + 1 /\ drain' = [drain EXCEPT ![d].at = "failed"]
       \/ /\ fails < MaxFail /\ fails' = fails + 1
          /\ drain' = [drain EXCEPT ![d].at = "failed"] /\ UNCHANGED <<rows, made>>
    /\ UNCHANGED <<kept, insp, saved, screen, save, named, reloads>>

\* As if a failed upload were not due again.
NoRetry(rec, at, row) == IF at = "answered" THEN [rec EXCEPT !.at = "up", !.row = row] ELSE [rec EXCEPT !.at = "stuck"]

\* The record is patched with the id, or with one more attempt; the blob stays either way.
Outcome(rec, at, row) == IF at = "answered" THEN [rec EXCEPT !.at = "up", !.row = row] ELSE [rec EXCEPT !.at = "backoff"]

PatchRecord(d) ==
    LET p == drain[d].photo IN
    /\ drain[d].at \in {"answered", "failed"}
    /\ kept' = [kept EXCEPT ![p] = Outcome(@, drain[d].at, drain[d].row)]
    /\ drain' = [drain EXCEPT ![d].at = "next"]
    /\ UNCHANGED <<server, screen, save, named, fails, reloads>>

-----------------------------------------------------------------------------
(* The inspection                                                           *)

\* Send, or save the draft: one at a time; sending waits for an upload that is in flight.
SendSave(s) ==
    /\ screen[s].open /\ save[s].at = "idle" /\ saved < MaxSaves
    /\ save' = [save EXCEPT ![s] = [at |-> "photos", id |-> screen[s].id, held |-> screen[s].held, rooms |-> screen[s].rooms]]
    /\ UNCHANGED <<kept, drain, server, screen, named, fails, reloads>>

\* Every photograph named is one the server holds, or nothing is saved.
Held(s) == save[s].rooms \subseteq rows

CheckPhotos(s) ==
    /\ save[s].at = "photos"
    /\ save' = [save EXCEPT ![s] = IF Held(s) THEN [@ EXCEPT !.at = "stamp"] ELSE NoSave]
    /\ UNCHANGED <<kept, drain, server, screen, named, fails, reloads>>

\* assertUnchanged compares the row it read with the stamp the screen holds;
assertUnchanged(s) ==
    /\ save[s].at = "stamp"
    /\ save' = [save EXCEPT ![s] = IF @.id = 0 \/ StampOf(@.id) = @.held THEN [@ EXCEPT !.at = "write"] ELSE NoSave]
    /\ UNCHANGED <<kept, drain, server, screen, named, fails, reloads>>

\* the write goes by id: a new row, or whatever that row has become.
WriteInspection(s) ==
    LET i == IF save[s].id = 0 THEN saved + 1 ELSE save[s].id IN
    /\ save[s].at = "write" /\ saved < MaxSaves
    /\ saved' = saved + 1
    /\ insp' = [insp EXCEPT ![i] = [stamp |-> saved + 1, rooms |-> save[s].rooms]]
    /\ named' = named \cup {q[1] : q \in save[s].rooms}
    /\ save' = [save EXCEPT ![s].at = "done", ![s].held = saved + 1]
    /\ UNCHANGED <<kept, drain, rows, made, screen, fails, reloads>>

\* As if any answer cleared the queue.
ClearedOnAnswer(p, answered) == kept[p].at = "up"

\* On the answer the screen holds the new stamp, and forgetAttributed drops what the answer names.
Filed(p, answered) == kept[p].at = "up" /\ <<p, kept[p].row>> \in answered

Answer(s) ==
    /\ save[s].at = "done"
    /\ screen' = [screen EXCEPT ![s].held = save[s].held]
    /\ kept' = [p \in Photo |-> IF s \in Device /\ p \in Mine(s) /\ Filed(p, save[s].rooms)
                                THEN [kept[p] EXCEPT !.at = "forgotten"] ELSE kept[p]]
    /\ save' = [save EXCEPT ![s] = NoSave]
    /\ UNCHANGED <<drain, server, named, fails, reloads>>

\* photos.remove takes a row down by its id and looks at nothing else.
removePhoto ==
    /\ \E r \in rows : rows' = rows \ {r}
    /\ UNCHANGED <<kept, drain, made, insp, saved, screen, save, named, fails, reloads>>

Next ==
    \/ \E s \in Screen : \/ Open(s) \/ Refetch(s) \/ Close(s) \/ SendSave(s) \/ CheckPhotos(s)
                         \/ assertUnchanged(s) \/ WriteInspection(s) \/ Answer(s)
    \/ \E d \in Device : \/ refreshQueue(d) \/ drainOnce(d) \/ NextRecord(d) \/ uploadPhoto(d) \/ PatchRecord(d)
                         \/ \E p \in Photo : addShot(d, p)
    \/ \E p \in Photo : Due(p)
    \/ removePhoto

Spec == Init /\ [][Next]_vars

\* The surveyor comes back to the app; its timers run; a request that is sent comes to an end.
FairSpec ==
    /\ Spec
    /\ \A d \in Device : WF_vars(Open(d)) /\ WF_vars(drainOnce(d)) /\ WF_vars(NextRecord(d))
                         /\ WF_vars(uploadPhoto(d)) /\ WF_vars(PatchRecord(d))
    /\ \A p \in Photo : WF_vars(Due(p))

-----------------------------------------------------------------------------
(* Properties                                                               *)

\* A photograph is on its device, blob and all, until the server has it and a save it accepted
\* has named it, whatever was lost, closed or retried on the way.
PhotographKept ==
    \A p \in Photo :
        /\ kept[p].at \in {"up", "forgotten"} => kept[p].row \in 1..made[p]
        /\ kept[p].at = "forgotten" => p \in named

\* Every photograph taken is uploaded in the end.
PhotographArrives == \A p \in Photo : kept[p].at # "none" ~> made[p] > 0

\* Refuted: an inspection names photographs the server holds (inspections.ts:132).  A row may be
\* removed once it is named, and then no save that names it is accepted again.
NamedPhotosHeld == \A i \in 1..MaxSaves : insp[i].rooms \subseteq rows

\* Refuted: the device forgets a photograph only while the deal's inspection names it.
NamedStays == \A p \in Photo : kept[p].at = "forgotten" => <<p, kept[p].row>> \in RoomsOf(Latest)

\* Refuted: a photograph is one row.
OneRowEach == \A p \in Photo : made[p] <= 1
=============================================================================
