------------------------------ MODULE DataRoom ------------------------------
(***************************************************************************)
(* The data room of one deal: documentsRouter of routers/ops.ts, the upload *)
(* route, the buyer's side of it in routers/portal.ts and deleteUnit of    *)
(* routers/sales.ts.  Every procedure reads the rows it is about and writes *)
(* by id in a later statement; only setRevision compares what it read.     *)
(*                                                                         *)
(* A document's number is its place in upload order (addedAt, then id).    *)
(***************************************************************************)
EXTENDS Integers, FiniteSets

CONSTANTS
    Client,      \* requests in flight
    MaxDoc,      \* bound on the documents of the deal
    Unit,        \* ids of plots
    Nobody       \* the null of a plot id

VARIABLES
    doc,         \* document rows
    count,       \* documents created
    unit,        \* plots that exist
    login,       \* plots whose buyer has a login
    call,        \* the locals of each request
    offered,     \* plots each document was ever offered to
    signers      \* plots whose buyer pressed sign on each document

vars == <<doc, count, unit, login, call, offered, signers>>

ASSUME MaxDocAssumption == MaxDoc \in Nat
ASSUME NobodyAssumption == Nobody \notin Unit

Doc == 1..MaxDoc
Kinds == {"none", "awaited", "stored"}
Row == [is : Kinds, next : 0..MaxDoc, shown : BOOLEAN, unit : Unit \cup {Nobody}, signed : BOOLEAN]
NoDoc == [is |-> "none", next |-> 0, shown |-> FALSE, unit |-> Nobody, signed |-> FALSE]
Local == [op : {"idle", "revise", "share", "sign", "drop"}, doc : 0..MaxDoc, to : 0..MaxDoc,
          expected : 0..MaxDoc, unit : Unit \cup {Nobody}]
About(op, d, u) == [op |-> op, doc |-> d, to |-> 0, expected |-> 0, unit |-> u]
Revision(d, to, expected) == [op |-> "revise", doc |-> d, to |-> to, expected |-> expected, unit |-> Nobody]
Idle == About("idle", 0, Nobody)

Init ==
    /\ doc = [d \in Doc |-> NoDoc]
    /\ count = 0
    /\ unit = Unit /\ login = {}
    /\ call = [c \in Client |-> Idle]
    /\ offered = [d \in Doc |-> {}]
    /\ signers = [d \in Doc |-> {}]

Listed == {d \in Doc : doc[d].is # "none"}
Begin(c, locals) == call[c] = Idle /\ call' = [call EXCEPT ![c] = locals]
End(c) == call' = [call EXCEPT ![c] = Idle]

-----------------------------------------------------------------------------
(* Documents                                                                *)

\* expect lists a document that has not come; an upload is always a row of its own.
Add(kind) ==
    /\ count < MaxDoc
    /\ count' = count + 1
    /\ doc' = [doc EXCEPT ![count + 1] = [NoDoc EXCEPT !.is = kind]]
    /\ UNCHANGED <<unit, login, call, offered, signers>>

expect == Add("awaited")
uploadDocument == Add("stored")

\* As if any other document could replace one.
AnyOther(to, d) == to # d

\* setRevision checks its two documents,
Newer(to, d) == to > d
Replaces(to, d) == doc[d].is = "stored" /\ doc[to].is = "stored" /\ Newer(to, d) /\ doc[to].next = 0

\* The form of the page sends a change of the link it shows, which is not one to d itself.
Offers(d, to, expected) == to # expected /\ expected # d

CheckRevision(c) ==
    /\ \E d \in Listed, to \in Listed \cup {0}, expected \in Listed \cup {0} :
         /\ to # 0 => Replaces(to, d)
         /\ Offers(d, to, expected)
         /\ Begin(c, Revision(d, to, expected))
    /\ UNCHANGED <<doc, count, unit, login, offered, signers>>

\* and links them if the link is still the one the browser showed.
setRevision(c) ==
    /\ call[c].op = "revise"
    /\ doc' = [doc EXCEPT ![call[c].doc].next = IF @ = call[c].expected THEN call[c].to ELSE @]
    /\ End(c) /\ UNCHANGED <<count, unit, login, offered, signers>>

-----------------------------------------------------------------------------
(* Sharing with a buyer                                                     *)

\* shareWithBuyer: a plot of the deal, or nobody; a placeholder goes to no plot.
MayOffer(d, u) == u = Nobody \/ (u \in unit /\ doc[d].is # "awaited")

CheckShare(c) ==
    /\ \E d \in Listed, u \in Unit \cup {Nobody} :
         MayOffer(d, u) /\ Begin(c, About("share", d, u))
    /\ UNCHANGED <<doc, count, unit, login, offered, signers>>

\* A plot deleted since fails the foreign key.
shareWithBuyer(c) ==
    LET d == call[c].doc  u == call[c].unit IN
    /\ call[c].op = "share"
    /\ IF u \notin unit \cup {Nobody} THEN UNCHANGED <<doc, offered>>
       ELSE /\ doc' = [doc EXCEPT ![d].shown = (u # Nobody), ![d].unit = u]
            /\ offered' = [offered EXCEPT ![d] = @ \cup ({u} \ {Nobody})]
    /\ End(c) /\ UNCHANGED <<count, unit, login, signers>>

\* As if whatever is shared on the deal could be signed.
OnTheDeal(d, u) == doc[d].shown

\* portal.sign finds the document among those offered to the buyer's plot,
Mine(d, u) == doc[d].shown /\ doc[d].unit = u

CheckSign(c) ==
    /\ \E u \in login \cap unit, d \in Listed :
         Mine(d, u) /\ Begin(c, About("sign", d, u))
    /\ UNCHANGED <<doc, count, unit, login, offered, signers>>

\* and stamps it by its id.
sign(c) ==
    /\ call[c].op = "sign"
    /\ doc' = [doc EXCEPT ![call[c].doc].signed = TRUE]
    /\ signers' = [signers EXCEPT ![call[c].doc] = @ \cup {call[c].unit}]
    /\ End(c) /\ UNCHANGED <<count, unit, login, offered>>

-----------------------------------------------------------------------------
(* Plots and their buyers                                                   *)

inviteBuyer(u) ==
    /\ u \in unit \ login /\ login' = login \cup {u}
    /\ UNCHANGED <<doc, count, unit, call, offered, signers>>

revoke(u) ==
    /\ u \in login /\ login' = login \ {u}
    /\ UNCHANGED <<doc, count, unit, call, offered, signers>>

\* deleteUnit takes the logins first; an invitation may come between, and leaves a login to nothing.
RemoveLogins(c) ==
    /\ \E u \in unit : login' = login \ {u} /\ Begin(c, About("drop", 0, u))
    /\ UNCHANGED <<doc, count, unit, offered, signers>>

deleteUnit(c) ==
    LET u == call[c].unit IN
    /\ call[c].op = "drop"
    /\ unit' = unit \ {u}
    /\ doc' = [d \in Doc |-> IF doc[d].unit = u THEN [doc[d] EXCEPT !.unit = Nobody] ELSE doc[d]]
    /\ End(c) /\ UNCHANGED <<count, login, offered, signers>>

Next ==
    \/ expect \/ uploadDocument
    \/ \E c \in Client :
         \/ CheckRevision(c) \/ setRevision(c) \/ CheckShare(c) \/ shareWithBuyer(c)
         \/ CheckSign(c) \/ sign(c) \/ RemoveLogins(c) \/ deleteUnit(c)
    \/ \E u \in Unit : inviteBuyer(u) \/ revoke(u)

Spec == Init /\ [][Next]_vars

-----------------------------------------------------------------------------
(* Properties                                                               *)

TypeOK ==
    /\ doc \in [Doc -> Row] /\ count \in 0..MaxDoc
    /\ unit \subseteq Unit /\ login \subseteq Unit
    /\ call \in [Client -> Local]
    /\ offered \in [Doc -> SUBSET Unit] /\ signers \in [Doc -> SUBSET Unit]

\* However links are made and removed, and by however many people at once, following
\* supersededById ends: any set of documents has one whose successor is outside it.
RevisionsEnd == \A S \in SUBSET Doc : S # {} => \E d \in S : doc[d].next \notin S

\* A plot's buyer is shown and signs only what was offered to that plot, on a plot that
\* exists, and nobody is offered a placeholder or asked to sign one.
OffersAreReal ==
    \A d \in Doc :
        /\ doc[d].unit \in unit \cup {Nobody}
        /\ doc[d].unit # Nobody => doc[d].shown /\ doc[d].is = "stored"
        /\ signers[d] \subseteq offered[d]
        /\ doc[d].signed <=> signers[d] # {}

\* Refuted: a document a portal shows as signed was signed there, by the buyer it is offered to
\* (portal.ts:941-944).  The signature stays on the row when the document is offered to another.
SignedByItsBuyer ==
    \A d \in Doc, u \in login : Mine(d, u) /\ doc[d].signed => u \in signers[d]

\* Refuted: a login opens a plot that exists (sales.ts:236-243).
LoginsOpenSomething == login \subseteq unit
=============================================================================
