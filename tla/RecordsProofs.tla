--------------------------- MODULE RecordsProofs ----------------------------
(***************************************************************************)
(* What holds of the records of a workspace for every value of the          *)
(* constants: the data room, and the machines MCRecords puts beside it.     *)
(* Each has an inductive invariant, IInv of its module (OInv here for the   *)
(* data room), a lemma that its steps keep it and one that it gives what    *)
(* MCRecords says of the machine.    The theorems are at the end.           *)
(***************************************************************************)
EXTENDS MCRecords, FiniteSetTheorems, WellFoundedInduction, TLAPS

-----------------------------------------------------------------------------
(***************************************************************************)
(* DataRoom.  Revision links cannot go round, for any number of documents,  *)
(* people and requests: every link leads to a document uploaded later.      *)
(***************************************************************************)

\* Upload order is the measure: a link, and a link about to be made, runs forward in it.
Forward ==
    /\ \A d \in Doc : doc[d].next # 0 => doc[d].next > d
    /\ \A c \in Client : call[c].op = "revise" => call[c].doc \in Doc /\ (call[c].to # 0 => call[c].to > call[c].doc)

\* Who signs has a plot.
SignersHavePlots == \A c \in Client : call[c].op = "sign" => call[c].unit \in Unit

IInv == TypeOK /\ Forward /\ SignersHavePlots

-----------------------------------------------------------------------------
LEMMA LastOfSome ==
    ASSUME NEW S \in SUBSET Doc, S # {}
    PROVE  \E d \in S : \A e \in S : e <= d
<1> DEFINE T == {MaxDoc - d : d \in S}
<1>1. T \subseteq Nat /\ T # {}
  <2>1. \A d \in S : MaxDoc - d \in Nat
    BY MaxDocAssumption DEF Doc
  <2>2. PICK d \in S : TRUE
    OBVIOUS
  <2>3. MaxDoc - d \in T
    OBVIOUS
  <2> QED BY <2>1, <2>3
<1>2. PICK x \in T : \A y \in T : ~(<<y, x>> \in OpToRel(<, Nat))
  <2> HIDE DEF T
  <2> QED BY <1>1, NatLessThanWellFounded, WFMin
<1>3. \A y \in T : ~(y < x)
    BY <1>1, <1>2 DEF OpToRel
<1>4. PICK d \in S : x = MaxDoc - d
    OBVIOUS
<1>5. \A e \in S : e <= d
    BY <1>3, <1>4, MaxDocAssumption DEF Doc
<1> QED BY <1>5
LEMMA ForwardEnds ==
    ASSUME TypeOK, Forward
    PROVE  RevisionsEnd
<1> SUFFICES ASSUME NEW S \in SUBSET Doc, S # {}
             PROVE  \E d \in S : doc[d].next \notin S
    BY DEF RevisionsEnd
<1>1. PICK d \in S : \A e \in S : e <= d
    BY LastOfSome
<1>2. d \in Nat \ {0}
    BY DEF Doc
<1>3. CASE doc[d].next = 0
    BY <1>3 DEF Doc
<1>4. CASE doc[d].next # 0
  <2>1. doc[d].next > d /\ doc[d].next \in Nat
    BY <1>4 DEF Forward, TypeOK, Row
  <2> QED BY <1>1, <1>2, <2>1
<1> QED BY <1>3, <1>4

LEMMA IdleType == Idle \in Local /\ Idle.op = "idle"
BY MaxDocAssumption DEF Idle, About, Local

LEMMA AboutType ==
    ASSUME NEW op \in {"share", "sign", "drop"}, NEW d \in 0..MaxDoc, NEW u \in Unit \cup {Nobody}
    PROVE  About(op, d, u) \in Local /\ About(op, d, u).op = op /\ About(op, d, u).unit = u
BY MaxDocAssumption DEF About, Local

LEMMA NoDocType == NoDoc \in Row /\ NoDoc.next = 0
BY MaxDocAssumption DEF NoDoc, Row, Kinds

LEMMA InitIInv == Init => IInv
BY MaxDocAssumption DEF Init, IInv, TypeOK, Forward, SignersHavePlots, Row, NoDoc, Kinds, Local, Idle, About

\* Only setRevision writes a link, and it writes what CheckRevision found to run forward.
LEMMA StepIInv == IInv /\ [Next]_vars => IInv'
<1> SUFFICES ASSUME IInv, [Next]_vars
             PROVE  IInv'
    OBVIOUS
<1> USE MaxDocAssumption
<1>1. ASSUME NEW kind \in {"awaited", "stored"}, Add(kind)
      PROVE  IInv'
  <2>a. count + 1 \in Doc
    BY <1>1 DEF IInv, TypeOK, Add, Doc
  <2>b. [NoDoc EXCEPT !.is = kind] \in Row
    BY NoDocType DEF Row, Kinds
  <2>1. count + 1 \in Doc /\ [NoDoc EXCEPT !.is = kind] \in Row
    BY <2>a, <2>b
  <2>2. TypeOK'
    BY <1>1, <2>1 DEF IInv, TypeOK, Add
  <2>3. Forward'
    BY <1>1, <2>1 DEF IInv, TypeOK, Forward, Add, NoDoc
  <2> QED BY <1>1, <2>2, <2>3 DEF IInv, SignersHavePlots, Add
<1>2. ASSUME NEW c \in Client, CheckRevision(c)
      PROVE  IInv'
  <2>1. PICK d \in Listed, to \in Listed \cup {0}, expected \in Listed \cup {0} :
          /\ to # 0 => Replaces(to, d)
          /\ Begin(c, Revision(d, to, expected))
    BY <1>2 DEF CheckRevision
  <2>2. d \in Doc /\ to \in 0..MaxDoc /\ expected \in 0..MaxDoc /\ (to # 0 => to > d)
    BY <2>1 DEF Listed, Doc, Replaces, Newer
  <2>a. Revision(d, to, expected) \in Local
    BY <2>2 DEF Revision, Local, Doc
  <2>3. TypeOK'
    BY <1>2, <2>1, <2>a DEF IInv, TypeOK, CheckRevision, Begin
  <2>4. Forward'
    BY <1>2, <2>1, <2>2 DEF IInv, TypeOK, Forward, CheckRevision, Begin, Revision
  <2> QED BY <1>2, <2>1, <2>3, <2>4 DEF IInv, SignersHavePlots, Begin, TypeOK, Revision
<1>3. ASSUME NEW c \in Client, setRevision(c)
      PROVE  IInv'
  <2> DEFINE d == call[c].doc
  <2>1. d \in Doc /\ call[c].to \in 0..MaxDoc /\ (call[c].to # 0 => call[c].to > d)
    BY <1>3 DEF IInv, TypeOK, Forward, setRevision, Local
  <2>2. doc'[d] \in Row /\ (doc'[d].next # 0 => doc'[d].next > d)
    BY <1>3, <2>1 DEF IInv, TypeOK, Forward, setRevision, Row
  <2>3. \A e \in Doc : e # d => doc'[e] = doc[e]
    BY <1>3 DEF setRevision, IInv, TypeOK
  <2>4. doc' \in [Doc -> Row]
    BY <1>3, <2>2, <2>3 DEF setRevision, IInv, TypeOK
  <2>5. call' = [call EXCEPT ![c] = Idle] /\ Idle \in Local /\ Idle.op = "idle"
    BY <1>3, IdleType DEF setRevision, End
  <2>6. TypeOK'
    BY <1>3, <2>4, <2>5 DEF setRevision, IInv, TypeOK
  <2>7. Forward'
    BY <2>2, <2>3, <2>5 DEF IInv, TypeOK, Forward
  <2> QED BY <2>5, <2>6, <2>7 DEF IInv, SignersHavePlots, TypeOK
<1>4. ASSUME NEW c \in Client, CheckShare(c) \/ CheckSign(c) \/ RemoveLogins(c)
      PROVE  IInv'
  <2> DEFINE Sound(l) == l.op # "revise" /\ (l.op = "sign" => l.unit \in Unit) /\ Begin(c, l)
  <2>b. ASSUME CheckShare(c) PROVE \E l \in Local : Sound(l)
    <3>1. PICK d \in Doc, u \in Unit \cup {Nobody} : Begin(c, About("share", d, u))
      BY <2>b DEF CheckShare, Listed
    <3> QED BY <3>1, AboutType DEF Doc
  <2>c. ASSUME CheckSign(c) PROVE \E l \in Local : Sound(l)
    <3>1. PICK d \in Doc, u \in Unit : Begin(c, About("sign", d, u))
      BY <2>c DEF CheckSign, Listed, IInv, TypeOK
    <3>2. d \in 0..MaxDoc
      BY DEF Doc
    <3> QED BY <3>1, <3>2, AboutType
  <2>d. ASSUME RemoveLogins(c) PROVE \E l \in Local : Sound(l)
    <3>1. PICK u \in Unit : Begin(c, About("drop", 0, u))
      BY <2>d DEF RemoveLogins, IInv, TypeOK
    <3> QED BY <3>1, AboutType
  <2>1. PICK locals \in Local : Sound(locals)
    BY <1>4, <2>b, <2>c, <2>d
  <2>2. doc' = doc /\ count' = count /\ unit' = unit /\ offered' = offered /\ signers' = signers /\ login' \subseteq Unit
    BY <1>4 DEF CheckShare, CheckSign, RemoveLogins, IInv, TypeOK
  <2> QED BY <2>1, <2>2 DEF Begin, IInv, TypeOK, Forward, SignersHavePlots
<1>5. ASSUME NEW c \in Client, shareWithBuyer(c) \/ sign(c) \/ deleteUnit(c)
      PROVE  IInv'
  <2>1. call' = [call EXCEPT ![c] = Idle] /\ Idle \in Local /\ Idle.op = "idle"
    BY <1>5, IdleType DEF shareWithBuyer, sign, deleteUnit, End
  <2>2. call[c].unit \in Unit \cup {Nobody} /\ count' = count /\ unit' \subseteq Unit /\ login' = login
    BY <1>5 DEF shareWithBuyer, sign, deleteUnit, IInv, TypeOK, Local
  <2>a. doc \in [Doc -> Row] /\ offered \in [Doc -> SUBSET Unit] /\ signers \in [Doc -> SUBSET Unit]
    BY DEF IInv, TypeOK
  <2>b. ASSUME NEW e \in Doc
        PROVE  doc'[e] \in Row /\ doc'[e].next = doc[e].next
    <3>1. doc[e] \in Row
      BY <2>a
    <3>2. CASE shareWithBuyer(c)
      <4>1. CASE doc'[e] = doc[e]
        BY <3>1, <4>1
      <4>2. CASE doc'[e] = [doc[e] EXCEPT !.shown = (call[c].unit # Nobody), !.unit = call[c].unit]
        <5>1. (call[c].unit # Nobody) \in BOOLEAN
          OBVIOUS
        <5> QED BY <2>2, <3>1, <4>2, <5>1 DEF Row
      <4> QED BY <2>a, <3>2, <4>1, <4>2 DEF shareWithBuyer
    <3>3. CASE sign(c)
      BY <2>a, <3>1, <3>3 DEF sign, Row
    <3>4. CASE deleteUnit(c)
      BY <2>a, <3>1, <3>4 DEF deleteUnit, Row
    <3> QED BY <1>5, <3>2, <3>3, <3>4
  <2>c. doc' = [d \in Doc |-> doc'[d]]
    BY <1>5, <2>a DEF shareWithBuyer, sign, deleteUnit
  <2>3. doc' \in [Doc -> Row] /\ \A d \in Doc : doc'[d].next = doc[d].next
    <3> HIDE DEF Row
    <3> QED BY <2>b, <2>c
  <2>d. offered' \in [Doc -> SUBSET Unit]
    BY <1>5, <2>2, <2>a DEF shareWithBuyer, sign, deleteUnit
  <2>e. ASSUME sign(c) PROVE signers' \in [Doc -> SUBSET Unit]
    <3>1. call[c].unit \in Unit
      BY <2>e, <2>2 DEF sign, IInv, SignersHavePlots
    <3> QED BY <2>e, <3>1, <2>a DEF sign
  <2>f. signers' \in [Doc -> SUBSET Unit]
    BY <1>5, <2>e, <2>a DEF shareWithBuyer, deleteUnit
  <2>4. offered' \in [Doc -> SUBSET Unit] /\ signers' \in [Doc -> SUBSET Unit]
    BY <2>d, <2>f
  <2> QED BY <2>1, <2>2, <2>3, <2>4 DEF IInv, TypeOK, Forward, SignersHavePlots
<1>6. ASSUME NEW u \in Unit, inviteBuyer(u) \/ revoke(u)
      PROVE  IInv'
    BY <1>6 DEF inviteBuyer, revoke, IInv, TypeOK, Forward, SignersHavePlots
<1>7. CASE UNCHANGED vars
    BY <1>7 DEF vars, IInv, TypeOK, Forward, SignersHavePlots
<1> QED BY <1>1, <1>2, <1>3, <1>4, <1>5, <1>6, <1>7 DEF Next, expect, uploadDocument

-----------------------------------------------------------------------------
(* Offers and signatures                                                    *)

\* Ids are given in order, so a row that is not there yet holds nothing.
Unborn == \A d \in Doc : d > count => doc[d] = NoDoc

\* Whoever a document is offered to now is among those it was ever offered to.
OfferedNow == \A d \in Doc : doc[d].unit # Nobody => doc[d].unit \in offered[d]

\* A share under way was let through for a document that is there, and what is there never turns
\* into a placeholder; a signature under way was let through for a plot it had been offered to.
LetThrough ==
    \A c \in Client :
        /\ call[c].op \in {"share", "sign", "revise"} =>
              call[c].doc \in Doc /\ doc[call[c].doc].is # "none"
        /\ call[c].op = "share" /\ call[c].unit # Nobody => doc[call[c].doc].is = "stored"
        /\ call[c].op = "sign" => call[c].unit \in offered[call[c].doc]

OInv == IInv /\ Unborn /\ OfferedNow /\ LetThrough /\ OffersAreReal

LEMMA InitOInv == Init => OInv
BY InitIInv, NobodyAssumption DEF Init, OInv, Unborn, OfferedNow, LetThrough, OffersAreReal, NoDoc, Idle, About

LEMMA StepOInv == OInv /\ [Next]_vars => OInv'
<1> SUFFICES ASSUME OInv, [Next]_vars PROVE OInv'
    OBVIOUS
<1> USE MaxDocAssumption, NobodyAssumption
<1>0. IInv' /\ TypeOK /\ TypeOK'
    BY StepIInv DEF OInv, IInv
<1> DEFINE Rest == Unborn /\ OfferedNow /\ LetThrough /\ OffersAreReal
<1>1. ASSUME NEW kind \in {"awaited", "stored"}, Add(kind) PROVE Rest'
  <2> DEFINE n == count + 1
  <2>1. /\ n \in Doc /\ doc[n] = NoDoc
        /\ doc'[n] = [NoDoc EXCEPT !.is = kind] /\ \A d \in Doc \ {n} : doc'[d] = doc[d]
        /\ count' = n /\ count \in Nat
    BY <1>0, <1>1 DEF Add, OInv, Unborn, TypeOK, Doc
  <2>2. /\ doc'[n].unit = Nobody /\ ~doc'[n].signed /\ doc[n].is = "none" /\ ~doc[n].signed
    BY <2>1 DEF NoDoc
  <2>3. Unborn' /\ OfferedNow'
    BY <1>1, <2>1, <2>2 DEF Add, OInv, Unborn, OfferedNow, Doc
  <2>4. LetThrough'
    <3>1. call' = call /\ offered' = offered /\ LetThrough
      BY <1>1 DEF Add, OInv
    <3>2. \A d \in Doc : doc[d].is # "none" => doc'[d] = doc[d]
      BY <2>1, <2>2
    <3> QED BY <3>1, <3>2 DEF LetThrough
  <2>5. OffersAreReal'
    BY <1>1, <2>1, <2>2 DEF Add, OInv, OffersAreReal
  <2> QED BY <2>3, <2>4, <2>5
<1>2. ASSUME NEW c \in Client, NEW l \in Local, Begin(c, l), UNCHANGED <<doc, count, unit, offered, signers>>,
             l.op = "share" => l.doc \in Doc /\ doc[l.doc].is # "none"
                                 /\ (l.unit # Nobody => doc[l.doc].is = "stored"),
             l.op = "sign" => l.doc \in Doc /\ doc[l.doc].is # "none" /\ l.unit \in offered[l.doc],
             l.op = "revise" => l.doc \in Doc /\ doc[l.doc].is # "none"
      PROVE  Rest'
  <2>1. call'[c] = l /\ \A d \in Client \ {c} : call'[d] = call[d]
    BY <1>0, <1>2 DEF Begin, TypeOK
  <2>2. LetThrough'
    BY <1>2, <2>1 DEF OInv, LetThrough
  <2> QED BY <1>2, <2>2 DEF OInv, Unborn, OfferedNow, OffersAreReal
<1>3. ASSUME NEW c \in Client, CheckRevision(c) PROVE Rest'
  <2>1. PICK d \in Listed, to \in 0..MaxDoc, expected \in 0..MaxDoc : Begin(c, Revision(d, to, expected))
    BY <1>3 DEF CheckRevision, Listed, Doc
  <2>2. d \in Doc /\ doc[d].is # "none"
    BY DEF Listed
  <2>3. Revision(d, to, expected) \in Local /\ Revision(d, to, expected).op = "revise" /\ Revision(d, to, expected).doc = d
    BY <2>2 DEF Revision, Local, Doc
  <2> QED BY <1>2, <1>3, <2>1, <2>2, <2>3 DEF CheckRevision
<1>4. ASSUME NEW c \in Client, CheckShare(c) PROVE Rest'
  <2>1. PICK d \in Listed, u \in Unit \cup {Nobody} : MayOffer(d, u) /\ Begin(c, About("share", d, u))
    BY <1>4 DEF CheckShare
  <2>2. d \in Doc /\ doc[d].is # "none" /\ (u # Nobody => doc[d].is = "stored")
    BY <1>0, <2>1 DEF Listed, MayOffer, TypeOK, Row, Kinds
  <2>3. About("share", d, u) \in Local /\ About("share", d, u).op = "share"
            /\ About("share", d, u).doc = d /\ About("share", d, u).unit = u
    BY <2>2 DEF About, Local, Doc
  <2> QED BY <1>2, <1>4, <2>1, <2>2, <2>3 DEF CheckShare
<1>5. ASSUME NEW c \in Client, CheckSign(c) PROVE Rest'
  <2>1. PICK u \in Unit, d \in Listed : Mine(d, u) /\ Begin(c, About("sign", d, u))
    BY <1>0, <1>5 DEF CheckSign, TypeOK
  <2>2. d \in Doc /\ doc[d].is # "none" /\ u \in offered[d]
    BY <2>1 DEF Listed, Mine, OInv, OfferedNow
  <2>3. About("sign", d, u) \in Local /\ About("sign", d, u).op = "sign"
            /\ About("sign", d, u).doc = d /\ About("sign", d, u).unit = u
    BY <2>2 DEF About, Local, Doc
  <2> QED BY <1>2, <1>5, <2>1, <2>2, <2>3 DEF CheckSign
<1>6. ASSUME NEW c \in Client, RemoveLogins(c) PROVE Rest'
  <2>1. PICK u \in Unit : Begin(c, About("drop", 0, u))
    BY <1>0, <1>6 DEF RemoveLogins, TypeOK
  <2>2. About("drop", 0, u) \in Local /\ About("drop", 0, u).op = "drop"
    BY DEF About, Local
  <2> QED BY <1>2, <1>6, <2>1, <2>2 DEF RemoveLogins
<1>7. ASSUME NEW c \in Client, setRevision(c) \/ shareWithBuyer(c) \/ sign(c) \/ deleteUnit(c)
      PROVE  /\ call'[c] = Idle /\ Idle.op = "idle" /\ \A d \in Client \ {c} : call'[d] = call[d]
             /\ \A d \in Doc : doc'[d].is = doc[d].is
             /\ count' = count /\ \A d \in Doc : offered[d] \subseteq offered'[d]
  <2>1. call' = [call EXCEPT ![c] = Idle] /\ count' = count /\ Idle.op = "idle"
    BY <1>7, IdleType DEF setRevision, shareWithBuyer, sign, deleteUnit, End
  <2>2. \A d \in Doc : doc'[d].is = doc[d].is
    <3>1. CASE setRevision(c)
      BY <1>0, <3>1 DEF setRevision, TypeOK, Row
    <3>2. CASE shareWithBuyer(c)
      BY <1>0, <3>2 DEF shareWithBuyer, TypeOK, Row
    <3>3. CASE sign(c)
      BY <1>0, <3>3 DEF sign, TypeOK, Row
    <3>4. CASE deleteUnit(c)
      BY <1>0, <3>4 DEF deleteUnit, TypeOK, Row
    <3> QED BY <1>7, <3>1, <3>2, <3>3, <3>4
  <2>3. \A d \in Doc : offered[d] \subseteq offered'[d]
    BY <1>0, <1>7 DEF setRevision, shareWithBuyer, sign, deleteUnit, TypeOK
  <2> QED BY <1>0, <2>1, <2>2, <2>3 DEF TypeOK
<1>8. ASSUME NEW c \in Client, setRevision(c) \/ shareWithBuyer(c) \/ sign(c) \/ deleteUnit(c)
      PROVE  LetThrough'
  <2>1. LetThrough
    BY DEF OInv
  <2> QED BY <1>7, <1>8, <2>1 DEF LetThrough
<1>9. ASSUME NEW c \in Client, setRevision(c) \/ shareWithBuyer(c) \/ sign(c) \/ deleteUnit(c)
      PROVE  Unborn' /\ OfferedNow' /\ OffersAreReal'
  <2>0. LetThrough /\ Unborn /\ OffersAreReal
    BY DEF OInv
  <2>1. call[c].op \in {"revise", "share", "sign"} => doc[call[c].doc].is # "none" /\ call[c].doc \in Doc
    BY <2>0 DEF LetThrough
  <2>2. Unborn'
    <3>1. ASSUME NEW d \in Doc, d > count PROVE doc'[d] = doc[d]
      <4>1. doc[d] = NoDoc /\ doc[d].is = "none" /\ doc[d].unit = Nobody
        <5>1. doc[d] = NoDoc
          BY <2>0, <3>1 DEF Unborn
        <5> QED BY <5>1 DEF NoDoc
      <4>2. CASE deleteUnit(c)
        <5>1. doc'[d] = IF doc[d].unit = call[c].unit THEN [doc[d] EXCEPT !.unit = Nobody] ELSE doc[d]
          BY <4>2 DEF deleteUnit
        <5> QED BY <4>1, <5>1 DEF NoDoc
      <4>3. CASE setRevision(c) \/ shareWithBuyer(c) \/ sign(c)
        <5>1. d # call[c].doc
          BY <2>1, <4>1, <4>3 DEF setRevision, shareWithBuyer, sign
        <5> QED BY <1>0, <4>3, <5>1 DEF setRevision, shareWithBuyer, sign, TypeOK
      <4> QED BY <1>9, <4>2, <4>3
    <3> QED BY <1>7, <1>9, <2>0, <3>1 DEF Unborn
  <2>3. OfferedNow'
    BY <1>0, <1>9 DEF OInv, OfferedNow, setRevision, shareWithBuyer, sign, deleteUnit, TypeOK, Row
  <2>4. OffersAreReal'
    <3>1. ASSUME setRevision(c) PROVE OffersAreReal'
      BY <1>0, <2>0, <3>1 DEF OffersAreReal, setRevision, TypeOK, Row
    <3>2. ASSUME shareWithBuyer(c) PROVE OffersAreReal'
      <4> DEFINE d == call[c].doc  u == call[c].unit
      <4>1. /\ d \in Doc /\ u \in Unit \cup {Nobody} /\ (u # Nobody => doc[d].is = "stored")
            /\ unit' = unit /\ signers' = signers
        BY <1>0, <2>0, <3>2 DEF LetThrough, shareWithBuyer, TypeOK, Local
      <4>2. CASE u \notin unit \cup {Nobody}
        BY <2>0, <3>2, <4>1, <4>2 DEF OffersAreReal, shareWithBuyer
      <4>3. CASE u \in unit \cup {Nobody}
        <5>1. doc \in [Doc -> Row] /\ doc[d] \in Row /\ (u # Nobody) \in BOOLEAN
          BY <1>0, <4>1 DEF TypeOK
        <5>2. doc' = [doc EXCEPT ![d] = [doc[d] EXCEPT !.shown = (u # Nobody), !.unit = u]]
          BY <3>2, <4>1, <4>3, <5>1 DEF shareWithBuyer
        <5>3. \A e \in Doc \ {d} : doc'[e] = doc[e]
          BY <5>1, <5>2
        <5>4. doc'[d].unit = u /\ doc'[d].shown = (u # Nobody) /\ doc'[d].is = doc[d].is /\ doc'[d].signed = doc[d].signed
          BY <4>1, <5>1, <5>2 DEF Row
        <5>5. \A e \in Doc : offered[e] \subseteq offered'[e]
          BY <1>7, <1>9
        <5> HIDE DEF d, u
        <5>6. ASSUME NEW e \in Doc
              PROVE  /\ doc'[e].unit \in unit' \cup {Nobody}
                     /\ doc'[e].unit # Nobody => doc'[e].shown /\ doc'[e].is = "stored"
                     /\ signers'[e] \subseteq offered'[e]
                     /\ doc'[e].signed <=> signers'[e] # {}
          BY <2>0, <4>1, <4>3, <5>3, <5>4, <5>5 DEF OffersAreReal
        <5> QED BY <5>6 DEF OffersAreReal
      <4> QED BY <4>2, <4>3
    <3>3. ASSUME sign(c) PROVE OffersAreReal'
      <4> DEFINE d == call[c].doc  u == call[c].unit
      <4>1. d \in Doc /\ u \in offered[d] /\ unit' = unit /\ offered' = offered
        BY <2>0, <3>3 DEF LetThrough, sign
      <4>2. /\ doc'[d].unit = doc[d].unit /\ doc'[d].shown = doc[d].shown /\ doc'[d].is = doc[d].is
            /\ doc'[d].signed = TRUE /\ \A e \in Doc \ {d} : doc'[e] = doc[e]
            /\ signers'[d] = signers[d] \cup {u} /\ \A e \in Doc \ {d} : signers'[e] = signers[e]
        BY <1>0, <3>3, <4>1 DEF sign, TypeOK, Row
      <4> QED BY <2>0, <4>1, <4>2 DEF OffersAreReal
    <3>4. ASSUME deleteUnit(c) PROVE OffersAreReal'
      <4>1. \A e \in Doc :
              /\ doc'[e].unit = IF doc[e].unit = call[c].unit THEN Nobody ELSE doc[e].unit
              /\ doc'[e].shown = doc[e].shown /\ doc'[e].is = doc[e].is
              /\ doc'[e].signed = doc[e].signed
        <5>1. ASSUME NEW e \in Doc
              PROVE  /\ doc[e] \in Row
                     /\ doc'[e] = IF doc[e].unit = call[c].unit THEN [doc[e] EXCEPT !.unit = Nobody] ELSE doc[e]
          BY <1>0, <3>4 DEF deleteUnit, TypeOK
        <5>2. ASSUME NEW e \in Doc
              PROVE  /\ doc'[e].unit = IF doc[e].unit = call[c].unit THEN Nobody ELSE doc[e].unit
                     /\ doc'[e].shown = doc[e].shown /\ doc'[e].is = doc[e].is
                     /\ doc'[e].signed = doc[e].signed
          <6>1. doc[e] \in Row /\ doc'[e] = IF doc[e].unit = call[c].unit THEN [doc[e] EXCEPT !.unit = Nobody] ELSE doc[e]
            BY <5>1
          <6> QED BY <6>1 DEF Row
        <5> QED BY <5>2
      <4> QED BY <2>0, <3>4, <4>1 DEF OffersAreReal, deleteUnit
    <3> QED BY <1>9, <3>1, <3>2, <3>3, <3>4
  <2> QED BY <2>2, <2>3, <2>4
<1>10. ASSUME NEW u \in Unit, inviteBuyer(u) \/ revoke(u) PROVE Rest'
  BY <1>10 DEF inviteBuyer, revoke, OInv, Unborn, OfferedNow, LetThrough, OffersAreReal
<1>11. ASSUME UNCHANGED vars PROVE Rest'
  BY <1>11 DEF vars, OInv, Unborn, OfferedNow, LetThrough, OffersAreReal
<1>12. Rest'
  BY <1>1, <1>3, <1>4, <1>5, <1>6, <1>8, <1>9, <1>10, <1>11 DEF Next, expect, uploadDocument
<1> QED BY <1>0, <1>12 DEF OInv

-----------------------------------------------------------------------------
(***************************************************************************)
(* CostMonitoring: the packages are x1, the contractors x2, the photo x3,   *)
(* the requests x6, what was entered x7 and whether they overlapped x8.     *)
(***************************************************************************)

\* A request begins: whoever was alone is so no longer, and what it goes by it has just read.
LEMMA CostBegins ==
    ASSUME Cost!IInv, NEW c \in Client, NEW k \in Cost!Locals, Cost!Begin(c, k),
           UNCHANGED <<x1, x2, x3, x4, x5, x7, x9, x10>>,
           k.op \in {"upsert", "refresh"} => k.pkg \in Cost!Held,
           k.op = "plan" => Cost!Held = {}, k.op # "import",
           k.op = "week" => x2[k.by].weeks = k.seen,
           k.op \in {"remove", "removing"} => Cost!Live(k.by) = {},
           k.op \in {"week", "remove", "removing"} => k.by \in Contractor
    PROVE  Cost!IInv'
<1>1. /\ \A d \in Client : x6'[d] = IF d = c THEN k ELSE x6[d]
      /\ x6' \in [Client -> Cost!Locals]
    BY DEF Cost!IInv, Cost!TypeOK, Cost!Begin
<1>2. x8' \in BOOLEAN /\ (~x8' => ~x8 /\ \A d \in Client : x6[d] = Cost!Idle)
    BY DEF Cost!Begin, Cost!IInv, Cost!TypeOK
<1>3. Cost!TypeOK'
    BY <1>1, <1>2 DEF Cost!IInv, Cost!TypeOK
<1>4. Cost!Held' = Cost!Held /\ Cost!FromXero' = Cost!FromXero /\ Cost!Fresh' = Cost!Fresh
      /\ Cost!OnRegister' = Cost!OnRegister /\ \A f : Cost!Live(f)' = Cost!Live(f)
    BY DEF Cost!Held, Cost!FromXero, Cost!Fresh, Cost!OnRegister, Cost!Live
<1>5. Cost!FiguresHold'
    BY <1>1, <1>4 DEF Cost!IInv, Cost!FiguresHold
<1>6. Cost!Idle.op = "none"
    BY DEF Cost!Idle
<1>7. ~x8' => Cost!OneAtATime' /\ Cost!ReadsStand'
    <2> SUFFICES ASSUME ~x8' PROVE Cost!OneAtATime' /\ Cost!ReadsStand'
        OBVIOUS
    <2>1. \A d \in Client : d # c => x6'[d] = Cost!Idle
        BY <1>1, <1>2
    <2>2. Cost!OneAtATime'
        BY <2>1 DEF Cost!OneAtATime, Cost!Idle
    <2>3. ASSUME NEW d \in Client
          PROVE  /\ x6'[d].op = "plan" => Cost!Held' = {}
                 /\ x6'[d].op # "import"
                 /\ x6'[d].op = "week" => x2'[x6'[d].by].weeks = x6'[d].seen
                 /\ x6'[d].op \in {"remove", "removing"} => Cost!Live(x6'[d].by) = {}
        BY <1>1, <1>4, <1>6, <2>1
    <2>4. ASSUME NEW d \in Client, x6'[d].op \in {"remove", "removing"}
          PROVE  Cost!Live(x6[d].by)' = {}
        <3>1. PICK f : f = x6'[d].by
            OBVIOUS
        <3>2. Cost!Live(x6[d].by)' = Cost!Live(f)'
            BY <3>1 DEF Cost!Live
        <3> QED BY <1>4, <2>3, <2>4, <3>1, <3>2
    <2> QED BY <2>2, <2>3, <2>4 DEF Cost!ReadsStand
<1>8. ~x8' => Cost!EachMadeOnce' /\ Cost!RecordStands'
    BY <1>2, <1>4 DEF Cost!IInv, Cost!EachMadeOnce, Cost!RecordStands
<1> QED BY <1>3, <1>5, <1>7, <1>8 DEF Cost!IInv

\* A request under way moves on, and ends: the others, if it is alone, are idle.
LEMMA CostMoves ==
    ASSUME Cost!IInv, NEW c \in Client, x6[c].op # "none", NEW k \in Cost!Locals,
           x6' = [x6 EXCEPT ![c] = k], x8' = x8, Cost!Held \subseteq Cost!Held',
           k.op \in {"none", "import", "refresh", "removing"},
           k.op = "refresh" => k.pkg \in Cost!Held',
           k.op = "import" => Cost!FromXero' = {},
           k.op = "removing" => k.by \in Contractor /\ (~x8 => Cost!Live(k.by)' = {})
    PROVE  /\ x6' \in [Client -> Cost!Locals]
           /\ \A d \in Client : /\ x6'[d].op \in {"upsert", "refresh"} => x6'[d].pkg \in Cost!Held'
                                /\ x6'[d].op \in {"week", "remove", "removing"} => x6'[d].by \in Contractor
           /\ ~x8' => Cost!OneAtATime' /\ Cost!ReadsStand'
<1>1. /\ \A d \in Client : x6'[d] = IF d = c THEN k ELSE x6[d]
      /\ x6' \in [Client -> Cost!Locals]
    BY DEF Cost!IInv, Cost!TypeOK
<1>2. \A d \in Client : /\ x6'[d].op \in {"upsert", "refresh"} => x6'[d].pkg \in Cost!Held'
                        /\ x6'[d].op \in {"week", "remove", "removing"} => x6'[d].by \in Contractor
    BY <1>1 DEF Cost!IInv, Cost!FiguresHold
<1>3. ~x8' => Cost!OneAtATime' /\ Cost!ReadsStand'
    <2> SUFFICES ASSUME ~x8' PROVE Cost!OneAtATime' /\ Cost!ReadsStand'
        OBVIOUS
    <2>0. Cost!Idle.op = "none"
        BY DEF Cost!Idle
    <2>1. \A d \in Client : d # c => x6'[d] = Cost!Idle
        BY <1>1, <2>0 DEF Cost!IInv, Cost!OneAtATime
    <2>2. Cost!OneAtATime'
        BY <2>1 DEF Cost!OneAtATime, Cost!Idle
    <2>3. ASSUME NEW d \in Client
          PROVE  /\ x6'[d].op = "plan" => Cost!Held' = {}
                 /\ x6'[d].op = "import" => Cost!FromXero' = {}
                 /\ x6'[d].op = "week" => x2'[x6'[d].by].weeks = x6'[d].seen
                 /\ x6'[d].op # "remove"
                 /\ x6'[d].op = "removing" => x6'[d] = k
        BY <1>1, <2>0, <2>1
    <2>4. ASSUME NEW d \in Client, x6'[d].op \in {"remove", "removing"}
          PROVE  Cost!Live(x6[d].by)' = {}
        <3>1. x6'[d].by = k.by /\ k.op = "removing"
            BY <2>3, <2>4
        <3>2. Cost!Live(x6[d].by)' = Cost!Live(k.by)'
            BY <3>1 DEF Cost!Live
        <3> QED BY <3>1, <3>2
    <2>5. \A d \in Client : /\ x6'[d].op = "plan" => Cost!Held' = {}
                            /\ x6'[d].op = "import" => Cost!FromXero' = {}
                            /\ x6'[d].op = "week" => x2'[x6'[d].by].weeks = x6'[d].seen
        BY <2>3
    <2>6. Cost!ReadsStand'
        BY <2>4, <2>5 DEF Cost!ReadsStand
    <2> QED BY <2>2, <2>6
<1> QED BY <1>1, <1>2, <1>3

LEMMA CostEnds ==
    ASSUME Cost!IInv, NEW c \in Client, x6[c].op # "none", Cost!End(c), Cost!Held \subseteq Cost!Held'
    PROVE  /\ x6' \in [Client -> Cost!Locals]
           /\ \A d \in Client : /\ x6'[d].op \in {"upsert", "refresh"} => x6'[d].pkg \in Cost!Held'
                                /\ x6'[d].op \in {"week", "remove", "removing"} => x6'[d].by \in Contractor
           /\ ~x8' => Cost!OneAtATime' /\ Cost!ReadsStand'
<1>1. PICK k : k = Cost!Idle
    OBVIOUS
<1>2. k \in Cost!Locals /\ k.op = "none"
    <2>1. Cost!Idle = [op |-> "none", pkg |-> Cost!Idle.pkg, by |-> Nobody, seen |-> 0, patch |-> {}]
        BY DEF Cost!Idle
    <2> QED BY <1>1, <2>1 DEF Cost!Locals, Cost!Op
<1>3. x6' = [x6 EXCEPT ![c] = k] /\ x8' = x8
    BY <1>1 DEF Cost!End
<1> QED BY <1>2, <1>3, CostMoves

\* The contractor's packages and photos are detached: nothing of theirs holds money, and none is let to them.
LEMMA CostDetached ==
    ASSUME Cost!IInv, NEW c \in Client, x6[c].op \in {"remove", "removing"}, NEW k, k = x6[c].by,
           x1' = Cost!Without(k), x3' = IF x3 = k THEN Nobody ELSE x3,
           x10' = x10 \cup (IF x8 THEN {} ELSE Cost!Live(k)), UNCHANGED <<x4, x5, x7, x8, x9>>
    PROVE  /\ x1' \in [Package -> Cost!PackageRow] /\ x3' \in Contractor \cup {Nobody} /\ x10' \subseteq Package
           /\ Cost!Held' = Cost!Held
           /\ \A p \in Package : /\ x1'[p].committed = x7'[p]
                                 /\ x1'[p].by \in (Cost!OnRegister \ {k}) \cup {Nobody}
           /\ x3' \in (Cost!OnRegister \ {k}) \cup {Nobody}
           /\ \A p \in Cost!Fresh' : x1'[p].committed = 0
           /\ ~x8 => x10' = {} /\ Cost!Live(k)' = {} /\ Cost!EachMadeOnce'
<1>0. Cost!Held \subseteq Package
    BY DEF Cost!Held
<1>1. \A p \in Package : /\ x1[p] \in Cost!PackageRow
                         /\ x1[p].committed = x7[p] /\ x1[p].by \in Cost!OnRegister \cup {Nobody}
    BY DEF Cost!IInv, Cost!TypeOK, Cost!FiguresHold
<1>2. \A p \in Package : /\ x1'[p] = IF x1[p].by = k THEN [x1[p] EXCEPT !.by = Nobody] ELSE x1[p]
                         /\ x1'[p] \in Cost!PackageRow
                         /\ x1'[p].made = x1[p].made /\ x1'[p].committed = x1[p].committed
                         /\ x1'[p].by = IF x1[p].by = k THEN Nobody ELSE x1[p].by
    <2>1. ASSUME NEW p \in Package
          PROVE  /\ x1'[p] = IF x1[p].by = k THEN [x1[p] EXCEPT !.by = Nobody] ELSE x1[p]
                 /\ x1'[p] \in Cost!PackageRow
                 /\ x1'[p].made = x1[p].made /\ x1'[p].committed = x1[p].committed
                 /\ x1'[p].by = IF x1[p].by = k THEN Nobody ELSE x1[p].by
        <3>1. x1'[p] = IF x1[p].by = k THEN [x1[p] EXCEPT !.by = Nobody] ELSE x1[p]
            BY DEF Cost!Without
        <3> QED BY <1>1, <3>1 DEF Cost!PackageRow
    <2> QED BY <2>1
<1>3. x1' \in [Package -> Cost!PackageRow]
    BY <1>2 DEF Cost!Without
<1>4. Cost!Held' = Cost!Held /\ Cost!Live(k) \subseteq Package
    BY <1>2 DEF Cost!Held, Cost!Live
<1>5. x3' \in (Cost!OnRegister \ {k}) \cup {Nobody} /\ x3' \in Contractor \cup {Nobody}
    BY DEF Cost!IInv, Cost!TypeOK, Cost!FiguresHold
<1>6. \A p \in Package : /\ x1'[p].committed = x7'[p]
                         /\ x1'[p].by \in (Cost!OnRegister \ {k}) \cup {Nobody}
    BY <1>1, <1>2
<1>7. \A p \in Cost!Fresh' : x1'[p].committed = 0
    BY <1>2, <1>4 DEF Cost!Fresh, Cost!IInv, Cost!FiguresHold
<1>8. ASSUME ~x8 PROVE x10' = {} /\ Cost!Live(k)' = {} /\ Cost!EachMadeOnce'
    <2>1. Cost!Live(k) = {} /\ x10 = {} /\ Cost!EachMadeOnce
        BY <1>8 DEF Cost!IInv, Cost!ReadsStand, Cost!RecordStands
    <2>2. Cost!Live(k)' \subseteq Cost!Live(k)
        BY <1>2, <1>4 DEF Cost!Live, Cost!Held
    <2>3. ASSUME NEW p \in Cost!Held, NEW q \in Cost!Held, x1'[p].made = x1'[q].made
          PROVE  p = q
        <3>1. x1'[p].made = x1[p].made /\ x1'[q].made = x1[q].made
            BY <1>0, <1>2
        <3>2. x1[p].made = x1[q].made
            BY <2>3, <3>1
        <3> QED BY <2>1, <3>2 DEF Cost!EachMadeOnce
    <2>4. Cost!EachMadeOnce'
        BY <1>4, <2>3 DEF Cost!EachMadeOnce
    <2> QED BY <1>8, <2>1, <2>2, <2>4
<1>9. x10' \subseteq Package
    BY <1>4 DEF Cost!IInv, Cost!TypeOK
<1> QED BY <1>3, <1>4, <1>5, <1>6, <1>7, <1>8, <1>9

\* A package row is written, by a request that ends.
LEMMA CostWrites ==
    ASSUME Cost!IInv, NEW c \in Client, x6[c].op # "none", Cost!End(c),
           NEW p \in Package, NEW r \in Cost!PackageRow, r.made # "none",
           r.by \in Cost!OnRegister \cup {Nobody},
           x1' = [x1 EXCEPT ![p] = r], x7' = [x7 EXCEPT ![p] = r.committed],
           UNCHANGED <<x2, x3, x4, x5, x9, x10>>,
           ~x8 => \A q \in Cost!Held : x1[q].made = r.made => p = q
    PROVE  Cost!IInv'
<1>1. /\ \A q \in Package : x1'[q] = (IF q = p THEN r ELSE x1[q])
                            /\ x7'[q] = IF q = p THEN r.committed ELSE x7[q]
      /\ x1' \in [Package -> Cost!PackageRow] /\ x7' \in [Package -> Nat]
    BY DEF Cost!IInv, Cost!TypeOK, Cost!PackageRow
<1>2. Cost!Held' = Cost!Held \cup {p}
    BY <1>1 DEF Cost!Held
<1>3. /\ x6' \in [Client -> Cost!Locals]
      /\ \A d \in Client : /\ x6'[d].op \in {"upsert", "refresh"} => x6'[d].pkg \in Cost!Held'
                           /\ x6'[d].op \in {"week", "remove", "removing"} => x6'[d].by \in Contractor
      /\ ~x8' => Cost!OneAtATime' /\ Cost!ReadsStand'
    BY <1>2, CostEnds
<1>4. Cost!TypeOK'
    BY <1>1, <1>3 DEF Cost!IInv, Cost!TypeOK, Cost!End
<1>5. Cost!OnRegister' = Cost!OnRegister
    BY DEF Cost!OnRegister
<1>6. Cost!FiguresHold'
    BY <1>1, <1>2, <1>3, <1>5 DEF Cost!IInv, Cost!FiguresHold, Cost!Fresh
<1>7. ASSUME ~x8' PROVE Cost!EachMadeOnce' /\ Cost!RecordStands'
    <2>1. ~x8 /\ \A q \in Cost!Held : x1[q].made = r.made => p = q
        BY <1>7 DEF Cost!End
    <2>2. Cost!EachMadeOnce'
        BY <1>1, <1>2, <2>1 DEF Cost!IInv, Cost!EachMadeOnce, Cost!Held
    <2>3. Cost!RecordStands'
        BY <2>1 DEF Cost!IInv, Cost!RecordStands
    <2> QED BY <2>2, <2>3
<1> QED BY <1>3, <1>4, <1>6, <1>7 DEF Cost!IInv

LEMMA CostStep ==
    ASSUME Cost!IInv, [Cost!Next]_(Cost!vars)
    PROVE  Cost!IInv'
<1>0. /\ \A c \in Client : x6[c] \in Cost!Locals
      /\ \A p \in Package : x1[p] \in Cost!PackageRow
      /\ Cost!Held \subseteq Package /\ Cost!OnRegister \subseteq Contractor
    BY DEF Cost!IInv, Cost!TypeOK, Cost!Held, Cost!OnRegister
<1> DEFINE Asks(op, p, k, n, s) == [op |-> op, pkg |-> p, by |-> k, seen |-> n, patch |-> s]
<1>C. \A op : Cost!Called(op) = Asks(op, Cost!Idle.pkg, Nobody, 0, {})
    <2>1. Cost!Idle = Asks("none", Cost!Idle.pkg, Nobody, 0, {})
        BY DEF Cost!Idle
    <2> QED BY <2>1 DEF Cost!Called
<1>I. \A op \in Cost!Op, k \in Contractor \cup {Nobody}, n \in Nat, s \in SUBSET {"by", "committed"} :
        \A p \in Package \cup {Cost!Idle.pkg} : Asks(op, p, k, n, s) \in Cost!Locals
    BY DEF Cost!Locals
<1>1. ASSUME NEW c \in Client, Cost!CountPackages(c)
      PROVE  Cost!IInv'
    <2>1. PICK k : k = Asks("plan", Cost!Idle.pkg, Nobody, 0, {})
        OBVIOUS
    <2>2. k = Cost!Called("plan")
        BY <1>C, <2>1
    <2>3. k \in Cost!Locals /\ k.op = "plan"
        BY <1>I, <2>1 DEF Cost!Op
    <2> QED BY <1>1, <2>2, <2>3, CostBegins DEF Cost!CountPackages, Cost!rows
<1>2. ASSUME NEW c \in Client, Cost!createPlanFromAppraisal(c)
      PROVE  Cost!IInv'
    <2>1. PICK p \in Cost!Fresh : x1' = [x1 EXCEPT ![p] = [made |-> "plan", budget |-> 1, committed |-> 0, by |-> Nobody]]
        BY <1>2 DEF Cost!createPlanFromAppraisal
    <2>2. PICK r : r = [made |-> "plan", budget |-> 1, committed |-> 0, by |-> Nobody]
        OBVIOUS
    <2>3. r \in Cost!PackageRow /\ r.made # "none" /\ r.by = Nobody /\ r.committed = 0
        BY <2>2 DEF Cost!PackageRow
    <2>4. p \in Package /\ x7[p] = 0 /\ x7' = [x7 EXCEPT ![p] = r.committed]
        <3>1. p \in Package /\ x7[p] = 0 /\ x7' = x7
            BY <1>2 DEF Cost!Fresh, Cost!IInv, Cost!FiguresHold, Cost!createPlanFromAppraisal
        <3> QED BY <2>3, <3>1 DEF Cost!IInv, Cost!TypeOK
    <2>5. x6[c].op # "none" /\ (~x8 => Cost!Held = {})
        BY <1>2 DEF Cost!createPlanFromAppraisal, Cost!IInv, Cost!ReadsStand
    <2> QED BY <1>2, <2>1, <2>2, <2>3, <2>4, <2>5, CostWrites DEF Cost!createPlanFromAppraisal
<1>3. ASSUME NEW c \in Client, Cost!OwnsPackage(c)
      PROVE  Cost!IInv'
    <2>1. PICK p \in Cost!Held, s \in {{"by"}, {"committed"}}, f \in Contractor \cup {Nobody} :
            /\ f \in IF "by" \in s THEN Cost!OnRegister \cup {Nobody} ELSE {Nobody}
            /\ Cost!Begin(c, [op |-> "upsert", pkg |-> p, by |-> f, seen |-> 0, patch |-> s])
        BY <1>3 DEF Cost!OwnsPackage
    <2>2. PICK k : k = Asks("upsert", p, f, 0, s)
        OBVIOUS
    <2>3. k \in Cost!Locals
        BY <1>0, <1>I, <2>1, <2>2 DEF Cost!Op
    <2>4. k.op = "upsert" /\ k.pkg = p /\ Cost!Begin(c, k)
        BY <2>1, <2>2
    <2> QED BY <1>3, <2>1, <2>3, <2>4, CostBegins DEF Cost!OwnsPackage, Cost!rows
<1>4. ASSUME NEW c \in Client, Cost!upsertPackage(c)
      PROVE  Cost!IInv'
    <2>1. PICK p, k, s : p = x6[c].pkg /\ k = x6[c].by /\ s = x6[c].patch
        OBVIOUS
    <2>2. x6[c].op # "none" /\ p \in Cost!Held /\ s \in SUBSET {"by", "committed"} /\ k \in Contractor \cup {Nobody}
        BY <1>0, <1>4, <2>1 DEF Cost!upsertPackage, Cost!IInv, Cost!FiguresHold, Cost!Locals
    <2>3. CASE k \notin Cost!OnRegister \cup {Nobody}
        <3>1. UNCHANGED <<x1, x2, x3, x4, x5, x7, x8, x9, x10>>
            BY <1>4, <2>1, <2>3 DEF Cost!upsertPackage, Cost!End
        <3>2. Cost!Held' = Cost!Held
            BY <3>1 DEF Cost!Held
        <3>3. /\ x6' \in [Client -> Cost!Locals]
              /\ \A d \in Client : /\ x6'[d].op \in {"upsert", "refresh"} => x6'[d].pkg \in Cost!Held'
                                   /\ x6'[d].op \in {"week", "remove", "removing"} => x6'[d].by \in Contractor
              /\ ~x8' => Cost!OneAtATime' /\ Cost!ReadsStand'
            <4>1. Cost!End(c)
                BY <1>4 DEF Cost!upsertPackage
            <4> QED BY <2>2, <3>2, <4>1, CostEnds
        <3>4. Cost!TypeOK'
            BY <3>1, <3>3 DEF Cost!IInv, Cost!TypeOK
        <3>5. Cost!FiguresHold'
            <4>1. Cost!Fresh' = Cost!Fresh
                BY <3>2 DEF Cost!Fresh
            <4>3. Cost!OnRegister' = Cost!OnRegister
                BY <3>1 DEF Cost!OnRegister
            <4>2. Cost!FiguresHold
                BY DEF Cost!IInv
            <4>5. /\ \A q \in Package : x1'[q].committed = x7'[q] /\ x1'[q].by \in Cost!OnRegister' \cup {Nobody}
                  /\ \A q \in Cost!Fresh' : x1'[q].committed = 0
                  /\ x3' \in Cost!OnRegister' \cup {Nobody}
                BY <3>1, <4>1, <4>2, <4>3 DEF Cost!FiguresHold
            <4> QED BY <3>3, <4>5 DEF Cost!FiguresHold
        <3> QED BY <3>1, <3>2, <3>3, <3>4, <3>5 DEF Cost!IInv, Cost!EachMadeOnce, Cost!RecordStands
    <2>4. CASE k \in Cost!OnRegister \cup {Nobody}
        <3>1. PICK r : r = Cost!Patched(x1[p], k, s)
            OBVIOUS
        <3>2. x1[p] \in Cost!PackageRow /\ x1[p].made # "none" /\ x1[p].committed = x7[p]
              /\ x1[p].by \in Cost!OnRegister \cup {Nobody}
            BY <2>2 DEF Cost!Held, Cost!IInv, Cost!TypeOK, Cost!FiguresHold
        <3>3. /\ r \in Cost!PackageRow /\ r.made = x1[p].made /\ r.by \in Cost!OnRegister \cup {Nobody}
              /\ r.committed = IF "committed" \in s THEN 1 ELSE x7[p]
            BY <2>2, <2>4, <3>1, <3>2 DEF Cost!Patched, Cost!PackageRow
        <3>4. x1' = [x1 EXCEPT ![p] = r] /\ x7' = [x7 EXCEPT ![p] = r.committed]
            BY <1>4, <2>1, <2>4, <3>1, <3>3 DEF Cost!upsertPackage
        <3>6. UNCHANGED <<x2, x3, x4, x5, x9, x10>> /\ Cost!End(c) /\ p \in Package
            BY <1>0, <1>4, <2>2 DEF Cost!upsertPackage
        <3>5. \A q \in Cost!Held : ~x8 /\ x1[q].made = r.made => p = q
            BY <2>2, <3>3 DEF Cost!IInv, Cost!EachMadeOnce
        <3> QED BY <2>2, <3>2, <3>3, <3>4, <3>5, <3>6, CostWrites
    <2> QED BY <2>3, <2>4
<1>5. ASSUME NEW f \in Contractor, Cost!createContractor(f)
      PROVE  Cost!IInv'
    <2>1. /\ \A g \in Contractor : x2'[g].on = (IF g = f THEN "yes" ELSE x2[g].on) /\ x2'[g].weeks = x2[g].weeks
          /\ x2' \in [Contractor -> [on : {"none", "yes", "gone"}, weeks : Nat]]
        BY <1>5 DEF Cost!createContractor, Cost!IInv, Cost!TypeOK
    <2>2. Cost!OnRegister \subseteq Cost!OnRegister'
        BY <2>1 DEF Cost!OnRegister
    <2>3. UNCHANGED <<x1, x3, x4, x5, x6, x7, x8, x9, x10>>
        BY <1>5 DEF Cost!createContractor
    <2>4. Cost!TypeOK'
        BY <2>1, <2>3 DEF Cost!IInv, Cost!TypeOK
    <2>5. Cost!FiguresHold'
        BY <2>2, <2>3 DEF Cost!IInv, Cost!FiguresHold, Cost!Fresh, Cost!Held
    <2>6. ASSUME ~x8' PROVE Cost!ReadsStand'
        <3>1. ASSUME NEW d \in Client, x6[d].op = "week" PROVE x2'[x6[d].by].weeks = x6[d].seen
            <4>1. x2[x6[d].by].weeks = x6[d].seen /\ x6[d].by \in Contractor
                BY <2>3, <2>6, <3>1 DEF Cost!IInv, Cost!ReadsStand, Cost!FiguresHold
            <4> QED BY <2>1, <4>1
        <3> QED BY <2>3, <2>6, <3>1 DEF Cost!IInv, Cost!ReadsStand, Cost!Held, Cost!FromXero, Cost!Live
    <2>7. ~x8' => Cost!OneAtATime' /\ Cost!EachMadeOnce' /\ Cost!RecordStands'
        BY <2>1, <2>3 DEF Cost!IInv, Cost!OneAtATime, Cost!EachMadeOnce, Cost!RecordStands, Cost!Held
    <2> QED BY <2>4, <2>5, <2>6, <2>7 DEF Cost!IInv
<1>6. ASSUME NEW c \in Client, Cost!ReadWeeks(c)
      PROVE  Cost!IInv'
    <2>1. PICK f \in Cost!OnRegister : Cost!Begin(c, [Cost!Called("week") EXCEPT !.by = f, !.seen = x2[f].weeks])
        BY <1>6 DEF Cost!ReadWeeks
    <2>2. PICK y : y = Cost!Called("week")
        OBVIOUS
    <2>3. y \in Cost!Locals /\ y.op = "week"
        BY <1>C, <1>I, <2>2 DEF Cost!Op
    <2>4. f \in Contractor /\ x2[f].weeks \in Nat
        BY <1>0 DEF Cost!IInv, Cost!TypeOK
    <2>5. PICK k : k = [y EXCEPT !.by = f, !.seen = x2[f].weeks]
        OBVIOUS
    <2>6. k \in Cost!Locals /\ k.op = "week" /\ k.by = f /\ k.seen = x2[f].weeks
        BY <2>3, <2>4, <2>5 DEF Cost!Locals
    <2>7. Cost!Begin(c, k)
        BY <2>1, <2>2, <2>5
    <2> QED BY <1>6, <2>4, <2>6, <2>7, CostBegins DEF Cost!ReadWeeks, Cost!rows
<1>7. ASSUME NEW c \in Client, Cost!logTimesheetWeek(c)
      PROVE  Cost!IInv'
    <2>1. PICK f : f = x6[c].by
        OBVIOUS
    <2>2. f \in Contractor /\ x6[c].op = "week" /\ x6[c].seen \in Nat
        BY <1>0, <1>7, <2>1 DEF Cost!logTimesheetWeek, Cost!IInv, Cost!FiguresHold, Cost!Locals
    <2>3. UNCHANGED <<x1, x3, x4, x5, x7, x8, x10>> /\ Cost!End(c)
        BY <1>7 DEF Cost!logTimesheetWeek, Cost!End
    <2>4. \/ x2' = x2 /\ x9' = x9
          \/ /\ x2' = [x2 EXCEPT ![f].weeks = x6[c].seen + 1]
             /\ x9' = [x9 EXCEPT ![f] = IF x8 THEN @ ELSE @ + 1]
        BY <1>7, <2>1 DEF Cost!logTimesheetWeek
    <2>5. Cost!Held' = Cost!Held
        BY <2>3 DEF Cost!Held
    <2>6. /\ x6' \in [Client -> Cost!Locals]
          /\ \A d \in Client : /\ x6'[d].op \in {"upsert", "refresh"} => x6'[d].pkg \in Cost!Held'
                               /\ x6'[d].op \in {"week", "remove", "removing"} => x6'[d].by \in Contractor
          /\ ~x8' => Cost!OneAtATime' /\ Cost!ReadsStand'
        BY <2>2, <2>3, <2>5, CostEnds
    <2>7. /\ x2' \in [Contractor -> [on : {"none", "yes", "gone"}, weeks : Nat]] /\ x9' \in [Contractor -> Nat]
          /\ \A g \in Contractor : x2'[g].on = x2[g].on
        BY <2>2, <2>4, SMTT(40) DEF Cost!IInv, Cost!TypeOK
    <2>8. ASSUME ~x8' PROVE Cost!EachMadeOnce' /\ Cost!RecordStands'
        <3>1. ~x8 /\ x2[f].weeks = x6[c].seen /\ \A g \in Contractor : x2[g].weeks = x9[g]
            BY <2>1, <2>2, <2>3, <2>8 DEF Cost!IInv, Cost!ReadsStand, Cost!RecordStands
        <3>2. \A g \in Contractor : x2'[g].weeks = x9'[g]
            BY <2>2, <2>4, <3>1 DEF Cost!IInv, Cost!TypeOK
        <3> QED BY <2>3, <2>5, <3>1, <3>2 DEF Cost!IInv, Cost!EachMadeOnce, Cost!RecordStands
    <2>9. Cost!OnRegister' = Cost!OnRegister
        BY <2>7 DEF Cost!OnRegister
    <2>10. Cost!TypeOK'
        BY <2>3, <2>6, <2>7 DEF Cost!IInv, Cost!TypeOK
    <2>11. Cost!FiguresHold'
        BY <2>3, <2>5, <2>6, <2>9 DEF Cost!IInv, Cost!FiguresHold, Cost!Fresh
    <2> QED BY <2>6, <2>8, <2>10, <2>11 DEF Cost!IInv
<1>8. ASSUME NEW c \in Client, Cost!MayRemove(c)
      PROVE  Cost!IInv'
    <2>1. PICK f \in Cost!OnRegister : Cost!Live(f) = {} /\ Cost!Begin(c, [Cost!Called("remove") EXCEPT !.by = f])
        BY <1>8 DEF Cost!MayRemove
    <2>2. PICK k : k = Asks("remove", Cost!Idle.pkg, f, 0, {})
        OBVIOUS
    <2>3. k = [Cost!Called("remove") EXCEPT !.by = f]
        BY <1>C, <2>2
    <2>4. f \in Contractor
        BY <1>0
    <2>5. k \in Cost!Locals /\ k.op = "remove" /\ k.by = f
        BY <1>I, <2>2, <2>4 DEF Cost!Op
    <2> QED BY <1>8, <2>1, <2>3, <2>4, <2>5, CostBegins DEF Cost!MayRemove, Cost!rows
<1>9. ASSUME NEW c \in Client, Cost!DetachPackages(c)
      PROVE  Cost!IInv'
    <2>1. PICK f : f = x6[c].by
        OBVIOUS
    <2>2. PICK k : k = [x6[c] EXCEPT !.op = "removing"]
        OBVIOUS
    <2>3. x6[c].op = "remove" /\ f \in Contractor
        BY <1>9, <2>1 DEF Cost!DetachPackages, Cost!IInv, Cost!FiguresHold
    <2>4. k \in Cost!Locals /\ k.op = "removing" /\ k.by = f /\ x6' = [x6 EXCEPT ![c] = k]
        BY <1>0, <1>9, <2>1, <2>2 DEF Cost!DetachPackages, Cost!Locals, Cost!Op
    <2>5. /\ x1' = Cost!Without(f) /\ x3' = (IF x3 = f THEN Nobody ELSE x3)
          /\ x10' = x10 \cup (IF x8 THEN {} ELSE Cost!Live(f)) /\ UNCHANGED <<x2, x4, x5, x7, x8, x9>>
        BY <1>9, <2>1 DEF Cost!DetachPackages
    <2>6. /\ x1' \in [Package -> Cost!PackageRow] /\ x3' \in Contractor \cup {Nobody} /\ x10' \subseteq Package
          /\ Cost!Held' = Cost!Held
          /\ \A p \in Package : /\ x1'[p].committed = x7'[p]
                                /\ x1'[p].by \in (Cost!OnRegister \ {f}) \cup {Nobody}
          /\ x3' \in (Cost!OnRegister \ {f}) \cup {Nobody}
          /\ \A p \in Cost!Fresh' : x1'[p].committed = 0
          /\ ~x8 => x10' = {} /\ Cost!Live(f)' = {} /\ Cost!EachMadeOnce'
        BY <2>1, <2>3, <2>5, CostDetached
    <2>7. /\ x6' \in [Client -> Cost!Locals]
          /\ \A d \in Client : /\ x6'[d].op \in {"upsert", "refresh"} => x6'[d].pkg \in Cost!Held'
                               /\ x6'[d].op \in {"week", "remove", "removing"} => x6'[d].by \in Contractor
          /\ ~x8' => Cost!OneAtATime' /\ Cost!ReadsStand'
        BY <2>3, <2>4, <2>5, <2>6, CostMoves
    <2>8. Cost!OnRegister' = Cost!OnRegister
        BY <2>5 DEF Cost!OnRegister
    <2>9. Cost!TypeOK' /\ Cost!FiguresHold'
        BY <2>5, <2>6, <2>7, <2>8 DEF Cost!IInv, Cost!TypeOK, Cost!FiguresHold
    <2>10. ~x8' => Cost!RecordStands'
        BY <2>5, <2>6 DEF Cost!IInv, Cost!RecordStands
    <2> QED BY <2>5, <2>6, <2>7, <2>9, <2>10 DEF Cost!IInv
<1>10. ASSUME NEW c \in Client, Cost!deleteContractor(c)
       PROVE  Cost!IInv'
    <2>1. PICK f : f = x6[c].by
        OBVIOUS
    <2>3. x6[c].op = "removing" /\ f \in Contractor
        BY <1>10, <2>1 DEF Cost!deleteContractor, Cost!IInv, Cost!FiguresHold
    <2>5. /\ x1' = Cost!Without(f) /\ x3' = (IF x3 = f THEN Nobody ELSE x3) /\ x2' = [x2 EXCEPT ![f].on = "gone"]
          /\ x10' = x10 \cup (IF x8 THEN {} ELSE Cost!Live(f)) /\ UNCHANGED <<x4, x5, x7, x8, x9>> /\ Cost!End(c)
        BY <1>10, <2>1 DEF Cost!deleteContractor, Cost!End
    <2>6. /\ x1' \in [Package -> Cost!PackageRow] /\ x3' \in Contractor \cup {Nobody} /\ x10' \subseteq Package
          /\ Cost!Held' = Cost!Held
          /\ \A p \in Package : /\ x1'[p].committed = x7'[p]
                                /\ x1'[p].by \in (Cost!OnRegister \ {f}) \cup {Nobody}
          /\ x3' \in (Cost!OnRegister \ {f}) \cup {Nobody}
          /\ \A p \in Cost!Fresh' : x1'[p].committed = 0
          /\ ~x8 => x10' = {} /\ Cost!Live(f)' = {} /\ Cost!EachMadeOnce'
        BY <2>1, <2>3, <2>5, CostDetached
    <2>7. /\ x6' \in [Client -> Cost!Locals]
          /\ \A d \in Client : /\ x6'[d].op \in {"upsert", "refresh"} => x6'[d].pkg \in Cost!Held'
                               /\ x6'[d].op \in {"week", "remove", "removing"} => x6'[d].by \in Contractor
          /\ ~x8' => Cost!OneAtATime' /\ Cost!ReadsStand'
        BY <2>3, <2>5, <2>6, CostEnds
    <2>8. /\ x2' \in [Contractor -> [on : {"none", "yes", "gone"}, weeks : Nat]]
          /\ \A g \in Contractor : x2'[g].weeks = x2[g].weeks /\ (g # f => x2'[g].on = x2[g].on)
        BY <2>3, <2>5 DEF Cost!IInv, Cost!TypeOK
    <2>9. Cost!OnRegister \ {f} \subseteq Cost!OnRegister'
        BY <2>8 DEF Cost!OnRegister
    <2>10. Cost!TypeOK' /\ Cost!FiguresHold'
        BY <2>5, <2>6, <2>7, <2>8, <2>9 DEF Cost!IInv, Cost!TypeOK, Cost!FiguresHold
    <2>11. ~x8' => Cost!RecordStands'
        BY <2>5, <2>6, <2>8 DEF Cost!IInv, Cost!RecordStands
    <2> QED BY <2>5, <2>6, <2>7, <2>10, <2>11 DEF Cost!IInv
<1>11. ASSUME NEW f, x3' = f, f \in Cost!OnRegister \cup {Nobody}, UNCHANGED <<x1, x2, x4, x5, x6, x7, x8, x9, x10>>
       PROVE  Cost!IInv'
    BY <1>0, <1>11 DEF Cost!IInv, Cost!TypeOK, Cost!FiguresHold, Cost!OneAtATime, Cost!ReadsStand,
       Cost!EachMadeOnce, Cost!RecordStands, Cost!Held, Cost!Fresh, Cost!OnRegister, Cost!FromXero, Cost!Live
<1>12. ASSUME Cost!Invoice \/ \E on \in BOOLEAN : Cost!Link(on)
       PROVE  Cost!IInv'
    <2>1. x4' \in Nat /\ x5' \in BOOLEAN /\ UNCHANGED <<x1, x2, x3, x6, x7, x8, x9, x10>>
        BY <1>12 DEF Cost!Invoice, Cost!Link, Cost!rows, Cost!IInv, Cost!TypeOK
    <2> QED BY <2>1 DEF Cost!IInv, Cost!TypeOK, Cost!FiguresHold, Cost!OneAtATime, Cost!ReadsStand,
       Cost!EachMadeOnce, Cost!RecordStands, Cost!Held, Cost!Fresh, Cost!OnRegister, Cost!FromXero, Cost!Live
<1>13. ASSUME NEW c \in Client, Cost!FetchBills(c)
       PROVE  Cost!IInv'
    <2>1. PICK k : k = Asks("sync", Cost!Idle.pkg, Nobody, x4, {})
        OBVIOUS
    <2>2. k = [Cost!Called("sync") EXCEPT !.seen = x4]
        BY <1>C, <2>1
    <2>3. k \in Cost!Locals /\ k.op = "sync"
        BY <1>I, <2>1 DEF Cost!Op, Cost!IInv, Cost!TypeOK
    <2> QED BY <1>13, <2>2, <2>3, CostBegins DEF Cost!FetchBills, Cost!rows
<1>14. ASSUME NEW c \in Client, Cost!FindPackage(c)
       PROVE  Cost!IInv'
    <2>1. PICK k : k = [x6[c] EXCEPT !.op = IF Cost!FromXero = {} THEN "import" ELSE "refresh",
                                     !.pkg = IF Cost!FromXero = {} THEN @ ELSE CHOOSE p \in Cost!FromXero : TRUE]
        OBVIOUS
    <2>2. /\ x6[c].op = "sync" /\ x6' = [x6 EXCEPT ![c] = k]
          /\ UNCHANGED <<x1, x2, x3, x4, x5, x7, x8, x9, x10>>
        BY <1>0, <1>14, <2>1 DEF Cost!FindPackage, Cost!rows
    <2>3. k.op = (IF Cost!FromXero = {} THEN "import" ELSE "refresh")
          /\ k.pkg = IF Cost!FromXero = {} THEN x6[c].pkg ELSE CHOOSE p \in Cost!FromXero : TRUE
        BY <1>0, <2>1 DEF Cost!Locals
    <2>4. Cost!FromXero # {} => (CHOOSE p \in Cost!FromXero : TRUE) \in Cost!FromXero
        OBVIOUS
    <2>5. Cost!FromXero \subseteq Cost!Held
        BY DEF Cost!FromXero
    <2>6. k \in Cost!Locals
        BY <1>0, <2>1, <2>4, <2>5 DEF Cost!Locals, Cost!Op
    <2>7. Cost!Held' = Cost!Held /\ Cost!FromXero' = Cost!FromXero /\ Cost!Fresh' = Cost!Fresh
          /\ Cost!OnRegister' = Cost!OnRegister
        BY <2>2 DEF Cost!Held, Cost!FromXero, Cost!Fresh, Cost!OnRegister
    <2>8. /\ x6' \in [Client -> Cost!Locals]
          /\ \A d \in Client : /\ x6'[d].op \in {"upsert", "refresh"} => x6'[d].pkg \in Cost!Held'
                               /\ x6'[d].op \in {"week", "remove", "removing"} => x6'[d].by \in Contractor
          /\ ~x8' => Cost!OneAtATime' /\ Cost!ReadsStand'
        <3>1. /\ k.op \in {"import", "refresh"} /\ (k.op = "refresh" => k.pkg \in Cost!Held')
              /\ k.op = "import" => Cost!FromXero' = {}
            BY <2>3, <2>4, <2>5, <2>7
        <3> QED BY <2>2, <2>6, <2>7, <3>1, CostMoves
    <2> QED BY <2>2, <2>7, <2>8 DEF Cost!IInv, Cost!TypeOK, Cost!FiguresHold, Cost!EachMadeOnce, Cost!RecordStands
<1>15. ASSUME NEW c \in Client, Cost!syncXero(c)
       PROVE  Cost!IInv'
    <2>1. PICK p, n : p = x6[c].pkg /\ n = x6[c].seen
        OBVIOUS
    <2>2. n \in Nat /\ x6[c].op \in {"refresh", "import"} /\ UNCHANGED <<x2, x3, x4, x5, x9, x10>> /\ Cost!End(c)
        BY <1>0, <1>15, <2>1 DEF Cost!syncXero, Cost!Locals
    <2>3. CASE x6[c].op = "refresh"
        <3>1. p \in Cost!Held
            BY <2>1, <2>3 DEF Cost!IInv, Cost!FiguresHold
        <3>2. PICK r : r = Cost!Refreshed(x1[p], n)
            OBVIOUS
        <3>3. x1[p] \in Cost!PackageRow /\ x1[p].made # "none" /\ x1[p].by \in Cost!OnRegister \cup {Nobody}
            BY <1>0, <3>1 DEF Cost!Held, Cost!IInv, Cost!FiguresHold
        <3>4. r \in Cost!PackageRow /\ r.made = x1[p].made /\ r.by = x1[p].by /\ r.committed = n
            BY <2>2, <3>2, <3>3 DEF Cost!Refreshed, Cost!PackageRow
        <3>5. x1' = [x1 EXCEPT ![p] = r] /\ x7' = [x7 EXCEPT ![p] = r.committed]
            BY <1>15, <2>1, <2>3, <3>2, <3>4 DEF Cost!syncXero
        <3>6. \A q \in Cost!Held : ~x8 /\ x1[q].made = r.made => p = q
            BY <3>1, <3>4 DEF Cost!IInv, Cost!EachMadeOnce
        <3> QED BY <1>0, <2>2, <3>1, <3>3, <3>4, <3>5, <3>6, CostWrites, ZenonT(40)
    <2>4. CASE x6[c].op = "import"
        <3>1. PICK q \in Cost!Fresh :
                /\ x1' = [x1 EXCEPT ![q] = [made |-> "xero", budget |-> 0, committed |-> n, by |-> Nobody]]
                /\ x7' = [x7 EXCEPT ![q] = n]
            BY <1>15, <2>1, <2>4 DEF Cost!syncXero
        <3>2. PICK r : r = [made |-> "xero", budget |-> 0, committed |-> n, by |-> Nobody]
            OBVIOUS
        <3>3. r \in Cost!PackageRow /\ r.made = "xero" /\ r.by = Nobody /\ r.committed = n
            BY <2>2, <3>2 DEF Cost!PackageRow
        <3>4. \A s \in Cost!Held : ~x8 => x1[s].made # "xero"
            BY <2>4 DEF Cost!IInv, Cost!ReadsStand, Cost!FromXero
        <3>5. q \in Package
            BY DEF Cost!Fresh
        <3> QED BY <2>2, <3>1, <3>2, <3>3, <3>4, <3>5, CostWrites
    <2> QED BY <2>2, <2>3, <2>4
<1>16. ASSUME UNCHANGED Cost!vars
       PROVE  Cost!IInv'
    <2>1. UNCHANGED <<x1, x2, x3, x4, x5, x6, x7, x8, x9, x10>>
        BY <1>16 DEF Cost!vars
    <2> QED BY <2>1 DEF Cost!IInv, Cost!TypeOK, Cost!FiguresHold, Cost!OneAtATime, Cost!ReadsStand,
       Cost!EachMadeOnce, Cost!RecordStands, Cost!Held, Cost!Fresh, Cost!OnRegister, Cost!FromXero, Cost!Live
<1>17. ASSUME Cost!removePhoto \/ \E f \in Contractor : Cost!addPhoto(f)
       PROVE  Cost!IInv'
    BY <1>11, <1>17 DEF Cost!removePhoto, Cost!addPhoto
<1> QED BY <1>1, <1>2, <1>3, <1>4, <1>5, <1>6, <1>7, <1>8, <1>9, <1>10, <1>12, <1>13, <1>14, <1>15, <1>16, <1>17
        DEF Cost!Next

LEMMA CostInit == Cost!Init => Cost!IInv
<1> SUFFICES ASSUME Cost!Init PROVE Cost!IInv
    OBVIOUS
<1>1. PICK k, r, g : k = Cost!Idle /\ r = Cost!NoRow /\ g = Cost!NoFirm
    OBVIOUS
<1>2. k \in Cost!Locals /\ k.op = "none"
    <2>1. Cost!Idle = [op |-> "none", pkg |-> Cost!Idle.pkg, by |-> Nobody, seen |-> 0, patch |-> {}]
        BY DEF Cost!Idle
    <2> QED BY <1>1, <2>1 DEF Cost!Locals, Cost!Op
<1>3. r \in Cost!PackageRow /\ r.made = "none" /\ r.committed = 0 /\ r.by = Nobody
    BY <1>1 DEF Cost!NoRow, Cost!PackageRow
<1>4. g \in [on : {"none", "yes", "gone"}, weeks : Nat] /\ g.weeks = 0
    BY <1>1 DEF Cost!NoFirm
<1>5. /\ x1 = [p \in Package |-> r] /\ x2 = [f \in Contractor |-> g] /\ x6 = [c \in Client |-> k]
      /\ x3 = Nobody /\ x4 = 0 /\ x5 = FALSE /\ x7 = [p \in Package |-> 0] /\ x9 = [f \in Contractor |-> 0]
      /\ x10 = {} /\ x8 = FALSE
    BY <1>1 DEF Cost!Init
<1>6. Cost!Held = {}
    BY <1>3, <1>5 DEF Cost!Held
<1>7. Cost!TypeOK
    BY <1>2, <1>3, <1>4, <1>5 DEF Cost!TypeOK
<1>8. Cost!FiguresHold
    BY <1>2, <1>3, <1>5 DEF Cost!FiguresHold, Cost!Fresh
<1>9. Cost!ReadsStand /\ Cost!OneAtATime /\ Cost!EachMadeOnce /\ Cost!RecordStands
    BY <1>1, <1>2, <1>4, <1>5, <1>6 DEF Cost!ReadsStand, Cost!OneAtATime, Cost!EachMadeOnce, Cost!RecordStands
<1> QED BY <1>7, <1>8, <1>9 DEF Cost!IInv

\* What CostMonitoring says of its record.
LEMMA CostHolds == Cost!IInv => Cost!CostRecordSound
<1> SUFFICES ASSUME Cost!IInv PROVE Cost!CostRecordSound
    OBVIOUS
<1>1. \A S : Cost!Cardinality(S) = Cardinality(S)
    BY DEF Cardinality, Cost!Cardinality
<1>2. ASSUME NEW S, \A p, q \in S : p = q
      PROVE  Cardinality(S) <= 1
    <2>1. CASE S = {}
        BY <2>1, FS_EmptySet
    <2>2. CASE S # {}
        <3>1. PICK p \in S : TRUE
            BY <2>2
        <3>2. S = {p}
            BY <1>2
        <3> QED BY <3>2, FS_Singleton
    <2> QED BY <2>1, <2>2
<1>3. ASSUME ~x8 PROVE Cost!OnePlan /\ Cost!RecordStands
    <2>1. Cost!EachMadeOnce /\ Cost!RecordStands
        BY <1>3 DEF Cost!IInv
    <2>2. \A p, q \in {s \in Cost!Held : x1[s].made = "plan"} : p = q
        BY <2>1 DEF Cost!EachMadeOnce
    <2>3. \A p, q \in Cost!FromXero : p = q
        BY <2>1 DEF Cost!EachMadeOnce, Cost!FromXero
    <2>4. Cardinality({s \in Cost!Held : x1[s].made = "plan"}) <= 1 /\ Cardinality(Cost!FromXero) <= 1
        BY <1>2, <2>2, <2>3
    <2> QED BY <1>1, <2>1, <2>4 DEF Cost!OnePlan
<1> QED BY <1>3 DEF Cost!IInv, Cost!FiguresHold, Cost!CostRecordSound, Cost!Held

-----------------------------------------------------------------------------
(***************************************************************************)
(* InvestorRegister: the investor is x1, its holdings x2, its lines x4, its *)
(* login x5, the requests x6, what was typed x7, the overlaps x8.           *)
(***************************************************************************)
LEMMA RegisterIdle == Register!Idle \in Register!Locals /\ Register!Idle.op = "idle"
<1>1. Register!Idle = [op |-> "idle", deal |-> Register!AnyDeal, id |-> 0, line |-> Register!Idle.line, patch |-> {}]
    BY DEF Register!Idle
<1> QED BY <1>1 DEF Register!Locals, Register!Op

\* What a request goes by when it begins it has just read; whoever was alone is so no longer.
LEMMA RegisterBegins ==
    ASSUME Register!IInv, NEW c \in Client, NEW k \in Register!Locals, Register!Begin(c, k),
           UNCHANGED <<x1, x2, x3, x4, x5, x7, x9>>,
           k.op \in {"patch", "open", "count", "remove"} => k.deal \in Deal,
           k.op = "fund" => k.line \in Line /\ x4[k.line].kind \in {"call", "gone"},
           k.op \in {"count", "remove"} => ~(x2[k.deal].moved > 0),
           k.op = "holdings" => \A d \in Deal : ~(x2[d].moved > 0),
           k.op # "investor", k.op = "invite" => x1
    PROVE  Register!IInv'
<1>1. /\ \A d \in Client : x6'[d] = IF d = c THEN k ELSE x6[d]
      /\ x6' \in [Client -> Register!Locals]
    BY DEF Register!IInv, Register!TypeOK, Register!Begin
<1>2. x8' \in BOOLEAN /\ (~x8' => ~x8 /\ \A d \in Client : x6[d] = Register!Idle)
    BY DEF Register!Begin, Register!IInv, Register!TypeOK
<1>3. Register!TypeOK'
    BY <1>1, <1>2 DEF Register!IInv, Register!TypeOK
<1>4. Register!MoneyHolds'
    <2>1. Register!Lines' = Register!Lines /\ \A d : Register!Held(d)' <=> Register!Held(d)
        BY DEF Register!Lines, Register!Held
    <2> QED BY <1>1, <2>1 DEF Register!IInv, Register!MoneyHolds
<1>5. ASSUME ~x8' PROVE Register!OneAtATime' /\ Register!ReadsStand'
    <2>1. \A d \in Client : d # c => x6'[d].op = "idle"
        BY <1>1, <1>2, <1>5, RegisterIdle
    <2>2. Register!OneAtATime'
        BY <2>1 DEF Register!OneAtATime
    <2>3. ASSUME NEW d \in Client
          PROVE  /\ x6'[d].op \in {"count", "remove"} => ~(x2'[x6'[d].deal].moved > 0)
                 /\ x6'[d].op = "holdings" => \A e \in Deal : ~(x2'[e].moved > 0)
                 /\ x6'[d].op # "investor"
                 /\ x6'[d].op = "invite" => x1'
        BY <1>1, <2>1
    <2> QED BY <2>2, <2>3 DEF Register!ReadsStand, Register!moneyMoved
<1> QED BY <1>2, <1>3, <1>4, <1>5 DEF Register!IInv

\* A request under way moves on or ends: the others, if it is alone, are idle.
LEMMA RegisterMoves ==
    ASSUME Register!IInv, NEW c \in Client, x6[c].op # "idle", NEW k \in Register!Locals,
           x6' = [x6 EXCEPT ![c] = k], x8' = x8,
           \A l \in Line : x4[l].kind \in {"call", "gone"} => x4'[l].kind \in {"call", "gone"},
           k.op \in {"idle", "remove", "logins", "investor"},
           k.op = "remove" => k.deal \in Deal /\ (~x8 => ~(x2'[k.deal].moved > 0)),
           k.op = "investor" => ~x5'
    PROVE  /\ x6' \in [Client -> Register!Locals]
           /\ \A d \in Client :
                /\ x6'[d].op \in {"patch", "open", "count", "remove"} => x6'[d].deal \in Deal
                /\ x6'[d].op = "fund" => x6'[d].line \in Line /\ x4'[x6'[d].line].kind \in {"call", "gone"}
           /\ ~x8' => Register!OneAtATime' /\ Register!ReadsStand'
<1>1. /\ \A d \in Client : x6'[d] = IF d = c THEN k ELSE x6[d]
      /\ x6' \in [Client -> Register!Locals]
    BY DEF Register!IInv, Register!TypeOK
<1>2. \A d \in Client :
        /\ x6'[d].op \in {"patch", "open", "count", "remove"} => x6'[d].deal \in Deal
        /\ x6'[d].op = "fund" => x6'[d].line \in Line /\ x4'[x6'[d].line].kind \in {"call", "gone"}
    BY <1>1 DEF Register!IInv, Register!MoneyHolds
<1>3. ~x8' => Register!OneAtATime' /\ Register!ReadsStand'
    <2> SUFFICES ASSUME ~x8' PROVE Register!OneAtATime' /\ Register!ReadsStand'
        OBVIOUS
    <2>1. \A d \in Client : d # c => x6'[d].op = "idle"
        BY <1>1 DEF Register!IInv, Register!OneAtATime
    <2>2. Register!OneAtATime'
        BY <2>1 DEF Register!OneAtATime
    <2>3. ASSUME NEW d \in Client
          PROVE  /\ x6'[d].op \in {"count", "remove"} => ~(x2'[x6'[d].deal].moved > 0)
                 /\ x6'[d].op = "holdings" => \A e \in Deal : ~(x2'[e].moved > 0)
                 /\ x6'[d].op = "investor" => ~x5'
                 /\ x6'[d].op = "invite" => x1'
        BY <1>1, <2>1
    <2> QED BY <2>2, <2>3 DEF Register!ReadsStand, Register!moneyMoved
<1> QED BY <1>1, <1>2, <1>3

LEMMA RegisterEnds ==
    ASSUME Register!IInv, NEW c \in Client, x6[c].op # "idle", Register!End(c),
           \A l \in Line : x4[l].kind \in {"call", "gone"} => x4'[l].kind \in {"call", "gone"}
    PROVE  /\ x6' \in [Client -> Register!Locals]
           /\ \A d \in Client :
                /\ x6'[d].op \in {"patch", "open", "count", "remove"} => x6'[d].deal \in Deal
                /\ x6'[d].op = "fund" => x6'[d].line \in Line /\ x4'[x6'[d].line].kind \in {"call", "gone"}
           /\ ~x8' => Register!OneAtATime' /\ Register!ReadsStand'
<1>1. PICK k : k = Register!Idle
    OBVIOUS
<1>2. x6' = [x6 EXCEPT ![c] = k] /\ x8' = x8
    BY <1>1 DEF Register!End
<1> QED BY <1>1, <1>2, RegisterIdle, RegisterMoves

\* A request ends, having written one holding or none.
LEMMA RegisterHoldings ==
    ASSUME Register!IInv, NEW c \in Client, x6[c].op # "idle", Register!End(c),
           UNCHANGED <<x1, x4, x5>>, x3' \in Nat, x2' \in [Deal -> Register!HoldingRow], x7' = x2',
           \A d \in Deal : x2'[d].id # 0 => x1, x9' \subseteq Deal, ~x8 => x9' = {}
    PROVE  Register!IInv'
<1>1. /\ x6' \in [Client -> Register!Locals]
      /\ \A d \in Client :
           /\ x6'[d].op \in {"patch", "open", "count", "remove"} => x6'[d].deal \in Deal
           /\ x6'[d].op = "fund" => x6'[d].line \in Line /\ x4'[x6'[d].line].kind \in {"call", "gone"}
      /\ ~x8' => Register!OneAtATime' /\ Register!ReadsStand'
    BY RegisterEnds
<1>2. x8' = x8
    BY DEF Register!End
<1>3. Register!TypeOK'
    BY <1>1, <1>2 DEF Register!IInv, Register!TypeOK
<1>4. Register!MoneyHolds'
    <2>1. Register!Lines' = Register!Lines /\ \A d : Register!Held(d)' <=> x2'[d].id # 0
        BY DEF Register!Lines, Register!Held
    <2> QED BY <1>1, <2>1 DEF Register!IInv, Register!MoneyHolds
<1> QED BY <1>1, <1>2, <1>3, <1>4 DEF Register!IInv

\* A line is written or none, and no other row.
LEMMA RegisterLines ==
    ASSUME Register!IInv, UNCHANGED <<x1, x2, x3, x5, x7, x8, x9>>,
           x4' \in [Line -> Register!LineRow],
           Register!Lines' # {} => x1,
           \A l \in Register!Lines' : x4'[l].funded => x4'[l].kind = "call",
           x6' \in [Client -> Register!Locals],
           \A d \in Client :
             /\ x6'[d].op \in {"patch", "open", "count", "remove"} => x6'[d].deal \in Deal
             /\ x6'[d].op = "fund" => x6'[d].line \in Line /\ x4'[x6'[d].line].kind \in {"call", "gone"},
           ~x8' => Register!OneAtATime' /\ Register!ReadsStand'
    PROVE  Register!IInv'
<1>1. Register!TypeOK'
    BY DEF Register!IInv, Register!TypeOK
<1>2. Register!MoneyHolds'
    <2>1. \A d : Register!Held(d)' <=> Register!Held(d)
        BY DEF Register!Held
    <2> QED BY <2>1 DEF Register!IInv, Register!MoneyHolds
<1> QED BY <1>1, <1>2 DEF Register!IInv

LEMMA RegisterStep ==
    ASSUME Register!IInv, [Register!Next]_(Register!vars)
    PROVE  Register!IInv'
<1> DEFINE LineKinds == \A l \in Line : x4[l].kind \in {"call", "gone"} => x4'[l].kind \in {"call", "gone"}
<1>0. /\ \A c \in Client : x6[c] \in Register!Locals
      /\ x2 \in [Deal -> Register!HoldingRow] /\ x4 \in [Line -> Register!LineRow] /\ x7 = x2 /\ x3 \in Nat
      /\ x9 \subseteq Deal /\ \A d \in Deal : x2[d].id # 0 => x1
    BY DEF Register!IInv, Register!TypeOK, Register!MoneyHolds, Register!Held
<1>1. PICK y : y = Register!Idle /\ y \in Register!Locals
    BY RegisterIdle
<1>2. ASSUME NEW c \in Client, NEW op \in {"record", "holdings", "invite"}, Register!Asked(c, op),
             op = "holdings" => \A d \in Deal : ~(x2[d].moved > 0), op = "invite" => x1
      PROVE  Register!IInv'
    <2>1. PICK k : k = [y EXCEPT !.op = op]
        OBVIOUS
    <2>2. k \in Register!Locals /\ k.op = op
        BY <1>1, <2>1 DEF Register!Locals, Register!Op
    <2>3. Register!Begin(c, k) /\ UNCHANGED <<x1, x2, x3, x4, x5, x7, x9>>
        BY <1>1, <1>2, <2>1 DEF Register!Asked, Register!rows
    <2> QED BY <1>2, <2>2, <2>3, RegisterBegins
<1>3. ASSUME NEW c \in Client, Register!FindInvestor(c) \/ Register!MayDelete(c) \/ Register!FindInvitee(c)
      PROVE  Register!IInv'
    BY <1>2, <1>3 DEF Register!FindInvestor, Register!MayDelete, Register!FindInvitee, Register!Untouched, Register!moneyMoved
<1>4. ASSUME NEW c \in Client, Register!FindHolding(c)
      PROVE  Register!IInv'
    <2>1. PICK d \in Deal, s \in {{"committed"}, {"moved"}} :
            Register!Begin(c, [Register!Idle EXCEPT !.op = IF Register!Held(d) THEN "patch" ELSE "open", !.deal = d,
                                                    !.id = x2[d].id, !.patch = s])
        BY <1>4 DEF Register!FindHolding
    <2>2. PICK op : op = IF Register!Held(d) THEN "patch" ELSE "open"
        OBVIOUS
    <2>3. PICK k : k = [y EXCEPT !.op = op, !.deal = d, !.id = x2[d].id, !.patch = s]
        OBVIOUS
    <2>4. x2[d].id \in Nat /\ op \in {"patch", "open"}
        BY <1>0, <2>2 DEF Register!HoldingRow
    <2>5. k \in Register!Locals /\ k.op \in {"patch", "open"} /\ k.deal = d
        BY <1>1, <2>3, <2>4 DEF Register!Locals, Register!Op
    <2>6. Register!Begin(c, k) /\ UNCHANGED <<x1, x2, x3, x4, x5, x7, x9>>
        BY <1>1, <1>4, <2>1, <2>2, <2>3 DEF Register!FindHolding, Register!rows
    <2> QED BY <2>5, <2>6, RegisterBegins
<1>5. ASSUME NEW c \in Client, Register!setHolding(c)
      PROVE  Register!IInv'
    <2>1. PICK d, s : d = x6[c].deal /\ s = x6[c].patch
        OBVIOUS
    <2>2. /\ d \in Deal /\ x6[c].op \in {"patch", "open"} /\ Register!End(c)
          /\ UNCHANGED <<x1, x4, x5, x9>> /\ x8' = x8
        BY <1>5, <2>1 DEF Register!setHolding, Register!IInv, Register!MoneyHolds, Register!End
    <2>3. ~x8 => x9 = {}
        BY DEF Register!IInv
    <2>4. CASE /\ x6[c].op = "patch" /\ x2[d].id = x6[c].id
               /\ x2' = [x2 EXCEPT ![d] = Register!Patched(@, s)]
               /\ x7' = [x7 EXCEPT ![d] = Register!Patched(@, s)]
               /\ x3' = x3
        <3>1. PICK h : h = x2[d]
            OBVIOUS
        <3>2. PICK g : g = Register!Patched(h, s)
            OBVIOUS
        <3>3. h \in Register!HoldingRow
            BY <1>0, <2>2, <3>1
        <3>6. x2' = [x2 EXCEPT ![d] = g] /\ x7' = x2'
            BY <1>0, <2>2, <2>4, <3>1, <3>2
        <3>7. g \in Register!HoldingRow /\ g.id = x2[d].id
            BY <3>1, <3>2, <3>3 DEF Register!Patched, Register!HoldingRow
        <3>8. x2' \in [Deal -> Register!HoldingRow] /\ \A e \in Deal : x2'[e].id = x2[e].id
            BY <1>0, <2>2, <3>6, <3>7
        <3>9. x3' \in Nat /\ x9' \subseteq Deal /\ (~x8 => x9' = {}) /\ \A e \in Deal : x2'[e].id # 0 => x1
            BY <1>0, <2>2, <2>3, <2>4, <3>8
        <3> QED BY <2>2, <3>6, <3>8, <3>9, RegisterHoldings
    <2>5. CASE /\ x1 /\ x3' = x3 + 1
               /\ x2' = [x2 EXCEPT ![d] = [id |-> x3', committed |-> 1, moved |-> 0]]
               /\ x7' = [x7 EXCEPT ![d] = x2'[d]]
        <3>1. PICK g : g = [id |-> x3', committed |-> 1, moved |-> 0]
            OBVIOUS
        <3>2. g \in Register!HoldingRow
            BY <1>0, <2>5, <3>1 DEF Register!HoldingRow
        <3>3. x2' = [x2 EXCEPT ![d] = g] /\ x7' = x2'
            BY <1>0, <2>2, <2>5, <3>1
        <3>4. x2' \in [Deal -> Register!HoldingRow] /\ x3' \in Nat /\ x9' \subseteq Deal /\ (~x8 => x9' = {})
            BY <1>0, <2>2, <2>3, <2>5, <3>2, <3>3
        <3> QED BY <2>2, <2>5, <3>3, <3>4, RegisterHoldings
    <2>6. CASE UNCHANGED <<x2, x7, x3>>
        <3>1. x2' \in [Deal -> Register!HoldingRow] /\ x3' \in Nat /\ x9' \subseteq Deal /\ (~x8 => x9' = {}) /\ x7' = x2'
              /\ \A e \in Deal : x2'[e].id # 0 => x1
            BY <1>0, <2>2, <2>3, <2>6
        <3> QED BY <2>2, <3>1, RegisterHoldings
    <2>7. \/ /\ x6[c].op = "patch" /\ x2[d].id = x6[c].id
             /\ x2' = [x2 EXCEPT ![d] = Register!Patched(@, s)]
             /\ x7' = [x7 EXCEPT ![d] = Register!Patched(@, s)]
             /\ x3' = x3
          \/ /\ x1 /\ x3' = x3 + 1
             /\ x2' = [x2 EXCEPT ![d] = [id |-> x3', committed |-> 1, moved |-> 0]]
             /\ x7' = [x7 EXCEPT ![d] = x2'[d]]
          \/ UNCHANGED <<x2, x7, x3>>
        <3>1. \A h : Register!Typed(h, s) = Register!Patched(h, s)
            BY DEF Register!Typed, Register!Patched
        <3>2. PICK g : g = Register!Patched(x7[d], s)
            OBVIOUS
        <3>3. \/ /\ x6[c].op = "patch" /\ x2[d].id = x6[c].id
                 /\ x2' = [x2 EXCEPT ![d] = Register!Patched(@, s)]
                 /\ x7' = [x7 EXCEPT ![d] = Register!Typed(@, s)]
                 /\ x3' = x3
              \/ /\ x1 /\ x3' = x3 + 1
                 /\ x2' = [x2 EXCEPT ![d] = [id |-> x3', committed |-> 1, moved |-> 0]]
                 /\ x7' = [x7 EXCEPT ![d] = x2'[d]]
              \/ UNCHANGED <<x2, x7, x3>>
            BY <1>5, <2>1 DEF Register!setHolding
        <3> QED BY <3>1, <3>3
    <2> QED BY <2>4, <2>5, <2>6, <2>7
<1>6. ASSUME NEW c \in Client, Register!LooksClear(c)
      PROVE  Register!IInv'
    <2>1. PICK d \in Deal :
            ~Register!moneyMoved(d) /\ Register!Begin(c, [Register!Idle EXCEPT !.op = "count", !.deal = d, !.id = x2[d].id])
        BY <1>6 DEF Register!LooksClear
    <2>2. PICK k : k = [y EXCEPT !.op = "count", !.deal = d, !.id = x2[d].id]
        OBVIOUS
    <2>3. x2[d].id \in Nat
        BY <1>0 DEF Register!HoldingRow
    <2>4. k \in Register!Locals /\ k.op = "count" /\ k.deal = d
        BY <1>1, <2>2, <2>3 DEF Register!Locals, Register!Op
    <2>5. Register!Begin(c, k) /\ UNCHANGED <<x1, x2, x3, x4, x5, x7, x9>> /\ ~(x2[d].moved > 0)
        BY <1>1, <1>6, <2>1, <2>2 DEF Register!LooksClear, Register!rows, Register!moneyMoved
    <2> QED BY <2>4, <2>5, RegisterBegins
<1>7. ASSUME NEW c \in Client, Register!CountLines(c)
      PROVE  Register!IInv'
    <2>1. PICK k : /\ x6' = [x6 EXCEPT ![c] = k]
                   /\ \/ k = [x6[c] EXCEPT !.op = "remove"]
                      \/ k = y
        <3>1. PICK free \in BOOLEAN : x6' = [x6 EXCEPT ![c] = IF free THEN [@ EXCEPT !.op = "remove"] ELSE Register!Idle]
            BY <1>7 DEF Register!CountLines
        <3>2. PICK k : k = IF free THEN [x6[c] EXCEPT !.op = "remove"] ELSE Register!Idle
            OBVIOUS
        <3> QED BY <1>0, <1>1, <3>1, <3>2 DEF Register!IInv, Register!TypeOK
    <2>2. x6[c].op = "count" /\ UNCHANGED <<x1, x2, x3, x4, x5, x7, x8, x9>>
        BY <1>7 DEF Register!CountLines, Register!rows
    <2>3. x6[c].deal \in Deal /\ (~x8 => ~(x2[x6[c].deal].moved > 0))
        BY <2>2 DEF Register!IInv, Register!MoneyHolds, Register!ReadsStand, Register!moneyMoved
    <2>4. /\ k \in Register!Locals /\ k.op \in {"idle", "remove"}
          /\ k.op = "remove" => k.deal = x6[c].deal
        BY <1>0, <1>1, <2>1, RegisterIdle DEF Register!Locals, Register!Op
    <2>5. /\ x6' \in [Client -> Register!Locals]
          /\ \A d \in Client :
               /\ x6'[d].op \in {"patch", "open", "count", "remove"} => x6'[d].deal \in Deal
               /\ x6'[d].op = "fund" => x6'[d].line \in Line /\ x4'[x6'[d].line].kind \in {"call", "gone"}
          /\ ~x8' => Register!OneAtATime' /\ Register!ReadsStand'
        BY <2>1, <2>2, <2>3, <2>4, RegisterMoves
    <2>6. Register!Lines' = Register!Lines
        BY <2>2 DEF Register!Lines
    <2>7. /\ x4' \in [Line -> Register!LineRow] /\ (Register!Lines' # {} => x1)
          /\ \A l \in Register!Lines' : x4'[l].funded => x4'[l].kind = "call"
        BY <1>0, <2>2, <2>6 DEF Register!IInv, Register!MoneyHolds
    <2> QED BY <2>2, <2>5, <2>7, RegisterLines
<1>8. ASSUME NEW c \in Client, Register!removeHolding(c)
      PROVE  Register!IInv'
    <2>1. PICK d : d = x6[c].deal
        OBVIOUS
    <2>2. /\ d \in Deal /\ x6[c].op = "remove" /\ Register!End(c)
          /\ UNCHANGED <<x1, x3, x4, x5, x8>>
        BY <1>8, <2>1 DEF Register!removeHolding, Register!IInv, Register!MoneyHolds, Register!End
    <2>3. ~x8 => x9 = {} /\ ~(x2[d].moved > 0)
        BY <2>1, <2>2 DEF Register!IInv, Register!ReadsStand, Register!moneyMoved
    <2>4. CASE UNCHANGED <<x2, x7, x9>>
        <3>1. x2' \in [Deal -> Register!HoldingRow] /\ x3' \in Nat /\ x9' \subseteq Deal /\ (~x8 => x9' = {}) /\ x7' = x2'
              /\ \A e \in Deal : x2'[e].id # 0 => x1
            BY <1>0, <2>2, <2>3, <2>4
        <3> QED BY <2>2, <3>1, RegisterHoldings
    <2>5. CASE /\ x2' = [x2 EXCEPT ![d] = Register!NoHolding] /\ x7' = [x7 EXCEPT ![d] = Register!NoHolding]
               /\ x9' = Register!Dropping({d})
        <3>1. PICK g : g = Register!NoHolding
            OBVIOUS
        <3>2. g \in Register!HoldingRow /\ g.id = 0
            BY <3>1 DEF Register!HoldingRow, Register!NoHolding
        <3>3. x2' \in [Deal -> Register!HoldingRow] /\ x7' = x2' /\ \A e \in Deal : x2'[e].id # 0 => x1
            BY <1>0, <2>2, <2>5, <3>1, <3>2
        <3>4. x9' \subseteq Deal /\ (~x8 => x9' = {})
            BY <1>0, <2>2, <2>3, <2>5 DEF Register!Dropping, Register!moneyMoved
        <3>5. x3' \in Nat
            BY <1>0, <2>2
        <3> QED BY <2>2, <3>3, <3>4, <3>5, RegisterHoldings
    <2> QED BY <1>8, <2>1, <2>4, <2>5 DEF Register!removeHolding
<1>9. ASSUME NEW c \in Client, Register!End(c), x6[c].op # "idle", UNCHANGED <<x1, x2, x3, x5, x7, x9>>,
             \/ x4' = x4
             \/ \E l \in Line, r \in Register!LineRow :
                  /\ x4' = [x4 EXCEPT ![l] = r] /\ (x1 \/ l \in Register!Lines)
                  /\ x4[l].kind # "none" => r.kind = x4[l].kind
                  /\ x4[l].kind # "gone" /\ (r.funded => r.kind = "call")
      PROVE  Register!IInv'
    <2>1. LineKinds /\ x4' \in [Line -> Register!LineRow] /\ x8' = x8
        BY <1>0, <1>9 DEF Register!End
    <2>2. /\ Register!Lines' # {} => x1
          /\ \A l \in Register!Lines' : x4'[l].funded => x4'[l].kind = "call"
        <3>1. CASE x4' = x4
            BY <3>1 DEF Register!Lines, Register!IInv, Register!MoneyHolds
        <3>2. CASE x4' # x4
            <4>1. PICK l \in Line, r \in Register!LineRow :
                     /\ x4' = [x4 EXCEPT ![l] = r] /\ (x1 \/ l \in Register!Lines)
                     /\ x4[l].kind # "none" => r.kind = x4[l].kind
                     /\ x4[l].kind # "gone" /\ (r.funded => r.kind = "call")
                BY <1>9, <3>2
            <4>2. \A m \in Line : x4'[m] = IF m = l THEN r ELSE x4[m]
                BY <1>0, <4>1
            <4>3. x1
                BY <4>1, <3>2 DEF Register!IInv, Register!MoneyHolds
            <4> QED BY <4>1, <4>2, <4>3 DEF Register!Lines, Register!IInv, Register!MoneyHolds
        <3> QED BY <3>1, <3>2
    <2>3. /\ x6' \in [Client -> Register!Locals]
          /\ \A d \in Client :
               /\ x6'[d].op \in {"patch", "open", "count", "remove"} => x6'[d].deal \in Deal
               /\ x6'[d].op = "fund" => x6'[d].line \in Line /\ x4'[x6'[d].line].kind \in {"call", "gone"}
          /\ ~x8' => Register!OneAtATime' /\ Register!ReadsStand'
        BY <1>9, <2>1, RegisterEnds
    <2> QED BY <1>9, <2>1, <2>2, <2>3, RegisterLines
<1>10. ASSUME NEW c \in Client, Register!recordCashflow(c)
       PROVE  Register!IInv'
    <2>1. CASE x4' = x4
        BY <1>9, <1>10, <2>1 DEF Register!recordCashflow
    <2>2. CASE x4' # x4
        <3>1. x1 /\ \E l \in Register!Blank, k \in {"call", "dist"}, d \in Deal \cup {NoDeal} :
                      x4' = [x4 EXCEPT ![l] = [kind |-> k, deal |-> d, funded |-> FALSE]]
            BY <1>10, <2>2 DEF Register!recordCashflow
        <3>2. PICK l \in Register!Blank, k \in {"call", "dist"}, d \in Deal \cup {NoDeal} :
                      x4' = [x4 EXCEPT ![l] = [kind |-> k, deal |-> d, funded |-> FALSE]]
            BY <3>1
        <3>3. PICK r : r = [kind |-> k, deal |-> d, funded |-> FALSE]
            OBVIOUS
        <3>4. r \in Register!LineRow /\ ~r.funded
            BY <3>3 DEF Register!LineRow
        <3>5. l \in Line /\ x4[l].kind = "none"
            BY DEF Register!Blank
        <3>6. x4' = [x4 EXCEPT ![l] = r]
            BY <3>2, <3>3
        <3> QED BY <1>9, <1>10, <3>1, <3>4, <3>5, <3>6 DEF Register!recordCashflow
    <2> QED BY <2>1, <2>2
<1>11. ASSUME NEW c \in Client, Register!FindCall(c)
       PROVE  Register!IInv'
    <2>1. PICK l \in Register!Lines : Register!Fundable(l) /\ Register!Begin(c, [Register!Idle EXCEPT !.op = "fund", !.line = l])
        BY <1>11 DEF Register!FindCall
    <2>2. PICK k : k = [y EXCEPT !.op = "fund", !.line = l]
        OBVIOUS
    <2>3. l \in Line /\ x4[l].kind = "call"
        BY <2>1 DEF Register!Lines, Register!Fundable
    <2>4. k \in Register!Locals /\ k.op = "fund" /\ k.line = l
        BY <1>1, <2>2, <2>3 DEF Register!Locals, Register!Op
    <2>5. Register!Begin(c, k) /\ UNCHANGED <<x1, x2, x3, x4, x5, x7, x9>>
        BY <1>1, <1>11, <2>1, <2>2 DEF Register!FindCall, Register!rows
    <2> QED BY <2>3, <2>4, <2>5, RegisterBegins
<1>12. ASSUME NEW c \in Client, Register!fundCashflow(c)
       PROVE  Register!IInv'
    <2>1. PICK l : l = x6[c].line
        OBVIOUS
    <2>2. l \in Line /\ x4[l].kind \in {"call", "gone"} /\ x6[c].op = "fund"
        BY <1>12, <2>1 DEF Register!fundCashflow, Register!IInv, Register!MoneyHolds
    <2>3. PICK f \in BOOLEAN : x4' = IF l \in Register!Lines THEN [x4 EXCEPT ![l].funded = f] ELSE x4
        BY <1>12, <2>1 DEF Register!fundCashflow
    <2>4. CASE l \in Register!Lines
        <3>1. PICK r : r = [x4[l] EXCEPT !.funded = f]
            OBVIOUS
        <3>2. x4[l] \in Register!LineRow /\ x4[l].kind = "call"
            BY <1>0, <2>2, <2>4 DEF Register!Lines
        <3>3. r \in Register!LineRow /\ r.kind = "call"
            BY <3>1, <3>2 DEF Register!LineRow
        <3>4. x4' = [x4 EXCEPT ![l] = r]
            BY <1>0, <2>2, <2>3, <2>4, <3>1
        <3> QED BY <1>9, <1>12, <2>2, <2>4, <3>2, <3>3, <3>4 DEF Register!fundCashflow
    <2> QED BY <1>9, <1>12, <2>3, <2>4 DEF Register!fundCashflow
<1>13. ASSUME NEW l \in Line, Register!deleteCashflow(l)
       PROVE  Register!IInv'
    <2>1. PICK r : r = [Register!NoLine EXCEPT !.kind = "gone"]
        OBVIOUS
    <2>2. r = [kind |-> "gone", deal |-> NoDeal, funded |-> FALSE]
        BY <2>1 DEF Register!NoLine
    <2>3. r \in Register!LineRow /\ r.kind = "gone"
        BY <2>2 DEF Register!LineRow
    <2>4. /\ \A m \in Line : x4'[m] = IF m = l THEN r ELSE x4[m]
          /\ x4' \in [Line -> Register!LineRow]
        BY <1>0, <1>13, <2>1, <2>3 DEF Register!deleteCashflow
    <2>5. Register!Lines' \subseteq Register!Lines /\ l \notin Register!Lines'
        BY <2>3, <2>4 DEF Register!Lines
    <2>6. UNCHANGED <<x1, x2, x3, x5, x6, x7, x8, x9>>
        BY <1>13 DEF Register!deleteCashflow
    <2>7. /\ Register!Lines' # {} => x1
          /\ \A m \in Register!Lines' : x4'[m].funded => x4'[m].kind = "call"
        <3>1. \A m \in Register!Lines' : m \in Line /\ m \in Register!Lines /\ x4'[m] = x4[m]
            BY <2>4, <2>5 DEF Register!Lines
        <3> QED BY <3>1 DEF Register!IInv, Register!MoneyHolds
    <2>8. \A d \in Client :
             /\ x6'[d].op \in {"patch", "open", "count", "remove"} => x6'[d].deal \in Deal
             /\ x6'[d].op = "fund" => x6'[d].line \in Line /\ x4'[x6'[d].line].kind \in {"call", "gone"}
        BY <2>3, <2>4, <2>6 DEF Register!IInv, Register!MoneyHolds
    <2>9. ~x8' => Register!OneAtATime' /\ Register!ReadsStand'
        BY <2>6 DEF Register!IInv, Register!OneAtATime, Register!ReadsStand, Register!moneyMoved
    <2>10. x6' \in [Client -> Register!Locals]
        BY <2>6 DEF Register!IInv, Register!TypeOK
    <2> QED BY <2>4, <2>6, <2>7, <2>8, <2>9, <2>10, RegisterLines
<1>14. ASSUME NEW c \in Client, Register!DeleteHoldings(c) \/ Register!DeleteLogins(c)
       PROVE  Register!IInv'
    <2>1. PICK op : op = IF Register!DeleteHoldings(c) THEN "logins" ELSE "investor"
        OBVIOUS
    <2>2. PICK k : k = [x6[c] EXCEPT !.op = op]
        OBVIOUS
    <2>3. k \in Register!Locals /\ k.op = op /\ op \in {"logins", "investor"}
        BY <1>0, <2>1, <2>2 DEF Register!Locals, Register!Op
    <2>4. /\ x6' = [x6 EXCEPT ![c] = k] /\ UNCHANGED <<x1, x3, x4, x8>>
          /\ x6[c].op = IF op = "logins" THEN "holdings" ELSE "logins"
        BY <1>0, <1>14, <2>1, <2>2 DEF Register!DeleteHoldings, Register!DeleteLogins
    <2>5. /\ op = "investor" => x5' = FALSE /\ UNCHANGED <<x2, x7, x9>>
          /\ op = "logins" => x5' = x5 /\ x2' = [d \in Deal |-> Register!NoHolding] /\ x7' = x2'
                              /\ x9' = Register!Dropping(Deal)
        BY <1>14, <2>1 DEF Register!DeleteHoldings, Register!DeleteLogins
    <2>6. /\ x6' \in [Client -> Register!Locals]
          /\ \A d \in Client :
               /\ x6'[d].op \in {"patch", "open", "count", "remove"} => x6'[d].deal \in Deal
               /\ x6'[d].op = "fund" => x6'[d].line \in Line /\ x4'[x6'[d].line].kind \in {"call", "gone"}
          /\ ~x8' => Register!OneAtATime' /\ Register!ReadsStand'
        BY <2>3, <2>4, <2>5, RegisterMoves
    <2>7. /\ x2' \in [Deal -> Register!HoldingRow] /\ x7' = x2'
          /\ \A d \in Deal : x2'[d].id # 0 => x1
        <3>1. PICK g : g = Register!NoHolding
            OBVIOUS
        <3>2. g \in Register!HoldingRow /\ g.id = 0
            BY <3>1 DEF Register!HoldingRow, Register!NoHolding
        <3> QED BY <1>0, <2>3, <2>5, <3>1, <3>2
    <2>8. x9' \subseteq Deal /\ (~x8 => x9' = {})
        <3>1. ~x8 /\ op = "logins" => \A d \in Deal : ~Register!moneyMoved(d)
            BY <2>4 DEF Register!IInv, Register!ReadsStand
        <3>2. ~x8 => x9 = {}
            BY DEF Register!IInv
        <3> QED BY <1>0, <2>3, <2>5, <3>1, <3>2 DEF Register!Dropping
    <2>9. x5' \in BOOLEAN /\ (x5' => x5)
        <3>1. x5 \in BOOLEAN
            BY DEF Register!IInv, Register!TypeOK
        <3>2. CASE op = "logins"
            BY <2>5, <3>1, <3>2
        <3>3. CASE op = "investor"
            BY <2>5, <3>3
        <3> QED BY <2>3, <3>2, <3>3
    <2>10. Register!TypeOK'
        BY <2>4, <2>6, <2>7, <2>8, <2>9 DEF Register!IInv, Register!TypeOK
    <2>11. Register!MoneyHolds'
        <3>1. Register!Lines' = Register!Lines /\ \A d : Register!Held(d)' <=> x2'[d].id # 0
            BY <2>4 DEF Register!Lines, Register!Held
        <3> QED BY <2>4, <2>6, <2>7, <3>1 DEF Register!IInv, Register!MoneyHolds
    <2> QED BY <2>4, <2>6, <2>8, <2>9, <2>10, <2>11 DEF Register!IInv
<1>15. ASSUME UNCHANGED <<x2, x3, x4, x7, x8, x9>>, x1' \in BOOLEAN, x5' \in BOOLEAN,
              x1' => x1, ~x1' => x1' = x1 \/ Register!Unreferenced,
              ~x8 /\ x5' => x1',
              x6' \in [Client -> Register!Locals],
              \A d \in Client :
                /\ x6'[d].op \in {"patch", "open", "count", "remove"} => x6'[d].deal \in Deal
                /\ x6'[d].op = "fund" => x6'[d].line \in Line /\ x4'[x6'[d].line].kind \in {"call", "gone"},
              ~x8' => Register!OneAtATime' /\ Register!ReadsStand'
       PROVE  Register!IInv'
    <2>1. Register!TypeOK'
        BY <1>15 DEF Register!IInv, Register!TypeOK
    <2>2. Register!MoneyHolds'
        <3>1. Register!Lines' = Register!Lines /\ \A d : Register!Held(d)' <=> Register!Held(d)
            BY <1>15 DEF Register!Lines, Register!Held
        <3> QED BY <1>15, <3>1 DEF Register!IInv, Register!MoneyHolds, Register!Unreferenced
    <2> QED BY <1>15, <2>1, <2>2 DEF Register!IInv
<1>16. ASSUME NEW c \in Client, Register!deleteInvestor(c) \/ Register!inviteInvestor(c)
       PROVE  Register!IInv'
    <2>1. x6[c].op \in {"investor", "invite"} /\ Register!End(c) /\ UNCHANGED <<x2, x3, x4, x7, x8, x9>> /\ LineKinds
        BY <1>16 DEF Register!deleteInvestor, Register!inviteInvestor, Register!End
    <2>2. /\ x6' \in [Client -> Register!Locals]
          /\ \A d \in Client :
               /\ x6'[d].op \in {"patch", "open", "count", "remove"} => x6'[d].deal \in Deal
               /\ x6'[d].op = "fund" => x6'[d].line \in Line /\ x4'[x6'[d].line].kind \in {"call", "gone"}
          /\ ~x8' => Register!OneAtATime' /\ Register!ReadsStand'
        BY <2>1, RegisterEnds
    <2>3. x1 \in BOOLEAN /\ x5 \in BOOLEAN /\ (~x8 => (x5 => x1) /\ (x6[c].op = "investor" => ~x5) /\ (x6[c].op = "invite" => x1))
        BY DEF Register!IInv, Register!TypeOK, Register!ReadsStand
    <2>4. x1' \in BOOLEAN /\ x5' \in BOOLEAN /\ (x1' => x1) /\ (~x1' => x1' = x1 \/ Register!Unreferenced) /\ (~x8 /\ x5' => x1')
        <3>1. CASE Register!deleteInvestor(c)
            <4>1. x1' = (x1 /\ ~Register!Unreferenced) /\ x5' = x5 /\ x6[c].op = "investor"
                BY <3>1 DEF Register!deleteInvestor
            <4> QED BY <2>3, <4>1
        <3>2. CASE Register!inviteInvestor(c)
            <4>1. x1' = x1 /\ x5' = TRUE /\ x6[c].op = "invite"
                BY <3>2 DEF Register!inviteInvestor
            <4> QED BY <2>3, <4>1
        <3> QED BY <1>16, <3>1, <3>2
    <2> QED BY <1>15, <2>1, <2>2, <2>4
<1>17. ASSUME Register!revoke
       PROVE  Register!IInv'
    <2>1. x5' = FALSE /\ UNCHANGED <<x1, x2, x3, x4, x6, x7, x8, x9>>
        BY <1>17 DEF Register!revoke
    <2> QED BY <2>1 DEF Register!IInv, Register!TypeOK, Register!MoneyHolds, Register!OneAtATime, Register!ReadsStand,
            Register!Lines, Register!Held, Register!moneyMoved
<1>18. ASSUME UNCHANGED Register!vars
       PROVE  Register!IInv'
    <2>1. UNCHANGED <<x1, x2, x3, x4, x5, x6, x7, x8, x9>>
        BY <1>18 DEF Register!vars
    <2> QED BY <2>1 DEF Register!IInv, Register!TypeOK, Register!MoneyHolds, Register!OneAtATime, Register!ReadsStand,
            Register!Lines, Register!Held, Register!moneyMoved
<1> QED BY <1>3, <1>4, <1>5, <1>6, <1>7, <1>8, <1>10, <1>11, <1>12, <1>13, <1>14, <1>16, <1>17, <1>18 DEF Register!Next

LEMMA RegisterInit == Register!Init => Register!IInv
<1> SUFFICES ASSUME Register!Init PROVE Register!IInv
    OBVIOUS
<1>1. PICK k, h, g : k = Register!Idle /\ h = Register!NoHolding /\ g = Register!NoLine
    OBVIOUS
<1>2. k \in Register!Locals /\ k.op = "idle"
    BY <1>1, RegisterIdle
<1>3. h \in Register!HoldingRow /\ h.id = 0
    BY <1>1 DEF Register!NoHolding, Register!HoldingRow
<1>4. g \in Register!LineRow /\ g.kind = "none"
    BY <1>1 DEF Register!NoLine, Register!LineRow
<1>5. /\ x1 = TRUE /\ x2 = [d \in Deal |-> h] /\ x3 = 0 /\ x4 = [l \in Line |-> g] /\ x5 = FALSE
      /\ x6 = [c \in Client |-> k] /\ x7 = x2 /\ x8 = FALSE /\ x9 = {}
    BY <1>1 DEF Register!Init
<1>6. Register!TypeOK
    BY <1>2, <1>3, <1>4, <1>5 DEF Register!TypeOK
<1>7. Register!Lines = {} /\ \A d \in Deal : ~Register!Held(d)
    BY <1>3, <1>4, <1>5 DEF Register!Lines, Register!Held
<1>8. Register!MoneyHolds
    BY <1>2, <1>5, <1>7 DEF Register!MoneyHolds
<1>9. Register!OneAtATime /\ Register!ReadsStand
    BY <1>2, <1>5 DEF Register!OneAtATime, Register!ReadsStand
<1> QED BY <1>5, <1>6, <1>8, <1>9 DEF Register!IInv

LEMMA RegisterHolds == Register!IInv => Register!RegisterSound
    BY DEF Register!IInv, Register!MoneyHolds, Register!RegisterSound

-----------------------------------------------------------------------------
(***************************************************************************)
(* SalesOffice: the kind of record is x1, the record x2, the stamp x3, the  *)
(* lists x4, what the drawers have under way x6.                            *)
(***************************************************************************)

\* Of progresses that differ, one of them 0, one is the last reached, and stays that of its own progress.
LEMMA SalesReached ==
    ASSUME NEW g, \A s \in DOMAIN g : g[s] \in 0..7, \E s \in DOMAIN g : g[s] = 0,
           \A s, t \in DOMAIN g : g[s] = g[t] => s = t, NEW p \in Nat
    PROVE  /\ Sales!Reached(g, p) \in DOMAIN g
           /\ Sales!Reached(g, g[Sales!Reached(g, p)]) = Sales!Reached(g, p)
<1> DEFINE R(n, s) == g[s] <= n /\ \A t \in DOMAIN g : g[t] <= n => g[t] <= g[s]
           Has(n) == \E s \in DOMAIN g : g[s] = n
<1>1. \E s \in DOMAIN g : R(p, s)
    <2>1. PICK n \in 0..7 : Has(n) /\ n <= p /\ \A m \in 0..7 : Has(m) /\ m <= p => m <= n
        <3> HIDE DEF Has
        <3>1. Has(0) /\ 0 <= p
            BY DEF Has
        <3>2. \A m \in 0..7 : m = 0 \/ m = 1 \/ m = 2 \/ m = 3 \/ m = 4 \/ m = 5 \/ m = 6 \/ m = 7
            OBVIOUS
        <3> QED BY <3>1, <3>2
    <2>2. PICK s \in DOMAIN g : g[s] = n
        BY <2>1
    <2>3. \A t \in DOMAIN g : g[t] <= p => g[t] <= n
        BY <2>1
    <2> QED BY <2>1, <2>2, <2>3
<1>2. ASSUME NEW n, \E s \in DOMAIN g : R(n, s)
      PROVE  Sales!Reached(g, n) \in DOMAIN g /\ R(n, Sales!Reached(g, n))
    <2>1. Sales!Reached(g, n) = CHOOSE s \in DOMAIN g : R(n, s)
        BY DEF Sales!Reached
    <2> HIDE DEF R
    <2> QED BY <1>2, <2>1
<1>3. PICK s : s = Sales!Reached(g, p) /\ s \in DOMAIN g /\ R(p, s)
    BY <1>1, <1>2
<1>4. R(g[s], s)
    BY <1>3
<1>5. PICK t : t = Sales!Reached(g, g[s]) /\ t \in DOMAIN g /\ R(g[s], t)
    BY <1>2, <1>3, <1>4
<1>6. g[t] = g[s]
    BY <1>3, <1>5
<1> QED BY <1>3, <1>5, <1>6

\* So with the statuses of a plot and of a tenancy.
LEMMA SalesStatus ==
    ASSUME x1 \in {"plot", "let"}, NEW p \in Nat
    PROVE  /\ Sales!StatusForProg(p) \in DOMAIN Sales!Prog
           /\ Sales!StatusForProg(Sales!Prog[Sales!StatusForProg(p)]) = Sales!StatusForProg(p)
<1>1. /\ \A s \in DOMAIN Sales!Prog : Sales!Prog[s] \in 0..7
      /\ \E s \in DOMAIN Sales!Prog : Sales!Prog[s] = 0
      /\ \A s, t \in DOMAIN Sales!Prog : Sales!Prog[s] = Sales!Prog[t] => s = t
    <2>1. CASE x1 = "plot"
        <3>1. Sales!Prog = [AVAILABLE |-> 0, RESERVED |-> 1, EXCHANGED |-> 5, COMPLETED |-> 6, HANDOVER |-> 7]
            BY <2>1 DEF Sales!Prog
        <3> QED BY <3>1
    <2>2. CASE x1 = "let"
        <3>1. Sales!Prog = [AVAILABLE |-> 0, APPLICATION |-> 2, REFERENCING |-> 3, SIGNED |-> 4, OCCUPIED |-> 5]
            BY <2>2 DEF Sales!Prog
        <3> QED BY <3>1
    <2> QED BY <2>1, <2>2
<1> QED BY <1>1, SalesReached DEF Sales!StatusForProg

\* A status is of a milestone there is.
LEMMA SalesProg ==
    ASSUME x1 \in {"plot", "let"}
    PROVE  /\ Sales!Last \in {5, 7}
           /\ \A s \in DOMAIN Sales!Prog : Sales!Prog[s] \in Nat /\ Sales!Prog[s] <= Sales!Last
<1>1. CASE x1 = "plot"
    <2>1. Sales!Prog = [AVAILABLE |-> 0, RESERVED |-> 1, EXCHANGED |-> 5, COMPLETED |-> 6, HANDOVER |-> 7]
        BY <1>1 DEF Sales!Prog
    <2> QED BY <1>1, <2>1 DEF Sales!Last
<1>2. CASE x1 = "let"
    <2>1. Sales!Prog = [AVAILABLE |-> 0, APPLICATION |-> 2, REFERENCING |-> 3, SIGNED |-> 4, OCCUPIED |-> 5]
        BY <1>2 DEF Sales!Prog
    <2>2. Sales!Last = 5
        BY <1>2 DEF Sales!Last
    <2> QED BY <2>1, <2>2
<1> QED BY <1>1, <1>2

\* Where the record is as it was, or has a new stamp, whatever fitted it fits still.
LEMMA SalesFitStays ==
    ASSUME Sales!IInv, x1' = x1, x3' \in Nat, x3 <= x3', Sales!RowHolds', Sales!Stored' => Sales!Stored,
           Sales!Stored' => \/ x3' = x3 + 1
                            \/ /\ x3' = x3 /\ x2'.progress = x2.progress /\ x2'.agreed = x2.agreed
                               /\ x2'.arrears = x2.arrears,
           x1 = "plot" /\ x3 > 0 => x2.done <= x2'.done
    PROVE  /\ \A r, c : Sales!Fits(r, c) => Sales!Fits(r, c)'
           /\ x4' = x4 => Sales!ListsHold'
<1>1. x3 \in Nat /\ x1 \in {"plot", "let"} /\ Sales!Last' = Sales!Last /\ Sales!Prog' = Sales!Prog /\ Sales!Form' = Sales!Form
    BY DEF Sales!IInv, Sales!TypeOK, Sales!Last, Sales!Prog, Sales!Form
<1>2. Sales!Stored => x2 \in Sales!Row /\ x2.stamp = x3
    BY DEF Sales!IInv, Sales!RowHolds
<1>3. Sales!Stored' => x2' \in Sales!Row /\ x2'.stamp = x3'
    BY DEF Sales!RowHolds
<1>4. x1 = "plot" /\ x3 > 0 => Sales!Stored /\ Sales!Stored'
    BY <1>1 DEF Sales!Stored
<1>5. ASSUME NEW c, Sales!SaveFits(c) PROVE Sales!SaveFits(c)'
    <2> SUFFICES ASSUME c.at \in {"sent", "read"} PROVE Sales!SaveFits(c)'
        BY DEF Sales!SaveFits
    <2>1. /\ c.form \in Sales!Form /\ c.form.shown \in Nat /\ c.form.shown <= x3
          /\ Sales!Stored /\ c.form.shown = x2.stamp => Sales!Tells(c.form)
          /\ c.at = "read" => c.found = c.stamp
        BY <1>5 DEF Sales!SaveFits, Sales!Form
    <2>2. c.form.shown <= x3'
        BY <1>1, <2>1
    <2>3. ASSUME Sales!Stored', c.form.shown = x2'.stamp
          PROVE  Sales!Tells(c.form)'
        <3>1. x2'.stamp = x3' /\ x2.stamp = x3 /\ Sales!Stored
            BY <1>2, <1>3, <2>3
        <3>2. x3' # x3 + 1
            BY <1>1, <2>1, <2>3, <3>1
        <3>3. x2'.progress = x2.progress /\ x2'.agreed = x2.agreed /\ x2'.arrears = x2.arrears /\ x3' = x3
            BY <2>3, <3>2
        <3>4. Sales!Tells(c.form)
            BY <2>1, <2>3, <3>1, <3>3
        <3>5. Sales!StatusForProg(x2.progress)' = Sales!StatusForProg(x2.progress)
            BY <1>1, <3>3 DEF Sales!StatusForProg
        <3> QED BY <3>3, <3>4, <3>5 DEF Sales!Tells
    <2> QED BY <1>1, <2>1, <2>2, <2>3 DEF Sales!SaveFits
<1>6. ASSUME NEW c, Sales!AdvanceFits(c) PROVE Sales!AdvanceFits(c)'
    <2> SUFFICES ASSUME c.at \in {"mark", "date", "write"} PROVE Sales!AdvanceFits(c)'
        BY DEF Sales!AdvanceFits
    <2>1. /\ c = [at |-> c.at, read |-> c.read]
          /\ c.read \in Sales!Row /\ c.read.stamp <= x3 /\ c.read.progress <= Sales!Last
          /\ c.at # "write" => x1 = "plot"
          /\ x1 = "plot" /\ c.at # "mark" => x2.done >= Sales!Onward(c.read)
        BY <1>6 DEF Sales!AdvanceFits
    <2>2. c.read.stamp \in Nat /\ c.read.stamp > 0 /\ c.read.progress \in Nat
        BY <2>1 DEF Sales!Row
    <2>3. c.read.stamp <= x3' /\ x3 > 0
        BY <1>1, <2>1, <2>2
    <2>4. ASSUME x1 = "plot", c.at # "mark"
          PROVE  x2'.done >= Sales!Onward(c.read)
        <3>1. x2.done \in Nat /\ x2'.done \in Nat /\ x2.done <= x2'.done
            BY <1>2, <1>3, <1>4, <2>3, <2>4 DEF Sales!Row
        <3>2. Sales!Onward(c.read) \in Nat
            BY <1>1, <2>2, SalesProg DEF Sales!Onward, Sales!Smaller
        <3> QED BY <2>1, <2>4, <3>1, <3>2
    <2>5. Sales!Onward(c.read)' = Sales!Onward(c.read)
        BY <1>1 DEF Sales!Onward
    <2> QED BY <1>1, <2>1, <2>3, <2>4, <2>5 DEF Sales!AdvanceFits
<1>7. ASSUME x4' = x4 PROVE Sales!ListsHold'
    <2> SUFFICES ASSUME NEW a \in Client, x4[a] # NoDeal
                 PROVE  /\ x4[a] \in Sales!ShownRow /\ x4[a].stamp <= x3' /\ x4[a].progress <= Sales!Last'
                        /\ Sales!Stored' /\ x4[a].stamp = x2'.stamp =>
                             x4[a].progress = x2'.progress /\ x4[a].agreed = x2'.agreed /\ x4[a].arrears = x2'.arrears
        BY <1>7 DEF Sales!ListsHold
    <2>1. /\ x4[a] \in Sales!ShownRow /\ x4[a].stamp \in Nat /\ x4[a].stamp <= x3 /\ x4[a].progress <= Sales!Last
          /\ Sales!Stored /\ x4[a].stamp = x2.stamp =>
               x4[a].progress = x2.progress /\ x4[a].agreed = x2.agreed /\ x4[a].arrears = x2.arrears
        BY DEF Sales!IInv, Sales!ListsHold, Sales!ShownRow
    <2>2. x4[a].stamp <= x3'
        BY <1>1, <2>1
    <2>3. ASSUME Sales!Stored', x4[a].stamp = x2'.stamp
          PROVE  x4[a].progress = x2'.progress /\ x4[a].agreed = x2'.agreed /\ x4[a].arrears = x2'.arrears
        <3>1. x2'.stamp = x3' /\ x2.stamp = x3 /\ Sales!Stored
            BY <1>2, <1>3, <2>3
        <3>2. x3' # x3 + 1
            BY <1>1, <2>1, <2>3, <3>1
        <3> QED BY <2>1, <2>3, <3>1, <3>2
    <2> QED BY <1>1, <2>1, <2>2, <2>3
<1> QED BY <1>1, <1>5, <1>6, <1>7 DEF Sales!Fits

\* A request moves to what fits the record.
LEMMA SalesMoves ==
    ASSUME Sales!IInv, NEW a \in Client, NEW r \in Sales!Sort, NEW c, x6' = [x6 EXCEPT ![a][r] = c],
           \A q, d : Sales!Fits(q, d) => Sales!Fits(q, d)', Sales!Fits(r, c)'
    PROVE  /\ Sales!CallsHold'
           /\ x6' = [b \in Client |-> [q \in Sales!Sort |-> x6'[b][q]]]
<1>1. /\ x6' = [b \in Client |-> [q \in Sales!Sort |-> x6'[b][q]]]
      /\ \A b \in Client, q \in Sales!Sort : x6'[b][q] = IF b = a /\ q = r THEN c ELSE x6[b][q]
    BY DEF Sales!IInv, Sales!TypeOK
<1>2. ASSUME NEW b \in Client, NEW q \in Sales!Sort
      PROVE  Sales!Fits(q, x6[b][q])'
    <2>1. PICK d : d = x6'[b][q]
        OBVIOUS
    <2>2. Sales!Fits(q, d)'
        <3>1. CASE b = a /\ q = r
            BY <1>1, <2>1, <3>1
        <3>2. CASE ~(b = a /\ q = r)
            BY <1>1, <2>1, <3>2 DEF Sales!IInv, Sales!CallsHold
        <3> QED BY <3>1, <3>2
    <2> QED BY <2>1, <2>2 DEF Sales!Fits, Sales!SaveFits, Sales!AdvanceFits, Sales!Tells, Sales!Onward
<1> QED BY <1>1, <1>2 DEF Sales!CallsHold

\* Nothing fits less well for a step that leaves the record alone.
LEMMA SalesSteps ==
    ASSUME Sales!IInv, UNCHANGED <<x1, x2, x3>>
    PROVE  /\ \A r, c : Sales!Fits(r, c) => Sales!Fits(r, c)'
           /\ x4' = x4 => Sales!ListsHold'
           /\ Sales!ListsHold' /\ DOMAIN x4' = Client /\ x6' = x6 => Sales!IInv'
           /\ \A c : \A a \in Client, r \in Sales!Sort :
                x4' = x4 /\ x6' = [x6 EXCEPT ![a][r] = c] /\ Sales!Fits(r, c) => Sales!IInv'
<1>1. /\ Sales!Last' = Sales!Last /\ (Sales!Stored' <=> Sales!Stored) /\ x3 \in Nat
    BY DEF Sales!Last, Sales!Stored, Sales!IInv, Sales!TypeOK
<1>2. Sales!RowHolds'
    BY <1>1 DEF Sales!RowHolds, Sales!IInv
<1>3. x3' \in Nat /\ x3 <= x3' /\ (x1 = "plot" /\ x3 > 0 => x2.done <= x2'.done)
    <2>1. x1 = "plot" /\ x3 > 0 => x2.done \in Nat
        BY DEF Sales!Stored, Sales!IInv, Sales!RowHolds, Sales!Row
    <2> QED BY <1>1, <2>1
<1>4. /\ \A r, c : Sales!Fits(r, c) => Sales!Fits(r, c)'
      /\ x4' = x4 => Sales!ListsHold'
    BY <1>1, <1>2, <1>3, SalesFitStays
<1>5. Sales!ListsHold' /\ DOMAIN x4' = Client /\ x6' = x6 => Sales!IInv'
    <2> SUFFICES ASSUME Sales!ListsHold', DOMAIN x4' = Client, x6' = x6 PROVE Sales!IInv'
        OBVIOUS
    <2>1. Sales!CallsHold'
        <3>1. ASSUME NEW b \in Client, NEW q \in Sales!Sort
              PROVE  Sales!Fits(q, x6[b][q])'
            <4>1. PICK d : d = x6[b][q]
                OBVIOUS
            <4>2. Sales!Fits(q, d)'
                BY <1>4, <4>1 DEF Sales!IInv, Sales!CallsHold
            <4>3. d = x6'[b][q]
                BY <4>1
            <4> QED BY <4>2, <4>3 DEF Sales!Fits, Sales!SaveFits, Sales!AdvanceFits, Sales!Tells, Sales!Onward
        <3> QED BY <3>1 DEF Sales!CallsHold
    <2>2. Sales!TypeOK'
        BY DEF Sales!IInv, Sales!TypeOK
    <2> QED BY <1>2, <2>1, <2>2 DEF Sales!IInv
<1>6. ASSUME NEW a \in Client, NEW r \in Sales!Sort, NEW c,
             x4' = x4, x6' = [x6 EXCEPT ![a][r] = c], Sales!Fits(r, c)
      PROVE  Sales!IInv'
    <2>1. /\ Sales!CallsHold'
          /\ x6' = [b \in Client |-> [q \in Sales!Sort |-> x6'[b][q]]]
        BY <1>4, <1>6, SalesMoves
    <2>2. Sales!TypeOK'
        BY <1>6, <2>1 DEF Sales!IInv, Sales!TypeOK
    <2> QED BY <1>2, <1>4, <1>6, <2>1, <2>2 DEF Sales!IInv
<1> QED BY <1>4, <1>5, <1>6

\* The record is written and given the next stamp.
LEMMA SalesStores ==
    ASSUME Sales!IInv, Sales!Stored, NEW a \in Client, NEW r \in {"save", "advance"}, NEW w \in Sales!Row,
           Sales!Store(a, r, w), w.progress <= Sales!Last,
           x1 = "plot" => /\ w.deposit > 0 => w.done >= 1
                          /\ w.deposit > Sales!Fee => w.done >= 5
                          /\ x2.done <= w.done,
           \A m \in w.dated : m < w.done \/ m = Sales!Last
    PROVE  Sales!IInv'
<1>1. /\ x3 \in Nat /\ x3' = x3 + 1 /\ x2' = [w EXCEPT !.stamp = x3 + 1] /\ x1' = x1 /\ x4' = x4
      /\ x6' = [x6 EXCEPT ![a][r] = [at |-> "answered", stamp |-> x3 + 1]]
    BY DEF Sales!Store, Sales!Moves, Sales!IInv, Sales!TypeOK
<1>2. /\ x2' \in Sales!Row /\ x2'.stamp = x3' /\ x2'.progress = w.progress /\ x2'.done = w.done
      /\ x2'.deposit = w.deposit /\ x2'.dated = w.dated
    BY <1>1 DEF Sales!Row
<1>3. Sales!Last' = Sales!Last
    BY <1>1 DEF Sales!Last
<1>4. Sales!RowHolds'
    BY <1>1, <1>2, <1>3 DEF Sales!RowHolds, Sales!Fee
<1>5. x1 = "plot" /\ x3 > 0 => x2.done <= x2'.done
    BY <1>2
<1>6. PICK c : c = [at |-> "answered", stamp |-> x3 + 1]
    OBVIOUS
<1>7. Sales!Fits(r, c)'
    <2>1. c.at = "answered"
        BY <1>6
    <2> QED BY <2>1 DEF Sales!Fits, Sales!SaveFits, Sales!AdvanceFits
<1>8. x3' \in Nat /\ x3 <= x3'
    BY <1>1
<1>9. /\ \A q, d : Sales!Fits(q, d) => Sales!Fits(q, d)'
      /\ x4' = x4 => Sales!ListsHold'
    BY <1>1, <1>4, <1>5, <1>8, SalesFitStays
<1>10. r \in Sales!Sort /\ x6' = [x6 EXCEPT ![a][r] = c]
    BY <1>1, <1>6 DEF Sales!Sort
<1>11. /\ Sales!CallsHold'
       /\ x6' = [b \in Client |-> [q \in Sales!Sort |-> x6'[b][q]]]
    BY <1>7, <1>9, <1>10, SalesMoves
<1>12. Sales!TypeOK'
    BY <1>1, <1>8, <1>11 DEF Sales!IInv, Sales!TypeOK
<1> QED BY <1>1, <1>4, <1>9, <1>11, <1>12 DEF Sales!IInv

\* A milestone of a plot is marked or dated: the advance goes on to its next write.
LEMMA SalesMarks ==
    ASSUME Sales!IInv, NEW a \in Client, NEW c, c = x6[a]["advance"], c.at \in {"mark", "date"},
           NEW at \in {"date", "write"}, x6' = [x6 EXCEPT ![a]["advance"] = [c EXCEPT !.at = at]],
           UNCHANGED <<x1, x3, x4>>, x2' \in Sales!Row, x2'.stamp = x2.stamp, x2'.progress = x2.progress,
           x2'.agreed = x2.agreed, x2'.arrears = x2.arrears, x2'.deposit = x2.deposit,
           x2.done <= x2'.done, x2'.done >= Sales!Onward(c.read),
           \A m \in x2'.dated : m < x2'.done \/ m = Sales!Last
    PROVE  Sales!IInv'
<1>1. /\ c = [at |-> c.at, read |-> c.read]
      /\ c.read \in Sales!Row /\ c.read.stamp <= x3 /\ c.read.progress <= Sales!Last
      /\ x1 = "plot" /\ "advance" \in Sales!Sort
    BY DEF Sales!IInv, Sales!CallsHold, Sales!Fits, Sales!AdvanceFits, Sales!Sort
<1>2. x3 \in Nat /\ x3 > 0
    BY <1>1 DEF Sales!IInv, Sales!TypeOK, Sales!Row
<1>3. Sales!Stored /\ Sales!Stored' /\ x2 \in Sales!Row /\ x2.stamp = x3 /\ x2.progress <= Sales!Last
      /\ (x2.deposit > 0 => x2.done >= 1) /\ (x2.deposit > Sales!Fee => x2.done >= 5)
    BY <1>1, <1>2 DEF Sales!Stored, Sales!IInv, Sales!RowHolds
<1>4. PICK n : n = x2'.done /\ n \in Nat
    BY DEF Sales!Row
<1>5. Sales!Last' = Sales!Last
    BY DEF Sales!Last
<1>6. Sales!RowHolds'
    <2>1. x2.done \in Nat /\ x2.deposit \in Nat /\ x2.done <= n
        BY <1>3, <1>4 DEF Sales!Row
    <2>2. (x2.deposit > 0 => n >= 1) /\ (x2.deposit > Sales!Fee => n >= 5)
        BY <1>3, <1>4, <2>1 DEF Sales!Fee
    <2> QED BY <1>3, <1>4, <1>5, <2>2 DEF Sales!RowHolds, Sales!Fee
<1>7. x3' \in Nat /\ x3 <= x3' /\ (x1 = "plot" /\ x3 > 0 => x2.done <= x2'.done)
    BY <1>2, <1>4
<1>8. /\ \A q, d : Sales!Fits(q, d) => Sales!Fits(q, d)'
      /\ x4' = x4 => Sales!ListsHold'
    BY <1>3, <1>4, <1>6, <1>7, SalesFitStays
<1>9. PICK d : d = [at |-> at, read |-> c.read]
    OBVIOUS
<1>10. x6' = [x6 EXCEPT ![a]["advance"] = d]
    <2>1. PICK t, w : t = c.at /\ w = c.read
        OBVIOUS
    <2>2. c = [at |-> t, read |-> w]
        BY <1>1, <2>1
    <2>3. [c EXCEPT !.at = at] = d
        BY <1>9, <2>1, <2>2
    <2> QED BY <2>3
<1>11. Sales!Fits("advance", d)'
    <2>1. d.at = at /\ d.read = c.read
        BY <1>9
    <2>2. Sales!Onward(d.read)' = Sales!Onward(c.read)
        BY <1>5, <2>1 DEF Sales!Onward
    <2>3. Sales!AdvanceFits(d)'
        BY <1>1, <1>4, <1>5, <1>9, <2>1, <2>2 DEF Sales!AdvanceFits
    <2> QED BY <2>3 DEF Sales!Fits
<1>12. /\ Sales!CallsHold'
       /\ x6' = [b \in Client |-> [q \in Sales!Sort |-> x6'[b][q]]]
    BY <1>1, <1>8, <1>10, <1>11, SalesMoves
<1>13. Sales!TypeOK'
    BY <1>2, <1>12 DEF Sales!IInv, Sales!TypeOK
<1> QED BY <1>6, <1>8, <1>12, <1>13 DEF Sales!IInv

LEMMA SalesStep ==
    ASSUME Sales!IInv, [Sales!Next]_(Sales!vars)
    PROVE  Sales!IInv'
<1>0. /\ x1 \in {"plot", "let"} /\ x3 \in Nat /\ DOMAIN x4 = Client
      /\ \A r \in {"save", "advance", "remove"} : r \in Sales!Sort
      /\ Sales!Last \in {5, 7} /\ \A s \in DOMAIN Sales!Prog : Sales!Prog[s] \in Nat /\ Sales!Prog[s] <= Sales!Last
    BY SalesProg DEF Sales!IInv, Sales!TypeOK, Sales!Sort
<1>1. \A r, c : c.at \in {"rest", "answered"} /\ (r = "remove" => c.at = "rest") => Sales!Fits(r, c)
    BY DEF Sales!Fits, Sales!SaveFits, Sales!AdvanceFits
<1>2. Sales!Rest.at = "rest"
    BY DEF Sales!Rest
<1>3. ASSUME NEW a \in Client, NEW s \in DOMAIN Sales!Prog, Sales!Create(a, s)
      PROVE  Sales!IInv'
    <2>1. /\ x3 = 0 /\ x3' = 1 /\ x1' = x1 /\ x4' = x4 /\ x6' = x6
          /\ x2' = [stamp |-> 1, progress |-> Sales!Prog[s], agreed |-> 0, arrears |-> 0, taken |-> Sales!Prog[s] > 0,
                    done |-> IF x1 = "plot" THEN Sales!Prog[s] ELSE 0, dated |-> {},
                    deposit |-> IF x1 = "plot" THEN Sales!DepositsHeldAt(Sales!Prog[s], 0) ELSE 0]
        BY <1>3 DEF Sales!Create
    <2>2. PICK p, d, n : /\ p = Sales!Prog[s] /\ d = (IF x1 = "plot" THEN Sales!DepositsHeldAt(p, 0) ELSE 0)
                         /\ n = IF x1 = "plot" THEN p ELSE 0
        OBVIOUS
    <2>3. /\ p \in Nat /\ p <= Sales!Last /\ d \in Nat /\ n \in Nat
          /\ x1 = "plot" => (d > 0 => n >= 1) /\ (d > 1 => n >= 5)
        BY <1>0, <2>2 DEF Sales!DepositsHeldAt, Sales!Fee, Sales!Basis, Sales!Appraised
    <2>4. PICK k \in BOOLEAN : k <=> (p > 0)
        <3>1. CASE p > 0
            <4> WITNESS TRUE \in BOOLEAN
            <4> QED BY <3>1
        <3>2. CASE ~(p > 0)
            <4> WITNESS FALSE \in BOOLEAN
            <4> QED BY <3>2
        <3> QED BY <3>1, <3>2
    <2>5. x2' = [stamp |-> 1, progress |-> p, agreed |-> 0, arrears |-> 0, taken |-> k, done |-> n, dated |-> {}, deposit |-> d]
        BY <2>1, <2>2, <2>4
    <2>6. /\ x2' \in Sales!Row /\ x2'.stamp = 1 /\ x2'.progress = p /\ x2'.done = n /\ x2'.dated = {} /\ x2'.deposit = d
        BY <2>3, <2>5 DEF Sales!Row
    <2>7. Sales!Last' = Sales!Last
        BY <2>1 DEF Sales!Last
    <2>8. Sales!RowHolds'
        BY <2>1, <2>3, <2>6, <2>7 DEF Sales!RowHolds, Sales!Fee
    <2>9. \A b \in Client : x4[b] = NoDeal
        BY <2>1 DEF Sales!IInv, Sales!ListsHold, Sales!ShownRow
    <2>10. Sales!ListsHold'
        BY <2>1, <2>9 DEF Sales!ListsHold
    <2>11. ASSUME NEW b \in Client, NEW r \in Sales!Sort
           PROVE  Sales!Fits(r, x6[b][r])'
        <3>1. PICK c : c = x6[b][r]
            OBVIOUS
        <3>2. Sales!Fits(r, c)
            BY <3>1 DEF Sales!IInv, Sales!CallsHold
        <3>3. r = "save" => c.at \notin {"sent", "read"}
            BY <2>1, <3>2 DEF Sales!Fits, Sales!SaveFits, Sales!Form
        <3>4. r = "advance" => c.at \notin {"mark", "date", "write"}
            BY <2>1, <3>2 DEF Sales!Fits, Sales!AdvanceFits, Sales!Row
        <3>5. r = "remove" /\ x1 = "plot" => c.at = "rest"
            BY <3>2 DEF Sales!Fits
        <3>6. c = x6'[b][r]
            BY <2>1, <3>1
        <3> QED BY <2>1, <3>3, <3>4, <3>5, <3>6 DEF Sales!Fits, Sales!SaveFits, Sales!AdvanceFits
    <2>12. Sales!TypeOK'
        BY <2>1 DEF Sales!IInv, Sales!TypeOK
    <2> QED BY <2>8, <2>10, <2>11, <2>12 DEF Sales!IInv, Sales!CallsHold
<1>4. ASSUME NEW a \in Client, Sales!Fetch(a)
      PROVE  Sales!IInv'
    <2>1. UNCHANGED <<x1, x2, x3, x6>> /\ x4' = [x4 EXCEPT ![a] = Sales!Shown(x2)]
        BY <1>4 DEF Sales!Fetch
    <2>2. /\ DOMAIN x4' = Client /\ \A b \in Client : x4'[b] = IF b = a THEN Sales!Shown(x2) ELSE x4[b]
        BY <1>0, <2>1
    <2>3. Sales!Last' = Sales!Last /\ (Sales!Stored' <=> Sales!Stored)
        BY <2>1 DEF Sales!Last, Sales!Stored
    <2>4. ASSUME NEW b \in Client, x4'[b] # NoDeal
          PROVE  /\ x4'[b] \in Sales!ShownRow /\ x4'[b].stamp <= x3 /\ x4'[b].progress <= Sales!Last
                 /\ Sales!Stored /\ x4'[b].stamp = x2.stamp =>
                      x4'[b].progress = x2.progress /\ x4'[b].agreed = x2.agreed /\ x4'[b].arrears = x2.arrears
        <3>1. CASE b = a
            <4>1. x2 # NoDeal /\ x4'[b] = [stamp |-> x2.stamp, progress |-> x2.progress, agreed |-> x2.agreed, arrears |-> x2.arrears]
                BY <2>2, <2>4, <3>1 DEF Sales!Shown
            <4>2. x2 \in Sales!Row /\ x2.stamp = x3 /\ x2.progress <= Sales!Last
                BY <4>1 DEF Sales!IInv, Sales!RowHolds, Sales!Stored
            <4> QED BY <1>0, <4>1, <4>2 DEF Sales!Row, Sales!ShownRow
        <3>2. CASE b # a
            BY <2>2, <2>4, <3>2 DEF Sales!IInv, Sales!ListsHold
        <3> QED BY <3>1, <3>2
    <2>5. Sales!ListsHold'
        BY <2>1, <2>3, <2>4 DEF Sales!ListsHold
    <2> QED BY <2>1, <2>2, <2>5, SalesSteps
<1>5. ASSUME NEW a \in Client, Sales!Open(a)
      PROVE  Sales!IInv'
    BY <1>0, <1>5, SalesSteps DEF Sales!Open
<1>6. ASSUME NEW a \in Client, NEW typed \in {"name", "status", "agreed", "arrears"}, NEW value,
             typed = "status" => value \in DOMAIN Sales!Prog, typed \in {"agreed", "arrears"} => value \in Nat,
             Sales!saveDraft(a, typed, value)
      PROVE  Sales!IInv'
    <2>1. PICK l : l = x4[a]
        OBVIOUS
    <2>2. /\ l \in Sales!ShownRow /\ l.stamp <= x3 /\ l.progress <= Sales!Last
          /\ Sales!Stored /\ l.stamp = x2.stamp =>
               l.progress = x2.progress /\ l.agreed = x2.agreed /\ l.arrears = x2.arrears
        BY <1>6, <2>1 DEF Sales!saveDraft, Sales!IInv, Sales!ListsHold
    <2>3. PICK f, s, g, e : /\ s = (IF typed = "status" THEN value ELSE Sales!StatusForProg(l.progress))
                            /\ g = (IF typed = "agreed" THEN value ELSE l.agreed)
                            /\ e = (IF typed = "arrears" THEN value ELSE l.arrears)
                            /\ f = [shown |-> l.stamp, typed |-> typed, status |-> s, agreed |-> g, arrears |-> e]
        OBVIOUS
    <2>4. PICK c : c = [at |-> "sent", stamp |-> x5[a], form |-> f]
        OBVIOUS
    <2>5. x6' = [x6 EXCEPT ![a]["save"] = c] /\ UNCHANGED <<x1, x2, x3, x4>>
        BY <1>6, <2>1, <2>3, <2>4 DEF Sales!saveDraft, Sales!Send, Sales!Filled
    <2>6. l.stamp \in Nat \ {0} /\ l.progress \in Nat /\ l.agreed \in Nat /\ l.arrears \in Nat
        BY <2>2 DEF Sales!ShownRow
    <2>7. s \in DOMAIN Sales!Prog
        BY <1>0, <1>6, <2>3, <2>6, SalesStatus
    <2>8. f \in Sales!Form
        BY <1>6, <2>3, <2>6, <2>7 DEF Sales!Form
    <2>9. Sales!Stored /\ f.shown = x2.stamp => Sales!Tells(f)
        <3>1. f.shown = l.stamp /\ f.typed = typed /\ f.status = s /\ f.agreed = g /\ f.arrears = e
            BY <2>3
        <3> QED BY <2>2, <2>3, <3>1 DEF Sales!Tells
    <2>10. c.at = "sent" /\ c.form = f /\ f.shown = l.stamp
        BY <2>3, <2>4
    <2>11. Sales!Fits("save", c)
        BY <2>2, <2>8, <2>9, <2>10 DEF Sales!Fits, Sales!SaveFits
    <2> QED BY <1>0, <2>5, <2>11, SalesSteps
<1>7. ASSUME NEW a \in Client, Sales!Saves(a)
      PROVE  Sales!IInv'
    BY <1>6, <1>7 DEF Sales!Saves, Sales!Agreed, Sales!Arrears
<1>8. ASSUME NEW a \in Client, Sales!advanceSel(a) \/ Sales!removeSel(a)
      PROVE  Sales!IInv'
    <2>1. PICK c : c = [at |-> "sent"]
        OBVIOUS
    <2>2. PICK r \in {"advance", "remove"} :
            x6' = [x6 EXCEPT ![a][r] = c] /\ UNCHANGED <<x1, x2, x3, x4>> /\ (r = "remove" => x1 = "let")
        BY <1>8, <2>1 DEF Sales!advanceSel, Sales!removeSel, Sales!Send
    <2>3. c.at = "sent"
        BY <2>1
    <2>4. Sales!Fits(r, c)
        BY <2>2, <2>3 DEF Sales!Fits, Sales!AdvanceFits
    <2> QED BY <1>0, <2>2, <2>4, SalesSteps
<1>9. ASSUME NEW a \in Client, NEW r \in {"save", "advance", "remove"}, UNCHANGED <<x1, x2, x3, x4>>,
             NEW c, x6' = [x6 EXCEPT ![a][r] = c], Sales!Fits(r, c)
      PROVE  Sales!IInv'
    BY <1>0, <1>9, SalesSteps
<1>10. ASSUME NEW a \in Client, NEW r \in {"save", "advance", "remove"}, UNCHANGED <<x1, x2, x3, x4>>,
              Sales!Ends(a, r)
       PROVE  Sales!IInv'
    BY <1>1, <1>2, <1>9, <1>10 DEF Sales!Ends, Sales!Moves
<1>11. ASSUME NEW a \in Client, Sales!CheckSave(a)
       PROVE  Sales!IInv'
    <2>1. PICK c : c = x6[a]["save"]
        OBVIOUS
    <2>2. PICK k : k = [at |-> "read", form |-> c.form, stamp |-> c.stamp, found |-> x2.stamp, taken |-> x2.taken]
        OBVIOUS
    <2>3. /\ UNCHANGED <<x1, x2, x3, x4>> /\ c.at = "sent"
          /\ \/ Sales!Ends(a, "save")
             \/ x6' = [x6 EXCEPT ![a]["save"] = k] /\ x2.stamp = c.stamp
        BY <1>11, <2>1, <2>2 DEF Sales!CheckSave, Sales!Finds, Sales!Moves, Sales!Ends, Sales!Unchanged
    <2>4. Sales!Fits("save", c)
        BY <1>0, <2>1 DEF Sales!IInv, Sales!CallsHold
    <2>5. k.at = "read" /\ k.form = c.form /\ k.stamp = c.stamp /\ k.found = x2.stamp
        BY <2>2
    <2>6. x2.stamp = c.stamp => Sales!Fits("save", k)
        BY <2>3, <2>4, <2>5 DEF Sales!Fits, Sales!SaveFits
    <2> QED BY <1>9, <1>10, <2>3, <2>6
<1>12. ASSUME NEW a \in Client, NEW r \in {"save", "advance", "remove"}, NEW at, Sales!Gone(a, r, at)
       PROVE  Sales!IInv'
    BY <1>10, <1>12 DEF Sales!Gone
<1>13. ASSUME NEW a \in Client, Sales!WriteSave(a)
       PROVE  Sales!IInv'
    <2>1. PICK c : c = x6[a]["save"]
        OBVIOUS
    <2>2. Sales!Stored /\ c.at = "read" /\ Sales!Fits("save", c) /\ Sales!Store(a, "save", Sales!Saved(x2, c))
        BY <1>0, <1>13, <2>1 DEF Sales!WriteSave, Sales!IInv, Sales!CallsHold, Sales!Stored
    <2>3. c.form \in Sales!Form
        BY <2>2 DEF Sales!Fits, Sales!SaveFits
    <2>4. PICK p, g, e, k : /\ p = Sales!Prog[c.form.status] /\ g = c.form.agreed /\ e = c.form.arrears
                            /\ k = (Sales!Prog[c.form.status] > 0 \/ (x1 = "plot" /\ c.taken)) /\ k \in BOOLEAN
        OBVIOUS
    <2>5. p \in Nat /\ p <= Sales!Last /\ g \in Nat /\ e \in Nat
        BY <1>0, <2>3, <2>4 DEF Sales!Form
    <2>6. /\ x2 \in Sales!Row
          /\ x1 = "plot" => (x2.deposit > 0 => x2.done >= 1) /\ (x2.deposit > Sales!Fee => x2.done >= 5)
          /\ \A m \in x2.dated : m < x2.done \/ m = Sales!Last
        BY <2>2 DEF Sales!IInv, Sales!RowHolds
    <2>7. PICK w : w = [x2 EXCEPT !.progress = p, !.agreed = g, !.arrears = e, !.taken = k]
        OBVIOUS
    <2>8. w \in Sales!Row /\ w.progress = p /\ w.deposit = x2.deposit /\ w.done = x2.done /\ w.dated = x2.dated
        BY <2>4, <2>5, <2>6, <2>7 DEF Sales!Row
    <2>9. w = Sales!Saved(x2, c)
        BY <2>4, <2>7 DEF Sales!Saved
    <2>10. x2.done <= x2.done
        BY <2>6 DEF Sales!Row
    <2> QED BY <2>2, <2>5, <2>6, <2>8, <2>9, <2>10, SalesStores
<1>14. ASSUME NEW a \in Client, Sales!ReadAdvance(a)
       PROVE  Sales!IInv'
    <2>1. PICK t, k : t = (IF x1 = "plot" THEN "mark" ELSE "write") /\ k = [at |-> t, read |-> x2]
        OBVIOUS
    <2>2. /\ UNCHANGED <<x1, x2, x3, x4>>
          /\ Sales!Ends(a, "advance") \/ (x2 # NoDeal /\ x6' = [x6 EXCEPT ![a]["advance"] = k])
        BY <1>14, <2>1 DEF Sales!ReadAdvance, Sales!Finds, Sales!Moves, Sales!Ends
    <2>3. k.at = t /\ k.read = x2 /\ k = [at |-> k.at, read |-> k.read]
        BY <2>1
    <2>4. x2 # NoDeal => x2 \in Sales!Row /\ x2.stamp <= x3 /\ x2.progress <= Sales!Last
        BY <1>0 DEF Sales!IInv, Sales!RowHolds, Sales!Stored
    <2>5. x2 # NoDeal => Sales!Fits("advance", k)
        BY <2>1, <2>3, <2>4 DEF Sales!Fits, Sales!AdvanceFits
    <2> QED BY <1>9, <1>10, <2>2, <2>5
<1>15. ASSUME NEW a \in Client, NEW c, c = x6[a]["advance"], c.at \in {"mark", "date", "write"}
       PROVE  /\ c.read \in Sales!Row /\ c.read.progress \in Nat /\ c.read.agreed \in Nat /\ c.read.progress <= Sales!Last
              /\ Sales!Onward(c.read) \in Nat /\ Sales!Onward(c.read) <= Sales!Last
              /\ c.read.progress < Sales!Onward(c.read) \/ c.read.progress = Sales!Last
              /\ c.at # "write" => x1 = "plot"
              /\ x1 = "plot" /\ c.at # "mark" => x2.done >= Sales!Onward(c.read)
              /\ x1 = "plot" => Sales!Stored
    <2>1. Sales!AdvanceFits(c)
        BY <1>0, <1>15 DEF Sales!IInv, Sales!CallsHold, Sales!Fits
    <2>2. /\ c.read \in Sales!Row /\ c.read.progress \in Nat /\ c.read.agreed \in Nat /\ c.read.progress <= Sales!Last
          /\ c.read.stamp \in Nat /\ c.read.stamp > 0 /\ c.read.stamp <= x3
        BY <1>15, <2>1 DEF Sales!AdvanceFits, Sales!Row
    <2>3. x1 = "plot" => Sales!Stored
        BY <1>0, <2>2 DEF Sales!Stored
    <2>4. /\ Sales!Onward(c.read) \in Nat /\ Sales!Onward(c.read) <= Sales!Last
          /\ c.read.progress < Sales!Onward(c.read) \/ c.read.progress = Sales!Last
        BY <1>0, <2>2 DEF Sales!Onward, Sales!Smaller
    <2> QED BY <1>15, <2>1, <2>2, <2>3, <2>4 DEF Sales!AdvanceFits
<1>16. ASSUME NEW a \in Client, Sales!Mark(a) \/ Sales!Date(a)
       PROVE  Sales!IInv'
    <2>1. PICK c : c = x6[a]["advance"]
        OBVIOUS
    <2>2. /\ UNCHANGED <<x1, x3, x4>> /\ c.at \in {"mark", "date"}
          /\ \/ /\ x2' = [x2 EXCEPT !.done = Sales!Larger(@, Sales!Done(c.read))] /\ c.at = "mark"
                /\ x6' = [x6 EXCEPT ![a]["advance"] = [c EXCEPT !.at = "date"]]
             \/ /\ x2' = [x2 EXCEPT !.dated = @ \cup {c.read.progress}] /\ c.at = "date"
                /\ x6' = [x6 EXCEPT ![a]["advance"] = [c EXCEPT !.at = "write"]]
        BY <1>16, <2>1 DEF Sales!Mark, Sales!Date, Sales!Moves
    <2>3. /\ Sales!Stored /\ c.read.progress \in Nat /\ Sales!Onward(c.read) \in Nat
          /\ c.read.progress < Sales!Onward(c.read) \/ c.read.progress = Sales!Last
          /\ c.at # "mark" => x2.done >= Sales!Onward(c.read)
        BY <1>15, <2>1, <2>2
    <2>4. /\ x2 \in Sales!Row /\ x2.done \in Nat /\ x2.dated \in SUBSET Nat
          /\ \A m \in x2.dated : m < x2.done \/ m = Sales!Last
        BY <2>3 DEF Sales!IInv, Sales!RowHolds, Sales!Row
    <2>5. PICK n : n = Sales!Larger(x2.done, Sales!Done(c.read))
        OBVIOUS
    <2>6. n \in Nat /\ x2.done <= n /\ n >= Sales!Onward(c.read)
        BY <2>3, <2>4, <2>5 DEF Sales!Larger, Sales!Done
    <2>7. CASE c.at = "mark"
        <3>1. x2' = [x2 EXCEPT !.done = n] /\ x6' = [x6 EXCEPT ![a]["advance"] = [c EXCEPT !.at = "date"]]
            BY <2>2, <2>5, <2>7
        <3>2. /\ x2' \in Sales!Row /\ x2'.stamp = x2.stamp /\ x2'.progress = x2.progress
              /\ x2'.agreed = x2.agreed /\ x2'.arrears = x2.arrears /\ x2'.deposit = x2.deposit
              /\ x2'.done = n /\ x2'.dated = x2.dated
            BY <2>4, <2>6, <3>1 DEF Sales!Row
        <3>3. \A m \in x2'.dated : m < x2'.done \/ m = Sales!Last
            <4>1. SUFFICES ASSUME NEW m \in x2.dated
                  PROVE  m < n \/ m = Sales!Last
                BY <3>2
            <4>2. m \in Nat /\ (m < x2.done \/ m = Sales!Last)
                BY <2>4
            <4>3. PICK last : last = Sales!Last
                OBVIOUS
            <4>4. PICK was : was = x2.done
                OBVIOUS
            <4>5. m < was => m < n
                BY <2>4, <2>6, <4>2, <4>4
            <4> QED BY <4>2, <4>4, <4>5
        <3>4. /\ x2.done <= x2'.done /\ x2'.done >= Sales!Onward(c.read)
              /\ c.at \in {"mark", "date"} /\ UNCHANGED <<x1, x3, x4>>
            BY <2>2, <2>6, <3>2
        <3>5. x6' = [x6 EXCEPT ![a]["advance"] = [c EXCEPT !.at = "date"]] /\ "date" \in {"date", "write"}
            BY <3>1
        <3> QED BY <2>1, <3>2, <3>3, <3>4, <3>5, SalesMarks
    <2>8. CASE c.at = "date"
        <3>1. PICK ds : ds = x2.dated \cup {c.read.progress}
            OBVIOUS
        <3>2. x2' = [x2 EXCEPT !.dated = ds] /\ x6' = [x6 EXCEPT ![a]["advance"] = [c EXCEPT !.at = "write"]]
            BY <2>2, <2>8, <3>1
        <3>3. ds \in SUBSET Nat
            BY <2>3, <2>4, <3>1
        <3>4. /\ x2' \in Sales!Row /\ x2'.stamp = x2.stamp /\ x2'.progress = x2.progress
              /\ x2'.agreed = x2.agreed /\ x2'.arrears = x2.arrears /\ x2'.deposit = x2.deposit
              /\ x2'.done = x2.done /\ x2'.dated = ds
            BY <2>4, <3>2, <3>3 DEF Sales!Row
        <3>5. \A m \in x2'.dated : m < x2'.done \/ m = Sales!Last
            BY <2>3, <2>4, <2>8, <3>1, <3>4
        <3>6. x2.done <= x2'.done /\ x2'.done >= Sales!Onward(c.read)
            BY <2>3, <2>4, <2>8, <3>4
        <3> QED BY <2>1, <2>2, <3>2, <3>4, <3>5, <3>6, SalesMarks
    <2> QED BY <2>2, <2>7, <2>8
<1>17. ASSUME NEW a \in Client, Sales!WriteAdvance(a)
       PROVE  Sales!IInv'
    <2>1. PICK c : c = x6[a]["advance"]
        OBVIOUS
    <2>2. PICK n, g, d : /\ n = Sales!Onward(c.read) /\ g = Sales!Basis(c.read.agreed)
                         /\ d = IF x1 = "plot" THEN Sales!DepositsHeldAt(Sales!Onward(c.read), c.read.agreed) ELSE x2.deposit
        OBVIOUS
    <2>3. PICK w : w = [x2 EXCEPT !.progress = n, !.agreed = g, !.taken = TRUE, !.deposit = d]
        OBVIOUS
    <2>4. Sales!Stored /\ c.at = "write" /\ Sales!Store(a, "advance", w)
        BY <1>17, <2>1, <2>2, <2>3 DEF Sales!WriteAdvance, Sales!Stored
    <2>5. /\ n \in Nat /\ n <= Sales!Last /\ c.read.agreed \in Nat /\ (x1 = "plot" => x2.done >= n)
        BY <1>15, <2>1, <2>2, <2>4
    <2>6. /\ x2 \in Sales!Row /\ x2.done \in Nat /\ x2.deposit \in Nat
          /\ \A m \in x2.dated : m < x2.done \/ m = Sales!Last
        BY <2>4 DEF Sales!IInv, Sales!RowHolds, Sales!Row
    <2>7. /\ g \in Nat /\ d \in Nat
          /\ x1 = "plot" => (d > 0 => n >= 1) /\ (d > 1 => n >= 5)
        BY <2>2, <2>5, <2>6 DEF Sales!DepositsHeldAt, Sales!Fee, Sales!Basis, Sales!Appraised
    <2>8. w \in Sales!Row /\ w.progress = n /\ w.deposit = d /\ w.done = x2.done /\ w.dated = x2.dated
        BY <2>3, <2>5, <2>6, <2>7 DEF Sales!Row
    <2>9. x1 = "plot" => /\ w.deposit > 0 => w.done >= 1
                         /\ w.deposit > Sales!Fee => w.done >= 5
                         /\ x2.done <= w.done
        BY <2>5, <2>6, <2>7, <2>8 DEF Sales!Fee
    <2> QED BY <2>4, <2>5, <2>6, <2>8, <2>9, SalesStores
<1>18. ASSUME NEW a \in Client, Sales!ReadRemove(a)
       PROVE  Sales!IInv'
    <2>1. PICK k : k = [at |-> "read"]
        OBVIOUS
    <2>2. /\ UNCHANGED <<x1, x2, x3, x4>> /\ x6[a]["remove"].at = "sent"
          /\ Sales!Ends(a, "remove") \/ x6' = [x6 EXCEPT ![a]["remove"] = k]
        BY <1>18, <2>1 DEF Sales!ReadRemove, Sales!Finds, Sales!Moves, Sales!Ends
    <2>3. x1 # "plot"
        BY <1>0, <2>2 DEF Sales!IInv, Sales!CallsHold, Sales!Fits
    <2>4. Sales!Fits("remove", k)
        BY <2>3 DEF Sales!Fits
    <2> QED BY <1>9, <1>10, <2>2, <2>4
<1>19. ASSUME NEW a \in Client, Sales!Remove(a)
       PROVE  Sales!IInv'
    <2>1. /\ UNCHANGED <<x1, x3, x4>> /\ x6[a]["remove"].at = "read" /\ x2' = NoDeal
          /\ x6' = [x6 EXCEPT ![a]["remove"] = Sales!Rest]
        BY <1>19 DEF Sales!Remove, Sales!Ends, Sales!Moves
    <2>2. x1 = "let"
        BY <1>0, <2>1 DEF Sales!IInv, Sales!CallsHold, Sales!Fits
    <2>3. ~Sales!Stored'
        BY <2>1, <2>2 DEF Sales!Stored
    <2>4. Sales!RowHolds'
        BY <2>3 DEF Sales!RowHolds
    <2>5. x3' \in Nat /\ x3 <= x3' /\ x1 # "plot"
        BY <1>0, <2>1, <2>2
    <2>6. /\ \A q, d : Sales!Fits(q, d) => Sales!Fits(q, d)'
          /\ x4' = x4 => Sales!ListsHold'
        BY <2>1, <2>3, <2>4, <2>5, SalesFitStays
    <2>7. PICK k : k = Sales!Rest
        OBVIOUS
    <2>8. Sales!Fits("remove", k)' /\ "remove" \in Sales!Sort /\ x6' = [x6 EXCEPT ![a]["remove"] = k]
        BY <1>0, <1>1, <1>2, <2>1, <2>6, <2>7
    <2>9. /\ Sales!CallsHold'
          /\ x6' = [b \in Client |-> [q \in Sales!Sort |-> x6'[b][q]]]
        BY <2>6, <2>8, SalesMoves
    <2>10. Sales!TypeOK'
        BY <1>0, <2>1, <2>9 DEF Sales!TypeOK
    <2> QED BY <2>1, <2>4, <2>6, <2>9, <2>10 DEF Sales!IInv
<1>20. ASSUME NEW a \in Client, NEW r \in Sales!Sort, Sales!Answer(a, r) \/ Sales!Die(a, r)
       PROVE  Sales!IInv'
    BY <1>10, <1>20 DEF Sales!Answer, Sales!Die, Sales!Sort
<1>21. ASSUME UNCHANGED Sales!vars
       PROVE  Sales!IInv'
    BY <1>0, <1>21, SalesSteps DEF Sales!vars
<1> QED BY <1>3, <1>4, <1>5, <1>7, <1>8, <1>11, <1>12, <1>13, <1>14, <1>16, <1>17, <1>18, <1>19, <1>20, <1>21
        DEF Sales!Next

LEMMA SalesInit == Sales!Init => Sales!IInv
<1> SUFFICES ASSUME Sales!Init PROVE Sales!IInv
    OBVIOUS
<1>1. PICK k : k = Sales!Rest
    OBVIOUS
<1>2. k.at = "rest"
    BY <1>1 DEF Sales!Rest
<1>3. /\ x1 \in {"plot", "let"} /\ x2 = NoDeal /\ x3 = 0 /\ x4 = [a \in Client |-> NoDeal]
      /\ x6 = [a \in Client |-> [r \in Sales!Sort |-> k]]
    BY <1>1 DEF Sales!Init
<1>4. ~Sales!Stored
    BY <1>3 DEF Sales!Stored
<1>5. Sales!TypeOK
    BY <1>3 DEF Sales!TypeOK
<1>6. \A r : Sales!Fits(r, k)
    BY <1>2 DEF Sales!Fits, Sales!SaveFits, Sales!AdvanceFits
<1>7. Sales!CallsHold
    BY <1>3, <1>6 DEF Sales!CallsHold
<1> QED BY <1>3, <1>4, <1>5, <1>7 DEF Sales!IInv, Sales!RowHolds, Sales!ListsHold

\* What SalesOffice says of its record.
LEMMA SalesHolds == Sales!IInv => Sales!SalesSound
<1> SUFFICES ASSUME Sales!IInv PROVE Sales!SalesSound
    OBVIOUS
<1>1. ASSUME NEW a \in Client, NEW c, c = x6[a]["save"], c.at = "read", x2 # NoDeal,
             x2.stamp = c.found, c.form.shown = c.stamp
      PROVE  /\ c.form.typed # "agreed" => Sales!Saved(x2, c).agreed = x2.agreed
             /\ c.form.typed # "arrears" => Sales!Saved(x2, c).arrears = x2.arrears
             /\ c.form.typed # "status" =>
                  Sales!StatusForProg(Sales!Saved(x2, c).progress) = Sales!StatusForProg(x2.progress)
             /\ Sales!Saved(x2, c).deposit = x2.deposit
    <2>1. x2 \in Sales!Row /\ x2.progress \in Nat /\ x1 \in {"plot", "let"} /\ "save" \in Sales!Sort
        BY <1>1 DEF Sales!IInv, Sales!TypeOK, Sales!RowHolds, Sales!Stored, Sales!Row, Sales!Sort
    <2>2. Sales!Tells(c.form)
        BY <1>1, <2>1 DEF Sales!IInv, Sales!CallsHold, Sales!Fits, Sales!SaveFits, Sales!Stored
    <2>3. PICK p, g, e, k : /\ p = Sales!Prog[c.form.status] /\ g = c.form.agreed /\ e = c.form.arrears
                            /\ k = (Sales!Prog[c.form.status] > 0 \/ (x1 = "plot" /\ c.taken))
        OBVIOUS
    <2>4. PICK w : w = [x2 EXCEPT !.progress = p, !.agreed = g, !.arrears = e, !.taken = k]
        OBVIOUS
    <2>5. w = Sales!Saved(x2, c)
        BY <2>3, <2>4 DEF Sales!Saved
    <2>6. w.progress = p /\ w.deposit = x2.deposit /\ w.agreed = g /\ w.arrears = e
        BY <2>1, <2>4 DEF Sales!Row
    <2>7. c.form.typed # "status" => Sales!StatusForProg(p) = Sales!StatusForProg(x2.progress)
        BY <2>1, <2>2, <2>3, SalesStatus DEF Sales!Tells
    <2> QED BY <2>2, <2>3, <2>5, <2>6, <2>7 DEF Sales!Tells
<1>2. Sales!FormKeepsTheRest
    BY <1>1 DEF Sales!FormKeepsTheRest
<1>3. Sales!NothingHeldEarly /\ Sales!DatedIsDone
    BY DEF Sales!NothingHeldEarly, Sales!DatedIsDone, Sales!IInv, Sales!RowHolds, Sales!Stored
<1> QED BY <1>2, <1>3 DEF Sales!SalesSound

-----------------------------------------------------------------------------
(***************************************************************************)
(* FollowUps: the tasks are x2, those made x3, the lists, forms and changes *)
(* of the screens x4 to x6, the requests x9, the versions submitted from    *)
(* x10, what was asked of each task x11.                                   *)
(***************************************************************************)
LEMMA FollowUpsCount ==
    \A S : (FollowUps!IsFiniteSet(S) <=> IsFiniteSet(S)) /\ FollowUps!Cardinality(S) = Cardinality(S)
<1>1. \A S : FollowUps!IsFiniteSet(S) <=> IsFiniteSet(S)
    BY DEF IsFiniteSet, FollowUps!IsFiniteSet
<1>2. \A S : FollowUps!Cardinality(S) = Cardinality(S)
    BY DEF Cardinality, FollowUps!Cardinality
<1> QED BY <1>1, <1>2

\* Tasks, submissions and what was asked stay, and are only added to.
LEMMA FollowUpsGrow ==
    ASSUME FollowUps!TypeOK, x3' \in Nat, x3 <= x3', FollowUps!Submission \subseteq FollowUps!Submission'
    PROVE  /\ FollowUps!TaskRow \subseteq FollowUps!TaskRow' /\ FollowUps!Form \subseteq FollowUps!Form'
           /\ FollowUps!Request \subseteq FollowUps!Request'
           /\ [id : 1..x3, done : BOOLEAN] \subseteq [id : 1..x3', done : BOOLEAN]
           /\ FollowUps!View' = FollowUps!View
<1>1. 1..x3 \subseteq 1..x3' /\ FollowUps!View' = FollowUps!View
    BY DEF FollowUps!TypeOK, FollowUps!View, FollowUps!Title
<1>2. FollowUps!TaskRow \subseteq FollowUps!TaskRow' /\ FollowUps!Form \subseteq FollowUps!Form'
    BY <1>1 DEF FollowUps!TaskRow, FollowUps!Form, FollowUps!Closed, FollowUps!Title
<1>3. FollowUps!Request \subseteq FollowUps!Request'
    <2> SUFFICES ASSUME NEW k \in FollowUps!Request PROVE k \in FollowUps!Request'
        OBVIOUS
    <2>1. CASE k.op \notin {"save"}
        BY <1>1, <2>1, ZenonT(40) DEF FollowUps!Request, FollowUps!Idle, FollowUps!Title
    <2>2. CASE k.op = "save" /\ k.at = "look"
        <3>1. PICK S \in SUBSET FollowUps!TaskRow : k = [op |-> "save", at |-> "look", sent |-> S]
            BY <2>2 DEF FollowUps!Request, FollowUps!Idle
        <3>2. S \in SUBSET FollowUps!TaskRow'
            BY <1>2
        <3> QED BY <3>1, <3>2 DEF FollowUps!Request
    <2>3. CASE k.op = "save" /\ k.at # "look"
        <3>1. PICK S \in SUBSET FollowUps!TaskRow, T \in SUBSET FollowUps!TaskRow :
                 k = [op |-> "save", at |-> "write", sent |-> S, read |-> T]
            BY <2>3 DEF FollowUps!Request, FollowUps!Idle
        <3>2. S \in SUBSET FollowUps!TaskRow' /\ T \in SUBSET FollowUps!TaskRow'
            BY <1>2
        <3> QED BY <3>1, <3>2 DEF FollowUps!Request
    <2> QED BY <2>1, <2>2, <2>3
<1> QED BY <1>1, <1>2, <1>3

\* What a screen or a request holds is true of the rest as that stood, and stays so.
FollowUpsForm(f) == f \in FollowUps!Form /\ FollowUps!FormHolds(f)
FollowUpsChange(v) == v = FollowUps!NoChange \/ (v \in [id : 1..x3, done : BOOLEAN] /\ FollowUps!Asked(v))
FollowUpsCall(k) == k \in FollowUps!Request /\ FollowUps!CallHolds(k)

LEMMA FollowUpsHolds ==
    ASSUME FollowUps!TypeOK
    PROVE  FollowUps!ScreensHold /\ FollowUps!CallsHold <=>
              /\ \A p \in Client : FollowUpsForm(x5[p]) /\ FollowUpsChange(x6[p])
              /\ \A c \in Unit : FollowUpsCall(x9[c])
<1>1. \A p \in Client : x5[p] \in FollowUps!Form /\ x6[p] \in {FollowUps!NoChange} \cup [id : 1..x3, done : BOOLEAN]
    BY DEF FollowUps!TypeOK
<1>2. \A c \in Unit : x9[c] \in FollowUps!Request
    BY DEF FollowUps!TypeOK
<1>3. \A p \in Client : FollowUpsForm(x5[p]) <=> FollowUps!FormHolds(x5[p])
    BY <1>1 DEF FollowUpsForm
<1>4. \A p \in Client : FollowUpsChange(x6[p]) <=> (x6[p] # FollowUps!NoChange => FollowUps!Asked(x6[p]))
    BY <1>1 DEF FollowUpsChange, FollowUps!Asked
<1>5. \A c \in Unit : FollowUpsCall(x9[c]) <=> FollowUps!CallHolds(x9[c])
    BY <1>2 DEF FollowUpsCall
<1> QED BY <1>3, <1>4, <1>5 DEF FollowUps!ScreensHold, FollowUps!CallsHold

LEMMA FollowUpsStay ==
    ASSUME FollowUps!IInv, x3' \in Nat, x3 <= x3', FollowUps!Submission \subseteq FollowUps!Submission',
           \A s \in FollowUps!Submission : x10'[s] = x10[s],
           \A i \in 1..x3 : x11[i].wanted \subseteq x11'[i].wanted
    PROVE  /\ \A f : FollowUpsForm(f) => FollowUpsForm(f)'
           /\ \A v : FollowUpsChange(v) => FollowUpsChange(v)'
           /\ \A k : FollowUpsCall(k) => FollowUpsCall(k)'
<1> USE FollowUpsGrow DEF FollowUps!IInv
<1>1. ASSUME NEW f, FollowUpsForm(f) PROVE FollowUpsForm(f)'
    BY <1>1 DEF FollowUpsForm, FollowUps!FormHolds, FollowUps!Form, FollowUps!Closed
<1>2. ASSUME NEW v, FollowUpsChange(v) PROVE FollowUpsChange(v)'
    <2>1. FollowUps!NoChange' = FollowUps!NoChange
        BY DEF FollowUps!NoChange
    <2>2. CASE v = FollowUps!NoChange
        BY <2>2 DEF FollowUpsChange, FollowUps!NoChange
    <2>3. CASE v \in [id : 1..x3, done : BOOLEAN] /\ FollowUps!Asked(v)
        <3>1. v.id \in 1..x3 /\ v \in [id : 1..x3', done : BOOLEAN]
            BY <2>3
        <3>2. x11[v.id].wanted \subseteq x11'[v.id].wanted
            BY <3>1
        <3>3. FollowUps!Asked(v)'
            BY <2>3, <3>2 DEF FollowUps!Asked
        <3> QED BY <3>1, <3>3 DEF FollowUpsChange
    <2> QED BY <1>2, <2>2, <2>3 DEF FollowUpsChange
<1>3. ASSUME NEW k, FollowUpsCall(k) PROVE FollowUpsCall(k)'
    <2>1. CASE k.op = "create"
        <3>1. k.s \in FollowUps!Submission
            BY <1>3, <2>1 DEF FollowUpsCall, FollowUps!Request, FollowUps!Idle
        <3> QED BY <1>3, <2>1, <3>1 DEF FollowUpsCall, FollowUps!CallHolds
    <2>2. CASE k.op = "toggle"
        <3>1. k.id \in 1..x3
            BY <1>3, <2>2 DEF FollowUpsCall, FollowUps!Request, FollowUps!Idle
        <3> QED BY <1>3, <2>2, <3>1 DEF FollowUpsCall, FollowUps!CallHolds, FollowUps!Asked
    <2> QED BY <1>3, <2>1, <2>2 DEF FollowUpsCall, FollowUps!CallHolds
<1> QED BY <1>1, <1>2, <1>3

\* A step that leaves the tasks and what was asked of them alone.
LEMMA FollowUpsKeeps ==
    ASSUME FollowUps!IInv, UNCHANGED <<x2, x3, x10, x11>>, x1' \in Nat, x4' \in [Client -> SUBSET FollowUps!TaskRow],
           DOMAIN x5' = Client, x5' = [p \in Client |-> x5'[p]], x6' = [p \in Client |-> x6'[p]], x9' = [c \in Unit |-> x9'[c]],
           \A p \in Client : FollowUpsForm(x5'[p]) /\ FollowUpsChange(x6'[p]),
           \A c \in Unit : FollowUpsCall(x9'[c])
    PROVE  FollowUps!IInv'
<1>1. FollowUps!TypeOK /\ FollowUps!NamesTell /\ FollowUps!EvidenceWasReviewed /\ FollowUps!StatusWasAsked
    BY DEF FollowUps!IInv
<1>2. /\ FollowUps!TaskRow' = FollowUps!TaskRow /\ FollowUps!Form' = FollowUps!Form
      /\ FollowUps!Request' = FollowUps!Request /\ FollowUps!Submission' = FollowUps!Submission
    BY DEF FollowUps!TaskRow, FollowUps!Form, FollowUps!Request, FollowUps!Submission, FollowUps!Closed, FollowUps!Idle,
           FollowUps!View, FollowUps!Title
<1>3. FollowUps!TypeOK'
    BY <1>1, <1>2 DEF FollowUps!TypeOK, FollowUpsForm, FollowUpsChange, FollowUpsCall
<1>4. /\ \A f : FollowUpsForm(f)' <=> FollowUpsForm(f)
      /\ \A v : FollowUpsChange(v)' <=> FollowUpsChange(v)
      /\ \A k : FollowUpsCall(k)' <=> FollowUpsCall(k)
    BY <1>2 DEF FollowUpsForm, FollowUpsChange, FollowUpsCall, FollowUps!FormHolds, FollowUps!Asked, FollowUps!CallHolds
<1>5. FollowUps!ScreensHold' /\ FollowUps!CallsHold'
    BY <1>3, <1>4 DEF FollowUps!TypeOK, FollowUps!ScreensHold, FollowUps!CallsHold, FollowUpsForm, FollowUpsChange, FollowUpsCall
<1> QED BY <1>1, <1>3, <1>5 DEF FollowUps!IInv, FollowUps!NamesTell, FollowUps!EvidenceWasReviewed, FollowUps!StatusWasAsked

\* What is there before a step.
LEMMA FollowUpsTypes ==
    ASSUME FollowUps!IInv
    PROVE  /\ x1 \in Nat /\ x3 \in Nat /\ x2 \subseteq FollowUps!TaskRow /\ x4 \in [Client -> SUBSET FollowUps!TaskRow]
           /\ x5 = [p \in Client |-> x5[p]] /\ x6 = [p \in Client |-> x6[p]] /\ x9 = [c \in Unit |-> x9[c]]
           /\ \A p \in Client : FollowUpsForm(x5[p]) /\ FollowUpsChange(x6[p])
           /\ \A c \in Unit : FollowUpsCall(x9[c])
           /\ FollowUpsForm(FollowUps!Closed) /\ FollowUpsChange(FollowUps!NoChange) /\ FollowUpsCall(FollowUps!Idle)
<1>1. /\ x1 \in Nat /\ x3 \in Nat /\ x2 \subseteq FollowUps!TaskRow /\ x4 \in [Client -> SUBSET FollowUps!TaskRow]
      /\ x5 = [p \in Client |-> x5[p]] /\ x6 = [p \in Client |-> x6[p]] /\ x9 = [c \in Unit |-> x9[c]]
    BY DEF FollowUps!IInv, FollowUps!TypeOK
<1>2. /\ \A p \in Client : FollowUpsForm(x5[p]) /\ FollowUpsChange(x6[p])
      /\ \A c \in Unit : FollowUpsCall(x9[c])
    BY FollowUpsHolds DEF FollowUps!IInv
<1>3. FollowUpsForm(FollowUps!Closed) /\ FollowUpsChange(FollowUps!NoChange) /\ FollowUpsCall(FollowUps!Idle)
    BY DEF FollowUpsForm, FollowUpsChange, FollowUpsCall, FollowUps!Form, FollowUps!FormHolds, FollowUps!Closed,
           FollowUps!Request, FollowUps!CallHolds, FollowUps!Idle
<1> QED BY <1>1, <1>2, <1>3

\* A request ends.
LEMMA FollowUpsEnds ==
    ASSUME FollowUps!IInv, NEW c \in Unit, NEW ok \in BOOLEAN, FollowUps!Ends(c, ok)
    PROVE  /\ x5' = [p \in Client |-> x5'[p]] /\ x6' = [p \in Client |-> x6'[p]] /\ x9' = [d \in Unit |-> x9'[d]]
           /\ \A p \in Client : x5'[p] \in {x5[p], FollowUps!Closed} /\ x6'[p] \in {x6[p], FollowUps!NoChange}
           /\ \A d \in Unit : x9'[d] \in {x9[d], FollowUps!Idle}
           /\ \A p \in Client : FollowUpsForm(x5'[p]) /\ FollowUpsChange(x6'[p])
           /\ \A d \in Unit : FollowUpsCall(x9'[d])
<1>1. /\ x5' = [p \in Client |-> x5'[p]] /\ x6' = [p \in Client |-> x6'[p]] /\ x9' = [d \in Unit |-> x9'[d]]
      /\ \A p \in Client : x5'[p] \in {x5[p], FollowUps!Closed} /\ x6'[p] \in {x6[p], FollowUps!NoChange}
      /\ \A d \in Unit : x9'[d] \in {x9[d], FollowUps!Idle}
    BY FollowUpsTypes DEF FollowUps!Ends
<1> QED BY <1>1, FollowUpsTypes

\* A request is sent, or goes on.
LEMMA FollowUpsPuts ==
    ASSUME FollowUps!IInv, NEW c \in Unit, NEW k, FollowUpsCall(k), x9' = [x9 EXCEPT ![c] = k]
    PROVE  x9' = [d \in Unit |-> x9'[d]] /\ \A d \in Unit : FollowUpsCall(x9'[d])
    BY FollowUpsTypes

\* The steps of the screens that send nothing.
LEMMA FollowUpsScreen ==
    ASSUME FollowUps!IInv, NEW p \in Client,
           \/ FollowUps!Refetch(p) \/ FollowUps!Cancel(p) \/ FollowUps!LoseAnswer(p)
           \/ \E of \in 1..x1 : FollowUps!Draft(p, of)
           \/ \E t \in x4[p] : FollowUps!Edit(p, t)
    PROVE  FollowUps!IInv'
<1> USE FollowUpsTypes
<1>0. ASSUME NEW f, FollowUpsForm(f), x5' = [x5 EXCEPT ![p] = f]
      PROVE  x5' = [q \in Client |-> x5'[q]] /\ \A q \in Client : FollowUpsForm(x5'[q])
    BY <1>0
<1>2. CASE FollowUps!Refetch(p)
    <2>1. x4' \in [Client -> SUBSET FollowUps!TaskRow]
        BY <1>2 DEF FollowUps!Refetch
    <2> QED BY <1>2, <2>1, FollowUpsKeeps DEF FollowUps!Refetch
<1>3. CASE FollowUps!Cancel(p)
    BY <1>0, <1>3, FollowUpsKeeps DEF FollowUps!Cancel
<1>4. CASE FollowUps!LoseAnswer(p)
    BY <1>4, FollowUpsKeeps DEF FollowUps!LoseAnswer
<1>5. CASE \E of \in 1..x1 : FollowUps!Draft(p, of)
    <2>1. PICK of \in 1..x1 : FollowUps!Draft(p, of)
        BY <1>5
    <2>2. FollowUpsForm([kind |-> "new", of |-> of, sent |-> 0])
        BY DEF FollowUpsForm, FollowUps!Form, FollowUps!FormHolds
    <2> QED BY <1>0, <2>1, <2>2, FollowUpsKeeps DEF FollowUps!Draft
<1>6. CASE \E t \in x4[p] : FollowUps!Edit(p, t)
    <2>1. PICK t \in x4[p] : FollowUps!Edit(p, t)
        BY <1>6
    <2>2. FollowUpsForm([kind |-> "edit", id |-> t.id, expected |-> FollowUps!Shows(t)])
        <3>1. t \in FollowUps!TaskRow
            BY <2>1
        <3> QED BY <3>1 DEF FollowUpsForm, FollowUps!Form, FollowUps!FormHolds, FollowUps!Shows, FollowUps!TaskRow, FollowUps!View
    <2> QED BY <1>0, <2>1, <2>2, FollowUpsKeeps DEF FollowUps!Edit
<1> QED BY <1>2, <1>3, <1>4, <1>5, <1>6

\* Those that send a request, but for the submission of a form and the change of a status.
LEMMA FollowUpsSends ==
    ASSUME FollowUps!IInv, NEW p \in Client, NEW c \in Unit,
           \/ FollowUps!Resubmit(p, c) \/ FollowUps!RetryStatus(p, c) \/ FollowUps!Capture(p, c)
           \/ \E title \in FollowUps!Title : FollowUps!SubmitEdit(p, c, title)
           \/ \E t \in x4[p] : FollowUps!Remove(p, c, t)
    PROVE  FollowUps!IInv'
<1> USE FollowUpsTypes
<1>7. CASE FollowUps!Resubmit(p, c)
    <2> DEFINE k == [op |-> "create", at |-> "replay", s |-> x5[p].sent, of |-> x5[p].of]
    <2>1. FollowUpsCall(k)
        BY <1>7 DEF FollowUps!Resubmit, FollowUpsForm, FollowUps!Form, FollowUps!FormHolds, FollowUps!Closed,
                    FollowUpsCall, FollowUps!Request, FollowUps!CallHolds
    <2> QED BY <1>7, <2>1, FollowUpsPuts, FollowUpsKeeps DEF FollowUps!Resubmit, FollowUps!Sends
<1>8. CASE FollowUps!RetryStatus(p, c)
    <2> DEFINE k == [op |-> "toggle", at |-> "look", id |-> x6[p].id, done |-> x6[p].done]
    <2>1. FollowUpsCall(k)
        BY <1>8 DEF FollowUps!RetryStatus, FollowUpsChange, FollowUpsCall, FollowUps!Request, FollowUps!CallHolds, FollowUps!Asked
    <2> QED BY <1>8, <2>1, FollowUpsPuts, FollowUpsKeeps DEF FollowUps!RetryStatus, FollowUps!Sends
<1>9. CASE FollowUps!Capture(p, c)
    <2> DEFINE k == [op |-> "save", at |-> "look", sent |-> x4[p]]
    <2>1. FollowUpsCall(k)
        BY DEF FollowUpsCall, FollowUps!Request, FollowUps!CallHolds
    <2> QED BY <1>9, <2>1, FollowUpsPuts, FollowUpsKeeps DEF FollowUps!Capture, FollowUps!Sends
<1>10. CASE \E title \in FollowUps!Title : FollowUps!SubmitEdit(p, c, title)
    <2>1. PICK title \in FollowUps!Title : FollowUps!SubmitEdit(p, c, title)
        BY <1>10
    <2> DEFINE k == [op |-> "update", id |-> x5[p].id, expected |-> x5[p].expected, title |-> title]
    <2>2. FollowUpsCall(k)
        <3>1. x5[p].kind = "edit" /\ x5[p] \in FollowUps!Form
            BY <2>1 DEF FollowUps!SubmitEdit, FollowUpsForm
        <3>2. x5[p].id \in 1..x3 /\ x5[p].expected \in FollowUps!View
            BY <3>1 DEF FollowUps!Form, FollowUps!Closed
        <3> QED BY <3>2 DEF FollowUpsCall, FollowUps!Request, FollowUps!CallHolds
    <2> QED BY <2>1, <2>2, FollowUpsPuts, FollowUpsKeeps DEF FollowUps!SubmitEdit, FollowUps!Sends
<1>11. CASE \E t \in x4[p] : FollowUps!Remove(p, c, t)
    <2>1. PICK t \in x4[p] : FollowUps!Remove(p, c, t)
        BY <1>11
    <2> DEFINE k == [op |-> "remove", at |-> "look", id |-> t.id]
    <2>2. FollowUpsCall(k)
        <3>1. t.id \in 1..x3
            BY <2>1 DEF FollowUps!TaskRow
        <3> QED BY <3>1 DEF FollowUpsCall, FollowUps!Request, FollowUps!CallHolds
    <2> QED BY <2>1, <2>2, FollowUpsPuts, FollowUpsKeeps DEF FollowUps!Remove, FollowUps!Sends
<1> QED BY <1>7, <1>8, <1>9, <1>10, <1>11

\* A step that adds to what was submitted and asked, and leaves the tasks alone.
LEMMA FollowUpsAdds ==
    ASSUME FollowUps!IInv, UNCHANGED <<x1, x2, x3, x4>>, FollowUps!Submission \subseteq FollowUps!Submission',
           \A s \in FollowUps!Submission : x10'[s] = x10[s],
           Cardinality(FollowUps!Submission') \in Nat, x10' \in [1..Cardinality(FollowUps!Submission') -> Nat],
           x11' \in [1..x3 -> [from : FollowUps!Submission', wanted : SUBSET BOOLEAN, written : BOOLEAN]],
           \A i \in 1..x3 : x11[i].wanted \subseteq x11'[i].wanted /\ x11'[i].written = x11[i].written,
           x5' = [p \in Client |-> x5'[p]], x6' = [p \in Client |-> x6'[p]], x9' = [c \in Unit |-> x9'[c]],
           \A p \in Client : \E f, v : f = x5'[p] /\ v = x6'[p] /\ FollowUpsForm(f)' /\ FollowUpsChange(v)',
           \A c \in Unit : \E k : k = x9'[c] /\ FollowUpsCall(k)'
    PROVE  FollowUps!IInv'
<1>1. FollowUps!TypeOK /\ FollowUps!NamesTell /\ FollowUps!EvidenceWasReviewed /\ FollowUps!StatusWasAsked
    BY DEF FollowUps!IInv
<1>2. FollowUps!TaskRow \subseteq FollowUps!TaskRow' /\ x3 \in Nat
    BY <1>1, FollowUpsGrow DEF FollowUps!TypeOK
<1>3. FollowUps!TypeOK'
    <2>1. x4' \in [Client -> SUBSET FollowUps!TaskRow']
        BY <1>1, <1>2 DEF FollowUps!TypeOK
    <2>2. x6' \in [Client -> {FollowUps!NoChange} \cup [id : 1..x3', done : BOOLEAN]]
        <3>1. \A p \in Client : x6'[p] \in {FollowUps!NoChange} \cup [id : 1..x3', done : BOOLEAN]
            BY DEF FollowUpsChange, FollowUps!NoChange
        <3> QED BY <3>1
    <2>3. x5' \in [Client -> FollowUps!Form'] /\ x9' \in [Unit -> FollowUps!Request']
        <3>1. (\A p \in Client : x5'[p] \in FollowUps!Form') /\ \A c \in Unit : x9'[c] \in FollowUps!Request'
            BY DEF FollowUpsForm, FollowUpsCall
        <3> QED BY <3>1
    <2>4. Cardinality(FollowUps!Submission') = FollowUps!Cardinality(FollowUps!Submission')
        BY FollowUpsCount
    <2> QED BY <1>1, <1>2, <2>1, <2>2, <2>3, <2>4, FollowUpsCount DEF FollowUps!TypeOK
<1>4. FollowUps!ScreensHold' /\ FollowUps!CallsHold'
    <2>1. \A p \in Client : FollowUps!FormHolds(x5[p])'
        BY DEF FollowUpsForm, FollowUps!FormHolds
    <2>2. \A p \in Client : (x6[p] # FollowUps!NoChange => FollowUps!Asked(x6[p]))'
        BY DEF FollowUpsChange, FollowUps!Asked, FollowUps!NoChange
    <2>3. \A c \in Unit : FollowUps!CallHolds(x9[c])'
        BY DEF FollowUpsCall, FollowUps!CallHolds, FollowUps!Asked
    <2> QED BY <2>1, <2>2, <2>3 DEF FollowUps!ScreensHold, FollowUps!CallsHold
<1>5. \A t \in x2 : t.id \in 1..x3 /\ t.from \in FollowUps!Submission /\ t.done \in BOOLEAN
    BY <1>1 DEF FollowUps!TypeOK, FollowUps!TaskRow
<1>6. FollowUps!EvidenceWasReviewed' /\ FollowUps!StatusWasAsked' /\ FollowUps!NamesTell'
    BY <1>1, <1>5 DEF FollowUps!EvidenceWasReviewed, FollowUps!StatusWasAsked, FollowUps!NamesTell
<1> QED BY <1>3, <1>4, <1>6 DEF FollowUps!IInv

LEMMA FollowUpsSubmit ==
    ASSUME FollowUps!IInv, NEW p \in Client, NEW c \in Unit, FollowUps!Submit(p, c)
    PROVE  FollowUps!IInv'
<1> DEFINE s == Cardinality(FollowUps!Submission) + 1
<1>1. FollowUps!TypeOK /\ s - 1 \in Nat /\ s \in Nat /\ FollowUps!Submission = 1..s - 1 /\ x10 \in [1..s - 1 -> Nat]
    BY FollowUpsCount DEF FollowUps!IInv, FollowUps!TypeOK, FollowUps!Submission
<1>2. /\ UNCHANGED <<x1, x2, x3, x4, x6, x11>>
      /\ x10' = [i \in 1..s |-> IF i = s THEN x5[p].of ELSE x10[i]]
      /\ x5' = [x5 EXCEPT ![p].sent = s]
      /\ x9' = [x9 EXCEPT ![c] = [op |-> "create", at |-> "replay", s |-> s, of |-> x5[p].of]]
      /\ x5[p].kind = "new" /\ x5[p].sent = 0
    BY FollowUpsCount DEF FollowUps!Submit, FollowUps!Sends
<1>3. x5[p] = [kind |-> "new", of |-> x5[p].of, sent |-> 0] /\ x5[p].of \in Nat
    BY <1>2, FollowUpsTypes DEF FollowUpsForm, FollowUps!Form, FollowUps!Closed
<1>4. FollowUps!Submission' = 1..s
    BY <1>2 DEF FollowUps!Submission
<1>5. Cardinality(FollowUps!Submission') = s
    BY <1>1, <1>4, FS_Interval
<1> HIDE DEF s
<1>6. /\ FollowUps!Submission \subseteq FollowUps!Submission' /\ \A i \in FollowUps!Submission : x10'[i] = x10[i]
      /\ x10' \in [1..s -> Nat] /\ x10'[s] = x5[p].of
    BY <1>1, <1>2, <1>3, <1>4
<1>7. x11' \in [1..x3 -> [from : FollowUps!Submission', wanted : SUBSET BOOLEAN, written : BOOLEAN]]
    BY <1>1, <1>2, <1>6 DEF FollowUps!TypeOK
<1>8. /\ \A f : FollowUpsForm(f) => FollowUpsForm(f)'
      /\ \A v : FollowUpsChange(v) => FollowUpsChange(v)'
      /\ \A k : FollowUpsCall(k) => FollowUpsCall(k)'
    BY <1>1, <1>2, <1>6, FollowUpsStay DEF FollowUps!TypeOK
<1>9. PICK f : f = [kind |-> "new", of |-> x5[p].of, sent |-> s]
    OBVIOUS
<1>10. PICK k : k = [op |-> "create", at |-> "replay", s |-> s, of |-> x5[p].of]
    OBVIOUS
<1>11. x5' = [x5 EXCEPT ![p] = f] /\ x9' = [x9 EXCEPT ![c] = k]
    <2>1. [x5[p] EXCEPT !.sent = s] = f
        BY <1>3, <1>9
    <2>2. x5' = [x5 EXCEPT ![p] = [x5[p] EXCEPT !.sent = s]]
        BY <1>2
    <2> QED BY <1>2, <1>10, <2>1, <2>2
<1>12. FollowUpsForm(f)'
    BY <1>1, <1>3, <1>4, <1>6, <1>9 DEF FollowUpsForm, FollowUps!Form, FollowUps!FormHolds
<1>13. FollowUpsCall(k)'
    BY <1>1, <1>3, <1>4, <1>6, <1>10 DEF FollowUpsCall, FollowUps!Request, FollowUps!CallHolds
<1>14. x5' = [q \in Client |-> x5'[q]] /\ x6' = [q \in Client |-> x6'[q]] /\ x9' = [d \in Unit |-> x9'[d]]
    BY <1>2, <1>11, FollowUpsTypes
<1>15. ASSUME NEW q \in Client
       PROVE  \E g, v : g = x5'[q] /\ v = x6'[q] /\ FollowUpsForm(g)' /\ FollowUpsChange(v)'
    <2>1. PICK g, v : g = x5'[q] /\ v = x6'[q]
        OBVIOUS
    <2>2. g = f \/ FollowUpsForm(g)
        BY <1>11, <2>1, FollowUpsTypes
    <2>3. FollowUpsChange(v)
        BY <1>2, <2>1, FollowUpsTypes
    <2> QED BY <1>8, <1>12, <2>1, <2>2, <2>3
<1>16. ASSUME NEW d \in Unit
       PROVE  \E j : j = x9'[d] /\ FollowUpsCall(j)'
    <2>1. PICK j : j = x9'[d]
        OBVIOUS
    <2>2. j = k \/ FollowUpsCall(j)
        BY <1>11, <2>1, FollowUpsTypes
    <2> QED BY <1>8, <1>13, <2>1, <2>2
<1>17. \A i \in 1..x3 : x11[i].wanted \subseteq x11'[i].wanted /\ x11'[i].written = x11[i].written
    BY <1>2
<1> QED BY <1>1, <1>2, <1>5, <1>6, <1>7, <1>14, <1>15, <1>16, <1>17, FollowUpsAdds, FollowUpsTypes

LEMMA FollowUpsToggle ==
    ASSUME FollowUps!IInv, NEW p \in Client, NEW c \in Unit, NEW t \in x4[p], FollowUps!Toggle(p, c, t)
    PROVE  FollowUps!IInv'
<1>1. FollowUps!TypeOK /\ t.id \in 1..x3 /\ t.done \in BOOLEAN
    BY DEF FollowUps!IInv, FollowUps!TypeOK, FollowUps!TaskRow
<1> DEFINE n == t.id  d == ~t.done
<1>2. PICK v, k : v = [id |-> n, done |-> d] /\ k = [op |-> "toggle", at |-> "look", id |-> n, done |-> d]
    OBVIOUS
<1>3. /\ UNCHANGED <<x1, x2, x3, x4, x5, x10>>
      /\ x6' = [x6 EXCEPT ![p] = v] /\ x9' = [x9 EXCEPT ![c] = k]
      /\ x11' = [x11 EXCEPT ![n].wanted = @ \cup {d}]
    BY <1>2 DEF FollowUps!Toggle, FollowUps!Sends
<1>4. n \in 1..x3 /\ d \in BOOLEAN
    BY <1>1
<1> HIDE DEF n, d
<1>5. /\ x11' \in [1..x3 -> [from : FollowUps!Submission, wanted : SUBSET BOOLEAN, written : BOOLEAN]]
      /\ \A i \in 1..x3 : x11[i].wanted \subseteq x11'[i].wanted /\ x11'[i].written = x11[i].written
      /\ d \in x11'[n].wanted
    <2>1. \A i \in 1..x3 : x11[i] \in [from : FollowUps!Submission, wanted : SUBSET BOOLEAN, written : BOOLEAN]
        BY <1>1 DEF FollowUps!TypeOK
    <2>2. x11 = [i \in 1..x3 |-> x11[i]]
        BY <1>1 DEF FollowUps!TypeOK
    <2>3. x11' = [x11 EXCEPT ![n] = [x11[n] EXCEPT !.wanted = x11[n].wanted \cup {d}]]
        BY <1>3
    <2>4. x11'[n] = [x11[n] EXCEPT !.wanted = x11[n].wanted \cup {d}] /\ \A i \in 1..x3 \ {n} : x11'[i] = x11[i]
        BY <1>4, <2>2, <2>3
    <2>5. x11[n] \in [from : FollowUps!Submission, wanted : SUBSET BOOLEAN, written : BOOLEAN]
        BY <1>4, <2>1
    <2>6. /\ x11'[n] \in [from : FollowUps!Submission, wanted : SUBSET BOOLEAN, written : BOOLEAN]
          /\ x11'[n].wanted = x11[n].wanted \cup {d} /\ x11'[n].written = x11[n].written
        BY <1>4, <2>4, <2>5
    <2>7. x11' = [i \in 1..x3 |-> x11'[i]]
        BY <2>2, <2>3
    <2>8. \A i \in 1..x3 : x11'[i] \in [from : FollowUps!Submission, wanted : SUBSET BOOLEAN, written : BOOLEAN]
        BY <2>1, <2>4, <2>6
    <2>9. x11' \in [1..x3 -> [from : FollowUps!Submission, wanted : SUBSET BOOLEAN, written : BOOLEAN]]
        BY <2>7, <2>8
    <2> QED BY <2>4, <2>6, <2>9
<1>6. FollowUps!Submission' = FollowUps!Submission
    BY <1>3 DEF FollowUps!Submission
<1>7. /\ \A f : FollowUpsForm(f) => FollowUpsForm(f)'
      /\ \A w : FollowUpsChange(w) => FollowUpsChange(w)'
      /\ \A j : FollowUpsCall(j) => FollowUpsCall(j)'
    BY <1>1, <1>3, <1>5, <1>6, FollowUpsStay DEF FollowUps!TypeOK
<1>8. FollowUpsChange(v)'
    BY <1>2, <1>3, <1>4, <1>5 DEF FollowUpsChange, FollowUps!Asked
<1>9. FollowUpsCall(k)'
    BY <1>2, <1>3, <1>4, <1>5 DEF FollowUpsCall, FollowUps!Request, FollowUps!CallHolds, FollowUps!Asked
<1>10. x5' = [q \in Client |-> x5'[q]] /\ x6' = [q \in Client |-> x6'[q]] /\ x9' = [e \in Unit |-> x9'[e]]
    BY <1>3, FollowUpsTypes
<1>11. ASSUME NEW q \in Client
       PROVE  \E g, w : g = x5'[q] /\ w = x6'[q] /\ FollowUpsForm(g)' /\ FollowUpsChange(w)'
    <2>1. PICK g, w : g = x5'[q] /\ w = x6'[q]
        OBVIOUS
    <2>2. w = v \/ FollowUpsChange(w)
        BY <1>3, <2>1, FollowUpsTypes
    <2>3. FollowUpsForm(g)
        BY <1>3, <2>1, FollowUpsTypes
    <2> QED BY <1>7, <1>8, <2>1, <2>2, <2>3
<1>12. ASSUME NEW e \in Unit
       PROVE  \E j : j = x9'[e] /\ FollowUpsCall(j)'
    <2>1. PICK j : j = x9'[e]
        OBVIOUS
    <2>2. j = k \/ FollowUpsCall(j)
        BY <1>3, <2>1, FollowUpsTypes
    <2> QED BY <1>7, <1>9, <2>1, <2>2
<1>13. Cardinality(FollowUps!Submission') \in Nat /\ x10' \in [1..Cardinality(FollowUps!Submission') -> Nat]
    BY <1>1, <1>3, <1>6, FollowUpsCount DEF FollowUps!TypeOK
<1> QED BY <1>3, <1>5, <1>6, <1>10, <1>11, <1>12, <1>13, FollowUpsAdds

\* The requests of the server that look, or end, and leave the tasks alone.
LEMMA FollowUpsServer ==
    ASSUME FollowUps!IInv, NEW c \in Unit,
           \/ FollowUps!Fail(c) \/ FollowUps!Replay(c) \/ FollowUps!CheckSource(c) \/ FollowUps!Look(c)
           \/ FollowUps!CheckFollowUps(c) \/ FollowUps!SaveVersion(c)
    PROVE  FollowUps!IInv'
<1> USE FollowUpsTypes
<1>1. ASSUME NEW ok \in BOOLEAN, FollowUps!Ends(c, ok), UNCHANGED <<x1, x2, x3, x4, x10, x11>>
      PROVE  FollowUps!IInv'
    BY <1>1, FollowUpsEnds, FollowUpsKeeps
<1>2. ASSUME NEW k, FollowUpsCall(k), x9' = [x9 EXCEPT ![c] = k], UNCHANGED <<x1, x2, x3, x4, x5, x6, x10, x11>>
      PROVE  FollowUps!IInv'
    BY <1>2, FollowUpsPuts, FollowUpsKeeps
<1>3. ASSUME NEW at, FollowUps!GoesOn(c, at), UNCHANGED <<x1, x2, x3, x4, x10, x11>>,
             \/ x9[c].op = "create" /\ at \in {"source", "winner"}
             \/ x9[c].op \in {"toggle", "remove"} /\ at = "write"
      PROVE  FollowUps!IInv'
    <2>1. PICK k : k = [x9[c] EXCEPT !.at = at]
        OBVIOUS
    <2>2. x9' = [x9 EXCEPT ![c] = k]
        BY <1>3, <2>1 DEF FollowUps!GoesOn
    <2>3. FollowUpsCall(k)
        BY <1>3, <2>1 DEF FollowUpsCall, FollowUps!Request, FollowUps!CallHolds, FollowUps!Idle, FollowUps!Asked
    <2> QED BY <1>2, <1>3, <2>2, <2>3 DEF FollowUps!GoesOn
<1>4. CASE FollowUps!Fail(c)
    BY <1>1, <1>4 DEF FollowUps!Fail
<1>5. CASE FollowUps!Replay(c)
    BY <1>1, <1>3, <1>5 DEF FollowUps!Replay
<1>6. CASE FollowUps!CheckSource(c)
    <2>1. CASE FollowUps!StillSaved(x9[c].of)
        <3>1. PICK k : k = [op |-> "create", at |-> "insert", s |-> x9[c].s, of |-> x1]
            OBVIOUS
        <3>2. FollowUpsCall(k)
            BY <1>6, <2>1, <3>1 DEF FollowUps!CheckSource, FollowUps!StillSaved, FollowUpsCall, FollowUps!Request,
                   FollowUps!CallHolds, FollowUps!Idle
        <3> QED BY <1>2, <1>6, <2>1, <3>1, <3>2 DEF FollowUps!CheckSource
    <2> QED BY <1>1, <1>6, <2>1 DEF FollowUps!CheckSource
<1>7. CASE FollowUps!Look(c)
    BY <1>1, <1>3, <1>7 DEF FollowUps!Look
<1>8. CASE FollowUps!CheckFollowUps(c)
    <2>1. CASE FollowUps!AsShown(c)
        <3>1. x9[c].sent \subseteq x2 /\ x9[c].sent \subseteq FollowUps!TaskRow
            BY <2>1 DEF FollowUps!AsShown
        <3>2. UNION {FollowUps!With(t.id) : t \in x9[c].sent} = x9[c].sent
            BY <3>1 DEF FollowUps!With, FollowUps!IInv, FollowUps!NamesTell
        <3>3. PICK k : k = [op |-> "save", at |-> "write", sent |-> x9[c].sent, read |-> x9[c].sent]
            OBVIOUS
        <3>4. FollowUpsCall(k)
            BY <3>1, <3>3 DEF FollowUpsCall, FollowUps!Request, FollowUps!CallHolds
        <3>5. x9' = [x9 EXCEPT ![c] = k]
            BY <1>8, <2>1, <3>2, <3>3 DEF FollowUps!CheckFollowUps
        <3> QED BY <1>2, <1>8, <2>1, <3>4, <3>5 DEF FollowUps!CheckFollowUps
    <2> QED BY <1>1, <1>8, <2>1 DEF FollowUps!CheckFollowUps
<1>9. CASE FollowUps!SaveVersion(c)
    BY <1>1, <1>9 DEF FollowUps!SaveVersion
<1> QED BY <1>4, <1>5, <1>6, <1>7, <1>8, <1>9

\* A request that writes the tasks, and ends.
LEMMA FollowUpsWrites ==
    ASSUME FollowUps!IInv, NEW c \in Unit, NEW ok \in BOOLEAN, FollowUps!Ends(c, ok), UNCHANGED <<x1, x4, x10>>,
           x3' \in Nat, x3 <= x3', x2' \subseteq FollowUps!TaskRow',
           x11' \in [1..x3' -> [from : FollowUps!Submission, wanted : SUBSET BOOLEAN, written : BOOLEAN]],
           \A i \in 1..x3 : x11[i].wanted \subseteq x11'[i].wanted,
           FollowUps!NamesTell', FollowUps!EvidenceWasReviewed', FollowUps!StatusWasAsked'
    PROVE  FollowUps!IInv'
<1>1. FollowUps!TypeOK
    BY DEF FollowUps!IInv
<1>2. FollowUps!Submission' = FollowUps!Submission
    BY DEF FollowUps!Submission
<1>3. /\ \A f : FollowUpsForm(f) => FollowUpsForm(f)'
      /\ \A v : FollowUpsChange(v) => FollowUpsChange(v)'
      /\ \A k : FollowUpsCall(k) => FollowUpsCall(k)'
    BY <1>2, FollowUpsStay
<1>4. ASSUME NEW q \in Client
      PROVE  \E g, w : g = x5'[q] /\ w = x6'[q] /\ FollowUpsForm(g)' /\ FollowUpsChange(w)'
    <2>1. PICK g, w : g = x5'[q] /\ w = x6'[q]
        OBVIOUS
    <2>2. FollowUpsForm(g) /\ FollowUpsChange(w)
        BY <2>1, FollowUpsEnds
    <2> QED BY <1>3, <2>1, <2>2
<1>5. ASSUME NEW e \in Unit
      PROVE  \E j : j = x9'[e] /\ FollowUpsCall(j)'
    <2>1. PICK j : j = x9'[e]
        OBVIOUS
    <2>2. FollowUpsCall(j)
        BY <2>1, FollowUpsEnds
    <2> QED BY <1>3, <2>1, <2>2
<1>6. x5' = [q \in Client |-> x5'[q]] /\ x6' = [q \in Client |-> x6'[q]] /\ x9' = [e \in Unit |-> x9'[e]]
    BY FollowUpsEnds
<1>7. FollowUps!TypeOK'
    <2>1. x4' \in [Client -> SUBSET FollowUps!TaskRow']
        BY <1>1, <1>2, FollowUpsGrow DEF FollowUps!TypeOK
    <2>2. x6' \in [Client -> {FollowUps!NoChange} \cup [id : 1..x3', done : BOOLEAN]]
        <3>1. \A q \in Client : x6'[q] \in {FollowUps!NoChange} \cup [id : 1..x3', done : BOOLEAN]
            BY <1>4 DEF FollowUpsChange, FollowUps!NoChange
        <3> QED BY <1>6, <3>1
    <2>3. x5' \in [Client -> FollowUps!Form'] /\ x9' \in [Unit -> FollowUps!Request']
        <3>1. (\A q \in Client : x5'[q] \in FollowUps!Form') /\ \A e \in Unit : x9'[e] \in FollowUps!Request'
            BY <1>4, <1>5 DEF FollowUpsForm, FollowUpsCall
        <3> QED BY <1>6, <3>1
    <2>4. x1' = x1 /\ x10' = x10
        OBVIOUS
    <2> QED BY <1>1, <1>2, <2>1, <2>2, <2>3, <2>4 DEF FollowUps!TypeOK
<1>8. FollowUps!ScreensHold' /\ FollowUps!CallsHold'
    <2>1. \A q \in Client : FollowUps!FormHolds(x5[q])'
        BY <1>4 DEF FollowUpsForm, FollowUps!FormHolds
    <2>2. \A q \in Client : (x6[q] # FollowUps!NoChange => FollowUps!Asked(x6[q]))'
        BY <1>4 DEF FollowUpsChange, FollowUps!Asked, FollowUps!NoChange
    <2>3. \A e \in Unit : FollowUps!CallHolds(x9[e])'
        BY <1>5 DEF FollowUpsCall, FollowUps!CallHolds, FollowUps!Asked
    <2> QED BY <2>1, <2>2, <2>3 DEF FollowUps!ScreensHold, FollowUps!CallsHold
<1> QED BY <1>7, <1>8 DEF FollowUps!IInv

LEMMA FollowUpsInsert ==
    ASSUME FollowUps!IInv, NEW c \in Unit, FollowUps!Insert(c)
    PROVE  FollowUps!IInv'
<1>1. FollowUps!TypeOK /\ FollowUps!NamesTell /\ FollowUps!EvidenceWasReviewed /\ FollowUps!StatusWasAsked
    BY DEF FollowUps!IInv
<1>2. x9[c].s \in FollowUps!Submission /\ x9[c].of \in Nat /\ x9[c].of = x10[x9[c].s]
    BY FollowUpsTypes DEF FollowUps!Insert, FollowUpsCall, FollowUps!Request, FollowUps!Idle, FollowUps!CallHolds
<1>3. CASE FollowUps!Taken(x9[c].s)
    <2>1. PICK k : k = [x9[c] EXCEPT !.at = "winner"]
        OBVIOUS
    <2>2. x9' = [x9 EXCEPT ![c] = k] /\ UNCHANGED <<x1, x2, x3, x4, x5, x6, x10, x11>>
        BY <1>3, <2>1 DEF FollowUps!GoesOn, FollowUps!Insert
    <2>3. FollowUpsCall(k)
        BY <2>1, FollowUpsTypes DEF FollowUps!Insert, FollowUpsCall, FollowUps!Request, FollowUps!CallHolds, FollowUps!Idle
    <2> QED BY <2>2, <2>3, FollowUpsPuts, FollowUpsKeeps, FollowUpsTypes
<1>4. CASE ~FollowUps!Taken(x9[c].s)
    <2> DEFINE s == x9[c].s
               row == [id |-> x3 + 1, from |-> s, title |-> "as observed", done |-> FALSE, evidence |-> x9[c].of]
               mark == [from |-> s, wanted |-> {}, written |-> FALSE]
    <2>1. /\ FollowUps!Ends(c, TRUE) /\ UNCHANGED <<x1, x4, x10>>
          /\ x3' = x3 + 1 /\ x3 \in Nat /\ x2' = x2 \cup {row}
          /\ x11' = [i \in 1..x3 + 1 |-> IF i = x3 + 1 THEN mark ELSE x11[i]]
          /\ \A t \in x2 : t.from # s
        BY <1>1, <1>4, ZenonT(40) DEF FollowUps!Insert, FollowUps!Taken, FollowUps!Of, FollowUps!Row, FollowUps!TypeOK
    <2>2. /\ mark \in [from : FollowUps!Submission, wanted : SUBSET BOOLEAN, written : BOOLEAN]
          /\ mark.written = FALSE
        BY <1>2
    <2>3. row.id = x3 + 1 /\ row.from = s /\ row.done = FALSE /\ row.evidence = x10[s]
        BY <1>2
    <2>4. FollowUps!Submission' = FollowUps!Submission
        BY <2>1 DEF FollowUps!Submission
    <2>14. x3' \in Nat /\ x3 <= x3' /\ x3 + 1 \in 1..x3'
        <3>1. x3' = x3 + 1 /\ x3 \in Nat
            BY <2>1
        <3> QED BY <3>1
    <2>5. row \in FollowUps!TaskRow'
        <3>1. s \in FollowUps!Submission' /\ x9[c].of \in Nat
            BY <1>2, <2>4
        <3>2. FollowUps!TaskRow' = [id : 1..x3', from : FollowUps!Submission', title : FollowUps!Title, done : BOOLEAN, evidence : Nat]
            BY DEF FollowUps!TaskRow, FollowUps!Title
        <3> QED BY <2>14, <3>1, <3>2 DEF FollowUps!Title
    <2>6. FollowUps!TaskRow \subseteq FollowUps!TaskRow'
        <3>1. FollowUps!Submission \subseteq FollowUps!Submission'
            BY <2>4
        <3> QED BY <1>1, <2>14, <3>1, FollowUpsGrow
    <2>7. \A t \in x2 : t.id \in 1..x3 /\ t.from \in FollowUps!Submission
        BY <1>1 DEF FollowUps!TypeOK, FollowUps!TaskRow
    <2> HIDE DEF row, mark, s
    <2>8. x2' \subseteq FollowUps!TaskRow'
        BY <1>1, <2>1, <2>5, <2>6 DEF FollowUps!TypeOK
    <2>9. /\ x11' \in [1..x3' -> [from : FollowUps!Submission, wanted : SUBSET BOOLEAN, written : BOOLEAN]]
          /\ \A i \in 1..x3 : x11'[i] = x11[i] /\ x11'[x3 + 1] = mark
        BY <1>1, <2>1, <2>2 DEF FollowUps!TypeOK
    <2>10. FollowUps!NamesTell'
        BY <1>1, <2>1, <2>3, <2>7 DEF FollowUps!NamesTell
    <2>11. FollowUps!EvidenceWasReviewed'
        BY <1>1, <2>1, <2>3 DEF FollowUps!EvidenceWasReviewed
    <2>12. FollowUps!StatusWasAsked'
        <3>1. x11'[x3 + 1] = mark
            BY <2>1, <2>9
        <3>2. \A t \in x2' : \/ t = row /\ t.id = x3 + 1 /\ t.done = FALSE
                             \/ t \in x2 /\ x11'[t.id] = x11[t.id]
            BY <2>1, <2>3, <2>7, <2>9
        <3> QED BY <1>1, <2>2, <3>1, <3>2 DEF FollowUps!StatusWasAsked
    <2>13. \A i \in 1..x3 : x11[i].wanted \subseteq x11'[i].wanted
        BY <2>9
    <2> QED BY <2>1, <2>8, <2>9, <2>10, <2>11, <2>12, <2>13, <2>14, FollowUpsWrites
<1> QED BY <1>3, <1>4

LEMMA FollowUpsChanges ==
    ASSUME FollowUps!IInv, NEW c \in Unit, FollowUps!Update(c) \/ FollowUps!WriteStatus(c) \/ FollowUps!Delete(c)
    PROVE  FollowUps!IInv'
<1>1. FollowUps!TypeOK /\ FollowUps!NamesTell /\ FollowUps!EvidenceWasReviewed /\ FollowUps!StatusWasAsked
    BY DEF FollowUps!IInv
<1>2. \A t \in x2 : /\ t.id \in 1..x3 /\ t.from \in FollowUps!Submission /\ t.title \in FollowUps!Title
                    /\ t.done \in BOOLEAN /\ t.evidence \in Nat /\ t \in FollowUps!TaskRow
    BY <1>1 DEF FollowUps!TypeOK, FollowUps!TaskRow
<1>3. ASSUME NEW t \in x2, NEW u, u \in FollowUps!TaskRow, u.id = t.id, u.from = t.from, u.evidence = t.evidence,
             x2' = (x2 \ {t}) \cup {u}, x10' = x10
      PROVE  FollowUps!NamesTell' /\ FollowUps!EvidenceWasReviewed' /\ x2' \subseteq FollowUps!TaskRow
    BY <1>1, <1>2, <1>3 DEF FollowUps!NamesTell, FollowUps!EvidenceWasReviewed
<1>4. x3' = x3 /\ x10' = x10 => FollowUps!TaskRow' = FollowUps!TaskRow
    BY DEF FollowUps!TaskRow, FollowUps!Submission, FollowUps!Title
<1>5. x11 \in [1..x3 -> [from : FollowUps!Submission, wanted : SUBSET BOOLEAN, written : BOOLEAN]] /\ x3 \in Nat
    BY <1>1 DEF FollowUps!TypeOK
<1>9. ASSUME UNCHANGED <<x1, x3, x4, x10>>, NEW ok \in BOOLEAN, FollowUps!Ends(c, ok), x2' \subseteq FollowUps!TaskRow,
             x11' \in [1..x3 -> [from : FollowUps!Submission, wanted : SUBSET BOOLEAN, written : BOOLEAN]],
             \A i \in 1..x3 : x11[i].wanted \subseteq x11'[i].wanted,
             FollowUps!NamesTell', FollowUps!EvidenceWasReviewed', FollowUps!StatusWasAsked'
      PROVE  FollowUps!IInv'
    <2>1. x3' = x3 /\ x3' \in Nat /\ x3 <= x3'
        BY <1>5, <1>9
    <2>2. x2' \subseteq FollowUps!TaskRow'
        BY <1>4, <1>9
    <2> QED BY <1>9, <2>1, <2>2, FollowUpsWrites
<1>10. ASSUME UNCHANGED <<x1, x2, x3, x4, x10, x11>>, NEW ok \in BOOLEAN, FollowUps!Ends(c, ok)
       PROVE  FollowUps!IInv'
    <2>1. FollowUps!NamesTell' /\ FollowUps!EvidenceWasReviewed' /\ FollowUps!StatusWasAsked'
        BY <1>1, <1>10 DEF FollowUps!NamesTell, FollowUps!EvidenceWasReviewed, FollowUps!StatusWasAsked
    <2>2. x2' \subseteq FollowUps!TaskRow
        BY <1>2, <1>10
    <2> QED BY <1>5, <1>9, <1>10, <2>1, <2>2
<1>6. CASE FollowUps!Update(c)
    <2>1. UNCHANGED <<x1, x3, x4, x10, x11>>
        BY <1>6 DEF FollowUps!Update
    <2>2. CASE x2' = x2 /\ FollowUps!Ends(c, FALSE)
        BY <1>10, <2>1, <2>2
    <2>3. CASE \E t \in x2 : x2' = (x2 \ {t}) \cup {[t EXCEPT !.title = x9[c].title]} /\ FollowUps!Ends(c, TRUE)
        <3>1. PICK t, u : t \in x2 /\ u = [t EXCEPT !.title = x9[c].title] /\ x2' = (x2 \ {t}) \cup {u} /\ FollowUps!Ends(c, TRUE)
            BY <2>3
        <3>2. x9[c].title \in FollowUps!Title
            BY <1>6, FollowUpsTypes DEF FollowUps!Update, FollowUpsCall, FollowUps!Request, FollowUps!Idle
        <3>3. u \in FollowUps!TaskRow /\ u.id = t.id /\ u.from = t.from /\ u.evidence = t.evidence /\ u.done = t.done
            BY <1>2, <3>1, <3>2 DEF FollowUps!TaskRow
        <3>4. FollowUps!NamesTell' /\ FollowUps!EvidenceWasReviewed' /\ x2' \subseteq FollowUps!TaskRow
            BY <1>3, <2>1, <3>1, <3>3
        <3>5. FollowUps!StatusWasAsked'
            BY <1>1, <2>1, <3>1, <3>3 DEF FollowUps!StatusWasAsked
        <3> QED BY <1>5, <1>9, <2>1, <3>1, <3>4, <3>5
    <2> QED BY <1>6, <2>2, <2>3 DEF FollowUps!Update, FollowUps!With
<1>7. CASE FollowUps!WriteStatus(c)
    <2>1. UNCHANGED <<x1, x3, x4, x10>>
        BY <1>7 DEF FollowUps!WriteStatus
    <2>2. CASE x2' = x2 /\ x11' = x11 /\ FollowUps!Ends(c, FALSE)
        BY <1>10, <2>1, <2>2
    <2>3. CASE \E t \in FollowUps!With(x9[c].id) :
                  /\ x2' = (x2 \ {t}) \cup {[t EXCEPT !.done = x9[c].done]}
                  /\ x11' = [x11 EXCEPT ![t.id].written = TRUE] /\ FollowUps!Ends(c, TRUE)
        <3>1. PICK t, u : /\ t \in x2 /\ u = [t EXCEPT !.done = x9[c].done] /\ x2' = (x2 \ {t}) \cup {u} /\ t.id = x9[c].id
                                 /\ x11' = [x11 EXCEPT ![t.id].written = TRUE] /\ FollowUps!Ends(c, TRUE)
            BY <2>3 DEF FollowUps!With
        <3>2. x9[c].done \in BOOLEAN /\ x9[c].done \in x11[t.id].wanted
            BY <1>7, <3>1, FollowUpsTypes DEF FollowUps!WriteStatus, FollowUpsCall, FollowUps!Request, FollowUps!Idle,
                   FollowUps!CallHolds, FollowUps!Asked
        <3>3. /\ u \in FollowUps!TaskRow /\ u.id = t.id /\ u.from = t.from /\ u.evidence = t.evidence
              /\ u.done = x9[c].done
            BY <1>2, <3>1, <3>2 DEF FollowUps!TaskRow
        <3>4. FollowUps!NamesTell' /\ FollowUps!EvidenceWasReviewed' /\ x2' \subseteq FollowUps!TaskRow
            BY <1>3, <2>1, <3>1, <3>3
        <3>5. t.id \in 1..x3
            BY <1>2, <3>1
        <3>6. PICK m : m = [x11[t.id] EXCEPT !.written = TRUE]
            OBVIOUS
        <3>7. x11[t.id] \in [from : FollowUps!Submission, wanted : SUBSET BOOLEAN, written : BOOLEAN]
            BY <1>5, <3>5
        <3>8. m \in [from : FollowUps!Submission, wanted : SUBSET BOOLEAN, written : BOOLEAN] /\ m.wanted = x11[t.id].wanted
            BY <3>6, <3>7
        <3>9. x11' = [x11 EXCEPT ![t.id] = m]
            BY <3>1, <3>6
        <3>10. /\ x11' \in [1..x3 -> [from : FollowUps!Submission, wanted : SUBSET BOOLEAN, written : BOOLEAN]]
               /\ x11'[t.id] = m /\ \A i \in 1..x3 \ {t.id} : x11'[i] = x11[i]
            BY <1>5, <3>5, <3>8, <3>9
        <3>11. \A i \in 1..x3 : x11'[i].wanted = x11[i].wanted
            BY <3>5, <3>8, <3>10
        <3>12. \A v \in x2 \ {t} : v.id \in 1..x3 \ {t.id}
            BY <1>1, <1>2, <3>1 DEF FollowUps!NamesTell
        <3>13. FollowUps!StatusWasAsked'
            <4>1. \A v \in x2' : v = u \/ (v \in x2 \ {t} /\ x11'[v.id] = x11[v.id])
                BY <3>1, <3>10, <3>12
            <4>2. IF u.done THEN TRUE \in x11'[u.id].wanted ELSE FALSE \in x11'[u.id].wanted
                BY <3>2, <3>3, <3>8, <3>10
            <4> QED BY <1>1, <4>1, <4>2 DEF FollowUps!StatusWasAsked
        <3> QED BY <1>9, <2>1, <3>1, <3>4, <3>10, <3>11, <3>13
    <2> QED BY <1>7, <2>2, <2>3 DEF FollowUps!WriteStatus, FollowUps!Target
<1>8. CASE FollowUps!Delete(c)
    <2>1. UNCHANGED <<x1, x3, x4, x10, x11>> /\ x2' \subseteq x2
        BY <1>8 DEF FollowUps!Delete
    <2>2. PICK ok \in BOOLEAN : FollowUps!Ends(c, ok)
        BY <1>8 DEF FollowUps!Delete
    <2>3. FollowUps!NamesTell' /\ FollowUps!EvidenceWasReviewed' /\ FollowUps!StatusWasAsked' /\ x2' \subseteq FollowUps!TaskRow
        BY <1>1, <1>2, <2>1 DEF FollowUps!NamesTell, FollowUps!EvidenceWasReviewed, FollowUps!StatusWasAsked
    <2> QED BY <1>5, <1>9, <2>1, <2>2, <2>3
<1> QED BY <1>6, <1>7, <1>8

LEMMA FollowUpsStep ==
    ASSUME FollowUps!IInv, [FollowUps!Next]_(FollowUps!vars)
    PROVE  FollowUps!IInv'
<1>1. ASSUME NEW p \in Client, FollowUps!Acts(p)
      PROVE  FollowUps!IInv'
    <2>1. CASE FollowUps!Refetch(p) \/ FollowUps!Cancel(p) \/ FollowUps!LoseAnswer(p)
               \/ (\E of \in 1..x1 : FollowUps!Draft(p, of)) \/ \E t \in x4[p] : FollowUps!Edit(p, t)
        BY <2>1, FollowUpsScreen
    <2>2. CASE \E c \in Unit :
                 \/ FollowUps!Submit(p, c) \/ FollowUps!Resubmit(p, c) \/ FollowUps!RetryStatus(p, c) \/ FollowUps!Capture(p, c)
                 \/ \E title \in FollowUps!Title : FollowUps!SubmitEdit(p, c, title)
                 \/ \E t \in x4[p] : FollowUps!Toggle(p, c, t) \/ FollowUps!Remove(p, c, t)
        BY <2>2, FollowUpsSends, FollowUpsSubmit, FollowUpsToggle
    <2> QED BY <1>1, <2>1, <2>2 DEF FollowUps!Acts
<1>2. ASSUME NEW c \in Unit, FollowUps!Serves(c)
      PROVE  FollowUps!IInv'
    BY <1>2, FollowUpsServer, FollowUpsInsert, FollowUpsChanges DEF FollowUps!Serves
<1>3. CASE FollowUps!SaveInspection
    BY <1>3, FollowUpsKeeps, FollowUpsTypes DEF FollowUps!SaveInspection
<1>4. CASE UNCHANGED FollowUps!vars
    BY <1>4, FollowUpsKeeps, FollowUpsTypes DEF FollowUps!vars
<1> QED BY <1>1, <1>2, <1>3, <1>4 DEF FollowUps!Next

LEMMA FollowUpsInit == FollowUps!Init => FollowUps!IInv
<1> SUFFICES ASSUME FollowUps!Init PROVE FollowUps!IInv
    OBVIOUS
<1>1. FollowUps!Submission = {} /\ FollowUps!Cardinality(FollowUps!Submission) = 0 /\ x10 = << >> /\ x11 = << >>
    BY FollowUpsCount, FS_EmptySet DEF FollowUps!Init, FollowUps!Submission
<1>2. FollowUps!TypeOK
    BY <1>1 DEF FollowUps!Init, FollowUps!TypeOK, FollowUps!Form, FollowUps!Request
<1> QED BY <1>2 DEF FollowUps!Init, FollowUps!IInv, FollowUps!NamesTell, FollowUps!ScreensHold, FollowUps!CallsHold,
        FollowUps!FormHolds, FollowUps!CallHolds, FollowUps!Closed, FollowUps!Idle, FollowUps!EvidenceWasReviewed,
        FollowUps!StatusWasAsked

\* One task of each submission: no two have come from the same.
LEMMA FollowUpsHold == FollowUps!IInv => FollowUps!FollowUpsSound
<1> SUFFICES ASSUME FollowUps!IInv PROVE FollowUps!FollowUpsSound
    OBVIOUS
<1>1. ASSUME NEW s \in FollowUps!Submission
      PROVE  FollowUps!Cardinality(FollowUps!Of(s)) <= 1
    <2>1. CASE FollowUps!Of(s) = {}
        BY <2>1, FollowUpsCount, FS_EmptySet
    <2>2. CASE FollowUps!Of(s) # {}
        <3>1. PICK t : t \in FollowUps!Of(s)
            BY <2>2
        <3>2. FollowUps!Of(s) = {t}
            BY <3>1 DEF FollowUps!Of, FollowUps!IInv, FollowUps!NamesTell
        <3>3. Cardinality({t}) = 1
            BY FS_Singleton
        <3> QED BY <3>2, <3>3, FollowUpsCount
    <2> QED BY <2>1, <2>2
<1>2. FollowUps!CapturesWhatWasSeen
    BY DEF FollowUps!IInv, FollowUps!CallsHold, FollowUps!CallHolds, FollowUps!CapturesWhatWasSeen
<1> QED BY <1>1, <1>2 DEF FollowUps!FollowUpsSound, FollowUps!OneTaskEach, FollowUps!IInv

(***************************************************************************)
(* XeroConnection: the stored pair is x1, what Xero honours x2, the consent *)
(* states x3 and x4, the refreshes under way x5, the requests x6, the       *)
(* consents whose newest pair was lost x7 and those Xero has ended x8.      *)
(***************************************************************************)
XeroCalls == [at : {"idle", "exchange", "read", "waiting", "post", "write"}, in : Server, had : Xero!Pair]

LEMMA XeroFacts ==
    ASSUME Xero!IInv
    PROVE  /\ x1 \in Xero!Pair /\ x2 \in [1..MaxGrant -> Nat] /\ x3 \in [Server -> SUBSET x4] /\ x4 \subseteq 1..MaxGrant
           /\ x5 \in [Server -> SUBSET Nat] /\ x6 \in [Client -> XeroCalls]
           /\ x7 \subseteq 1..MaxGrant /\ x8 \subseteq 1..MaxGrant
           /\ \A c \in Client : x6[c].in \in Server /\ x6[c].had \in Xero!Pair
           /\ Xero!None \in Xero!Pair /\ Xero!None.grant = 0 /\ Xero!None.pair = 0 /\ Xero!None.id = 0 /\ ~Xero!None.aged
           /\ \A p \in Xero!Pair : p.grant \in 0..MaxGrant /\ p.pair \in Nat /\ p.id \in Nat
           /\ \A p \in Server : Xero!Idle(p) \in XeroCalls /\ Xero!Idle(p).at = "idle" /\ Xero!Idle(p).in = p
<1>1. Xero!None \in Xero!Pair /\ Xero!None.grant = 0 /\ Xero!None.pair = 0 /\ Xero!None.id = 0 /\ ~Xero!None.aged
    BY RecordsAssumption DEF Xero!None, Xero!Pair
<1>2. \A p \in Server : Xero!Idle(p) \in XeroCalls /\ Xero!Idle(p).at = "idle" /\ Xero!Idle(p).in = p
    BY <1>1 DEF Xero!Idle, XeroCalls
<1>3. x6 \in [Client -> XeroCalls]
    BY DEF Xero!IInv, Xero!TypeOK, XeroCalls
<1>4. \A c \in Client : x6[c].in \in Server /\ x6[c].had \in Xero!Pair
    BY <1>3 DEF XeroCalls
<1>5. \A p \in Xero!Pair : p.grant \in 0..MaxGrant /\ p.pair \in Nat /\ p.id \in Nat
    BY DEF Xero!Pair
<1> QED BY <1>1, <1>2, <1>3, <1>4, <1>5 DEF Xero!IInv, Xero!TypeOK

LEMMA XeroCallHad == \A k \in XeroCalls : k.had \in Xero!Pair /\ k.had.id \in Nat
    BY DEF XeroCalls, Xero!Pair

\* Requests end, states go and the row may too, and Xero retires pairs nobody is to follow: what is
\* known of the rest stays known.
LEMMA XeroRetires ==
    ASSUME Xero!IInv, x6' \in [Client -> XeroCalls],
           \A c \in Client : x6'[c] = x6[c] \/ x6'[c].at = "idle",
           x3' \in [Server -> SUBSET x4], \A p \in Server : x3'[p] \subseteq x3[p],
           x4' = x4, x1' \in {x1, Xero!None},
           x2' \in [1..MaxGrant -> Nat], \A g \in 1..MaxGrant : x2[g] <= x2'[g],
           \A c \in Client : x6[c].at = "write" => x2'[x6[c].had.grant] = x2[x6[c].had.grant]
    PROVE  Xero!SpentOnce' /\ Xero!PairsKnown' /\ Xero!WriterIsLast'
<1>1. \A c \in Client : /\ Xero!Holds(c)' => Xero!Holds(c) /\ x6'[c] = x6[c]
                        /\ x6'[c].at = "exchange" => x6'[c] = x6[c]
                        /\ x6'[c].at = "write" => x6'[c] = x6[c]
    BY DEF Xero!Holds
<1>2. \A c \in Client, g \in 1..MaxGrant : Xero!Exchanging(c, g)' => Xero!Exchanging(c, g)
    BY <1>1 DEF Xero!Exchanging
<1>3. \A g \in 1..MaxGrant : Xero!Unspent(g)' => Xero!Unspent(g)
    BY <1>2 DEF Xero!Unspent
<1>4. \A g \in 1..MaxGrant : x1'.grant = g => x1.grant = g
    BY XeroFacts
<1>5. Xero!SpentOnce'
    <2> SUFFICES ASSUME NEW g \in 1..MaxGrant
                 PROVE  /\ \A p, q \in Server : g \in x3'[p] /\ g \in x3'[q] => p = q
                        /\ \A c, d \in Client : Xero!Exchanging(c, g)' /\ Xero!Exchanging(d, g)' => c = d
                        /\ \A c \in Client : Xero!Exchanging(c, g)' => g \in x4' /\ \A p \in Server : g \notin x3'[p]
                        /\ Xero!Unspent(g)' => x1'.grant # g /\ \A c \in Client : Xero!Holds(c)' => x6'[c].had.grant # g
        BY DEF Xero!SpentOnce
    <2>1. /\ \A p, q \in Server : g \in x3[p] /\ g \in x3[q] => p = q
          /\ \A c, d \in Client : Xero!Exchanging(c, g) /\ Xero!Exchanging(d, g) => c = d
          /\ \A c \in Client : Xero!Exchanging(c, g) => g \in x4 /\ \A p \in Server : g \notin x3[p]
          /\ Xero!Unspent(g) => x1.grant # g /\ \A c \in Client : Xero!Holds(c) => x6[c].had.grant # g
        BY DEF Xero!IInv, Xero!SpentOnce
    <2> QED BY <1>1, <1>2, <1>3, <1>4, <2>1
<1>6. Xero!PairsKnown'
    <2>1. ASSUME NEW c \in Client, Xero!Holds(c)'
          PROVE  /\ x6'[c].had.id > 0 /\ x6'[c].had.grant > 0 /\ x6'[c].had.aged
                 /\ x6'[c].had.pair <= x2'[x6'[c].had.grant]
                 /\ x1'.grant = x6'[c].had.grant /\ x1'.pair = x6'[c].had.pair => x1' = x6'[c].had
        <3>1. x6'[c] = x6[c] /\ Xero!Holds(c)
            BY <1>1, <2>1
        <3>2. /\ x6[c].had.id > 0 /\ x6[c].had.grant > 0 /\ x6[c].had.aged
              /\ x6[c].had.pair <= x2[x6[c].had.grant]
              /\ x1.grant = x6[c].had.grant /\ x1.pair = x6[c].had.pair => x1 = x6[c].had
            BY <3>1 DEF Xero!IInv, Xero!PairsKnown
        <3>3. x6[c].had.grant \in 1..MaxGrant /\ x6[c].had.pair \in Nat
            BY <3>2, XeroFacts
        <3>4. x6[c].had.pair <= x2'[x6[c].had.grant]
            BY <3>2, <3>3, XeroFacts
        <3> QED BY <3>1, <3>2, <3>4, XeroFacts
    <2>2. \A c \in Client : x6'[c].at = "exchange" => x6'[c].had.grant > 0
        BY <1>1 DEF Xero!IInv, Xero!PairsKnown
    <2>3. x1' = Xero!None \/ (x1'.id > 0 /\ x1'.grant > 0 /\ x1'.pair <= x2'[x1'.grant])
        <3>1. x1 = Xero!None \/ (x1.id > 0 /\ x1.grant > 0 /\ x1.pair <= x2[x1.grant])
            BY DEF Xero!IInv, Xero!PairsKnown
        <3>2. x1.grant \in 0..MaxGrant /\ x1.pair \in Nat
            BY XeroFacts
        <3> QED BY <3>1, <3>2, XeroFacts, SMTT(30)
    <2> QED BY <2>1, <2>2, <2>3 DEF Xero!PairsKnown
<1>7. Xero!WriterIsLast'
    BY <1>1, XeroFacts DEF Xero!IInv, Xero!WriterIsLast
<1> QED BY <1>5, <1>6, <1>7

\* The same where Xero retires none.
LEMMA XeroLess ==
    ASSUME Xero!IInv, x6' \in [Client -> XeroCalls],
           \A c \in Client : x6'[c] = x6[c] \/ x6'[c].at = "idle",
           x3' \in [Server -> SUBSET x4], \A p \in Server : x3'[p] \subseteq x3[p],
           x4' = x4, x2' = x2, x1' \in {x1, Xero!None}
    PROVE  Xero!SpentOnce' /\ Xero!PairsKnown' /\ Xero!WriterIsLast'
<1>1. x2' \in [1..MaxGrant -> Nat] /\ \A g \in 1..MaxGrant : x2[g] <= x2'[g]
    BY XeroFacts
<1> QED BY <1>1, XeroRetires, SMTT(30)

\* One request goes on with what it holds.
LEMMA XeroGoes ==
    ASSUME Xero!IInv, NEW c \in Client, NEW k \in XeroCalls, x6' = [x6 EXCEPT ![c] = k]
    PROVE  /\ x6' \in [Client -> XeroCalls]
           /\ \A d \in Client : x6'[d] = IF d = c THEN k ELSE x6[d]
           /\ \A d \in Client : /\ Xero!Holds(d)' <=> IF d = c THEN k.at \in {"read", "waiting", "post", "write"} ELSE Xero!Holds(d)
                                /\ Xero!Refreshes(d)' <=> IF d = c THEN k.at \in {"post", "write"} ELSE Xero!Refreshes(d)
           /\ \A d \in Client, g \in 1..MaxGrant :
                 Xero!Exchanging(d, g)' <=> IF d = c THEN k.at = "exchange" /\ k.had.grant = g ELSE Xero!Exchanging(d, g)
<1>1. x6' \in [Client -> XeroCalls] /\ \A d \in Client : x6'[d] = IF d = c THEN k ELSE x6[d]
    BY XeroFacts
<1> QED BY <1>1 DEF Xero!Holds, Xero!Refreshes, Xero!Exchanging

\* The process of a request that refreshed is done, and those that waited for it are let go.
LEMMA XeroSettles ==
    ASSUME Xero!IInv, NEW c \in Client, Xero!Refreshes(c), Xero!Settle(c)
    PROVE  /\ x6' \in [Client -> XeroCalls] /\ x5' \in [Server -> SUBSET Nat] /\ Xero!OneInFlight'
           /\ \A d \in Client : x6'[d] = x6[d] \/ x6'[d].at = "idle"
           /\ x6'[c].at = "idle"
           /\ \A d \in Client : d # c /\ x6[d].at = "write" => x6'[d] = x6[d]
<1>1. x6' \in [Client -> XeroCalls] /\ x5' \in [Server -> SUBSET Nat]
    BY XeroFacts DEF Xero!Settle
<1>2. /\ \A d \in Client : x6'[d] = x6[d] \/ x6'[d].at = "idle"
      /\ x6'[c].at = "idle"
      /\ \A d \in Client : d # c /\ x6[d].at = "write" => x6'[d] = x6[d]
    BY XeroFacts DEF Xero!Settle
<1>3. \A d \in Client : Xero!Refreshes(d)' => Xero!Refreshes(d) /\ x6'[d] = x6[d] /\ d # c
    BY <1>2 DEF Xero!Refreshes
<1>4. /\ \A p \in Server : p # x6[c].in => x5'[p] = x5[p]
      /\ x5'[x6[c].in] = x5[x6[c].in] \ {x6[c].had.id}
    BY XeroFacts DEF Xero!Settle
<1>5. \A d \in Client : Xero!Refreshes(d)' => /\ x6[d].in # x6[c].in \/ x6[d].had.id # x6[c].had.id
                                             /\ x6[d].had.id \in x5[x6[d].in]
    BY <1>3 DEF Xero!IInv, Xero!OneInFlight
<1>6. Xero!OneInFlight'
    <2>1. ASSUME NEW d \in Client, Xero!Refreshes(d)'
          PROVE  x6'[d].had.id \in x5'[x6'[d].in]
        <3>1. x6'[d] = x6[d] /\ x6[d].in \in Server /\ x6[d].had.id \in x5[x6[d].in]
            BY <1>3, <1>5, <2>1, XeroFacts
        <3>2. CASE x6[d].in = x6[c].in
            BY <1>4, <1>5, <2>1, <3>1, <3>2
        <3>3. CASE x6[d].in # x6[c].in
            BY <1>4, <3>1, <3>3
        <3> QED BY <3>2, <3>3
    <2>2. ASSUME NEW d \in Client, NEW e \in Client, Xero!Refreshes(d)', Xero!Refreshes(e)', x6'[d].in = x6'[e].in,
                 x6'[d].had.id = x6'[e].had.id
          PROVE  d = e
        BY <1>3, <2>2 DEF Xero!IInv, Xero!OneInFlight
    <2> QED BY <2>1, <2>2 DEF Xero!OneInFlight
<1> QED BY <1>1, <1>2, <1>6

LEMMA XeroStep ==
    ASSUME Xero!IInv, [Xero!Next]_(Xero!vars)
    PROVE  Xero!IInv'
<1>0. ASSUME x1' \in Xero!Pair, x2' \in [1..MaxGrant -> Nat], x3' \in [Server -> SUBSET x4'], x4' \subseteq 1..MaxGrant,
             x5' \in [Server -> SUBSET Nat], x6' \in [Client -> XeroCalls], x7' \subseteq 1..MaxGrant, x8' \subseteq 1..MaxGrant
      PROVE  Xero!TypeOK'
    BY <1>0 DEF Xero!TypeOK, XeroCalls, Xero!Pair
<1>a. Xero!SpentOnce /\ Xero!PairsKnown /\ Xero!WriterIsLast /\ Xero!OneInFlight /\ Xero!TokenLives
    BY DEF Xero!IInv
<1>1. CASE UNCHANGED Xero!vars
    <2>1. /\ x1' = x1 /\ x2' = x2 /\ x3' = x3 /\ x4' = x4 /\ x5' = x5 /\ x6' = x6 /\ x7' = x7 /\ x8' = x8
        BY <1>1 DEF Xero!vars
    <2>2. Xero!SpentOnce' /\ Xero!PairsKnown' /\ Xero!WriterIsLast'
        BY <2>1, XeroFacts, XeroLess
    <2>3. Xero!OneInFlight' /\ Xero!TokenLives'
        BY <1>a, <2>1 DEF Xero!OneInFlight, Xero!Refreshes, Xero!TokenLives, Xero!Good, Xero!Gone, Xero!Saving
    <2> QED BY <1>0, <2>1, <2>2, <2>3, XeroFacts DEF Xero!IInv
<1>2. CASE Xero!disconnect
    <2>1. /\ x1' = Xero!None /\ x2' = x2 /\ x3' = x3 /\ x4' = x4 /\ x5' = x5 /\ x6' = x6 /\ x7' = x7 /\ x8' = x8
        BY <1>2 DEF Xero!disconnect
    <2>2. Xero!SpentOnce' /\ Xero!PairsKnown' /\ Xero!WriterIsLast'
        BY <2>1, XeroFacts, XeroLess
    <2>3. Xero!OneInFlight' /\ Xero!TokenLives'
        BY <1>a, <2>1 DEF Xero!OneInFlight, Xero!Refreshes, Xero!TokenLives, Xero!Good, Xero!Gone, Xero!Saving
    <2> QED BY <1>0, <2>1, <2>2, <2>3, XeroFacts DEF Xero!IInv
<1>3. CASE Xero!Age
    <2> DEFINE k == [x1 EXCEPT !.aged = TRUE]
    <2>1. /\ x1' = k /\ x2' = x2 /\ x3' = x3 /\ x4' = x4 /\ x5' = x5 /\ x6' = x6 /\ x7' = x7 /\ x8' = x8
          /\ x1 # Xero!None /\ ~x1.aged
        BY <1>3 DEF Xero!Age
    <2>2. k \in Xero!Pair /\ k.grant = x1.grant /\ k.pair = x1.pair /\ k.id = x1.id
        BY XeroFacts DEF Xero!Pair
    <2> HIDE DEF k
    <2>3. Xero!SpentOnce'
        BY <1>a, <2>1, <2>2 DEF Xero!SpentOnce, Xero!Unspent, Xero!Exchanging, Xero!Holds
    <2>4. \A c \in Client : Xero!Holds(c) => ~(x1.grant = x6[c].had.grant /\ x1.pair = x6[c].had.pair)
        BY <1>a, <2>1 DEF Xero!PairsKnown
    <2>5. Xero!PairsKnown'
        BY <1>a, <2>1, <2>2, <2>4 DEF Xero!PairsKnown, Xero!Holds
    <2>6. Xero!WriterIsLast'
        BY <1>a, <2>1, <2>2 DEF Xero!WriterIsLast, Xero!Holds
    <2>7. Xero!OneInFlight'
        BY <1>a, <2>1 DEF Xero!OneInFlight, Xero!Refreshes
    <2>8. \A c \in Client : x6[c].at = "write" => x6[c].had # x1
        BY <1>a, <2>1 DEF Xero!PairsKnown, Xero!Holds
    <2>9. Xero!TokenLives'
        BY <1>a, <2>1, <2>2, <2>8 DEF Xero!TokenLives, Xero!Good, Xero!Gone, Xero!Saving
    <2> QED BY <1>0, <2>1, <2>2, <2>3, <2>5, <2>6, <2>7, <2>9, XeroFacts DEF Xero!IInv
<1>4. ASSUME NEW p \in Server, Xero!connect(p)
      PROVE  Xero!IInv'
    <2>1. PICK g \in 1..MaxGrant : g \notin x4 /\ x4' = x4 \cup {g} /\ x3' = [x3 EXCEPT ![p] = @ \cup {g}]
        BY <1>4 DEF Xero!connect
    <2>2. x1' = x1 /\ x2' = x2 /\ x5' = x5 /\ x6' = x6 /\ x7' = x7 /\ x8' = x8
        BY <1>4 DEF Xero!connect
    <2>3. /\ x3' \in [Server -> SUBSET x4'] /\ x4' \subseteq 1..MaxGrant
          /\ \A q \in Server : x3'[q] = IF q = p THEN x3[q] \cup {g} ELSE x3[q]
          /\ \A q \in Server : g \notin x3[q]
        BY <2>1, XeroFacts
    <2>4. \A c \in Client : ~Xero!Exchanging(c, g)
        BY <1>a, <2>1 DEF Xero!SpentOnce
    <2>5. \A h \in 1..MaxGrant : /\ Xero!Unspent(h)' => Xero!Unspent(h)
                                 /\ \A c \in Client : Xero!Exchanging(c, h)' <=> Xero!Exchanging(c, h)
        BY <2>1, <2>2, <2>3 DEF Xero!Unspent, Xero!Exchanging
    <2>6. Xero!SpentOnce'
        <3> SUFFICES ASSUME NEW h \in 1..MaxGrant
                     PROVE  /\ \A r, q \in Server : h \in x3'[r] /\ h \in x3'[q] => r = q
                            /\ \A c, d \in Client : Xero!Exchanging(c, h)' /\ Xero!Exchanging(d, h)' => c = d
                            /\ \A c \in Client : Xero!Exchanging(c, h)' => h \in x4' /\ \A q \in Server : h \notin x3'[q]
                            /\ Xero!Unspent(h)' => x1'.grant # h /\ \A c \in Client : Xero!Holds(c)' => x6'[c].had.grant # h
            BY DEF Xero!SpentOnce
        <3>1. /\ \A r, q \in Server : h \in x3[r] /\ h \in x3[q] => r = q
              /\ \A c, d \in Client : Xero!Exchanging(c, h) /\ Xero!Exchanging(d, h) => c = d
              /\ \A c \in Client : Xero!Exchanging(c, h) => h \in x4 /\ \A q \in Server : h \notin x3[q]
              /\ Xero!Unspent(h) => x1.grant # h /\ \A c \in Client : Xero!Holds(c) => x6[c].had.grant # h
            BY <1>a DEF Xero!SpentOnce
        <3>2. \A c \in Client : Xero!Holds(c)' <=> Xero!Holds(c)
            BY <2>2 DEF Xero!Holds
        <3> QED BY <2>1, <2>2, <2>3, <2>4, <2>5, <3>1, <3>2
    <2>7. Xero!PairsKnown' /\ Xero!WriterIsLast' /\ Xero!OneInFlight' /\ Xero!TokenLives'
        BY <1>a, <2>2 DEF Xero!PairsKnown, Xero!WriterIsLast, Xero!OneInFlight, Xero!TokenLives, Xero!Good, Xero!Gone, Xero!Saving,
                          Xero!Holds, Xero!Refreshes
    <2> QED BY <1>0, <2>2, <2>3, <2>6, <2>7, XeroFacts DEF Xero!IInv
<1>5. ASSUME NEW c \in Client, Xero!Redeem(c)
      PROVE  Xero!IInv'
    <2>0. PICK p \in Server : p = x6[c].in
        BY XeroFacts
    <2>1. PICK g \in x3[p] : /\ x3' = [x3 EXCEPT ![p] = @ \ {g}]
                             /\ x6' = [x6 EXCEPT ![c].at = "exchange", ![c].had = [Xero!None EXCEPT !.grant = g]]
        BY <1>5, <2>0 DEF Xero!Redeem
    <2>2. x1' = x1 /\ x2' = x2 /\ x4' = x4 /\ x5' = x5 /\ x7' = x7 /\ x8' = x8 /\ x6[c].at = "idle" /\ g \in 1..MaxGrant /\ g \in x4
        BY <1>5, XeroFacts DEF Xero!Redeem
    <2> DEFINE n == [Xero!None EXCEPT !.grant = g]
               k == [x6[c] EXCEPT !.at = "exchange", !.had = n]
    <2>3. n \in Xero!Pair /\ n.grant = g
        BY <2>2, XeroFacts DEF Xero!Pair
    <2> HIDE DEF n
    <2>4. k \in XeroCalls /\ k.at = "exchange" /\ k.had = n /\ k.in = x6[c].in
        <3>1. PICK r \in XeroCalls : r = x6[c]
            BY XeroFacts
        <3>2. k = [r EXCEPT !.at = "exchange", !.had = n]
            BY <3>1
        <3> HIDE DEF k
        <3>3. k \in XeroCalls /\ k.at = "exchange" /\ k.had = n /\ k.in = r.in
            BY <2>3, <3>2 DEF XeroCalls
        <3> QED BY <3>1, <3>3
    <2>5. x6' = [x6 EXCEPT ![c] = k]
        BY <2>1 DEF n
    <2> HIDE DEF k
    <2>6. /\ x3' \in [Server -> SUBSET x4]
          /\ \A q \in Server : x3'[q] = IF q = p THEN x3[q] \ {g} ELSE x3[q]
        BY <2>1, XeroFacts
    <2>7. \A q \in Server : g \notin x3'[q]
        BY <1>a, <2>0, <2>2, <2>6 DEF Xero!SpentOnce
    <2>8. \A h \in 1..MaxGrant : /\ Xero!Unspent(h)' => Xero!Unspent(h)
                                 /\ \A d \in Client : Xero!Exchanging(d, h)' <=> (Xero!Exchanging(d, h) \/ (d = c /\ h = g))
                                 /\ \A d \in Client : ~Xero!Exchanging(d, g)
        <3>1. \A d \in Client : ~Xero!Exchanging(d, g)
            BY <1>a, <2>2 DEF Xero!SpentOnce
        <3>2. \A h \in 1..MaxGrant, d \in Client : Xero!Exchanging(d, h)' <=> (Xero!Exchanging(d, h) \/ (d = c /\ h = g))
            <4> SUFFICES ASSUME NEW h \in 1..MaxGrant, NEW d \in Client
                         PROVE  Xero!Exchanging(d, h)' <=> (Xero!Exchanging(d, h) \/ (d = c /\ h = g))
                OBVIOUS
            <4>1. x6'[d] = IF d = c THEN k ELSE x6[d]
                BY <2>4, <2>5, XeroGoes
            <4>2. CASE d = c
                BY <2>2, <2>3, <2>4, <4>1, <4>2 DEF Xero!Exchanging
            <4>3. CASE d # c
                BY <4>1, <4>3 DEF Xero!Exchanging
            <4> QED BY <4>2, <4>3
        <3>3. Xero!Unspent(g)
            BY DEF Xero!Unspent
        <3>4. \A h \in 1..MaxGrant : Xero!Unspent(h)' => Xero!Unspent(h)
            BY <2>2, <2>6, <3>2, <3>3 DEF Xero!Unspent
        <3> QED BY <3>1, <3>2, <3>4
    <2>9. \A d \in Client : /\ Xero!Holds(d)' <=> Xero!Holds(d) /\ d # c
                            /\ Xero!Refreshes(d)' <=> Xero!Refreshes(d) /\ d # c
                            /\ d # c => x6'[d] = x6[d]
        BY <2>2, <2>4, <2>5, XeroGoes DEF Xero!Holds, Xero!Refreshes
    <2>10. Xero!SpentOnce'
        <3> SUFFICES ASSUME NEW h \in 1..MaxGrant
                     PROVE  /\ \A r, q \in Server : h \in x3'[r] /\ h \in x3'[q] => r = q
                            /\ \A e, d \in Client : Xero!Exchanging(e, h)' /\ Xero!Exchanging(d, h)' => e = d
                            /\ \A e \in Client : Xero!Exchanging(e, h)' => h \in x4' /\ \A q \in Server : h \notin x3'[q]
                            /\ Xero!Unspent(h)' => x1'.grant # h /\ \A e \in Client : Xero!Holds(e)' => x6'[e].had.grant # h
            BY DEF Xero!SpentOnce
        <3>1. /\ \A r, q \in Server : h \in x3[r] /\ h \in x3[q] => r = q
              /\ \A e, d \in Client : Xero!Exchanging(e, h) /\ Xero!Exchanging(d, h) => e = d
              /\ \A e \in Client : Xero!Exchanging(e, h) => h \in x4 /\ \A q \in Server : h \notin x3[q]
              /\ Xero!Unspent(h) => x1.grant # h /\ \A e \in Client : Xero!Holds(e) => x6[e].had.grant # h
            BY <1>a DEF Xero!SpentOnce
        <3> QED BY <2>2, <2>6, <2>7, <2>8, <2>9, <3>1
    <2>11. Xero!PairsKnown'
        <3>1. \A d \in Client : x6'[d].at = "exchange" => x6'[d].had.grant > 0
            BY <1>a, <2>2, <2>3, <2>4, <2>5, <2>9, XeroGoes DEF Xero!PairsKnown
        <3> QED BY <1>a, <2>2, <2>9, <3>1 DEF Xero!PairsKnown
    <2>12. Xero!WriterIsLast'
        BY <1>a, <2>2, <2>4, <2>5, <2>9, XeroGoes DEF Xero!WriterIsLast
    <2>13. Xero!OneInFlight'
        BY <1>a, <2>2, <2>9 DEF Xero!OneInFlight
    <2>14. Xero!TokenLives'
        <3>1. \A d \in Client : x6[d].at = "write" => x6'[d] = x6[d]
            BY <2>2, <2>9
        <3> QED BY <1>a, <2>2, <3>1 DEF Xero!TokenLives, Xero!Good, Xero!Gone, Xero!Saving
    <2> QED BY <1>0, <2>2, <2>4, <2>5, <2>6, <2>10, <2>11, <2>12, <2>13, <2>14, XeroFacts, XeroGoes DEF Xero!IInv
<1>6. ASSUME NEW c \in Client, Xero!complete(c)
      PROVE  Xero!IInv'
    <2> DEFINE k == Xero!Idle(x6[c].in)
    <2>1. /\ x3' = x3 /\ x4' = x4 /\ x5' = x5 /\ x7' = x7 /\ x8' = x8 /\ x6[c].at = "exchange" /\ x6' = [x6 EXCEPT ![c] = k]
          /\ k \in XeroCalls /\ k.at = "idle" /\ k.in = x6[c].in
        BY <1>6, XeroFacts DEF Xero!complete, Xero!Rest
    <2>2. PICK g \in 1..MaxGrant : g = x6[c].had.grant /\ Xero!Exchanging(c, g)
        BY <1>a, <2>1, XeroFacts DEF Xero!PairsKnown, Xero!Exchanging
    <2>3. \/ x1' = x1 /\ x2' = x2
          \/ x2' = [x2 EXCEPT ![g] = 1] /\ \E i \in {g, x1.id} : i > 0 /\ x1' = [id |-> i, grant |-> g, pair |-> 1, aged |-> FALSE]
        BY <1>6, <1>a, <2>2 DEF Xero!complete, Xero!PairsKnown
    <2> HIDE DEF k
    <2>4. /\ x6' \in [Client -> XeroCalls] /\ \A d \in Client : x6'[d] = IF d = c THEN k ELSE x6[d]
          /\ \A d \in Client : /\ Xero!Holds(d)' <=> Xero!Holds(d) 
                               /\ Xero!Refreshes(d)' <=> Xero!Refreshes(d) 
                               /\ Xero!Holds(d) \/ Xero!Refreshes(d) => d # c
        BY <2>1, XeroGoes DEF Xero!Holds, Xero!Refreshes
    <2>5. Xero!OneInFlight'
        BY <1>a, <2>1, <2>4 DEF Xero!OneInFlight
    <2>6. \A d \in Client : x6'[d] = x6[d] \/ x6'[d].at = "idle"
        BY <2>1, <2>4
    <2>7. CASE x1' = x1 /\ x2' = x2
        <3>1. Xero!SpentOnce' /\ Xero!PairsKnown' /\ Xero!WriterIsLast'
            BY <2>1, <2>4, <2>6, <2>7, XeroFacts, XeroLess
        <3>2. Xero!TokenLives'
            BY <1>a, <2>1, <2>4, <2>7 DEF Xero!TokenLives, Xero!Good, Xero!Gone, Xero!Saving
        <3> QED BY <1>0, <2>1, <2>4, <2>5, <2>7, <3>1, <3>2, XeroFacts DEF Xero!IInv
    <2>8. ASSUME NEW i \in {g, x1.id}, i > 0, x1' = [id |-> i, grant |-> g, pair |-> 1, aged |-> FALSE],
                 x2' = [x2 EXCEPT ![g] = 1]
          PROVE  Xero!IInv'
        <3>1. x1' \in Xero!Pair /\ x1'.id > 0 /\ x1'.grant = g /\ x1'.pair = 1 /\ x1' # Xero!None
            BY <2>2, <2>8, XeroFacts DEF Xero!Pair
        <3>2. x2' \in [1..MaxGrant -> Nat] /\ \A h \in 1..MaxGrant : x2'[h] = IF h = g THEN 1 ELSE x2[h]
            BY <2>2, <2>8, XeroFacts
        <3>3. \A d \in Client : Xero!Holds(d) => x6[d].had.grant # g
            BY <1>a, <2>2 DEF Xero!SpentOnce, Xero!Unspent
        <3>4. ~Xero!Unspent(g)'
            <4>1. g \in x4 /\ (\A p \in Server : g \notin x3[p]) /\ \A d \in Client : Xero!Exchanging(d, g) => d = c
                BY <1>a, <2>2 DEF Xero!SpentOnce
            <4>2. \A d \in Client : ~Xero!Exchanging(d, g)'
                BY <2>1, <2>4, <4>1 DEF Xero!Exchanging
            <4> QED BY <2>1, <4>1, <4>2 DEF Xero!Unspent
        <3>5. Xero!SpentOnce'
            <4> SUFFICES ASSUME NEW h \in 1..MaxGrant
                     PROVE  /\ \A r, q \in Server : h \in x3'[r] /\ h \in x3'[q] => r = q
                            /\ \A e, d \in Client : Xero!Exchanging(e, h)' /\ Xero!Exchanging(d, h)' => e = d
                            /\ \A e \in Client : Xero!Exchanging(e, h)' => h \in x4' /\ \A q \in Server : h \notin x3'[q]
                            /\ Xero!Unspent(h)' => x1'.grant # h /\ \A e \in Client : Xero!Holds(e)' => x6'[e].had.grant # h
                BY DEF Xero!SpentOnce
            <4>1. /\ \A r, q \in Server : h \in x3[r] /\ h \in x3[q] => r = q
                  /\ \A e, d \in Client : Xero!Exchanging(e, h) /\ Xero!Exchanging(d, h) => e = d
                  /\ \A e \in Client : Xero!Exchanging(e, h) => h \in x4 /\ \A q \in Server : h \notin x3[q]
                  /\ Xero!Unspent(h) => x1.grant # h /\ \A e \in Client : Xero!Holds(e) => x6[e].had.grant # h
                BY <1>a DEF Xero!SpentOnce
            <4>2. \A d \in Client : Xero!Exchanging(d, h)' => Xero!Exchanging(d, h)
                BY <2>6 DEF Xero!Exchanging
            <4>3. Xero!Unspent(h)' => Xero!Unspent(h)
                BY <2>1, <4>2 DEF Xero!Unspent
            <4>4. Xero!Unspent(h)' => h # g
                BY <3>4
            <4>5. Xero!Unspent(h)' => x1'.grant # h
                BY <3>1, <4>4
            <4>6. Xero!Unspent(h)' => \A e \in Client : Xero!Holds(e)' => x6'[e].had.grant # h
                BY <2>4, <4>1, <4>3
            <4> QED BY <2>1, <4>1, <4>2, <4>5, <4>6
        <3>6. Xero!PairsKnown'
            <4>1. \A d \in Client : Xero!Holds(d)' =>
                    /\ x6'[d].had.id > 0 /\ x6'[d].had.grant > 0 /\ x6'[d].had.aged
                    /\ x6'[d].had.pair <= x2'[x6'[d].had.grant]
                    /\ x1'.grant # x6'[d].had.grant
                <5> SUFFICES ASSUME NEW d \in Client, Xero!Holds(d)
                             PROVE  /\ x6[d].had.id > 0 /\ x6[d].had.grant > 0 /\ x6[d].had.aged
                                    /\ x6[d].had.pair <= x2'[x6[d].had.grant]
                                    /\ x1'.grant # x6[d].had.grant
                    BY <2>4
                <5>1. /\ x6[d].had.id > 0 /\ x6[d].had.grant > 0 /\ x6[d].had.aged
                      /\ x6[d].had.pair <= x2[x6[d].had.grant]
                    BY <1>a DEF Xero!PairsKnown
                <5>2. x6[d].had.grant \in 1..MaxGrant /\ x6[d].had.grant # g
                    BY <3>3, <5>1, XeroFacts
                <5> QED BY <3>1, <3>2, <5>1, <5>2
            <4>2. \A d \in Client : x6'[d].at = "exchange" => x6'[d].had.grant > 0
                BY <1>a, <2>6 DEF Xero!PairsKnown
            <4> QED BY <2>2, <3>1, <3>2, <4>1, <4>2 DEF Xero!PairsKnown
        <3>7. Xero!WriterIsLast'
            <4> SUFFICES ASSUME NEW d \in Client, x6'[d].at = "write"
                         PROVE  /\ x2'[x6'[d].had.grant] = x6'[d].had.pair + 1
                                /\ x1'.grant # x6'[d].had.grant
                                /\ \A e \in Client : Xero!Holds(e)' /\ x6'[e].had.grant = x6'[d].had.grant =>
                                     x6'[e].had.pair <= x6'[d].had.pair /\ (x6'[e].at = "write" => d = e)
                BY DEF Xero!WriterIsLast
            <4>1. x6'[d] = x6[d] /\ x6[d].at = "write" /\ Xero!Holds(d)
                BY <2>6 DEF Xero!Holds
            <4>2. /\ x2[x6[d].had.grant] = x6[d].had.pair + 1
                  /\ \A e \in Client : Xero!Holds(e) /\ x6[e].had.grant = x6[d].had.grant =>
                                     x6[e].had.pair <= x6[d].had.pair /\ (x6[e].at = "write" => d = e)
                BY <1>a, <4>1 DEF Xero!WriterIsLast
            <4>3. x6[d].had.grant # g /\ x6[d].had.grant \in 1..MaxGrant
                BY <1>a, <3>3, <4>1, XeroFacts DEF Xero!PairsKnown
            <4> QED BY <2>4, <3>1, <3>2, <4>1, <4>2, <4>3
        <3>8. Xero!TokenLives'
            BY <2>2, <3>1, <3>2 DEF Xero!TokenLives, Xero!Good, Xero!Gone, Xero!Saving
        <3> QED BY <1>0, <2>1, <2>4, <2>5, <3>1, <3>2, <3>5, <3>6, <3>7, <3>8, XeroFacts DEF Xero!IInv
    <2> QED BY <2>3, <2>7, <2>8
<1>7. ASSUME NEW c \in Client, Xero!ReadConnection(c) \/ Xero!Join(c)
      PROVE  Xero!IInv'
    <2>1. /\ x1' = x1 /\ x2' = x2 /\ x3' = x3 /\ x4' = x4 /\ x7' = x7 /\ x8' = x8
        BY <1>7 DEF Xero!ReadConnection, Xero!Join
    <2>2. PICK k \in XeroCalls : /\ x6' = [x6 EXCEPT ![c] = k] /\ k.in = x6[c].in
                                 /\ k.at \in {"read", "waiting", "post"}
                                 /\ \/ x6[c].at = "idle" /\ k.had = x1 /\ x1.aged /\ k.at = "read"
                                    \/ x6[c].at = "read" /\ k.had = x6[c].had
                                 /\ IF k.at = "post" THEN k.had.id \notin x5[x6[c].in] /\ x5' = [x5 EXCEPT ![x6[c].in] = @ \cup {k.had.id}] ELSE x5' = x5
        <3>1. CASE Xero!ReadConnection(c)
            <4> DEFINE k == [x6[c] EXCEPT !.at = "read", !.had = x1]
            <4>1. k \in XeroCalls /\ k.at = "read" /\ k.had = x1 /\ k.in = x6[c].in
                <5>1. PICK r \in XeroCalls : r = x6[c]
                    BY XeroFacts
                <5>2. k = [r EXCEPT !.at = "read", !.had = x1]
                    BY <5>1
                <5>3. x1 \in Xero!Pair
                    BY XeroFacts
                <5> HIDE DEF k
                <5>4. k \in XeroCalls /\ k.at = "read" /\ k.had = x1 /\ k.in = r.in
                    BY <5>2, <5>3 DEF XeroCalls
                <5> QED BY <5>1, <5>4
            <4>2. x6' = [x6 EXCEPT ![c] = k] /\ x5' = x5 /\ x6[c].at = "idle" /\ x1.aged
                BY <3>1 DEF Xero!ReadConnection
            <4> HIDE DEF k
            <4> QED BY <4>1, <4>2
        <3>2. CASE Xero!Join(c)
            <4>1. PICK at \in {"waiting", "post"} :
                     /\ x6' = [x6 EXCEPT ![c].at = at] /\ x6[c].at = "read"
                     /\ IF at = "post" THEN x6[c].had.id \notin x5[x6[c].in] /\ x5' = [x5 EXCEPT ![x6[c].in] = @ \cup {x6[c].had.id}] ELSE x5' = x5
                BY <3>2 DEF Xero!Join, Xero!Go
            <4> DEFINE k == [x6[c] EXCEPT !.at = at]
            <4>2. k \in XeroCalls /\ k.at = at /\ k.had = x6[c].had /\ k.in = x6[c].in
                BY XeroFacts DEF XeroCalls
            <4>3. x6' = [x6 EXCEPT ![c] = k]
                BY <4>1
            <4> HIDE DEF k
            <4> QED BY <4>1, <4>2, <4>3
        <3> QED BY <1>7, <3>1, <3>2
    <2>3. /\ x6' \in [Client -> XeroCalls] /\ \A d \in Client : x6'[d] = IF d = c THEN k ELSE x6[d]
          /\ \A d \in Client : /\ Xero!Holds(d)' <=> (d = c \/ Xero!Holds(d))
                               /\ Xero!Refreshes(d)' <=> IF d = c THEN k.at = "post" ELSE Xero!Refreshes(d)
          /\ \A d \in Client, g \in 1..MaxGrant : Xero!Exchanging(d, g)' <=> Xero!Exchanging(d, g)
        <3>1. /\ x6' \in [Client -> XeroCalls] /\ \A d \in Client : x6'[d] = IF d = c THEN k ELSE x6[d]
              /\ \A d \in Client : /\ Xero!Holds(d)' <=> (d = c \/ Xero!Holds(d))
                                   /\ Xero!Refreshes(d)' <=> IF d = c THEN k.at = "post" ELSE Xero!Refreshes(d)
            BY <2>2, XeroGoes
        <3>2. x6[c].at # "exchange" /\ k.at # "exchange"
            BY <2>2
        <3>3. ASSUME NEW d \in Client, NEW g \in 1..MaxGrant
              PROVE  Xero!Exchanging(d, g)' <=> Xero!Exchanging(d, g)
            <4>1. CASE d = c
                BY <3>1, <3>2, <4>1 DEF Xero!Exchanging
            <4>2. CASE d # c
                BY <3>1, <4>2 DEF Xero!Exchanging
            <4> QED BY <4>1, <4>2
        <3> QED BY <3>1, <3>3
    <2>4. /\ k.had.id > 0 /\ k.had.grant > 0 /\ k.had.aged
          /\ k.had.pair <= x2[k.had.grant]
          /\ x1.grant = k.had.grant /\ x1.pair = k.had.pair => x1 = k.had
        <3>1. CASE k.had = x1 /\ x1.aged
            BY <1>a, <3>1, XeroFacts DEF Xero!PairsKnown
        <3>2. CASE k.had = x6[c].had /\ x6[c].at = "read"
            BY <1>a, <3>2 DEF Xero!PairsKnown, Xero!Holds
        <3> QED BY <2>2, <3>1, <3>2
    <2>5. Xero!SpentOnce'
        <3> SUFFICES ASSUME NEW h \in 1..MaxGrant
                     PROVE  /\ \A r, q \in Server : h \in x3'[r] /\ h \in x3'[q] => r = q
                            /\ \A e, d \in Client : Xero!Exchanging(e, h)' /\ Xero!Exchanging(d, h)' => e = d
                            /\ \A e \in Client : Xero!Exchanging(e, h)' => h \in x4' /\ \A q \in Server : h \notin x3'[q]
                            /\ Xero!Unspent(h)' => x1'.grant # h /\ \A e \in Client : Xero!Holds(e)' => x6'[e].had.grant # h
            BY DEF Xero!SpentOnce
        <3>1. /\ \A r, q \in Server : h \in x3[r] /\ h \in x3[q] => r = q
              /\ \A e, d \in Client : Xero!Exchanging(e, h) /\ Xero!Exchanging(d, h) => e = d
              /\ \A e \in Client : Xero!Exchanging(e, h) => h \in x4 /\ \A q \in Server : h \notin x3[q]
              /\ Xero!Unspent(h) => x1.grant # h /\ \A e \in Client : Xero!Holds(e) => x6[e].had.grant # h
            BY <1>a DEF Xero!SpentOnce
        <3>2. Xero!Unspent(h)' => Xero!Unspent(h)
            BY <2>1, <2>3 DEF Xero!Unspent
        <3>3. k.had = x1 \/ (k.had = x6[c].had /\ Xero!Holds(c))
            BY <2>2 DEF Xero!Holds
        <3> QED BY <2>1, <2>3, <3>1, <3>2, <3>3
    <2>6. Xero!PairsKnown'
        <3>1. \A d \in Client : x6'[d].at = "exchange" => x6'[d].had.grant > 0
            BY <1>a, <2>2, <2>3 DEF Xero!PairsKnown
        <3>2. \A d \in Client : Xero!Holds(d)' =>
                    /\ x6'[d].had.id > 0 /\ x6'[d].had.grant > 0 /\ x6'[d].had.aged
                    /\ x6'[d].had.pair <= x2'[x6'[d].had.grant]
                    /\ x1'.grant = x6'[d].had.grant /\ x1'.pair = x6'[d].had.pair => x1' = x6'[d].had
            BY <1>a, <2>1, <2>3, <2>4 DEF Xero!PairsKnown
        <3>3. x1' = Xero!None \/ (x1'.id > 0 /\ x1'.grant > 0 /\ x1'.pair <= x2'[x1'.grant])
            BY <1>a, <2>1 DEF Xero!PairsKnown
        <3> QED BY <3>1, <3>2, <3>3 DEF Xero!PairsKnown
    <2>7. Xero!WriterIsLast'
        <3> SUFFICES ASSUME NEW d \in Client, x6'[d].at = "write"
                     PROVE  /\ x2'[x6'[d].had.grant] = x6'[d].had.pair + 1
                            /\ x1'.grant = x6'[d].had.grant => x1'.pair <= x6'[d].had.pair
                            /\ \A e \in Client : Xero!Holds(e)' /\ x6'[e].had.grant = x6'[d].had.grant =>
                                 x6'[e].had.pair <= x6'[d].had.pair /\ (x6'[e].at = "write" => d = e)
            BY DEF Xero!WriterIsLast
        <3>1. x6'[d] = x6[d] /\ x6[d].at = "write" /\ d # c
            BY <2>2, <2>3
        <3>2. /\ x2[x6[d].had.grant] = x6[d].had.pair + 1
              /\ x1.grant = x6[d].had.grant => x1.pair <= x6[d].had.pair
              /\ \A e \in Client : Xero!Holds(e) /\ x6[e].had.grant = x6[d].had.grant =>
                                     x6[e].had.pair <= x6[d].had.pair /\ (x6[e].at = "write" => d = e)
            BY <1>a, <3>1 DEF Xero!WriterIsLast
        <3>3. k.had = x1 \/ (k.had = x6[c].had /\ Xero!Holds(c))
            BY <2>2 DEF Xero!Holds
        <3> QED BY <2>1, <2>2, <2>3, <3>1, <3>2, <3>3
    <2>8. x5' \in [Server -> SUBSET Nat] /\ Xero!OneInFlight'
        <3>1. CASE k.at # "post"
            <4>1. x5' = x5 /\ \A d \in Client : Xero!Refreshes(d)' => Xero!Refreshes(d) /\ x6'[d] = x6[d]
                BY <2>2, <2>3, <3>1
            <4> QED BY <1>a, <4>1, XeroFacts DEF Xero!OneInFlight
        <3>2. CASE k.at = "post"
            <4>0. PICK p \in Server : p = x6[c].in
                BY XeroFacts
            <4>1. /\ x5' \in [Server -> SUBSET Nat] /\ k.had.id \notin x5[p]
                  /\ k.had.id \in x5'[p] /\ \A q \in Server : x5[q] \subseteq x5'[q]
                BY <2>2, <3>2, <4>0, XeroFacts, XeroCallHad
            <4>2. \A d \in Client : Xero!Refreshes(d) => x6[d].in # p \/ x6[d].had.id # k.had.id
                BY <1>a, <4>1 DEF Xero!OneInFlight
            <4>3. ASSUME NEW d \in Client, Xero!Refreshes(d)' PROVE x6'[d].had.id \in x5'[x6'[d].in]
                <5>1. CASE d = c
                    BY <2>2, <2>3, <4>0, <4>1, <5>1
                <5>2. CASE d # c
                    <6>1. x6'[d] = x6[d] /\ x6[d].in \in Server /\ x6[d].had.id \in x5[x6[d].in]
                        BY <1>a, <2>3, <4>3, <5>2, XeroFacts DEF Xero!OneInFlight
                    <6> QED BY <4>1, <6>1
                <5> QED BY <5>1, <5>2
            <4>4. ASSUME NEW d \in Client, NEW e \in Client, Xero!Refreshes(d)', Xero!Refreshes(e)', x6'[d].in = x6'[e].in,
                         x6'[d].had.id = x6'[e].had.id
                  PROVE  d = e
                BY <1>a, <2>2, <2>3, <4>0, <4>2, <4>4 DEF Xero!OneInFlight
            <4> QED BY <4>1, <4>3, <4>4 DEF Xero!OneInFlight
        <3> QED BY <3>1, <3>2
    <2>9. Xero!TokenLives'
        <3>1. \A d \in Client : x6[d].at = "write" => x6'[d] = x6[d]
            BY <2>2, <2>3
        <3> QED BY <1>a, <2>1, <3>1 DEF Xero!TokenLives, Xero!Good, Xero!Gone, Xero!Saving
    <2> QED BY <1>0, <2>1, <2>3, <2>5, <2>6, <2>7, <2>8, <2>9, XeroFacts DEF Xero!IInv
<1>8. ASSUME NEW c \in Client, Xero!postToken(c)
      PROVE  Xero!IInv'
    <2> DEFINE h == x6[c].had
    <2>1. /\ x1' = x1 /\ x3' = x3 /\ x4' = x4 /\ x6[c].at = "post" /\ Xero!Holds(c) /\ Xero!Refreshes(c)
        BY <1>8 DEF Xero!postToken, Xero!Holds, Xero!Refreshes
    <2>a. /\ h.grant \in 1..MaxGrant /\ h.pair \in Nat /\ h.id > 0 /\ h.aged
          /\ x1.grant = h.grant /\ x1.pair = h.pair => x1 = h
        BY <1>a, <2>1, XeroFacts DEF Xero!PairsKnown
    <2>b. ASSUME x2[h.grant] = h.pair, NEW e \in Client, Xero!Holds(e), x6[e].had.grant = h.grant
          PROVE  x6[e].had.pair <= h.pair /\ x6[e].at # "write"
        <3>1. x6[e].had.pair <= h.pair
            BY <1>a, <2>b DEF Xero!PairsKnown
        <3>2. ASSUME x6[e].at = "write" PROVE FALSE
            <4>1. x2[h.grant] = x6[e].had.pair + 1 /\ h.pair <= x6[e].had.pair
                BY <1>a, <2>1, <2>b, <3>2 DEF Xero!WriterIsLast
            <4> QED BY <2>b, <4>1, XeroFacts
        <3> QED BY <3>1, <3>2
    <2>c. ASSUME Xero!Settle(c)
          PROVE  /\ x6' \in [Client -> XeroCalls] /\ x5' \in [Server -> SUBSET Nat] /\ Xero!OneInFlight'
                 /\ \A d \in Client : x6'[d] = x6[d] \/ x6'[d].at = "idle"
                 /\ \A d \in Client : x6[d].at = "write" => x6'[d] = x6[d]
        BY <2>1, <2>c, XeroSettles
    <2> HIDE DEF h
    <2>2. CASE /\ Xero!Settle(c) /\ x2' = x2 /\ x7' = x7
               /\ x8' = x8 \/ x8' = x8 \cup {h.grant}
        <3>1. Xero!SpentOnce' /\ Xero!PairsKnown' /\ Xero!WriterIsLast'
            BY <2>1, <2>2, <2>c, XeroFacts, XeroLess
        <3>2. Xero!TokenLives'
            <4>1. CASE x8' = x8
                BY <1>a, <2>1, <2>2, <2>c, <4>1 DEF Xero!TokenLives, Xero!Good, Xero!Gone, Xero!Saving
            <4>2. CASE x8' = x8 \cup {h.grant} /\ x1.grant = h.grant
                BY <2>1, <4>2 DEF Xero!TokenLives, Xero!Gone
            <4>3. CASE x8' = x8 \cup {h.grant} /\ x1.grant # h.grant
                BY <1>a, <2>1, <2>2, <2>c, <4>3 DEF Xero!TokenLives, Xero!Good, Xero!Gone, Xero!Saving
            <4> QED BY <2>2, <4>1, <4>2, <4>3
        <3>3. x8' \subseteq 1..MaxGrant
            BY <2>2, <2>a, XeroFacts
        <3> QED BY <1>0, <2>1, <2>2, <2>c, <3>1, <3>2, <3>3, XeroFacts DEF Xero!IInv
    <2>4. CASE /\ x2[h.grant] = h.pair /\ x2' = [x2 EXCEPT ![h.grant] = @ + 1]
               /\ x7' = x7 \cup {h.grant} /\ Xero!Settle(c) /\ x8' = x8
        <3>1. x2' \in [1..MaxGrant -> Nat] /\ \A g \in 1..MaxGrant : x2'[g] = IF g = h.grant THEN h.pair + 1 ELSE x2[g]
            BY <2>4, <2>a, XeroFacts
        <3>2. \A g \in 1..MaxGrant : x2[g] <= x2'[g]
            BY <2>4, <2>a, <3>1, XeroFacts
        <3>3. ASSUME NEW d \in Client, x6[d].at = "write" PROVE x2'[x6[d].had.grant] = x2[x6[d].had.grant]
            <4>1. Xero!Holds(d) /\ x6[d].had.grant # h.grant
                BY <2>4, <2>b, <3>3 DEF Xero!Holds
            <4>2. x6[d].had.grant \in 1..MaxGrant
                BY <1>a, <4>1, XeroFacts DEF Xero!PairsKnown
            <4> QED BY <3>1, <4>1, <4>2
        <3>4. Xero!SpentOnce' /\ Xero!PairsKnown' /\ Xero!WriterIsLast'
            BY <2>1, <2>c, <2>4, <3>1, <3>2, <3>3, XeroFacts, XeroRetires
        <3>5. Xero!TokenLives'
            <4>1. CASE x1.grant = h.grant
                BY <2>1, <2>4, <4>1 DEF Xero!TokenLives, Xero!Gone
            <4>2. CASE x1.grant # h.grant /\ x1 # Xero!None /\ Xero!Good(x1.grant, x1.pair)
                <5>1. x1.grant \in 1..MaxGrant
                    BY <1>a, <4>2, XeroFacts DEF Xero!PairsKnown
                <5> QED BY <2>1, <2>4, <3>1, <4>2, <5>1 DEF Xero!TokenLives, Xero!Good
            <4>3. CASE x1 = Xero!None \/ Xero!Gone(x1.grant) \/ \E d \in Client : Xero!Saving(d, x1)
                BY <2>1, <2>4, <2>c, <4>3 DEF Xero!TokenLives, Xero!Gone, Xero!Saving
            <4> QED BY <1>a, <4>1, <4>2, <4>3 DEF Xero!TokenLives
        <3>6. x7' \subseteq 1..MaxGrant
            BY <2>4, <2>a, XeroFacts
        <3> QED BY <1>0, <2>1, <2>4, <2>c, <3>1, <3>4, <3>5, <3>6, XeroFacts DEF Xero!IInv
    <2>3. CASE /\ x2[h.grant] = h.pair /\ x2' = [x2 EXCEPT ![h.grant] = @ + 1]
               /\ x6' = [x6 EXCEPT ![c].at = "write"] /\ x5' = x5 /\ x7' = x7 /\ x8' = x8
        <3> DEFINE k == [x6[c] EXCEPT !.at = "write"]
        <3>1. k \in XeroCalls /\ k.at = "write" /\ k.had = h /\ k.in = x6[c].in
            BY XeroFacts DEF XeroCalls, h
        <3>2. x6' = [x6 EXCEPT ![c] = k]
            BY <2>3
        <3> HIDE DEF k
        <3>3. /\ x6' \in [Client -> XeroCalls] /\ \A d \in Client : x6'[d] = IF d = c THEN k ELSE x6[d]
              /\ \A d \in Client : /\ Xero!Holds(d)' <=> Xero!Holds(d)
                                   /\ Xero!Refreshes(d)' <=> Xero!Refreshes(d)
                                   /\ x6'[d].in = x6[d].in /\ x6'[d].had = x6[d].had
              /\ \A d \in Client, g \in 1..MaxGrant : Xero!Exchanging(d, g)' <=> Xero!Exchanging(d, g)
            <4>1. x6' \in [Client -> XeroCalls] /\ \A d \in Client : x6'[d] = IF d = c THEN k ELSE x6[d]
                BY <3>1, <3>2, XeroGoes
            <4>2. ASSUME NEW d \in Client
                  PROVE  /\ Xero!Holds(d)' <=> Xero!Holds(d)
                         /\ Xero!Refreshes(d)' <=> Xero!Refreshes(d)
                         /\ x6'[d].in = x6[d].in /\ x6'[d].had = x6[d].had
                <5>1. CASE d = c
                    BY <2>1, <3>1, <4>1, <5>1 DEF Xero!Holds, Xero!Refreshes, h
                <5>2. CASE d # c
                    BY <4>1, <5>2 DEF Xero!Holds, Xero!Refreshes
                <5> QED BY <5>1, <5>2
            <4>3. ASSUME NEW d \in Client, NEW g \in 1..MaxGrant
                  PROVE  Xero!Exchanging(d, g)' <=> Xero!Exchanging(d, g)
                <5>1. CASE d = c
                    BY <2>1, <3>1, <4>1, <5>1 DEF Xero!Exchanging
                <5>2. CASE d # c
                    BY <4>1, <5>2 DEF Xero!Exchanging
                <5> QED BY <5>1, <5>2
            <4> QED BY <4>1, <4>2, <4>3
        <3>4. /\ h.grant \in 1..MaxGrant /\ h.pair \in Nat /\ Xero!Holds(c)
              /\ h.id > 0 /\ h.aged
              /\ x1.grant = h.grant /\ x1.pair = h.pair => x1 = h
            BY <2>1, <2>a
        <3>5. x2' \in [1..MaxGrant -> Nat] /\ \A g \in 1..MaxGrant : x2'[g] = IF g = h.grant THEN h.pair + 1 ELSE x2[g]
            BY <2>3, <3>4, XeroFacts
        <3>6. Xero!SpentOnce'
            <4> SUFFICES ASSUME NEW g \in 1..MaxGrant
                     PROVE  /\ \A r, q \in Server : g \in x3'[r] /\ g \in x3'[q] => r = q
                            /\ \A e, d \in Client : Xero!Exchanging(e, g)' /\ Xero!Exchanging(d, g)' => e = d
                            /\ \A e \in Client : Xero!Exchanging(e, g)' => g \in x4' /\ \A q \in Server : g \notin x3'[q]
                            /\ Xero!Unspent(g)' => x1'.grant # g /\ \A e \in Client : Xero!Holds(e)' => x6'[e].had.grant # g
                BY DEF Xero!SpentOnce
            <4>1. /\ \A r, q \in Server : g \in x3[r] /\ g \in x3[q] => r = q
                  /\ \A e, d \in Client : Xero!Exchanging(e, g) /\ Xero!Exchanging(d, g) => e = d
                  /\ \A e \in Client : Xero!Exchanging(e, g) => g \in x4 /\ \A q \in Server : g \notin x3[q]
                  /\ Xero!Unspent(g) => x1.grant # g /\ \A e \in Client : Xero!Holds(e) => x6[e].had.grant # g
                BY <1>a DEF Xero!SpentOnce
            <4>2. Xero!Unspent(g)' => Xero!Unspent(g)
                BY <2>1, <3>3 DEF Xero!Unspent
            <4> QED BY <2>1, <3>3, <4>1, <4>2
        <3>7. Xero!PairsKnown'
            <4>1. \A d \in Client : x6'[d].at = "exchange" => x6'[d].had.grant > 0
                BY <1>a, <3>1, <3>3 DEF Xero!PairsKnown
            <4>2. \A d \in Client : Xero!Holds(d)' =>
                    /\ x6'[d].had.id > 0 /\ x6'[d].had.grant > 0 /\ x6'[d].had.aged
                    /\ x6'[d].had.pair <= x2'[x6'[d].had.grant]
                    /\ x1'.grant = x6'[d].had.grant /\ x1'.pair = x6'[d].had.pair => x1' = x6'[d].had
                <5> SUFFICES ASSUME NEW d \in Client, Xero!Holds(d)
                             PROVE  /\ x6[d].had.id > 0 /\ x6[d].had.grant > 0 /\ x6[d].had.aged
                                    /\ x6[d].had.pair <= x2'[x6[d].had.grant]
                                    /\ x1.grant = x6[d].had.grant /\ x1.pair = x6[d].had.pair => x1 = x6[d].had
                    BY <2>1, <3>3
                <5>1. /\ x6[d].had.id > 0 /\ x6[d].had.grant > 0 /\ x6[d].had.aged
                      /\ x6[d].had.pair <= x2[x6[d].had.grant]
                      /\ x1.grant = x6[d].had.grant /\ x1.pair = x6[d].had.pair => x1 = x6[d].had
                    BY <1>a DEF Xero!PairsKnown
                <5>2. x6[d].had.grant \in 1..MaxGrant /\ x6[d].had.pair \in Nat
                    BY <5>1, XeroFacts
                <5>3. x6[d].had.pair <= x2'[x6[d].had.grant]
                    <6>1. CASE x6[d].had.grant = h.grant
                        <7>1. x6[d].had.pair <= h.pair /\ x2'[x6[d].had.grant] = h.pair + 1
                            BY <2>3, <3>4, <3>5, <5>1, <6>1
                        <7> QED BY <3>4, <5>2, <7>1
                    <6>2. CASE x6[d].had.grant # h.grant
                        BY <3>5, <5>1, <5>2, <6>2
                    <6> QED BY <6>1, <6>2
                <5> QED BY <5>1, <5>3
            <4>3. x1' = Xero!None \/ (x1'.id > 0 /\ x1'.grant > 0 /\ x1'.pair <= x2'[x1'.grant])
                <5>1. x1 = Xero!None \/ (x1.id > 0 /\ x1.grant > 0 /\ x1.pair <= x2[x1.grant])
                    BY <1>a DEF Xero!PairsKnown
                <5>2. x1.grant \in 0..MaxGrant /\ x1.pair \in Nat
                    BY XeroFacts
                <5> QED BY <2>1, <2>3, <3>4, <3>5, <5>1, <5>2, SMTT(30)
            <4> QED BY <4>1, <4>2, <4>3 DEF Xero!PairsKnown
        <3>8. ASSUME NEW e \in Client, Xero!Holds(e), x6[e].had.grant = h.grant
              PROVE  x6[e].had.pair <= h.pair /\ x6[e].at # "write"
            BY <2>3, <2>b, <3>8
        <3>9. Xero!WriterIsLast'
            <4> SUFFICES ASSUME NEW d \in Client, x6'[d].at = "write"
                         PROVE  /\ x2'[x6'[d].had.grant] = x6'[d].had.pair + 1
                                /\ x1'.grant = x6'[d].had.grant => x1'.pair <= x6'[d].had.pair
                                /\ \A e \in Client : Xero!Holds(e)' /\ x6'[e].had.grant = x6'[d].had.grant =>
                                     x6'[e].had.pair <= x6'[d].had.pair /\ (x6'[e].at = "write" => d = e)
                BY DEF Xero!WriterIsLast
            <4>1. CASE d = c
                <5>1. x1.grant = h.grant => x1.pair <= h.pair
                    BY <1>a, <2>3, <3>4, XeroFacts DEF Xero!PairsKnown
                <5> QED BY <2>1, <3>1, <3>3, <3>4, <3>5, <3>8, <4>1, <5>1
            <4>2. CASE d # c
                <5>1. x6'[d] = x6[d] /\ x6[d].at = "write" /\ Xero!Holds(d)
                    BY <3>3, <4>2 DEF Xero!Holds
                <5>2. /\ x2[x6[d].had.grant] = x6[d].had.pair + 1
                      /\ x1.grant = x6[d].had.grant => x1.pair <= x6[d].had.pair
                      /\ \A e \in Client : Xero!Holds(e) /\ x6[e].had.grant = x6[d].had.grant =>
                                     x6[e].had.pair <= x6[d].had.pair /\ (x6[e].at = "write" => d = e)
                    BY <1>a, <5>1 DEF Xero!WriterIsLast
                <5>3. x6[d].had.grant # h.grant
                    BY <3>8, <5>1
                <5>4. x6[d].had.grant \in 1..MaxGrant
                    BY <1>a, <5>1, XeroFacts DEF Xero!PairsKnown
                <5> QED BY <2>1, <3>1, <3>3, <3>5, <5>1, <5>2, <5>3, <5>4
            <4> QED BY <4>1, <4>2
        <3>10. Xero!OneInFlight'
            BY <1>a, <2>3, <3>3 DEF Xero!OneInFlight
        <3>11. Xero!TokenLives'
            <4>1. CASE x1 = Xero!None \/ Xero!Gone(x1.grant)
                BY <2>1, <2>3, <4>1 DEF Xero!TokenLives, Xero!Gone
            <4>2. CASE x1 # Xero!None /\ Xero!Good(x1.grant, x1.pair) /\ x1.grant = h.grant
                <5>1. x1 = h
                    BY <2>3, <3>4, <4>2 DEF Xero!Good
                <5> QED BY <2>1, <3>1, <3>3, <5>1 DEF Xero!TokenLives, Xero!Saving
            <4>3. CASE x1 # Xero!None /\ Xero!Good(x1.grant, x1.pair) /\ x1.grant # h.grant
                <5>1. x1.grant \in 1..MaxGrant
                    BY <1>a, <4>3, XeroFacts DEF Xero!PairsKnown
                <5> QED BY <2>1, <2>3, <3>5, <4>3, <5>1 DEF Xero!TokenLives, Xero!Good
            <4>4. ASSUME NEW d \in Client, Xero!Saving(d, x1)
                  PROVE  Xero!TokenLives'
                BY <2>1, <3>1, <3>3, <4>4 DEF Xero!TokenLives, Xero!Saving
            <4> QED BY <1>a, <4>1, <4>2, <4>3, <4>4 DEF Xero!TokenLives
        <3> QED BY <1>0, <2>1, <2>3, <3>3, <3>5, <3>6, <3>7, <3>9, <3>10, <3>11, XeroFacts DEF Xero!IInv
    <2> QED BY <1>8, <2>2, <2>3, <2>4 DEF Xero!postToken, Xero!Good, Xero!Go, h
<1>9. ASSUME NEW c \in Client, Xero!SavePair(c)
      PROVE  Xero!IInv'
    <2> DEFINE h == x6[c].had
    <2>1. /\ x2' = x2 /\ x3' = x3 /\ x4' = x4 /\ x8' = x8 /\ x6[c].at = "write" /\ Xero!Settle(c) /\ Xero!Refreshes(c)
          /\ Xero!Holds(c)
        BY <1>9 DEF Xero!SavePair, Xero!Refreshes, Xero!Holds
    <2>2. /\ x6' \in [Client -> XeroCalls] /\ x5' \in [Server -> SUBSET Nat] /\ Xero!OneInFlight'
          /\ \A d \in Client : x6'[d] = x6[d] \/ x6'[d].at = "idle"
          /\ x6'[c].at = "idle"
          /\ \A d \in Client : d # c /\ x6[d].at = "write" => x6'[d] = x6[d]
        BY <2>1, XeroSettles
    <2>3. CASE x1' = x1 /\ x7' = x7 \cup {h.grant}
        <3>1. Xero!SpentOnce' /\ Xero!PairsKnown' /\ Xero!WriterIsLast'
            BY <2>1, <2>2, <2>3, XeroFacts, XeroLess
        <3>2. Xero!TokenLives'
            <4>1. CASE x1.grant = h.grant
                BY <2>3, <4>1 DEF Xero!TokenLives, Xero!Gone
            <4>2. CASE x1.grant # h.grant
                BY <1>a, <2>1, <2>2, <2>3, <4>2 DEF Xero!TokenLives, Xero!Good, Xero!Gone, Xero!Saving
            <4> QED BY <4>1, <4>2
        <3>3. x7' \subseteq 1..MaxGrant
            BY <1>a, <2>1, <2>3, XeroFacts DEF Xero!PairsKnown
        <3> QED BY <1>0, <2>1, <2>2, <2>3, <3>1, <3>2, <3>3, XeroFacts DEF Xero!IInv
    <2>4. CASE x1.id = h.id /\ x1' = Xero!NewPair(h) /\ x7' = x7
        <3>1. x1' = [h EXCEPT !.pair = h.pair + 1, !.aged = FALSE]
            BY <2>4 DEF Xero!NewPair
        <3>2. h.id > 0 /\ h.grant \in 1..MaxGrant /\ h.pair \in Nat /\ x2[h.grant] = h.pair + 1 /\ h \in Xero!Pair
            BY <1>a, <2>1, XeroFacts DEF Xero!PairsKnown, Xero!WriterIsLast
        <3>3. x1' \in Xero!Pair /\ x1'.id = h.id /\ x1'.grant = h.grant /\ x1'.pair = h.pair + 1
            <4>1. PICK n \in Nat : n = h.pair + 1
                BY <3>2
            <4>2. PICK r \in Xero!Pair : r = h
                BY <3>2
            <4>3. x1' = [r EXCEPT !.pair = n, !.aged = FALSE]
                BY <3>1, <4>1, <4>2
            <4>4. /\ [r EXCEPT !.pair = n, !.aged = FALSE] \in Xero!Pair
                  /\ [r EXCEPT !.pair = n, !.aged = FALSE].id = r.id
                  /\ [r EXCEPT !.pair = n, !.aged = FALSE].grant = r.grant
                  /\ [r EXCEPT !.pair = n, !.aged = FALSE].pair = n
                BY DEF Xero!Pair
            <4> QED BY <4>1, <4>2, <4>3, <4>4
        <3>4. /\ Xero!SpentOnce /\ Xero!PairsKnown /\ Xero!WriterIsLast
            BY <1>a
        <3>5. \A d \in Client : /\ Xero!Holds(d)' => Xero!Holds(d) /\ x6'[d] = x6[d] /\ d # c
                                /\ x6'[d].at = "exchange" => x6'[d] = x6[d]
                                /\ x6'[d].at = "write" => x6'[d] = x6[d] /\ Xero!Holds(d)
            BY <2>2 DEF Xero!Holds
        <3>6. Xero!SpentOnce'
            <4> SUFFICES ASSUME NEW g \in 1..MaxGrant
                     PROVE  /\ \A r, q \in Server : g \in x3'[r] /\ g \in x3'[q] => r = q
                            /\ \A e, d \in Client : Xero!Exchanging(e, g)' /\ Xero!Exchanging(d, g)' => e = d
                            /\ \A e \in Client : Xero!Exchanging(e, g)' => g \in x4' /\ \A q \in Server : g \notin x3'[q]
                            /\ Xero!Unspent(g)' => x1'.grant # g /\ \A e \in Client : Xero!Holds(e)' => x6'[e].had.grant # g
                BY DEF Xero!SpentOnce
            <4>1. /\ \A r, q \in Server : g \in x3[r] /\ g \in x3[q] => r = q
                  /\ \A e, d \in Client : Xero!Exchanging(e, g) /\ Xero!Exchanging(d, g) => e = d
                  /\ \A e \in Client : Xero!Exchanging(e, g) => g \in x4 /\ \A q \in Server : g \notin x3[q]
                  /\ Xero!Unspent(g) => x1.grant # g /\ \A e \in Client : Xero!Holds(e) => x6[e].had.grant # g
                BY <1>a DEF Xero!SpentOnce
            <4>2. \A d \in Client : Xero!Exchanging(d, g)' => Xero!Exchanging(d, g)
                BY <3>5 DEF Xero!Exchanging
            <4>3. Xero!Unspent(g)' => Xero!Unspent(g)
                BY <2>1, <4>2 DEF Xero!Unspent
            <4> QED BY <2>1, <3>3, <3>5, <4>1, <4>2, <4>3
        <3>7. ASSUME NEW d \in Client, Xero!Holds(d), d # c, x6[d].had.grant = h.grant
              PROVE  x6[d].had.pair <= h.pair /\ x6[d].at # "write"
            BY <1>a, <2>1, <3>7 DEF Xero!WriterIsLast
        <3>8. Xero!PairsKnown'
            <4>1. \A d \in Client : x6'[d].at = "exchange" => x6'[d].had.grant > 0
                BY <1>a, <3>5 DEF Xero!PairsKnown
            <4>2. ASSUME NEW d \in Client, Xero!Holds(d)'
                  PROVE  /\ x6'[d].had.id > 0 /\ x6'[d].had.grant > 0 /\ x6'[d].had.aged
                         /\ x6'[d].had.pair <= x2'[x6'[d].had.grant]
                         /\ ~(x1'.grant = x6'[d].had.grant /\ x1'.pair = x6'[d].had.pair)
                <5>1. x6'[d] = x6[d] /\ Xero!Holds(d) /\ d # c /\ x6[d].had.pair \in Nat
                    BY <3>5, <4>2, XeroFacts
                <5>2. /\ x6[d].had.id > 0 /\ x6[d].had.grant > 0 /\ x6[d].had.aged
                      /\ x6[d].had.pair <= x2[x6[d].had.grant]
                    BY <1>a, <5>1 DEF Xero!PairsKnown
                <5> QED BY <2>1, <3>2, <3>3, <3>7, <5>1, <5>2
            <4> QED BY <2>1, <3>2, <3>3, <4>1, <4>2 DEF Xero!PairsKnown
        <3>9. Xero!WriterIsLast'
            <4> SUFFICES ASSUME NEW d \in Client, x6'[d].at = "write"
                         PROVE  /\ x2'[x6'[d].had.grant] = x6'[d].had.pair + 1
                                /\ x1'.grant # x6'[d].had.grant
                                /\ \A e \in Client : Xero!Holds(e)' /\ x6'[e].had.grant = x6'[d].had.grant =>
                                     x6'[e].had.pair <= x6'[d].had.pair /\ (x6'[e].at = "write" => d = e)
                BY DEF Xero!WriterIsLast
            <4>1. x6'[d] = x6[d] /\ x6[d].at = "write" /\ Xero!Holds(d) /\ d # c
                BY <2>2, <3>5
            <4>2. /\ x2[x6[d].had.grant] = x6[d].had.pair + 1
                  /\ \A e \in Client : Xero!Holds(e) /\ x6[e].had.grant = x6[d].had.grant =>
                                     x6[e].had.pair <= x6[d].had.pair /\ (x6[e].at = "write" => d = e)
                BY <1>a, <4>1 DEF Xero!WriterIsLast
            <4> QED BY <2>1, <3>3, <3>5, <3>7, <4>1, <4>2
        <3>10. Xero!TokenLives'
            BY <2>1, <3>2, <3>3 DEF Xero!TokenLives, Xero!Good, Xero!Gone
        <3> QED BY <1>0, <2>1, <2>2, <2>4, <3>3, <3>6, <3>8, <3>9, <3>10, XeroFacts DEF Xero!IInv
    <2> QED BY <1>9, <2>3, <2>4 DEF Xero!SavePair
<1>10. ASSUME NEW p \in Server, Xero!Crash(p)
      PROVE  Xero!IInv'
    <2>1. /\ x1' = x1 /\ x2' = x2 /\ x4' = x4 /\ x8' = x8
          /\ x7' = x7 \cup {x6[c].had.grant : c \in {d \in Client : x6[d].in = p /\ x6[d].at = "write"}}
          /\ x6' = [c \in Client |-> IF x6[c].in = p THEN Xero!Idle(p) ELSE x6[c]]
          /\ x5' = [x5 EXCEPT ![p] = {}] /\ x3' = [x3 EXCEPT ![p] = {}]
        BY <1>10 DEF Xero!Crash
    <2>2. /\ x6' \in [Client -> XeroCalls] /\ x5' \in [Server -> SUBSET Nat] /\ x3' \in [Server -> SUBSET x4]
          /\ \A d \in Client : (x6'[d] = x6[d] /\ x6[d].in # p) \/ x6'[d].at = "idle"
          /\ \A d \in Client : x6[d].in # p => x6'[d] = x6[d]
          /\ \A q \in Server : x3'[q] \subseteq x3[q] /\ (q # p => x5'[q] = x5[q])
        BY <2>1, XeroFacts
    <2>3. Xero!SpentOnce' /\ Xero!PairsKnown' /\ Xero!WriterIsLast'
        BY <2>1, <2>2, XeroLess
    <2>4. \A d \in Client : Xero!Refreshes(d)' => Xero!Refreshes(d) /\ x6'[d] = x6[d] /\ x6[d].in # p
        BY <2>2 DEF Xero!Refreshes
    <2>5. Xero!OneInFlight'
        BY <1>a, <2>2, <2>4, XeroFacts DEF Xero!OneInFlight
    <2>6. Xero!TokenLives'
        <3>1. ASSUME NEW c \in Client, x6[c].at = "write", x6[c].had = x1
              PROVE  Xero!TokenLives'
            <4>1. CASE x6[c].in = p
                <5>1. x1.grant \in x7'
                    BY <2>1, <3>1, <4>1
                <5> QED BY <2>1, <5>1 DEF Xero!TokenLives, Xero!Gone
            <4>2. CASE x6[c].in # p
                BY <2>1, <2>2, <3>1, <4>2 DEF Xero!TokenLives, Xero!Saving
            <4> QED BY <4>1, <4>2
        <3>2. CASE x1 = Xero!None \/ Xero!Gone(x1.grant) \/ Xero!Good(x1.grant, x1.pair)
            BY <2>1, <3>2 DEF Xero!TokenLives, Xero!Gone, Xero!Good
        <3> QED BY <1>a, <3>1, <3>2 DEF Xero!TokenLives, Xero!Saving
    <2>7. x7' \subseteq 1..MaxGrant
        <3>1. ASSUME NEW c \in Client, x6[c].at = "write" PROVE x6[c].had.grant \in 1..MaxGrant
            BY <1>a, <3>1, XeroFacts DEF Xero!PairsKnown, Xero!Holds
        <3> QED BY <2>1, <3>1, XeroFacts
    <2> QED BY <1>0, <2>1, <2>2, <2>3, <2>5, <2>6, <2>7, XeroFacts DEF Xero!IInv
<1> QED BY <1>1, <1>2, <1>3, <1>4, <1>5, <1>6, <1>7, <1>8, <1>9, <1>10 DEF Xero!Next

LEMMA XeroInit == Xero!Init => Xero!IInv
<1> SUFFICES ASSUME Xero!Init PROVE Xero!IInv
    OBVIOUS
<1>1. Xero!None \in Xero!Pair /\ Xero!None.grant = 0
    BY RecordsAssumption DEF Xero!None, Xero!Pair
<1>2. \A p \in Server : Xero!Idle(p) \in XeroCalls /\ Xero!Idle(p).at = "idle"
    BY <1>1 DEF Xero!Idle, XeroCalls
<1>3. x6 \in [Client -> XeroCalls] /\ \A c \in Client : x6[c].at = "idle"
    BY <1>2 DEF Xero!Init
<1>4. Xero!TypeOK
    BY <1>1, <1>3 DEF Xero!Init, Xero!TypeOK, XeroCalls
<1>5. Xero!SpentOnce /\ Xero!PairsKnown /\ Xero!WriterIsLast /\ Xero!OneInFlight /\ Xero!TokenLives
    BY <1>1, <1>3 DEF Xero!Init, Xero!SpentOnce, Xero!PairsKnown, Xero!WriterIsLast, Xero!OneInFlight, Xero!TokenLives, Xero!Good, Xero!Gone, Xero!Saving,
       Xero!Exchanging, Xero!Holds, Xero!Refreshes
<1> QED BY <1>4, <1>5 DEF Xero!IInv

LEMMA XeroHolds == Xero!IInv => Xero!StoredTokenLives
<1> SUFFICES ASSUME Xero!IInv PROVE Xero!StoredTokenLives
    OBVIOUS
<1>1. Xero!TokenLives
    BY DEF Xero!IInv
<1>2. ASSUME NEW c \in Client, x6[c].at = "post", x6[c].had = x1, ~Xero!Gone(x1.grant), ~Xero!Good(x1.grant, x1.pair)
      PROVE  \E d \in Client : Xero!Saving(d, x1) /\ x6[d].in # x6[c].in
    <2>1. x1 # Xero!None
        BY <1>2, XeroFacts DEF Xero!IInv, Xero!PairsKnown, Xero!Holds
    <2>2. PICK d \in Client : Xero!Saving(d, x1)
        BY <1>1, <1>2, <2>1 DEF Xero!TokenLives
    <2>3. Xero!Refreshes(c) /\ Xero!Refreshes(d) /\ c # d /\ x6[c].had.id = x6[d].had.id
        BY <1>2, <2>2 DEF Xero!Saving, Xero!Refreshes
    <2>4. x6[d].in # x6[c].in
        BY <2>3 DEF Xero!IInv, Xero!OneInFlight
    <2> QED BY <2>2, <2>4
<1> QED BY <1>1, <1>2 DEF Xero!TokenLives, Xero!StoredTokenLives

(***************************************************************************)
(* BankFeed: the accounts are x2, the lines x3, the requests x4, what       *)
(* people said x5, the accounts they mapped x6.                             *)
(***************************************************************************)
BankLine == [of : Booking \cup {"none"}, class : Bank!Class]
BankCalls == [at : {"idle", "accounts", "sync", "create", "classify"}, line : Line \cup {Bank!Idle.line},
              todo : SUBSET (Account \cup Booking), of : Booking \cup {"none"}]

LEMMA BankFacts ==
    ASSUME Bank!IInv
    PROVE  /\ x2 \in [Account -> {"absent", "unmapped", "mapped"}] /\ x6 \subseteq Account
           /\ x3 \in [Line -> BankLine] /\ x5 \in [Booking -> Bank!Class] /\ x4 \in [Client -> BankCalls]
           /\ \A c \in Client : /\ x4[c].at \in {"idle", "accounts", "sync", "create", "classify"}
                                /\ x4[c].at = "accounts" => x4[c].todo \subseteq Account
                                /\ x4[c].at \in {"sync", "create"} => x4[c].todo \subseteq Booking
                                /\ x4[c].at = "create" => x4[c].of \in Booking
                                /\ x4[c].at = "classify" => x4[c].line \in Line /\ x3[x4[c].line].of # "none"
           /\ \A l \in Line : x3[l].of \in Booking \cup {"none"} /\ x3[l].class \in Bank!Class
           /\ \A l \in Line : x3[l].of = "none" <=> x3[l] = Bank!NoLine
           /\ Bank!LinesTell /\ Bank!DealsStay
           /\ Bank!Idle \in BankCalls /\ Bank!Idle.at = "idle"
<1>1. Bank!Idle \in BankCalls /\ Bank!Idle.at = "idle"
    BY DEF Bank!Idle, BankCalls
<1>2. \A l \in Line : x3[l].of = "none" <=> x3[l] = Bank!NoLine
    BY DEF Bank!IInv, Bank!LinesTell, Bank!NoLine
<1>3. x4 \in [Client -> BankCalls] /\ x3 \in [Line -> BankLine]
    BY DEF Bank!IInv, Bank!TypeOK, BankCalls, BankLine
<1>4. /\ \A c \in Client : x4[c].at \in {"idle", "accounts", "sync", "create", "classify"}
      /\ \A l \in Line : x3[l].of \in Booking \cup {"none"} /\ x3[l].class \in Bank!Class
    BY <1>3 DEF BankCalls, BankLine
<1> QED BY <1>1, <1>2, <1>3, <1>4 DEF Bank!IInv, Bank!TypeOK, Bank!CallsHold

\* A request begins, moves on or ends.
LEMMA BankMoves ==
    ASSUME Bank!IInv, NEW c \in Client, NEW k \in BankCalls, x4' = [x4 EXCEPT ![c] = k],
           \A l \in Line : x3[l].of # "none" => x3'[l].of # "none",
           k.at = "accounts" => k.todo \subseteq Account,
           k.at \in {"sync", "create"} => k.todo \subseteq Booking,
           k.at = "create" => k.of \in Booking,
           k.at = "classify" => k.line \in Line /\ x3'[k.line].of # "none"
    PROVE  x4' \in [Client -> BankCalls] /\ Bank!CallsHold'
<1>1. x4' \in [Client -> BankCalls] /\ \A d \in Client : x4'[d] = IF d = c THEN k ELSE x4[d]
    BY BankFacts
<1> QED BY <1>1, BankFacts DEF Bank!CallsHold

LEMMA BankStep ==
    ASSUME Bank!IInv, [Bank!Next]_(Bank!vars)
    PROVE  Bank!IInv'
<1> DEFINE Calls == x4' \in [Client -> BankCalls] /\ Bank!CallsHold'
<1>0. ASSUME x2' \in [Account -> {"absent", "unmapped", "mapped"}], x6' \subseteq Account,
             x3' \in [Line -> BankLine], x5' \in [Booking -> Bank!Class], Calls, Bank!LinesTell', Bank!DealsStay'
      PROVE  Bank!IInv'
    <2>1. Bank!TypeOK'
        BY <1>0 DEF Bank!TypeOK, BankCalls, BankLine, Bank!Idle
    <2> QED BY <1>0, <2>1 DEF Bank!IInv
<1>a. ASSUME x3' = x3, x5' = x5 PROVE Bank!LinesTell'
    BY <1>a, BankFacts DEF Bank!LinesTell, Bank!Imported
<1>b. ASSUME x3' = x3, x5' = x5, x2' = x2, x6' = x6, Calls PROVE Bank!IInv'
    BY <1>0, <1>a, <1>b, BankFacts DEF Bank!DealsStay
<1>1. CASE UNCHANGED <<x2, x3, x4, x5, x6>>
    <2>1. x2' = x2 /\ x3' = x3 /\ x4' = x4 /\ x5' = x5 /\ x6' = x6
        BY <1>1
    <2>2. Calls
        BY <2>1, BankFacts DEF Bank!CallsHold
    <2> QED BY <1>b, <2>1, <2>2
<1>2. ASSUME NEW c \in Client, Bank!complete(c)
      PROVE  Bank!IInv'
    <2> DEFINE k == [Bank!Idle EXCEPT !.at = "accounts", !.todo = Account]
    <2>1. k \in BankCalls /\ k.at = "accounts" /\ k.todo = Account
        BY DEF BankCalls, Bank!Idle
    <2>2. /\ x2' = x2 /\ x3' = x3 /\ x5' = x5 /\ x6' = x6 /\ x4' = [x4 EXCEPT ![c] = k]
        BY <1>2 DEF Bank!complete, Bank!Go
    <2> HIDE DEF k
    <2>3. Calls
        BY <2>1, <2>2, BankMoves
    <2> QED BY <1>b, <2>2, <2>3
<1>3. ASSUME NEW c \in Client, Bank!AddAccount(c)
      PROVE  Bank!IInv'
    <2>1. PICK a \in x4[c].todo :
             /\ x2' = [x2 EXCEPT ![a] = IF x1 = "none" THEN @ ELSE Bank!Upserted(a)]
             /\ x4' = [x4 EXCEPT ![c] = IF @.todo = {a} \/ x1 = "none" THEN Bank!Idle
                                            ELSE [x4[c] EXCEPT !.todo = x4[c].todo \ {a}]]
        BY <1>3 DEF Bank!AddAccount
    <2>2. /\ x3' = x3 /\ x5' = x5 /\ x6' = x6 /\ x4[c].at = "accounts" /\ a \in Account
        BY <1>3, BankFacts DEF Bank!AddAccount
    <2>3. /\ x2' \in [Account -> {"absent", "unmapped", "mapped"}]
          /\ \A b \in Account : x2'[b] = "mapped" <=> x2[b] = "mapped"
        BY <2>1, <2>2, BankFacts DEF Bank!Upserted
    <2>4. Bank!DealsStay'
        BY <2>2, <2>3, BankFacts DEF Bank!DealsStay
    <2>5. PICK r \in BankCalls : r = x4[c] /\ r.at = "accounts" /\ r.todo \subseteq Account
        BY <2>2, BankFacts
    <2> DEFINE k == [r EXCEPT !.todo = r.todo \ {a}]
    <2>6. k \in BankCalls /\ k.at = "accounts" /\ k.todo \subseteq Account
        BY <2>5 DEF BankCalls
    <2>7. x4' = [x4 EXCEPT ![c] = Bank!Idle] \/ x4' = [x4 EXCEPT ![c] = k]
        BY <2>1, <2>5
    <2> HIDE DEF k
    <2>8. Calls
        <3> DEFINE i == Bank!Idle
        <3>1. i \in BankCalls /\ i.at = "idle" 
            BY BankFacts
        <3>2. x4' = [x4 EXCEPT ![c] = i] \/ x4' = [x4 EXCEPT ![c] = k]
            BY <2>7
        <3> HIDE DEF i
        <3> QED BY <2>2, <2>6, <3>1, <3>2, BankMoves
    <2> QED BY <1>0, <1>a, <2>2, <2>3, <2>4, <2>8, BankFacts
<1>4. ASSUME NEW a \in Account, NEW deal \in {"mapped", "unmapped"}, Bank!mapAccount(a, deal)
      PROVE  Bank!IInv'
    <2>1. /\ x3' = x3 /\ x5' = x5 /\ x4' = x4
          /\ x2' = [x2 EXCEPT ![a] = deal]
          /\ x6' = IF deal = "mapped" THEN x6 \cup {a} ELSE x6 \ {a}
        BY <1>4 DEF Bank!mapAccount
    <2>2. Calls
        BY <2>1, BankFacts DEF Bank!CallsHold
    <2>3. /\ x2' \in [Account -> {"absent", "unmapped", "mapped"}] /\ x6' \subseteq Account
          /\ \A b \in Account : x2'[b] = IF b = a THEN deal ELSE x2[b]
        BY <2>1, BankFacts
    <2>4. Bank!DealsStay'
        BY <2>1, <2>3, BankFacts DEF Bank!DealsStay
    <2> QED BY <1>0, <1>a, <2>1, <2>2, <2>3, <2>4, BankFacts
<1>5. ASSUME NEW c \in Client, Bank!StartSync(c)
      PROVE  Bank!IInv'
    <2>1. PICK S \in SUBSET Booking : x4' = [x4 EXCEPT ![c] = [Bank!Idle EXCEPT !.at = "sync", !.todo = S]]
        BY <1>5 DEF Bank!StartSync, Bank!Go
    <2> DEFINE k == [Bank!Idle EXCEPT !.at = "sync", !.todo = S]
    <2>2. k \in BankCalls /\ k.at = "sync" /\ k.todo = S
        BY DEF BankCalls, Bank!Idle
    <2>3. /\ x2' = x2 /\ x3' = x3 /\ x5' = x5 /\ x6' = x6 /\ x4' = [x4 EXCEPT ![c] = k]
        BY <1>5, <2>1 DEF Bank!StartSync
    <2> HIDE DEF k
    <2>4. Calls
        BY <2>2, <2>3, BankMoves
    <2> QED BY <1>b, <2>3, <2>4
<1>6. ASSUME NEW c \in Client, Bank!Look(c)
      PROVE  Bank!IInv'
    <2>1. /\ x2' = x2 /\ x3' = x3 /\ x5' = x5 /\ x6' = x6 /\ x4[c].at = "sync"
        BY <1>6 DEF Bank!Look
    <2>2. PICK r \in BankCalls : r = x4[c] /\ r.at = "sync" /\ r.todo \subseteq Booking
        BY <2>1, BankFacts
    <2>3. PICK k \in BankCalls : /\ x4' = [x4 EXCEPT ![c] = k]
                                 /\ k.at = "idle" \/ (k.at \in {"sync", "create"} /\ k.todo \subseteq Booking /\ k.of \in Booking)
        <3>1. CASE r.todo = {}
            <4>1. x4' = [x4 EXCEPT ![c] = Bank!Idle]
                BY <1>6, <2>2, <3>1 DEF Bank!Look, Bank!Rest
            <4> QED BY <4>1, BankFacts
        <3>2. CASE r.todo # {}
            <4>1. PICK b \in r.todo, at \in {"sync", "create"} :
                     x4' = [x4 EXCEPT ![c].todo = @ \ {b}, ![c].of = b, ![c].at = at]
                BY <1>6, <2>2, <3>2 DEF Bank!Look
            <4> DEFINE k == [r EXCEPT !.todo = r.todo \ {b}, !.of = b, !.at = at]
            <4>2. x4' = [x4 EXCEPT ![c] = k]
                BY <2>2, <4>1
            <4>3. k \in BankCalls /\ k.at = at /\ k.todo = r.todo \ {b} /\ k.of = b /\ b \in Booking
                BY <2>2 DEF BankCalls
            <4> HIDE DEF k
            <4> QED BY <2>2, <4>2, <4>3
        <3> QED BY <3>1, <3>2
    <2>4. Calls
        BY <2>1, <2>3, BankMoves
    <2> QED BY <1>b, <2>1, <2>4
<1>7. ASSUME NEW c \in Client, Bank!syncBank(c)
      PROVE  Bank!IInv'
    <2>1. /\ x2' = x2 /\ x5' = x5 /\ x6' = x6 /\ x4[c].at = "create"
        BY <1>7 DEF Bank!syncBank
    <2>2. PICK r \in BankCalls : r = x4[c] /\ r.todo \subseteq Booking /\ r.of \in Booking
        BY <2>1, BankFacts
    <2>3. PICK b \in Booking : b = r.of
        BY <2>2
    <2>4. CASE Bank!Imported(b)
        <3> DEFINE i == Bank!Idle
        <3>1. i \in BankCalls /\ i.at = "idle" 
            BY BankFacts
        <3>2. x4' = [x4 EXCEPT ![c] = i] /\ x3' = x3
            BY <1>7, <2>2, <2>3, <2>4 DEF Bank!syncBank, Bank!Held, Bank!Rest
        <3> HIDE DEF i
        <3>3. Calls
            BY <3>1, <3>2, BankMoves
        <3> QED BY <1>b, <2>1, <3>2, <3>3
    <2>5. CASE ~Bank!Imported(b)
        <3>1. PICK l \in Line : x3[l] = Bank!NoLine /\ x3' = [x3 EXCEPT ![l].of = b]
            BY <1>7, <2>2, <2>3, <2>5 DEF Bank!syncBank, Bank!Held
        <3> DEFINE k == [r EXCEPT !.at = "sync"]
                   t == [of |-> b, class |-> "unclassified"]
        <3>2. k \in BankCalls /\ k.at = "sync" /\ k.todo = r.todo
            BY DEF BankCalls
        <3>3. x4' = [x4 EXCEPT ![c] = k]
            BY <1>7, <2>2, <2>3, <2>5 DEF Bank!syncBank, Bank!Held
        <3>4. x3' = [x3 EXCEPT ![l] = t]
            <4>1. [Bank!NoLine EXCEPT !.of = b] = t
                BY DEF Bank!NoLine
            <4> QED BY <3>1, <4>1
        <3>5. t \in BankLine /\ t.of = b /\ t.class = "unclassified" /\ b # "none"
            BY RecordsAssumption DEF BankLine, Bank!Class
        <3> HIDE DEF k, t
        <3>6. /\ x3' \in [Line -> BankLine]
              /\ \A m \in Line : x3'[m] = IF m = l THEN t ELSE x3[m]
            BY <3>4, <3>5, BankFacts
        <3>7. Calls
            BY <2>2, <3>2, <3>3, <3>5, <3>6, BankMoves
        <3>8. /\ \A m \in Line : x3[m].of # b
              /\ x5[b] = "unclassified" /\ x3[l].of = "none"
            BY <2>5, <3>1, BankFacts DEF Bank!LinesTell, Bank!Imported
        <3>9. /\ \A m \in Line : x3'[m].of = "none" => x3'[m] = Bank!NoLine
              /\ \A m, n \in Line : x3'[m].of # "none" /\ x3'[m].of = x3'[n].of => m = n
              /\ \A m \in Line : x3'[m].of # "none" => x3'[m].class = x5'[x3'[m].of]
            BY <2>1, <3>5, <3>6, <3>8, BankFacts DEF Bank!LinesTell
        <3>10. ASSUME NEW a \in Booking, Bank!Imported(a) PROVE Bank!Imported(a)'
            <4>1. PICK m \in Line : x3[m].of = a
                BY <3>10 DEF Bank!Imported
            <4>2. m # l
                BY <3>8, <4>1, RecordsAssumption
            <4>3. x3'[m].of = a
                BY <3>6, <4>1, <4>2
            <4> QED BY <4>3 DEF Bank!Imported
        <3>11. Bank!LinesTell'
            BY <2>1, <3>9, <3>10, BankFacts DEF Bank!LinesTell
        <3> QED BY <1>0, <2>1, <3>6, <3>7, <3>11, BankFacts DEF Bank!DealsStay
    <2> QED BY <2>4, <2>5
<1>8. ASSUME NEW c \in Client, Bank!classify(c)
      PROVE  Bank!IInv'
    <2>1. x2' = x2 /\ x6' = x6
        BY <1>8 DEF Bank!classify
    <2>2. ASSUME NEW l \in Line, x3[l] # Bank!NoLine, x3' = x3, x5' = x5,
                 Bank!Go(c, [Bank!Idle EXCEPT !.at = "classify", !.line = l])
          PROVE  Bank!IInv'
        <3> DEFINE k == [Bank!Idle EXCEPT !.at = "classify", !.line = l]
        <3>1. k \in BankCalls /\ k.at = "classify" /\ k.line = l
            BY DEF BankCalls, Bank!Idle
        <3>2. x4' = [x4 EXCEPT ![c] = k]
            BY <2>2 DEF Bank!Go
        <3> HIDE DEF k
        <3>3. x3[l].of # "none"
            BY <2>2, BankFacts
        <3>4. Calls
            BY <2>2, <3>1, <3>2, <3>3, BankMoves
        <3> QED BY <1>b, <2>1, <2>2, <3>4
    <2>3. ASSUME x4[c].at = "classify", NEW q \in Bank!Classes, x3' = [x3 EXCEPT ![x4[c].line].class = q],
                 x5' = [x5 EXCEPT ![x3[x4[c].line].of] = q], Bank!Rest(c)
          PROVE  Bank!IInv'
        <3>1. PICK l \in Line : l = x4[c].line /\ x3[l].of # "none"
            BY <2>3, BankFacts
        <3>2. PICK b \in Booking : b = x3[l].of
            BY <3>1, BankFacts
        <3>3. PICK s \in BankLine : s = x3[l]
            BY BankFacts
        <3> DEFINE t == [s EXCEPT !.class = q]
                   i == Bank!Idle
        <3>4. x3' = [x3 EXCEPT ![l] = t] /\ x5' = [x5 EXCEPT ![b] = q] /\ x4' = [x4 EXCEPT ![c] = i]
            BY <2>3, <3>1, <3>2, <3>3 DEF Bank!Rest
        <3>5. t \in BankLine /\ t.of = b /\ t.class = q /\ q \in Bank!Class
            BY <3>2, <3>3 DEF BankLine, Bank!Class
        <3>6. i \in BankCalls /\ i.at = "idle" 
            BY BankFacts
        <3> HIDE DEF t, i
        <3>7. /\ x3' \in [Line -> BankLine]
              /\ \A m \in Line : x3'[m] = IF m = l THEN t ELSE x3[m]
              /\ x5' \in [Booking -> Bank!Class]
              /\ \A a \in Booking : x5'[a] = IF a = b THEN q ELSE x5[a]
            BY <3>4, <3>5, BankFacts
        <3>8. \A m \in Line : x3'[m].of = x3[m].of
            BY <3>2, <3>5, <3>7
        <3>9. Calls
            BY <3>4, <3>6, <3>8, BankMoves
        <3>10. b # "none"
            BY RecordsAssumption
        <3>11. /\ \A m \in Line : x3'[m].of = "none" => x3'[m] = Bank!NoLine
               /\ \A m, n \in Line : x3'[m].of # "none" /\ x3'[m].of = x3'[n].of => m = n
               /\ \A m \in Line : x3'[m].of # "none" => x3'[m].class = x5'[x3'[m].of]
            BY <3>2, <3>5, <3>7, <3>8, <3>10, BankFacts DEF Bank!LinesTell
        <3>12. \A a \in Booking : ~Bank!Imported(a)' => ~Bank!Imported(a) /\ a # b
            BY <3>2, <3>8 DEF Bank!Imported
        <3>13. Bank!LinesTell'
            BY <3>7, <3>11, <3>12, BankFacts DEF Bank!LinesTell
        <3> QED BY <1>0, <2>1, <3>7, <3>9, <3>13, BankFacts DEF Bank!DealsStay
    <2> QED BY <1>8, <2>2, <2>3 DEF Bank!classify
<1>9. (Bank!Lapse \/ Bank!disconnect \/ UNCHANGED Bank!vars) => UNCHANGED <<x2, x3, x4, x5, x6>>
    BY DEF Bank!Lapse, Bank!disconnect, Bank!vars
<1> QED BY <1>1, <1>2, <1>3, <1>4, <1>5, <1>6, <1>7, <1>8, <1>9 DEF Bank!Next

LEMMA BankInit == Bank!Init => Bank!IInv
<1> SUFFICES ASSUME Bank!Init PROVE Bank!IInv
    OBVIOUS
<1>1. Bank!Idle \in BankCalls /\ Bank!Idle.at = "idle"
    BY DEF Bank!Idle, BankCalls
<1>2. Bank!NoLine \in BankLine /\ Bank!NoLine.of = "none"
    BY DEF Bank!NoLine, BankLine, Bank!Class
<1>3. x4 \in [Client -> BankCalls] /\ x3 \in [Line -> BankLine] /\ x5 \in [Booking -> Bank!Class]
    BY <1>1, <1>2 DEF Bank!Init, Bank!Class
<1>4. Bank!TypeOK
    BY <1>3 DEF Bank!Init, Bank!TypeOK, BankCalls, BankLine
<1>5. Bank!LinesTell /\ Bank!CallsHold /\ Bank!DealsStay
    BY <1>1, <1>2 DEF Bank!Init, Bank!LinesTell, Bank!CallsHold, Bank!DealsStay
<1> QED BY <1>4, <1>5 DEF Bank!IInv

LEMMA BankHolds == Bank!IInv => Bank!CountedOnce
<1> SUFFICES ASSUME Bank!IInv PROVE Bank!CountedOnce
    OBVIOUS
<1>1. \A S : Bank!Cardinality(S) = Cardinality(S)
    BY DEF Cardinality, Bank!Cardinality
<1>2. ASSUME NEW b \in Booking
      PROVE  Cardinality({l \in Line : x3[l].of = b}) <= 1
    <2> DEFINE S == {l \in Line : x3[l].of = b}
    <2>1. \A l, m \in S : l = m
        BY BankFacts, RecordsAssumption DEF Bank!LinesTell
    <2>2. CASE S = {}
        BY <2>2, FS_EmptySet
    <2>3. CASE S # {}
        <3>1. PICK l \in S : TRUE
            BY <2>3
        <3>2. S = {l}
            BY <2>1, <3>1
        <3> HIDE DEF S
        <3>3. Cardinality(S) = 1
            BY <3>2, FS_Singleton
        <3> QED BY <3>3 DEF S
    <2> QED BY <2>2, <2>3
<1> QED BY <1>1, <1>2, BankFacts DEF Bank!LinesTell, Bank!DealsStay, Bank!CountedOnce, Bank!Opened

(***************************************************************************)
(* SourceCache: time is x1, the version last published x3, when each was x4, *)
(* the row x5, the refreshes under way x7 and the readers x8.               *)
(***************************************************************************)
\* What the place of a reader says of its locals.
LEMMA SourcesReading ==
    ASSUME NEW k \in Sources!Reading
    PROVE  /\ k.at \in {"found", "ask", "refresh", "write"} => k.on \in Unit
           /\ k.at = "found" => k.seen \in Sources!Stamped
           /\ k.at = "write" => k.value \in 1..x3 /\ k.back \in BOOLEAN
           /\ k.at = "refresh" => k.value \in 1..x3
           /\ k.at \in {"idle", "found", "ask", "refresh", "write", "told"}
           /\ k.said \in {"nothing", "slow", "ok", "error", "absent"}
<1>1. CASE k = Sources!Idle
    BY <1>1 DEF Sources!Idle
<1>2. CASE k # Sources!Idle
    BY <1>2 DEF Sources!Reading
<1> QED BY <1>1, <1>2

LEMMA SourcesFacts ==
    ASSUME Sources!IInv
    PROVE  /\ x1 \in Nat /\ x3 \in 1..MaxVersion /\ x4 \in [1..MaxVersion -> Nat] /\ x5 \in Sources!Stamped
           /\ x2 \in {"found", "absent", "down"}
           /\ x7 \in [Unit -> BOOLEAN] /\ x8 \in [Client -> Sources!Reading]
           /\ \A r \in Client : x8[r] \in Sources!Reading
           /\ Sources!AllPublished /\ Sources!RefreshKnown
    BY DEF Sources!IInv, Sources!TypeOK

LEMMA SourcesTimes ==
    ASSUME Sources!IInv
    PROVE  /\ x1 \in Nat /\ x3 \in Nat \ {0} /\ x3 <= MaxVersion /\ MaxVersion \in Nat
           /\ x5.at \in Nat /\ x5.at <= x1
           /\ \A v \in 1..x3 : x4[v] \in Nat /\ x4[v] <= x1
           /\ \A r \in Client : x8[r].at = "found" => x8[r].seen.at \in Nat /\ x8[r].seen.at <= x1
           /\ \A r \in Client : Sources!Behind(r) => x8[r].on \in Unit
<1>1. x1 \in Nat /\ x3 \in 1..MaxVersion /\ MaxVersion \in Nat
    BY SourcesFacts, RecordsAssumption
<1>2. \A r \in Client : x8[r].at = "found" => x8[r].seen.at \in Nat
    BY SourcesFacts, SourcesReading DEF Sources!Stamped
<1>3. \A r \in Client : Sources!Behind(r) => x8[r].on \in Unit
    BY SourcesFacts, SourcesReading DEF Sources!Behind
<1>4. x5.at \in Nat
    BY SourcesFacts DEF Sources!Stamped
<1>5. x3 \in Nat \ {0} /\ x3 <= MaxVersion /\ 1..x3 \subseteq 1..MaxVersion
    BY <1>1
<1>6. \A v \in 1..x3 : x4[v] \in Nat
    BY <1>5, SourcesFacts
<1> QED BY <1>1, <1>2, <1>3, <1>4, <1>5, <1>6, SourcesFacts DEF Sources!AllPublished

\* A reader moves: what the others hold stands.
LEMMA SourcesMoves ==
    ASSUME Sources!IInv, NEW r \in Client, NEW k \in Sources!Reading, x8' = [x8 EXCEPT ![r] = k],
           UNCHANGED <<x1, x2, x3, x4>>,
           x5' \in Sources!Stamped, Sources!Dated(x5'), x5'.at <= x1,
           x7' \in [Unit -> BOOLEAN],
           k.at = "found" => Sources!Dated(k.seen) /\ k.seen.at <= x1,
           k.at = "refresh" \/ (k.at = "told" /\ k.said = "ok") => Sources!Published(k.value, k.asAt),
           \A q \in Client \ {r} : Sources!Behind(q) => x7'[x8[q].on],
           k.at = "refresh" \/ (k.at = "write" /\ k.back) =>
               x7'[k.on] /\ \A q \in Client \ {r} : Sources!Behind(q) => x8[q].on # k.on
    PROVE  Sources!IInv'
<1>1. x1' = x1 /\ x2' = x2 /\ x3' = x3 /\ x4' = x4
    OBVIOUS
<1>2. x8' \in [Client -> Sources!Reading] /\ \A q \in Client : x8'[q] = IF q = r THEN k ELSE x8[q]
    BY SourcesFacts
<1>3. Sources!TypeOK'
    <2>1. Sources!Reading' = Sources!Reading /\ Sources!Stamped' = Sources!Stamped
        BY <1>1 DEF Sources!Reading, Sources!Stamped, Sources!Idle
    <2> QED BY <1>1, <1>2, <2>1, SourcesFacts DEF Sources!TypeOK
<1>4. Sources!AllPublished'
    BY <1>1, <1>2, SourcesFacts DEF Sources!AllPublished, Sources!Dated, Sources!Published
<1>5. Sources!RefreshKnown'
    <2>1. \A q \in Client : Sources!Behind(q)' <=>
             IF q = r THEN k.at = "refresh" \/ (k.at = "write" /\ k.back) ELSE Sources!Behind(q)
        BY <1>2 DEF Sources!Behind
    <2> QED BY <1>2, <2>1, SourcesFacts DEF Sources!RefreshKnown
<1> QED BY <1>3, <1>4, <1>5 DEF Sources!IInv

LEMMA SourcesStep ==
    ASSUME Sources!IInv, [Sources!Next]_(Sources!vars)
    PROVE  Sources!IInv'
<1>0. CASE UNCHANGED <<x1, x2, x3, x4, x5, x7, x8>>
    <2>1. x1' = x1 /\ x2' = x2 /\ x3' = x3 /\ x4' = x4 /\ x5' = x5 /\ x7' = x7 /\ x8' = x8
        BY <1>0
    <2> QED BY <2>1, SourcesFacts DEF Sources!IInv, Sources!TypeOK, Sources!Reading, Sources!Stamped, Sources!Idle,
            Sources!AllPublished, Sources!Dated, Sources!Published, Sources!RefreshKnown, Sources!Behind, Sources!NoRow
<1>1. CASE Sources!Tick \/ Sources!Prune
    <2>1. /\ x2' = x2 /\ x3' = x3 /\ x4' = x4 /\ x7' = x7 /\ x8' = x8
          /\ (x1' = x1 + 1 /\ x5' = x5) \/ (x1' = x1 /\ x5' = Sources!NoRow)
        BY <1>1 DEF Sources!Tick, Sources!Prune
    <2>3. x1' \in Nat /\ x1 <= x1'
        BY <2>1, SourcesTimes
    <2>2. x5' \in Sources!Stamped /\ Sources!Dated(x5)' /\ x5'.at <= x1'
        <3>1. Sources!NoRow \in Sources!Stamped /\ Sources!NoRow.at = 0
            BY SourcesTimes DEF Sources!NoRow, Sources!Stamped
        <3>2. x5' = x5 \/ x5' = Sources!NoRow
            BY <2>1
        <3>3. x5' \in Sources!Stamped
            BY <3>1, <3>2, SourcesFacts
        <3>4. Sources!Dated(x5)'
            BY <2>1, <3>2, SourcesFacts DEF Sources!Dated, Sources!AllPublished, Sources!Published, Sources!NoRow
        <3>5. x5'.at <= x1'
            BY <2>3, <3>1, <3>2, SourcesTimes
        <3> QED BY <3>3, <3>4, <3>5
    <2>4. Sources!TypeOK'
        BY <2>1, <2>2, <2>3, SourcesFacts DEF Sources!TypeOK, Sources!Reading, Sources!Stamped, Sources!Idle
    <2>5. /\ \A v \in 1..x3 : x4[v] <= x1'
          /\ \A r \in Client : x8[r].at = "found" => x8[r].seen.at <= x1'
        BY <2>3, SourcesTimes
    <2>6. Sources!AllPublished'
        BY <2>1, <2>2, <2>5, SourcesFacts DEF Sources!AllPublished, Sources!Dated, Sources!Published, Sources!NoRow
    <2>7. Sources!RefreshKnown'
        BY <2>1, SourcesFacts DEF Sources!RefreshKnown, Sources!Behind
    <2> QED BY <2>4, <2>6, <2>7 DEF Sources!IInv
<1>2. ASSUME NEW s \in {"found", "absent", "down"}, Sources!Change(s)
      PROVE  Sources!IInv'
    <2>1. x1' = x1 /\ x2' = s /\ x5' = x5 /\ x7' = x7 /\ x8' = x8
        BY <1>2 DEF Sources!Change
    <2>2. \/ x3' = x3 + 1 /\ x3 < MaxVersion /\ x4' = [x4 EXCEPT ![x3 + 1] = x1]
          \/ x3' = x3 /\ x4' = x4
        BY <1>2 DEF Sources!Change
    <2>3. /\ x3' \in 1..MaxVersion /\ x4' \in [1..MaxVersion -> Nat] /\ x3 <= x3'
          /\ \A v \in 1..x3 : v \in 1..x3' /\ x4'[v] = x4[v]
          /\ \A v \in 1..x3' : x4'[v] <= x1
        <3>1. x4 \in [1..MaxVersion -> Nat]
            BY SourcesFacts
        <3>2. x1 \in Nat /\ x3 \in Nat \ {0} /\ x3 <= MaxVersion /\ MaxVersion \in Nat /\ \A v \in 1..x3 : x4[v] <= x1
            BY SourcesTimes
        <3>3. CASE x3' = x3 /\ x4' = x4
            BY <3>1, <3>2, <3>3
        <3>4. CASE x3' = x3 + 1 /\ x3 < MaxVersion /\ x4' = [x4 EXCEPT ![x3 + 1] = x1]
            <4>1. x3 + 1 \in 1..MaxVersion /\ x4'[x3 + 1] = x1 /\ \A v \in 1..x3 : x4'[v] = x4[v]
                BY <3>1, <3>2, <3>4
            <4>2. x4' \in [1..MaxVersion -> Nat]
                BY <3>1, <3>2, <3>4
            <4>3. \A v \in 1..x3' : v \in 1..x3 \/ v = x3 + 1
                BY <3>2, <3>4
            <4> QED BY <3>2, <3>4, <4>1, <4>2, <4>3
        <3> QED BY <2>2, <3>3, <3>4
    <2>4. \A v, at : Sources!Published(v, at) => Sources!Published(v, at)'
        BY <2>3 DEF Sources!Published
    <2>5. 1..x3 \subseteq 1..x3' /\ 0..x3 \subseteq 0..x3'
        <3>1. x3 \in Int /\ x3' \in Int /\ x3 <= x3'
            BY <2>3, SourcesTimes
        <3> QED BY <3>1
    <2>6. Sources!Stamped \subseteq Sources!Stamped'
        BY <2>5 DEF Sources!Stamped
    <2>7. \A k \in Sources!Reading : k \in Sources!Reading'
        BY <2>5, <2>6 DEF Sources!Reading, Sources!Idle
    <2>8. Sources!TypeOK'
        BY <1>2, <2>1, <2>3, <2>6, <2>7, SourcesFacts DEF Sources!TypeOK
    <2>9. Sources!AllPublished'
        BY <2>1, <2>3, <2>4, SourcesFacts DEF Sources!AllPublished, Sources!Dated, Sources!NoRow
    <2>10. Sources!RefreshKnown'
        BY <2>1, SourcesFacts DEF Sources!RefreshKnown, Sources!Behind
    <2> QED BY <2>8, <2>9, <2>10 DEF Sources!IInv
<1>3. ASSUME NEW s \in Unit, Sources!Restart(s)
      PROVE  Sources!IInv'
    <2> DEFINE Gone(r) == x8[r].at \notin {"idle", "told"} /\ x8[r].on = s
    <2>1. /\ x1' = x1 /\ x2' = x2 /\ x3' = x3 /\ x4' = x4 /\ x5' = x5 /\ x7' = [x7 EXCEPT ![s] = FALSE]
          /\ \A r \in Client : x8'[r] = IF Gone(r) THEN Sources!Idle ELSE x8[r]
          /\ x8' = [r \in Client |-> IF Gone(r) THEN Sources!Idle ELSE x8[r]]
        BY <1>3 DEF Sources!Restart
    <2>2. Sources!Idle \in Sources!Reading /\ Sources!Idle.at = "idle"
        BY DEF Sources!Reading, Sources!Idle
    <2>3. x8' \in [Client -> Sources!Reading] /\ x7' \in [Unit -> BOOLEAN]
        BY <2>1, <2>2, SourcesFacts
    <2>4. Sources!TypeOK'
        <3>1. Sources!Reading' = Sources!Reading /\ Sources!Stamped' = Sources!Stamped
            BY <2>1 DEF Sources!Reading, Sources!Stamped, Sources!Idle
        <3> QED BY <2>1, <2>3, <3>1, SourcesFacts DEF Sources!TypeOK
    <2>5. Sources!AllPublished'
        BY <2>1, <2>2, SourcesFacts DEF Sources!AllPublished, Sources!Dated, Sources!Published
    <2>6. \A r \in Client : Sources!Behind(r)' => Sources!Behind(r) /\ x8'[r] = x8[r] /\ x8[r].on # s
        BY <2>1, <2>2 DEF Sources!Behind
    <2>7. Sources!RefreshKnown'
        <3>1. \A t \in Unit : t # s => (x7'[t] <=> x7[t])
            BY <2>1, SourcesFacts
        <3> QED BY <2>6, <3>1, SourcesFacts, SourcesTimes DEF Sources!RefreshKnown
    <2> QED BY <2>4, <2>5, <2>7 DEF Sources!IInv
\* A step of one reader, who rests nothing on the row but what it held, and starts no refresh.
<1>4. ASSUME NEW r \in Client, NEW s \in Unit, Sources!Find(r, s)
      PROVE  Sources!IInv'
    <2>1. PICK seen \in {x5, Sources!NoRow} :
             x8' = [x8 EXCEPT ![r] = [at |-> "found", on |-> s, seen |-> seen, said |-> "nothing"]]
        BY <1>4 DEF Sources!Find, Sources!Becomes
    <2> DEFINE k == [at |-> "found", on |-> s, seen |-> seen, said |-> "nothing"]
    <2>2. seen \in Sources!Stamped /\ Sources!Dated(seen) /\ seen.at <= x1
        <3>1. Sources!NoRow \in Sources!Stamped /\ Sources!NoRow.at <= x1
            BY SourcesTimes DEF Sources!Stamped, Sources!NoRow
        <3>2. x5 \in Sources!Stamped /\ x5.at <= x1 /\ Sources!Dated(x5)
            BY SourcesFacts DEF Sources!AllPublished
        <3> QED BY <3>1, <3>2 DEF Sources!Dated
    <2>3. k \in Sources!Reading /\ k.at = "found" /\ k.seen = seen
        BY <2>2 DEF Sources!Reading
    <2>4. /\ UNCHANGED <<x1, x2, x3, x4>> /\ x5' = x5 /\ x7' = x7
        BY <1>4 DEF Sources!Find
    <2>5. x8' = [x8 EXCEPT ![r] = k]
        BY <2>1
    <2> HIDE DEF k
    <2>6. x5' \in Sources!Stamped /\ Sources!Dated(x5') /\ x5'.at <= x1 /\ x7' \in [Unit -> BOOLEAN]
        BY <2>4, SourcesFacts DEF Sources!AllPublished
    <2>7. \A q \in Client : Sources!Behind(q) => x7'[x8[q].on]
        BY <2>4, SourcesFacts DEF Sources!RefreshKnown
    <2> QED BY <2>2, <2>3, <2>4, <2>5, <2>6, <2>7, SourcesMoves
<1>5. ASSUME NEW r \in Client, Sources!ServeStored(r)
      PROVE  Sources!IInv'
    <2>1. PICK k0 \in Sources!Reading : k0 = x8[r] /\ k0.at = "found" /\ k0.seen # Sources!NoRow
        BY <1>5, SourcesFacts DEF Sources!ServeStored
    <2>2. k0.on \in Unit /\ k0.seen \in Sources!Stamped /\ k0.seen.value \in 1..x3 /\ k0.seen.at \in Nat
          /\ Sources!Published(k0.seen.value, k0.seen.at)
        <3>1. k0.on \in Unit /\ k0.seen \in Sources!Stamped
            BY <2>1, SourcesReading
        <3>2. Sources!Published(k0.seen.value, k0.seen.at)
            BY <2>1, SourcesFacts DEF Sources!AllPublished, Sources!Dated
        <3> QED BY <3>1, <3>2 DEF Sources!Published, Sources!Stamped
    <2>3. PICK s \in Unit : s = k0.on
        BY <2>2
    <2>4. PICK v \in 1..x3, a \in Nat : v = k0.seen.value /\ a = k0.seen.at /\ Sources!Published(v, a)
        BY <2>2
    <2>5. UNCHANGED <<x1, x2, x3, x4>> /\ x5' = x5
        BY <1>5 DEF Sources!ServeStored
    <2>6. x5' \in Sources!Stamped /\ Sources!Dated(x5') /\ x5'.at <= x1
        BY <2>5, SourcesFacts DEF Sources!AllPublished
    <2>7. CASE x1 - k0.seen.at > SourceTTL /\ Sources!MayRefresh(s)
        <3> DEFINE k == [at |-> "refresh", on |-> s, said |-> "ok", value |-> v, asAt |-> a]
        <3>1. k \in Sources!Reading /\ k.at = "refresh" /\ k.on = s /\ k.value = v /\ k.asAt = a
            BY DEF Sources!Reading
        <3>2. x8' = [x8 EXCEPT ![r] = k] /\ x7' = [x7 EXCEPT ![s] = TRUE]
            BY <1>5, <2>1, <2>3, <2>4, <2>7 DEF Sources!ServeStored, Sources!Becomes
        <3> HIDE DEF k
        <3>3. \A q \in Client : Sources!Behind(q) => x8[q].on # s
            BY <2>7, SourcesFacts DEF Sources!MayRefresh, Sources!RefreshKnown
        <3>4. x7' \in [Unit -> BOOLEAN] /\ x7'[s] /\ \A t \in Unit : x7[t] => x7'[t]
            BY <3>2, SourcesFacts
        <3>5. \A q \in Client : Sources!Behind(q) => x7'[x8[q].on]
            BY <3>4, SourcesFacts, SourcesTimes DEF Sources!RefreshKnown
        <3> QED BY <2>4, <2>5, <2>6, <3>1, <3>2, <3>3, <3>4, <3>5, SourcesMoves
    <2>8. CASE ~(x1 - k0.seen.at > SourceTTL /\ Sources!MayRefresh(s))
        <3>1. PICK w \in {"slow", "ok"} : w = Sources!Says(r, "ok")
            BY DEF Sources!Says
        <3> DEFINE k == [at |-> "told", said |-> w, value |-> v, asAt |-> a]
        <3>2. k \in Sources!Reading /\ k.at = "told" /\ k.value = v /\ k.asAt = a
            BY DEF Sources!Reading
        <3>3. x8' = [x8 EXCEPT ![r] = k] /\ x7' = x7
            BY <1>5, <2>1, <2>3, <2>4, <2>8, <3>1 DEF Sources!ServeStored, Sources!Becomes, Sources!Shows
        <3> HIDE DEF k
        <3>4. x7' \in [Unit -> BOOLEAN] /\ \A q \in Client : Sources!Behind(q) => x7'[x8[q].on]
            BY <3>3, SourcesFacts DEF Sources!RefreshKnown
        <3> QED BY <2>4, <2>5, <2>6, <3>2, <3>3, <3>4, SourcesMoves
    <2> QED BY <2>7, <2>8
\* A step that leaves the row and the refreshes alone, of a reader behind nobody.
<1>a. ASSUME NEW r \in Client, NEW k \in Sources!Reading, x8' = [x8 EXCEPT ![r] = k],
             k.at \in {"idle", "ask", "write", "told"}, k.at = "told" => k.said # "ok",
             k.at = "write" => (k.back => Sources!Behind(r)) /\ k.on = x8[r].on,
             UNCHANGED <<x1, x2, x3, x4>>, x5' = x5, x7' = x7
      PROVE  Sources!IInv'
    <2>1. x5' \in Sources!Stamped /\ Sources!Dated(x5') /\ x5'.at <= x1 /\ x7' \in [Unit -> BOOLEAN]
        BY <1>a, SourcesFacts DEF Sources!AllPublished
    <2>2. /\ \A q \in Client : Sources!Behind(q) => x7'[x8[q].on]
          /\ \A q \in Client : Sources!Behind(q) /\ Sources!Behind(r) /\ x8[q].on = x8[r].on => q = r
        BY <1>a, SourcesFacts DEF Sources!RefreshKnown
    <2> QED BY <1>a, <2>1, <2>2, SourcesMoves
\* A refresh ends.
<1>b. ASSUME NEW r \in Client, x8' = [x8 EXCEPT ![r] = Sources!Idle], x7' = [x7 EXCEPT ![x8[r].on] = FALSE],
             Sources!Behind(r), UNCHANGED <<x1, x2, x3, x4>>,
             x5' \in Sources!Stamped, Sources!Dated(x5'), x5'.at <= x1
      PROVE  Sources!IInv'
    <2> DEFINE k == Sources!Idle
    <2>1. k \in Sources!Reading /\ k.at = "idle"
        BY DEF Sources!Reading, Sources!Idle
    <2>2. x8' = [x8 EXCEPT ![r] = k]
        BY <1>b
    <2> HIDE DEF k
    <2>3. \A q \in Client \ {r} : Sources!Behind(q) => x8[q].on # x8[r].on
        BY <1>b, SourcesFacts DEF Sources!RefreshKnown
    <2>4. x7' \in [Unit -> BOOLEAN] /\ \A t \in Unit : t # x8[r].on => (x7'[t] <=> x7[t])
        BY <1>b, SourcesFacts
    <2>5. \A q \in Client \ {r} : Sources!Behind(q) => x7'[x8[q].on]
        BY <2>3, <2>4, SourcesFacts, SourcesTimes DEF Sources!RefreshKnown
    <2> QED BY <1>b, <2>1, <2>2, <2>4, <2>5, SourcesMoves
<1>6. ASSUME NEW r \in Client, Sources!ServeNothing(r)
      PROVE  Sources!IInv'
    <2>1. PICK s \in Unit : s = x8[r].on
        BY <1>6, SourcesFacts, SourcesReading DEF Sources!ServeNothing
    <2>2. PICK w \in {"slow", "error"} : w = Sources!Says(r, "error")
        BY DEF Sources!Says
    <2> DEFINE k == [at |-> "told", said |-> w]
               j == [at |-> "ask", on |-> s, said |-> "nothing"]
    <2>3. k \in Sources!Reading /\ k.at = "told" /\ k.said # "ok" /\ j \in Sources!Reading /\ j.at = "ask"
        BY DEF Sources!Reading
    <2>4. x8' = [x8 EXCEPT ![r] = k] \/ x8' = [x8 EXCEPT ![r] = j]
        BY <1>6, <2>1, <2>2 DEF Sources!ServeNothing, Sources!Tells, Sources!Becomes
    <2>5. UNCHANGED <<x1, x2, x3, x4>> /\ x5' = x5 /\ x7' = x7
        BY <1>6 DEF Sources!ServeNothing
    <2> HIDE DEF k, j
    <2> QED BY <1>a, <2>3, <2>4, <2>5
<1>7. ASSUME NEW r \in Client, Sources!Deadline(r)
      PROVE  Sources!IInv'
    <2>1. PICK k0 \in Sources!Reading : k0 = x8[r] /\ k0.at \in {"ask", "write"}
        BY <1>7, SourcesFacts DEF Sources!Deadline
    <2> DEFINE k == [k0 EXCEPT !.said = "slow"]
    <2>2. k \in Sources!Reading
        BY <2>1 DEF Sources!Reading, Sources!Idle
    <2>3. /\ k.at = k0.at /\ (k.at = "write" => k.on = k0.on)
          /\ k.at = "write" /\ k.back => k0.back
        BY <2>1 DEF Sources!Reading, Sources!Idle
    <2>4. x8' = [x8 EXCEPT ![r] = k]
        BY <1>7, <2>1 DEF Sources!Deadline
    <2>5. UNCHANGED <<x1, x2, x3, x4>> /\ x5' = x5 /\ x7' = x7
        BY <1>7 DEF Sources!Deadline
    <2> HIDE DEF k
    <2>6. k.at = "write" => (k.back => Sources!Behind(r)) /\ k.on = x8[r].on
        BY <2>1, <2>3 DEF Sources!Behind
    <2> QED BY <1>a, <2>1, <2>2, <2>3, <2>4, <2>5, <2>6
<1>8. ASSUME NEW r \in Client, Sources!Answer(r)
      PROVE  Sources!IInv'
    <2>1. PICK k0 \in Sources!Reading : k0 = x8[r] /\ k0.at \in {"ask", "refresh"}
        BY <1>8, SourcesFacts DEF Sources!Answer
    <2>2. PICK s \in Unit : s = k0.on
        BY <2>1, SourcesReading
    <2>3. UNCHANGED <<x1, x2, x3, x4>> /\ x5' = x5
        BY <1>8 DEF Sources!Answer
    <2>4. x5' \in Sources!Stamped /\ Sources!Dated(x5') /\ x5'.at <= x1 /\ Sources!Idle \in Sources!Reading
        BY <2>3, SourcesFacts DEF Sources!AllPublished, Sources!Reading
    <2>5. CASE Sources!Stored(x2) # 0
        <3>1. PICK v \in 1..x3 : v = Sources!Stored(x2)
            BY <2>5, SourcesTimes DEF Sources!Stored
        <3>2. PICK w \in {"nothing", "slow", "ok"} : w = k0.said
            BY <2>1 DEF Sources!Reading, Sources!Idle
        <3>3. PICK b \in BOOLEAN : b <=> (k0.at = "refresh")
            OBVIOUS
        <3> DEFINE k == [at |-> "write", on |-> s, said |-> w, value |-> v, back |-> k0.at = "refresh"]
        <3>4. k \in Sources!Reading /\ k.at = "write" /\ k.on = s /\ (k.back <=> (k0.at = "refresh"))
            BY DEF Sources!Reading
        <3>5. x8' = [x8 EXCEPT ![r] = k] /\ x7' = x7
            BY <1>8, <2>1, <2>2, <2>5, <3>1, <3>2 DEF Sources!Answer
        <3> HIDE DEF k
        <3>6. k.back => Sources!Behind(r)
            BY <2>1, <3>4 DEF Sources!Behind
        <3> QED BY <1>a, <2>1, <2>2, <2>3, <3>4, <3>5, <3>6
    <2>6. CASE Sources!Stored(x2) = 0 /\ k0.at = "refresh"
        <3>1. x8' = [x8 EXCEPT ![r] = Sources!Idle] /\ x7' = [x7 EXCEPT ![s] = FALSE]
            BY <1>8, <2>1, <2>2, <2>6 DEF Sources!Answer, Sources!Becomes
        <3>2. Sources!Behind(r)
            BY <2>1, <2>6 DEF Sources!Behind
        <3> QED BY <1>b, <2>1, <2>2, <2>3, <2>4, <3>1, <3>2
    <2>7. CASE Sources!Stored(x2) = 0 /\ k0.at = "ask"
        <3>1. PICK w \in {"slow", "error", "absent"} : w = Sources!Says(r, IF x2 = "down" THEN "error" ELSE "absent")
            BY DEF Sources!Says
        <3> DEFINE k == [at |-> "told", said |-> w]
        <3>2. k \in Sources!Reading /\ k.at = "told" /\ k.said # "ok"
            BY DEF Sources!Reading
        <3>3. x8' = [x8 EXCEPT ![r] = k] /\ x7' = x7
            BY <1>8, <2>1, <2>2, <2>7, <3>1 DEF Sources!Answer, Sources!Tells, Sources!Becomes
        <3> HIDE DEF k
        <3> QED BY <1>a, <2>3, <3>2, <3>3
    <2> QED BY <2>1, <2>5, <2>6, <2>7
<1>9. ASSUME NEW r \in Client, Sources!Write(r)
      PROVE  Sources!IInv'
    <2>1. PICK k0 \in Sources!Reading : k0 = x8[r] /\ k0.at = "write"
        BY <1>9, SourcesFacts DEF Sources!Write
    <2>2. k0.on \in Unit /\ k0.value \in 1..x3 /\ k0.back \in BOOLEAN
        BY <2>1, SourcesReading
    <2>3. PICK s \in Unit, v \in 1..x3 : s = k0.on /\ v = k0.value
        BY <2>2
    <2>4. UNCHANGED <<x1, x2, x3, x4>> /\ x5' \in {x5, [value |-> v, at |-> x1]}
        BY <1>9, <2>1, <2>3 DEF Sources!Write
    <2>5. Sources!Published(v, x1) /\ v \in 0..x3 /\ x1 \in Nat /\ x1 <= x1
        BY SourcesTimes DEF Sources!Published
    <2>6. x5' \in Sources!Stamped /\ Sources!Dated(x5') /\ x5'.at <= x1 /\ Sources!Idle \in Sources!Reading
        <3>1. x5 \in Sources!Stamped /\ Sources!Dated(x5) /\ x5.at <= x1
            BY SourcesFacts DEF Sources!AllPublished
        <3> DEFINE n == [value |-> v, at |-> x1]
        <3>2. n \in Sources!Stamped /\ n.value = v /\ n.at = x1
            BY <2>5 DEF Sources!Stamped
        <3>3. x5' = x5 \/ x5' = n
            BY <2>4
        <3> HIDE DEF n
        <3>4. Sources!Idle \in Sources!Reading
            BY DEF Sources!Reading
        <3> QED BY <2>5, <3>1, <3>2, <3>3, <3>4 DEF Sources!Dated
    <2>7. CASE k0.back
        <3>1. x8' = [x8 EXCEPT ![r] = Sources!Idle] /\ x7' = [x7 EXCEPT ![s] = FALSE]
            BY <1>9, <2>1, <2>3, <2>7 DEF Sources!Write, Sources!Becomes
        <3>2. Sources!Behind(r)
            BY <2>1, <2>7 DEF Sources!Behind
        <3> QED BY <1>b, <2>1, <2>3, <2>4, <2>6, <3>1, <3>2
    <2>8. CASE ~k0.back
        <3>1. PICK w \in {"slow", "ok"} : w = Sources!Says(r, "ok")
            BY DEF Sources!Says
        <3> DEFINE k == [at |-> "told", said |-> w, value |-> v, asAt |-> x1]
        <3>2. k \in Sources!Reading /\ k.at = "told" /\ k.value = v /\ k.asAt = x1
            BY <2>5 DEF Sources!Reading
        <3>3. x8' = [x8 EXCEPT ![r] = k] /\ x7' = x7
            BY <1>9, <2>1, <2>3, <2>8, <3>1 DEF Sources!Write, Sources!Becomes, Sources!Shows
        <3> HIDE DEF k
        <3>4. x7' \in [Unit -> BOOLEAN] /\ \A q \in Client : Sources!Behind(q) => x7'[x8[q].on]
            BY <3>3, SourcesFacts DEF Sources!RefreshKnown
        <3> QED BY <2>4, <2>5, <2>6, <3>2, <3>3, <3>4, SourcesMoves
    <2> QED BY <2>2, <2>7, <2>8
<1>10. UNCHANGED Sources!vars => UNCHANGED <<x1, x2, x3, x4, x5, x7, x8>>
    BY DEF Sources!vars
<1> QED BY <1>0, <1>1, <1>2, <1>3, <1>4, <1>5, <1>6, <1>7, <1>8, <1>9, <1>10 DEF Sources!Next

LEMMA SourcesInit == Sources!Init => Sources!IInv
<1> SUFFICES ASSUME Sources!Init PROVE Sources!IInv
    OBVIOUS
<1>1. x1 = 1 /\ x3 = 1 /\ x3 \in 1..MaxVersion /\ x4 \in [1..MaxVersion -> Nat] /\ x4[1] = 1
    BY RecordsAssumption DEF Sources!Init
<1>2. Sources!Idle \in Sources!Reading /\ Sources!Idle.at = "idle"
    BY DEF Sources!Reading, Sources!Idle
<1>3. x5 \in Sources!Stamped /\ Sources!Dated(x5) /\ x5.at = 0
    BY <1>1 DEF Sources!Init, Sources!NoRow, Sources!Stamped, Sources!Dated
<1>4. \A r \in Client : x8[r] = Sources!Idle
    BY DEF Sources!Init
<1>5. x8 \in [Client -> Sources!Reading]
    BY <1>2 DEF Sources!Init
<1>6. Sources!TypeOK
    BY <1>1, <1>3, <1>5 DEF Sources!Init, Sources!TypeOK
<1>7. Sources!AllPublished
    <2>1. \A v \in 1..x3 : x4[v] <= x1
        BY <1>1
    <2> QED BY <1>1, <1>2, <1>3, <1>4, <2>1 DEF Sources!AllPublished
<1>8. Sources!RefreshKnown
    BY <1>2, <1>4 DEF Sources!RefreshKnown, Sources!Behind
<1> QED BY <1>6, <1>7, <1>8 DEF Sources!IInv

LEMMA SourcesHolds == Sources!IInv => Sources!SourcesTold
<1> SUFFICES ASSUME Sources!IInv PROVE Sources!SourcesTold
    OBVIOUS
<1>1. \A S : Sources!Cardinality(S) = Cardinality(S)
    BY DEF Cardinality, Sources!Cardinality
<1>2. Sources!NothingInvented
    BY SourcesFacts DEF Sources!NothingInvented, Sources!AllPublished, Sources!Dated
<1>3. ASSUME NEW s \in Unit
      PROVE  Cardinality({r \in Client : \/ x8[r].at = "refresh" /\ x8[r].on = s
                                         \/ x8[r].at = "write" /\ x8[r].back /\ x8[r].on = s}) <= 1
    <2> DEFINE S == {r \in Client : \/ x8[r].at = "refresh" /\ x8[r].on = s
                                    \/ x8[r].at = "write" /\ x8[r].back /\ x8[r].on = s}
    <2>1. \A r, q \in S : r = q
        BY SourcesFacts DEF Sources!RefreshKnown, Sources!Behind
    <2>2. CASE S = {}
        BY <2>2, FS_EmptySet
    <2>3. CASE S # {}
        <3>1. PICK r \in S : TRUE
            BY <2>3
        <3>2. S = {r}
            BY <2>1, <3>1
        <3> HIDE DEF S
        <3>3. Cardinality(S) = 1
            BY <3>2, FS_Singleton
        <3> QED BY <3>3 DEF S
    <2> QED BY <2>2, <2>3
<1> QED BY <1>1, <1>2, <1>3 DEF Sources!SourcesTold, Sources!OneRefresh

(***************************************************************************)
(* DealListing: the deals are x1, the walk x5, the deals of its filter      *)
(* since it began x6, the request x7.                                       *)
(***************************************************************************)
\* Identifiers are numbers up to MaxId: of some there is a lowest and a highest.
LEMMA ListingEnds ==
    ASSUME NEW S \in SUBSET (1..MaxId), S # {}
    PROVE  /\ \E i \in S : \A j \in S : i <= j
           /\ \E i \in S : \A j \in S : j <= i
<1>1. S \subseteq Nat /\ \A i \in S : i \in Nat /\ MaxId - i \in Nat
    BY RecordsAssumption
<1>2. \E i \in S : \A j \in S : i <= j
    <2>1. PICK i \in S : \A j \in S : ~(<<j, i>> \in OpToRel(<, Nat))
        BY <1>1, NatLessThanWellFounded, WFMin
    <2>2. \A j \in S : ~(j < i) /\ j \in Nat /\ i \in Nat
        BY <1>1, <2>1 DEF OpToRel
    <2> QED BY <2>2
<1>3. \E i \in S : \A j \in S : j <= i
    <2> DEFINE T == {MaxId - i : i \in S}
    <2>1. T \subseteq Nat /\ T # {}
        BY <1>1
    <2>2. PICK t \in T : \A u \in T : ~(<<u, t>> \in OpToRel(<, Nat))
        <3> HIDE DEF T
        <3> QED BY <2>1, NatLessThanWellFounded, WFMin
    <2>3. PICK i \in S : t = MaxId - i
        OBVIOUS
    <2>4. ASSUME NEW j \in S PROVE j <= i
        <3>1. MaxId - j \in T /\ MaxId - j \in Nat /\ t \in Nat
            BY <2>1
        <3>2. ~(MaxId - j < t)
            <4> HIDE DEF T
            <4> QED BY <2>2, <3>1 DEF OpToRel
        <3> QED BY <1>1, <2>3, <3>2, RecordsAssumption
    <2> QED BY <2>4
<1> QED BY <1>2, <1>3

\* Highest(S, n), with the counting of the library.
ListingAbove(S, i) == {j \in S : j > i}
LEMMA ListingHighest ==
    ASSUME NEW S \in SUBSET (1..MaxId), NEW n \in Nat
    PROVE  /\ Listing!Highest(S, n) = {i \in S : Cardinality(ListingAbove(S, i)) < n}
           /\ IsFiniteSet(S)
           /\ \A i : IsFiniteSet(ListingAbove(S, i)) /\ Cardinality(ListingAbove(S, i)) \in Nat
           /\ \A i, j \in S : i < j => Cardinality(ListingAbove(S, j)) <= Cardinality(ListingAbove(S, i))
<1>1. \A T : Listing!Cardinality(T) = Cardinality(T)
    BY DEF Cardinality, Listing!Cardinality
<1>2. IsFiniteSet(S) /\ \A i \in S : i \in Int
    <2>1. IsFiniteSet(1..MaxId) /\ S \subseteq 1..MaxId
        BY FS_Interval, RecordsAssumption
    <2>2. \A i \in 1..MaxId : i \in Int
        OBVIOUS
    <2> QED BY <2>1, <2>2, FS_Subset
<1>3. \A i : ListingAbove(S, i) \subseteq S
    BY DEF ListingAbove
<1>4. \A i : IsFiniteSet(ListingAbove(S, i)) /\ Cardinality(ListingAbove(S, i)) \in Nat
    BY <1>2, <1>3, FS_Subset, FS_CardinalityType
<1>5. ASSUME NEW i \in S, NEW j \in S, i < j
      PROVE  Cardinality(ListingAbove(S, j)) <= Cardinality(ListingAbove(S, i))
    <2>1. ListingAbove(S, j) \subseteq ListingAbove(S, i)
        <3>1. \A k \in S : k \in Int
            BY <1>2
        <3>2. \A k \in S : k > j => k > i
            BY <1>5, <3>1
        <3> QED BY <3>2 DEF ListingAbove
    <2> QED BY <1>4, <2>1, FS_Subset
<1>6. Listing!Highest(S, n) = {i \in S : Cardinality(ListingAbove(S, i)) < n}
    BY <1>1 DEF Listing!Highest, ListingAbove
<1> QED BY <1>2, <1>4, <1>5, <1>6

\* Whoever is above one of them is one of them.
LEMMA ListingUp ==
    ASSUME NEW S \in SUBSET (1..MaxId), NEW n \in Nat
    PROVE  /\ Listing!Highest(S, n) \subseteq S
           /\ \A i \in Listing!Highest(S, n) : \A j \in S : i < j => j \in Listing!Highest(S, n)
           /\ n > 0 /\ S # {} => Listing!Highest(S, n) # {}
<1> DEFINE H == Listing!Highest(S, n)
<1>1. H \subseteq S
    BY ListingHighest
<1>2. ASSUME NEW i \in H, NEW j \in S, i < j PROVE j \in H
    <2>1. i \in S /\ Cardinality(ListingAbove(S, i)) < n
        BY ListingHighest
    <2>2. /\ Cardinality(ListingAbove(S, i)) \in Nat /\ Cardinality(ListingAbove(S, j)) \in Nat
          /\ Cardinality(ListingAbove(S, j)) <= Cardinality(ListingAbove(S, i))
        BY <1>2, <2>1, ListingHighest
    <2>3. Cardinality(ListingAbove(S, j)) < n
        BY <2>1, <2>2
    <2> QED BY <2>3, ListingHighest
<1>3. ASSUME n > 0, S # {} PROVE H # {}
    <2>1. PICK i \in S : \A j \in S : j <= i
        BY <1>3, ListingEnds
    <2>2. ListingAbove(S, i) = {}
        <3>1. \A j \in S : j \in Int
            OBVIOUS
        <3>2. \A j \in S : ~(j > i)
            BY <2>1, <3>1
        <3> QED BY <3>2 DEF ListingAbove
    <2>3. Cardinality(ListingAbove(S, i)) = 0
        BY <2>2, FS_EmptySet
    <2> QED BY <1>3, <2>3, ListingHighest
<1> QED BY <1>1, <1>2, <1>3

\* Where the first n of the first n + 1 are all of these, there are no others.
LEMMA ListingLast ==
    ASSUME NEW S \in SUBSET (1..MaxId), NEW n \in Nat \ {0}, NEW F, F = Listing!Highest(S, n + 1), Listing!Highest(F, n) = F
    PROVE  F = S
<1>1. F \subseteq S /\ F \in SUBSET (1..MaxId) /\ n \in Nat /\ n + 1 \in Nat
    <2>1. n + 1 \in Nat
        OBVIOUS
    <2> QED BY <2>1, ListingUp
<1>2. ASSUME S \ F # {} PROVE FALSE
    <2>1. PICK i \in S \ F : \A j \in S \ F : j <= i
        BY <1>2, ListingEnds
    <2>2. i \in 1..MaxId /\ \A j \in S : j \in Int
        BY <2>1, RecordsAssumption
    <2>3. ListingAbove(S, i) = F
        <3>1. \A j \in S : j > i => j \in F
            BY <2>1, <2>2
        <3>2. \A j \in F : j > i
            BY <1>1, <2>1, <2>2, ListingUp
        <3> QED BY <1>1, <3>1, <3>2 DEF ListingAbove
    <2>4. Cardinality(F) \in Nat /\ Cardinality(F) >= n + 1 /\ IsFiniteSet(F)
        <3>1. F = {j \in S : Cardinality(ListingAbove(S, j)) < n + 1}
            BY <1>1, ListingHighest
        <3>2. ~(Cardinality(ListingAbove(S, i)) < n + 1)
            BY <2>1, <3>1
        <3>3. Cardinality(F) \in Nat /\ IsFiniteSet(F)
            BY <1>1, <2>3, ListingHighest
        <3> QED BY <1>1, <2>3, <3>2, <3>3
    <2>5. F # {}
        BY <2>4, FS_EmptySet
    <2>6. PICK m \in F : \A j \in F : m <= j
        BY <1>1, <2>5, ListingEnds
    <2>7. ListingAbove(F, m) = F \ {m}
        BY <1>1, <2>2, <2>6 DEF ListingAbove
    <2>8. Cardinality(F \ {m}) = Cardinality(F) - 1
        BY <2>4, <2>6, FS_RemoveElement, ZenonT(30)
    <2>9. Cardinality(ListingAbove(F, m)) < n
        <3>1. Listing!Highest(F, n) = {j \in F : Cardinality(ListingAbove(F, j)) < n}
            BY <1>1, ListingHighest
        <3> QED BY <2>6, <3>1
    <2>10. Cardinality(F) - 1 < n
        BY <2>7, <2>8, <2>9
    <2> QED BY <1>1, <2>4, <2>10
<1> QED BY <1>1, <1>2

\* What was given, once a page is appended.
LEMMA ListingGiven ==
    ASSUME NEW S, NEW s \in Seq(S), NEW P \in S
    PROVE  UNION {Append(s, P)[m] : m \in DOMAIN Append(s, P)} = (UNION {s[m] : m \in DOMAIN s}) \cup P
<1> DEFINE t == Append(s, P)
           Before == UNION {s[m] : m \in DOMAIN s}
           After == UNION {t[m] : m \in DOMAIN t}
<1>1. /\ DOMAIN t = 1..(Len(s) + 1) /\ DOMAIN s = 1..Len(s) /\ Len(s) \in Nat
      /\ \A m \in DOMAIN s : t[m] = s[m]
      /\ t[Len(s) + 1] = P
    OBVIOUS
<1>2. /\ \A m \in DOMAIN t : m \in DOMAIN s \/ m = Len(s) + 1
      /\ \A m \in DOMAIN s : m \in DOMAIN t
      /\ Len(s) + 1 \in DOMAIN t
    BY <1>1
<1> HIDE DEF t
<1>3. ASSUME NEW i \in After PROVE i \in Before \cup P
    <2>1. PICK m \in DOMAIN t : i \in t[m]
        OBVIOUS
    <2>2. CASE m \in DOMAIN s
        BY <1>1, <2>1, <2>2
    <2>3. CASE m = Len(s) + 1
        BY <1>1, <2>1, <2>3
    <2> QED BY <1>2, <2>2, <2>3
<1>4. ASSUME NEW i \in Before PROVE i \in After
    <2>1. PICK m \in DOMAIN s : i \in s[m]
        OBVIOUS
    <2> QED BY <1>1, <1>2, <2>1
<1>5. ASSUME NEW i \in P PROVE i \in After
    BY <1>1, <1>2
<1>6. After = Before \cup P
    <2> HIDE DEF After, Before
    <2> QED BY <1>3, <1>4, <1>5
<1> QED BY <1>6 DEF t

\* What is said of a walk under way.
LEMMA ListingFacts ==
    ASSUME Listing!IInv
    PROVE  /\ x1 \in [1..MaxId -> Unit \cup {NoDeal}] /\ x2 \in Nat /\ x6 \subseteq 1..MaxId
           /\ x5 # Listing!Rest => x5 \in Listing!Walk
           /\ x7 \in {Listing!Rest} \cup [at : {"key", "plan", "page"}, limit : Nat \ {0}]
           /\ Listing!Rest.at = "rest" /\ \A w \in Listing!Walk : w # Listing!Rest /\ w.at \in {"walk", "end"}
           /\ x7 # Listing!Rest => x5 # Listing!Rest /\ x5.at = "walk"
           /\ Listing!SteadyFits /\ Listing!GivenBeyond
<1>1. /\ Listing!Rest.at = "rest"
      /\ \A w \in Listing!Walk : w.at \in {"walk", "end"}
    BY DEF Listing!Rest, Listing!Walk
<1> QED BY <1>1 DEF Listing!IInv, Listing!TypeOK, Listing!Id, Listing!AskedInWalk

\* The walk goes on, and what it gave.
LEMMA ListingStands ==
    ASSUME Listing!IInv, x5' = x5, x6' \subseteq x6,
           x1' \in [1..MaxId -> Unit \cup {NoDeal}], x2' \in Nat,
           x7' \in {Listing!Rest} \cup [at : {"key", "plan", "page"}, limit : Nat \ {0}],
           x7' # Listing!Rest => x5 # Listing!Rest /\ x5.at = "walk",
           x5 # Listing!Rest => \A i \in x6' : Listing!Fits(x1'[i], x5.filter)
    PROVE  Listing!IInv'
<1>1. Listing!TypeOK' /\ Listing!AskedInWalk' /\ Listing!SteadyFits'
    BY ListingFacts DEF Listing!TypeOK, Listing!Id, Listing!Walk, Listing!Rest, Listing!AskedInWalk, Listing!SteadyFits,
        Listing!Fits
<1>2. Listing!GivenBeyond'
    BY ListingFacts DEF Listing!GivenBeyond, Listing!Given
<1> QED BY <1>1, <1>2 DEF Listing!IInv

LEMMA ListingStep ==
    ASSUME Listing!IInv, [Listing!Next]_(Listing!vars)
    PROVE  Listing!IInv'
<1>0. CASE UNCHANGED <<x1, x2, x5, x6, x7>>
    <2>1. x1' = x1 /\ x2' = x2 /\ x5' = x5 /\ x6' = x6 /\ x7' = x7
        BY <1>0
    <2>2. x5 # Listing!Rest => \A i \in x6' : Listing!Fits(x1'[i], x5.filter)
        BY <2>1, ListingFacts DEF Listing!SteadyFits
    <2> QED BY <2>1, <2>2, ListingFacts, ListingStands
<1>1. ASSUME NEW i \in 1..MaxId, NEW s \in Unit, Listing!AddDeal(i, s)
      PROVE  Listing!IInv'
    <2>1. x1[i] = NoDeal /\ x1' = [x1 EXCEPT ![i] = s] /\ x2' = x2 /\ x5' = x5 /\ x6' = x6 /\ x7' = x7
        BY <1>1 DEF Listing!AddDeal
    <2>2. x1' \in [1..MaxId -> Unit \cup {NoDeal}]
        BY <2>1, ListingFacts
    <2>3. ASSUME x5 # Listing!Rest, NEW j \in x6 PROVE Listing!Fits(x1'[j], x5.filter)
        <3>1. j \in 1..MaxId /\ Listing!Fits(x1[j], x5.filter)
            BY <2>3, ListingFacts DEF Listing!SteadyFits
        <3>2. j # i
            BY <2>1, <3>1 DEF Listing!Fits
        <3>3. x1'[j] = x1[j]
            BY <2>1, <3>1, <3>2, ListingFacts
        <3> QED BY <3>1, <3>3
    <2> QED BY <2>1, <2>2, <2>3, ListingFacts, ListingStands
<1>2. ASSUME NEW i \in 1..MaxId, NEW s \in Unit, Listing!setStage(i, s)
      PROVE  Listing!IInv'
    <2>1. /\ x1' = [x1 EXCEPT ![i] = s] /\ x2' = x2 + 1 /\ x5' = x5 /\ x7' = x7
          /\ x6' = IF x5 # Listing!Rest /\ ~Listing!Fits(s, x5.filter) THEN x6 \ {i} ELSE x6
        BY <1>2 DEF Listing!setStage
    <2>2. x1' \in [1..MaxId -> Unit \cup {NoDeal}] /\ x2' \in Nat /\ x6' \subseteq x6
        BY <2>1, ListingFacts
    <2>3. ASSUME x5 # Listing!Rest, NEW j \in x6' PROVE Listing!Fits(x1'[j], x5.filter)
        <3>1. j \in 1..MaxId /\ Listing!Fits(x1[j], x5.filter)
            BY <2>2, <2>3, ListingFacts DEF Listing!SteadyFits
        <3>2. CASE j = i
            <4>1. x1'[j] = s /\ Listing!Fits(s, x5.filter)
                BY <2>1, <2>3, <3>1, <3>2, ListingFacts
            <4> QED BY <4>1
        <3>3. CASE j # i
            <4>1. x1'[j] = x1[j]
                BY <2>1, <3>1, <3>3, ListingFacts
            <4> QED BY <3>1, <4>1
        <3> QED BY <3>2, <3>3
    <2> QED BY <2>1, <2>2, <2>3, ListingFacts, ListingStands
<1>3. ASSUME NEW k \in Account, NEW f \in Unit \cup {NoDeal}, Listing!Begin(k, f)
      PROVE  Listing!IInv'
    <2> DEFINE w == [at |-> "walk", key |-> k, filter |-> f, cursor |-> NoDeal, got |-> <<>>]
    <2>1. /\ x1' = x1 /\ x2' = x2 /\ x5' = w /\ x7' = x7 /\ x5 = Listing!Rest
          /\ x6' = {i \in 1..MaxId : Listing!Fits(x1[i], f)}
        BY <1>3 DEF Listing!Begin, Listing!Id
    <2>2. w \in Listing!Walk /\ w.at = "walk" /\ w.cursor = NoDeal /\ w.got = <<>> /\ w.filter = f
        BY DEF Listing!Walk
    <2> HIDE DEF w
    <2>3. x7 = Listing!Rest
        BY <2>1, ListingFacts
    <2>4. Listing!TypeOK'
        BY <2>1, <2>2, ListingFacts DEF Listing!TypeOK, Listing!Id, Listing!Walk, Listing!Rest
    <2>5. Listing!AskedInWalk' /\ Listing!SteadyFits'
        BY <2>1, <2>2, <2>3 DEF Listing!AskedInWalk, Listing!SteadyFits, Listing!Rest, Listing!Fits
    <2>6. Listing!GivenBeyond'
        BY <2>1, <2>2 DEF Listing!GivenBeyond, Listing!Given
    <2> QED BY <2>4, <2>5, <2>6 DEF Listing!IInv
<1>4. ASSUME NEW limit \in 0..(MAX_LIMIT + 1), Listing!Ask(limit)
      PROVE  Listing!IInv'
    <2>1. Listing!Limit(limit) \in Nat \ {0}
        BY RecordsAssumption DEF Listing!Limit, Listing!Smaller, Listing!Larger
    <2>2. PICK n \in Nat \ {0} : n = Listing!Limit(limit)
        BY <2>1
    <2>3. /\ x1' = x1 /\ x2' = x2 /\ x5' = x5 /\ x6' = x6 /\ x5.at = "walk" /\ x7' = [at |-> "key", limit |-> n]
        BY <1>4, <2>2 DEF Listing!Ask
    <2>4. x7' \in [at : {"key", "plan", "page"}, limit : Nat \ {0}]
        BY <2>3
    <2>5. x5 # Listing!Rest /\ \A i \in x6' : Listing!Fits(x1'[i], x5.filter)
        BY <2>3, ListingFacts DEF Listing!SteadyFits
    <2> QED BY <2>3, <2>4, <2>5, ListingFacts, ListingStands
\* The walk is over.
<1>5. ASSUME x1' = x1, x2' = x2, x5' = Listing!Rest, x6' = {}, x7' = Listing!Rest
      PROVE  Listing!IInv'
    <2>1. Listing!TypeOK'
        BY <1>5, ListingFacts DEF Listing!TypeOK, Listing!Id, Listing!Rest
    <2>2. Listing!AskedInWalk' /\ Listing!SteadyFits' /\ Listing!GivenBeyond'
        BY <1>5 DEF Listing!AskedInWalk, Listing!SteadyFits, Listing!GivenBeyond, Listing!Rest
    <2> QED BY <2>1, <2>2 DEF Listing!IInv
<1>6. CASE Listing!ReadKey \/ Listing!ReadPlan
    <2>1. CASE Listing!Refuse
        BY <1>5, <2>1 DEF Listing!Refuse
    <2>2. CASE ~Listing!Refuse
        <3>1. PICK at \in {"plan", "page"} : /\ x7' = [x7 EXCEPT !.at = at] /\ x7.at \in {"key", "plan"}
                                             /\ x1' = x1 /\ x2' = x2 /\ x5' = x5 /\ x6' = x6
            BY <1>6, <2>2 DEF Listing!ReadKey, Listing!ReadPlan
        <3>2. PICK r \in [at : {"key", "plan", "page"}, limit : Nat \ {0}] : r = x7
            BY <3>1, ListingFacts
        <3>3. x7' \in [at : {"key", "plan", "page"}, limit : Nat \ {0}]
            BY <3>1, <3>2
        <3>4. x5 # Listing!Rest /\ x5.at = "walk"
            BY <3>1, ListingFacts
        <3>5. \A i \in x6' : Listing!Fits(x1'[i], x5.filter)
            BY <3>1, <3>4, ListingFacts DEF Listing!SteadyFits
        <3> QED BY <3>1, <3>3, <3>4, <3>5, ListingFacts, ListingStands
    <2> QED BY <2>1, <2>2
<1>7. CASE Listing!Answer
    <2>1. PICK w \in Listing!Walk : w = x5 /\ w.at = "walk" /\ x5 # Listing!Rest
        <3>1. x7.at = "page" /\ x7 # Listing!Rest
            BY <1>7 DEF Listing!Answer, Listing!Rest
        <3> QED BY <3>1, ListingFacts
    <2>2. PICK n \in Nat \ {0} : n = x7.limit
        <3>1. x7.at = "page" /\ x7 # Listing!Rest
            BY <1>7 DEF Listing!Answer, Listing!Rest
        <3> QED BY <3>1, ListingFacts
    <2>3. PICK M \in SUBSET (1..MaxId) : M = Listing!Matching
        BY DEF Listing!Matching, Listing!Id
    <2>4. PICK F : F = Listing!Highest(M, n + 1)
        OBVIOUS
    <2>5. PICK P : P = Listing!Highest(F, n)
        OBVIOUS
    <2>6. PICK nx : nx = Listing!NextCursor(F, P)
        OBVIOUS
    <2>7. PICK a \in {"walk", "end"} : a = IF nx = NoDeal THEN "end" ELSE "walk"
        OBVIOUS
    <2>8. /\ x1' = x1 /\ x2' = x2 /\ x6' = x6 /\ x7' = Listing!Rest
          /\ x5' = [w EXCEPT !.at = a, !.cursor = nx, !.got = Append(w.got, P)]
        BY <1>7, <2>1, <2>2, <2>3, <2>4, <2>5, <2>6, <2>7 DEF Listing!Answer
    <2>9. /\ P \subseteq F /\ F \subseteq M /\ F \in SUBSET (1..MaxId) /\ P \in SUBSET (1..MaxId) /\ n + 1 \in Nat
          /\ \A i \in F : \A j \in M : i < j => j \in F
          /\ \A i \in P : \A j \in F : i < j => j \in P
          /\ F # {} => P # {}
        <3>1. n + 1 \in Nat /\ n \in Nat /\ n > 0
            OBVIOUS
        <3>2. F \subseteq M /\ \A i \in F : \A j \in M : i < j => j \in F
            BY <2>4, <3>1, ListingUp
        <3>3. F \in SUBSET (1..MaxId)
            BY <3>2
        <3>4. P \subseteq F /\ (\A i \in P : \A j \in F : i < j => j \in P) /\ (F # {} => P # {})
            BY <2>5, <3>1, <3>3, ListingUp
        <3> QED BY <3>1, <3>2, <3>3, <3>4
    \* The next cursor is the lowest of the page, or there is no more than the page.
    <2>10. \/ nx = NoDeal /\ P = M
           \/ nx \in P /\ nx \in 1..MaxId /\ nx # NoDeal /\ \A i \in P : nx <= i
        <3>1. CASE F = P
            <4>1. F = M
                BY <2>4, <2>5, <3>1, ListingLast
            <4> QED BY <2>6, <3>1, <4>1 DEF Listing!NextCursor
        <3>2. CASE F # P
            <4>1. nx = Listing!Least(P) /\ P # {}
                BY <2>6, <2>9, <3>2 DEF Listing!NextCursor
            <4>2. \E i \in P : \A j \in P : i <= j
                BY <2>9, <4>1, ListingEnds
            <4>3. nx \in P /\ \A i \in P : nx <= i
                BY <4>1, <4>2 DEF Listing!Least
            <4> QED BY <2>9, <4>3, RecordsAssumption
        <3> QED BY <3>1, <3>2
    <2>11. PICK w2 \in Listing!Walk : /\ w2 = x5' /\ w2.at = a /\ w2.filter = w.filter /\ w2.cursor = nx
                                      /\ w2.got = Append(w.got, P)
        <3>1. nx \in 1..MaxId \cup {NoDeal} /\ w.got \in Seq(SUBSET (1..MaxId))
            BY <2>10 DEF Listing!Walk, Listing!Id
        <3>2. Append(w.got, P) \in Seq(SUBSET (1..MaxId))
            BY <2>9, <3>1
        <3> DEFINE v == [w EXCEPT !.at = a, !.cursor = nx, !.got = Append(w.got, P)]
        <3>3. v \in Listing!Walk /\ v.at = a /\ v.filter = w.filter /\ v.cursor = nx /\ v.got = Append(w.got, P)
            BY <3>1, <3>2 DEF Listing!Walk, Listing!Id
        <3>4. v = x5'
            BY <2>8
        <3> QED BY <3>3, <3>4
    <2>12. w2 # Listing!Rest /\ x5' # Listing!Rest
        BY <2>11, ListingFacts
    <2>13. Listing!TypeOK'
        <3>1. x5' \in Listing!Walk'
            BY <2>11 DEF Listing!Walk, Listing!Id
        <3> QED BY <2>8, <3>1, ListingFacts DEF Listing!TypeOK, Listing!Id, Listing!Rest
    <2>14. Listing!AskedInWalk' /\ Listing!SteadyFits'
        <3>1. Listing!AskedInWalk'
            BY <2>8 DEF Listing!AskedInWalk, Listing!Rest
        <3>2. Listing!SteadyFits'
            BY <2>1, <2>8, <2>11, ListingFacts DEF Listing!SteadyFits, Listing!Fits
        <3> QED BY <3>1, <3>2
    \* What was given before stands apart from what is now.
    <2>15. \A i \in M : w.cursor # NoDeal => i < w.cursor
        BY <2>1, <2>3 DEF Listing!Matching
    <2>16. w.got \in Seq(SUBSET (1..MaxId)) /\ w.cursor \in 1..MaxId \cup {NoDeal}
        BY DEF Listing!Walk, Listing!Id
    <2>17. \A m \in DOMAIN w.got : \A i \in w.got[m] : w.cursor # NoDeal /\ i \in 1..MaxId /\ i >= w.cursor
        BY <2>1, <2>16, ListingFacts DEF Listing!GivenBeyond
    <2>18. \A m \in DOMAIN w.got : w.got[m] \cap P = {}
        <3>1. ASSUME NEW m \in DOMAIN w.got, NEW i \in w.got[m], i \in P PROVE FALSE
            <4>1. i \in M /\ w.cursor # NoDeal /\ i < w.cursor /\ i >= w.cursor /\ i \in Int /\ w.cursor \in Int
                BY <2>9, <2>15, <2>16, <2>17, <3>1, RecordsAssumption
            <4> QED BY <4>1
        <3> QED BY <3>1
    <2>19. /\ DOMAIN w2.got = 1..(Len(w.got) + 1) /\ DOMAIN w.got = 1..Len(w.got) /\ Len(w.got) \in Nat
           /\ \A m \in DOMAIN w.got : w2.got[m] = w.got[m]
           /\ w2.got[Len(w.got) + 1] = P
        BY <2>9, <2>11, <2>16
    <2>20. \A m \in DOMAIN w2.got : m \in DOMAIN w.got \/ m = Len(w.got) + 1
        BY <2>19
    <2>21. \A l, m \in DOMAIN w2.got : l # m => w2.got[l] \cap w2.got[m] = {}
        <3>1. \A l, m \in DOMAIN w.got : l # m => w.got[l] \cap w.got[m] = {}
            BY <2>1, ListingFacts DEF Listing!GivenBeyond
        <3> QED BY <2>18, <2>19, <2>20, <3>1
    <2>22. UNION {w2.got[m] : m \in DOMAIN w2.got} = (UNION {w.got[m] : m \in DOMAIN w.got}) \cup P
        BY <2>9, <2>11, <2>16, ListingGiven
    \* Whoever stayed was given before, or is of this page when it is not below.
    <2>23. ASSUME NEW i \in x6 PROVE i \in UNION {w.got[m] : m \in DOMAIN w.got} \/ i \in M
        <3>1. i \in 1..MaxId /\ Listing!Fits(x1[i], w.filter)
            BY <2>1, ListingFacts DEF Listing!SteadyFits
        <3>2. CASE w.cursor # NoDeal /\ i >= w.cursor
            BY <2>1, <3>2, ListingFacts DEF Listing!GivenBeyond, Listing!Given
        <3>3. CASE w.cursor # NoDeal /\ ~(i >= w.cursor)
            <4>1. i < w.cursor
                BY <2>16, <3>1, <3>3, RecordsAssumption
            <4> QED BY <2>1, <2>3, <3>1, <4>1 DEF Listing!Matching, Listing!Id
        <3>4. CASE w.cursor = NoDeal
            BY <2>1, <2>3, <3>1, <3>4 DEF Listing!Matching, Listing!Id
        <3> QED BY <3>2, <3>3, <3>4
    <2>24. Listing!GivenBeyond'
        <3>1. CASE nx = NoDeal /\ P = M
            <4>1. w2.at = "end" /\ x6 \subseteq UNION {w2.got[m] : m \in DOMAIN w2.got}
                BY <2>7, <2>11, <2>22, <2>23, <3>1
            <4> QED BY <2>8, <2>11, <2>21, <4>1 DEF Listing!GivenBeyond, Listing!Given
        <3>2. CASE nx \in P /\ nx \in 1..MaxId /\ nx # NoDeal /\ \A i \in P : nx <= i
            <4>1. w2.at = "walk" /\ w2.cursor = nx
                BY <2>7, <2>11, <3>2
            <4>2. \A i \in P : i >= nx /\ i \in Int
                BY <2>9, <3>2
            <4>3. ASSUME NEW m \in DOMAIN w.got, NEW i \in w.got[m] PROVE i >= nx
                <5>1. w.cursor \in Int /\ i \in Int /\ nx \in Int /\ i >= w.cursor /\ nx < w.cursor
                    BY <2>9, <2>15, <2>16, <2>17, <3>2, RecordsAssumption
                <5> QED BY <5>1
            <4>4. \A m \in DOMAIN w2.got : \A i \in w2.got[m] : i >= nx
                BY <2>19, <2>20, <4>2, <4>3
            <4>5. ASSUME NEW i \in x6, i >= nx PROVE i \in UNION {w2.got[m] : m \in DOMAIN w2.got}
                <5>1. CASE i \in M
                    <6>1. i = nx \/ nx < i
                        BY <2>9, <3>2, <4>5, <5>1
                    <6>2. i \in P
                        <7>1. CASE nx < i
                            <8>1. nx \in F /\ i \in F
                                BY <2>9, <3>2, <5>1, <7>1
                            <8> QED BY <2>9, <3>2, <7>1, <8>1
                        <7>2. CASE i = nx
                            BY <3>2, <7>2
                        <7> QED BY <6>1, <7>1, <7>2
                    <6> QED BY <2>22, <6>2
                <5> QED BY <2>22, <2>23, <5>1
            <4> QED BY <2>8, <2>11, <2>21, <3>2, <4>1, <4>4, <4>5 DEF Listing!GivenBeyond, Listing!Given
        <3> QED BY <2>10, <3>1, <3>2
    <2> QED BY <2>13, <2>14, <2>24 DEF Listing!IInv
<1>8. CASE Listing!Done
    <2>1. x5.at = "end" /\ x7' = x7 /\ x1' = x1 /\ x2' = x2 /\ x5' = Listing!Rest /\ x6' = {}
        BY <1>8 DEF Listing!Done
    <2>2. x7 = Listing!Rest
        BY <2>1, ListingFacts
    <2> QED BY <1>5, <2>1, <2>2
<1>9. (\E k \in Account : Listing!createApiKey(k) \/ Listing!revokeApiKey(k)) \/ Listing!ChangePlan \/ UNCHANGED Listing!vars
          => UNCHANGED <<x1, x2, x5, x6, x7>>
    BY DEF Listing!createApiKey, Listing!revokeApiKey, Listing!ChangePlan, Listing!vars
<1> QED BY <1>0, <1>1, <1>2, <1>3, <1>4, <1>6, <1>7, <1>8, <1>9 DEF Listing!Next, Listing!Id

LEMMA ListingInit == Listing!Init => Listing!IInv
<1> SUFFICES ASSUME Listing!Init PROVE Listing!IInv
    OBVIOUS
<1>1. Listing!TypeOK
    BY DEF Listing!Init, Listing!TypeOK, Listing!Id
<1> QED BY <1>1 DEF Listing!Init, Listing!IInv, Listing!AskedInWalk, Listing!SteadyFits, Listing!GivenBeyond

LEMMA ListingHolds == Listing!IInv => Listing!WalkIsWhole
    BY DEF Listing!IInv, Listing!GivenBeyond, Listing!WalkIsWhole

(***************************************************************************)
(* WorkspaceAccess: the accounts are x1, the links mailed x3, the codes     *)
(* minted x5 and unused x6, the trials x7, what codes and links did x8 and  *)
(* x9, the requests x10.                                                    *)
(***************************************************************************)

\* A request begins, moves on or ends.
LEMMA AccessCalls ==
    ASSUME Access!IInv, NEW c \in Client
    PROVE  /\ \A k \in Access!Locals :
                 x10' = [x10 EXCEPT ![c] = k] /\ (k.op \in {"verify", "reset"} => k.n # 0 /\ k.to \in User)
                    => x10' \in [Client -> Access!Locals] /\ Access!CallsFollow'
           /\ Access!End(c) => x10' \in [Client -> Access!Locals] /\ Access!CallsFollow'
           /\ \A op \in {"count", "mint"} :
                 Access!Then(c, op) => x10' \in [Client -> Access!Locals] /\ Access!CallsFollow'
<1>0. x10 \in [Client -> Access!Locals] /\ Access!CallsFollow
    BY DEF Access!IInv, Access!TypeOK
<1>1. ASSUME NEW k \in Access!Locals, x10' = [x10 EXCEPT ![c] = k],
             k.op \in {"verify", "reset"} => k.n # 0 /\ k.to \in User
      PROVE  x10' \in [Client -> Access!Locals] /\ Access!CallsFollow'
    BY <1>0, <1>1 DEF Access!CallsFollow
<1>2. ASSUME Access!End(c)
      PROVE  x10' \in [Client -> Access!Locals] /\ Access!CallsFollow'
    <2> DEFINE k == Access!Free
    <2>1. k \in Access!Locals /\ k.op = "idle"
        BY DEF Access!Free, Access!Call, Access!Locals, Access!Ops
    <2>2. x10' = [x10 EXCEPT ![c] = k]
        BY <1>2 DEF Access!End
    <2> HIDE DEF k
    <2> QED BY <1>1, <2>1, <2>2
<1>3. ASSUME NEW op \in {"count", "mint"}, Access!Then(c, op)
      PROVE  x10' \in [Client -> Access!Locals] /\ Access!CallsFollow'
    <2> DEFINE k == [x10[c] EXCEPT !.op = op]
    <2>1. k \in Access!Locals /\ k.op = op
        BY <1>0 DEF Access!Locals, Access!Ops
    <2>2. x10' = [x10 EXCEPT ![c] = k]
        BY <1>3 DEF Access!Then
    <2> HIDE DEF k
    <2> QED BY <1>1, <2>1, <2>2
<1> QED BY <1>1, <1>2, <1>3

\* A request looks, and changes nothing.
LEMMA AccessLooks ==
    ASSUME Access!IInv, x10' \in [Client -> Access!Locals], Access!CallsFollow',
           UNCHANGED <<x1, x3, x5, x6, x7, x8, x9>>
    PROVE  Access!IInv'
<1>1. x1' = x1 /\ x3' = x3 /\ x5' = x5 /\ x6' = x6 /\ x7' = x7 /\ x8' = x8 /\ x9' = x9
    OBVIOUS
<1>2. Access!TypeOK'
    BY <1>1 DEF Access!IInv, Access!TypeOK, Access!AccountRow
<1>3. Access!CodesUnspent' /\ Access!LinksUnspent' /\ Access!FirstVerifies'
    BY <1>1 DEF Access!IInv, Access!CodesUnspent, Access!LinksUnspent, Access!FirstVerifies, Access!Members
<1> QED BY <1>2, <1>3 DEF Access!IInv

\* Edits of one account, field by field.
LEMMA AccessReset ==
    ASSUME x1 \in [User -> Access!AccountRow], NEW u \in User, x3 \in Nat, x3' = x3, x1' = [x1 EXCEPT ![u].reset = 0]
    PROVE  /\ x1' \in [User -> Access!AccountRow]
           /\ \A v \in User : /\ x1'[v].verify = x1[v].verify /\ x1'[v].reset = IF v = u THEN 0 ELSE x1[v].reset
                              /\ x1'[v].is = x1[v].is /\ x1'[v].verified = x1[v].verified
    BY DEF Access!AccountRow

LEMMA AccessRole ==
    ASSUME x1 \in [User -> Access!AccountRow], NEW u \in User, NEW r \in {"admin", "analyst"}, x3 \in Nat, x3' = x3,
           x1' = [x1 EXCEPT ![u].role = r]
    PROVE  /\ x1' \in [User -> Access!AccountRow]
           /\ \A v \in User : /\ x1'[v].verify = x1[v].verify /\ x1'[v].reset = x1[v].reset
                              /\ x1'[v].is = x1[v].is /\ x1'[v].verified = x1[v].verified
    BY DEF Access!AccountRow

LEMMA AccessVerifies ==
    ASSUME x1 \in [User -> Access!AccountRow], NEW u \in User, x3 \in Nat, x3' = x3,
           x1' = [x1 EXCEPT ![u].verified = TRUE, ![u].verify = 0]
    PROVE  /\ x1' \in [User -> Access!AccountRow]
           /\ x1'[u].verified /\ x1'[u].verify = 0 /\ x1'[u].reset = x1[u].reset /\ x1'[u].is = x1[u].is
           /\ \A v \in User \ {u} : x1'[v] = x1[v]
<1> DEFINE y == [x1[u] EXCEPT !.verified = TRUE]
           k == [y EXCEPT !.verify = 0]
<1>1. x1' = [x1 EXCEPT ![u] = k]
    OBVIOUS
<1>2. y \in Access!AccountRow /\ y.verified /\ y.reset = x1[u].reset /\ y.is = x1[u].is
    BY DEF Access!AccountRow
<1> HIDE DEF y
<1>3. k \in Access!AccountRow /\ k.verify = 0 /\ k.reset = y.reset /\ k.is = y.is
    BY <1>2 DEF Access!AccountRow
<1>4. k.verified
    BY <1>2 DEF Access!AccountRow
<1> HIDE DEF k
<1>5. k \in Access!AccountRow
    BY <1>3
<1>6. x1' \in [User -> Access!AccountRow] /\ x1'[u] = k /\ \A v \in User \ {u} : x1'[v] = x1[v]
    BY <1>1, <1>5
<1>7. x1'[u].verified /\ x1'[u].verify = 0
    BY <1>3, <1>4, <1>6
<1>8. x1'[u].reset = x1[u].reset /\ x1'[u].is = x1[u].is
    BY <1>2, <1>3, <1>6
<1> QED BY <1>6, <1>7, <1>8

\* Accounts change: a link is kept, dropped or followed, and nobody who is verified ceases to be.
LEMMA AccessChanges ==
    ASSUME Access!IInv, x10' \in [Client -> Access!Locals], Access!CallsFollow',
           UNCHANGED <<x3, x5, x6, x8>>,
           x1' \in [User -> Access!AccountRow],
           \A u \in User : /\ x1'[u].verify \in {0, x1[u].verify} /\ x1'[u].reset \in {0, x1[u].reset}
                           /\ x1'[u].is = "member" /\ ~x1'[u].verified => x1[u].is = "member" /\ ~x1[u].verified,
           \/ x7' = x7 /\ x9' = x9
           \/ \E n \in 1..MaxLink : 
                 /\ n <= x3 /\ x9[n] = 0 /\ x9' = [x9 EXCEPT ![n] = 1] 
                 /\ \A u \in User : x1'[u].verify # n /\ x1'[u].reset # n
                 /\ \/ x7' = x7 
                    \/ x7' = 1 /\ \A u \in User : ~(x1'[u].is = "member" /\ ~x1'[u].verified)
    PROVE  Access!IInv'
<1>1. x3' = x3 /\ x5' = x5 /\ x6' = x6 /\ x8' = x8 /\ x1 \in [User -> Access!AccountRow] /\ x3 \in 1..MaxLink
      /\ x9 \in [1..MaxLink -> {0, 1}] /\ x7 \in {0, 1}
    BY DEF Access!IInv, Access!TypeOK
<1>2. Access!TypeOK'
    BY <1>1 DEF Access!IInv, Access!TypeOK, Access!AccountRow
<1>3. Access!CodesUnspent'
    BY <1>1 DEF Access!IInv, Access!CodesUnspent
<1>4. Access!LinksUnspent'
    <2>1. \A u \in User : x1[u].verify \in 0..x3 /\ x1[u].reset \in 0..x3
        BY <1>1 DEF Access!AccountRow
    <2>2. \A n \in 1..MaxLink : n > x3 => x9'[n] = 0
        BY <1>1, RecordsAssumption DEF Access!IInv, Access!LinksUnspent
    <2>3. ASSUME NEW u \in User
          PROVE  /\ x1'[u].verify # 0 => x9'[x1'[u].verify] = 0
                 /\ x1'[u].reset # 0 => x9'[x1'[u].reset] = 0
        <3>1. /\ x1[u].verify # 0 => x9[x1[u].verify] = 0 /\ x1[u].verify \in 1..MaxLink
              /\ x1[u].reset # 0 => x9[x1[u].reset] = 0 /\ x1[u].reset \in 1..MaxLink
            BY <1>1, <2>1, RecordsAssumption DEF Access!IInv, Access!LinksUnspent
        <3>2. \A m \in 1..MaxLink : x9[m] = 0 /\ (m = x1'[u].verify \/ m = x1'[u].reset) => x9'[m] = 0
            BY <1>1, ZenonT(30)
        <3> QED BY <3>1, <3>2
    <2>4. ASSUME NEW u \in User, NEW w \in User
          PROVE  /\ x1'[u].verify # 0 /\ x1'[u].verify = x1'[w].verify => u = w
                 /\ x1'[u].reset # 0 /\ x1'[u].reset = x1'[w].reset => u = w
                 /\ x1'[u].verify # 0 => x1'[u].verify # x1'[w].reset
        BY DEF Access!IInv, Access!LinksUnspent
    <2> QED BY <1>1, <2>2, <2>3, <2>4 DEF Access!LinksUnspent
<1>5. Access!FirstVerifies'
    BY <1>1 DEF Access!IInv, Access!FirstVerifies, Access!Members
<1> QED BY <1>2, <1>3, <1>4, <1>5 DEF Access!IInv

\* A link is mailed: one that nobody holds, and that has done nothing.
LEMMA AccessMails ==
    ASSUME Access!IInv, NEW u \in Access!Members, NEW field \in {"verify", "reset"}, Access!Mail(u, field),
           UNCHANGED <<x5, x6, x7, x8, x9, x10>>
    PROVE  Access!IInv'
<1>1. /\ x5' = x5 /\ x6' = x6 /\ x7' = x7 /\ x8' = x8 /\ x9' = x9 /\ x10' = x10
      /\ x1 \in [User -> Access!AccountRow] /\ x3 \in 1..MaxLink /\ x3' = x3 + 1 /\ x3 < MaxLink
      /\ x9 \in [1..MaxLink -> {0, 1}] /\ x7 \in {0, 1} /\ u \in User /\ x9[x3 + 1] = 0
    BY RecordsAssumption DEF Access!IInv, Access!TypeOK, Access!LinksUnspent, Access!Mail, Access!Members
<1>2. \A w \in User : x1[w].verify \in 0..x3 /\ x1[w].reset \in 0..x3
    BY <1>1 DEF Access!AccountRow
<1>3. /\ x1' \in [User -> [is : {"none", "member", "gone"}, role : {"none", "analyst", "admin"}, verified : BOOLEAN,
                           verify : 0..x3', reset : 0..x3']]
      /\ \A w \in User : /\ x1'[w].is = x1[w].is /\ x1'[w].verified = x1[w].verified
                         /\ x1'[w].verify = IF w = u /\ field = "verify" THEN x3 + 1 ELSE x1[w].verify
                         /\ x1'[w].reset = IF w = u /\ field = "reset" THEN x3 + 1 ELSE x1[w].reset
    <2>1. CASE field = "verify"
        <3>1. x1' = [x1 EXCEPT ![u].verify = x3 + 1]
            BY <2>1 DEF Access!Mail
        <3>2. x1 \in [User -> Access!AccountRow] /\ x3 \in Nat /\ x3' = x3 + 1 /\ u \in User
            BY <1>1
        <3> QED BY <2>1, <3>1, <3>2 DEF Access!AccountRow
    <2>2. CASE field = "reset"
        <3>1. x1' = [x1 EXCEPT ![u].reset = x3 + 1]
            BY <2>2 DEF Access!Mail
        <3>2. x1 \in [User -> Access!AccountRow] /\ x3 \in Nat /\ x3' = x3 + 1 /\ u \in User
            BY <1>1
        <3> QED BY <2>2, <3>1, <3>2 DEF Access!AccountRow
    <2> QED BY <2>1, <2>2
<1>4. Access!TypeOK'
    BY <1>1, <1>3, RecordsAssumption DEF Access!IInv, Access!TypeOK, Access!AccountRow
<1>5. Access!CodesUnspent' /\ Access!CallsFollow'
    BY <1>1 DEF Access!IInv, Access!CodesUnspent, Access!CallsFollow
<1>6. Access!LinksUnspent'
    <2>2. \A n \in 1..MaxLink : n > x3' => x9'[n] = 0
        BY <1>1, RecordsAssumption DEF Access!IInv, Access!LinksUnspent
    <2>3. ASSUME NEW w \in User
          PROVE  /\ x1'[w].verify # 0 => x9'[x1'[w].verify] = 0
                 /\ x1'[w].reset # 0 => x9'[x1'[w].reset] = 0
        BY <1>1, <1>3, ZenonT(30) DEF Access!IInv, Access!LinksUnspent
    <2>4. ASSUME NEW v \in User, NEW w \in User
          PROVE  /\ x1'[v].verify # 0 /\ x1'[v].verify = x1'[w].verify => v = w
                 /\ x1'[v].reset # 0 /\ x1'[v].reset = x1'[w].reset => v = w
                 /\ x1'[v].verify # 0 => x1'[v].verify # x1'[w].reset
        <3>1. /\ x1[v].verify # 0 /\ x1[v].verify = x1[w].verify => v = w
              /\ x1[v].reset # 0 /\ x1[v].reset = x1[w].reset => v = w
              /\ x1[v].verify # 0 => x1[v].verify # x1[w].reset
            BY DEF Access!IInv, Access!LinksUnspent
        <3>2. \A y \in {v, w} : x1[y].verify \in 0..x3 /\ x1[y].reset \in 0..x3
            BY <1>2
        <3>3. x3 \in Nat
            BY <1>1
        <3>4. \A y \in {v, w} : /\ x1'[y].verify = IF y = u /\ field = "verify" THEN x3 + 1 ELSE x1[y].verify
                                /\ x1'[y].reset = IF y = u /\ field = "reset" THEN x3 + 1 ELSE x1[y].reset
            BY <1>3
        <3> QED BY <3>1, <3>2, <3>3, <3>4
    <2> QED BY <1>1, <2>2, <2>3, <2>4 DEF Access!LinksUnspent
<1>7. Access!FirstVerifies'
    BY <1>1, <1>3 DEF Access!IInv, Access!FirstVerifies, Access!Members
<1> QED BY <1>4, <1>5, <1>6, <1>7 DEF Access!IInv

\* Codes are minted, spent or withdrawn.
LEMMA AccessCodes ==
    ASSUME Access!IInv, x10' \in [Client -> Access!Locals], Access!CallsFollow', 
           UNCHANGED <<x1, x3, x7, x9>>,
           \/ x5' = x5 /\ x6' = {} /\ x8' = x8
           \/ x5 < MaxCode /\ x5' = x5 + 1 /\ x6' = x6 \cup {x5 + 1} /\ x8' = x8
           \/ \E n \in x6 : x5' = x5 /\ x6' = x6 \ {n} /\ x8' = [x8 EXCEPT ![n] = @ + 1]
    PROVE  Access!IInv'
<1>1. /\ x1' = x1 /\ x3' = x3 /\ x7' = x7 /\ x9' = x9
      /\ x5 \in 0..MaxCode /\ x6 \subseteq 1..x5 /\ x8 \in [1..MaxCode -> {0, 1}]
      /\ \A n \in 1..MaxCode : n \in x6 \/ n > x5 => x8[n] = 0
    BY DEF Access!IInv, Access!TypeOK, Access!CodesUnspent
<1>2. x5' \in 0..MaxCode /\ x6' \subseteq 1..x5' /\ x8' \in [1..MaxCode -> {0, 1}] /\ Access!CodesUnspent'
    <2>1. CASE x5' = x5 /\ x6' = {} /\ x8' = x8
        BY <1>1, <2>1 DEF Access!CodesUnspent
    <2>2. CASE x5 < MaxCode /\ x5' = x5 + 1 /\ x6' = x6 \cup {x5 + 1} /\ x8' = x8
        BY <1>1, <2>2, RecordsAssumption DEF Access!CodesUnspent
    <2>3. CASE \E n \in x6 : x5' = x5 /\ x6' = x6 \ {n} /\ x8' = [x8 EXCEPT ![n] = @ + 1]
        BY <1>1, <2>3, RecordsAssumption DEF Access!CodesUnspent
    <2> QED BY <2>1, <2>2, <2>3
<1>3. Access!TypeOK'
    BY <1>1, <1>2 DEF Access!IInv, Access!TypeOK, Access!AccountRow
<1>4. Access!LinksUnspent' /\ Access!FirstVerifies'
    BY <1>1 DEF Access!IInv, Access!LinksUnspent, Access!FirstVerifies, Access!Members
<1> QED BY <1>2, <1>3, <1>4 DEF Access!IInv

LEMMA AccessStep ==
    ASSUME Access!IInv, [Access!Next]_(Access!vars)
    PROVE  Access!IInv'
<1>0. /\ x1 \in [User -> Access!AccountRow] /\ x3 \in 1..MaxLink /\ x3 \in Nat /\ x7 \in {0, 1} /\ Founder \in User \cup {Founder}
      /\ x10 \in [Client -> Access!Locals] /\ Access!CallsFollow /\ x9 \in [1..MaxLink -> {0, 1}]
      /\ \A c \in Client : x10[c].to \in User \cup {Founder} /\ x10[c].n \in Nat
      /\ \A u \in User : x1[u].verify \in Nat /\ x1[u].reset \in Nat
      /\ Access!Members \subseteq User
      /\ x6 \subseteq Nat
    BY DEF Access!IInv, Access!TypeOK, Access!Locals, Access!AccountRow, Access!Members
<1> DEFINE Calls == x10' \in [Client -> Access!Locals] /\ Access!CallsFollow'
           A == [Access!Absent EXCEPT !.is = "gone"]
           N == Access!Colleague
<1>k. /\ A \in Access!AccountRow /\ A.verify = 0 /\ A.reset = 0 /\ A.is # "member"
      /\ N \in Access!AccountRow /\ N.verify = 0 /\ N.reset = 0 /\ N.verified
    <2>1. x3 \in Nat
        BY <1>0
    <2> DEFINE r == Access!Absent
    <2>2. r \in Access!AccountRow /\ r.verify = 0 /\ r.reset = 0
        BY <2>1 DEF Access!AccountRow, Access!Absent
    <2>3. A = [r EXCEPT !.is = "gone"] /\ N = [r EXCEPT !.is = "member", !.role = "analyst", !.verified = TRUE]
        BY DEF Access!Colleague
    <2> HIDE DEF r
    <2>4. A \in Access!AccountRow /\ A.verify = 0 /\ A.reset = 0 /\ A.is # "member"
        BY <2>1, <2>2, <2>3 DEF Access!AccountRow
    <2>5. N \in Access!AccountRow /\ N.verify = 0 /\ N.reset = 0 /\ N.verified
        BY <2>1, <2>2, <2>3 DEF Access!AccountRow
    <2> QED BY <2>4, <2>5
<1> HIDE DEF A, N
<1>b. ASSUME NEW c \in Client, Access!End(c) PROVE Calls
    BY <1>b, AccessCalls
<1>c. ASSUME x10' = x10 PROVE Calls
    BY <1>0, <1>c DEF Access!CallsFollow
<1>d. ASSUME NEW c \in Client, NEW op \in Access!Ops, NEW w \in User, NEW u \in User, NEW n \in Nat,
             Access!Begin(c, Access!Call(op, w, u, n)), op \in {"verify", "reset"} => n # 0
      PROVE  Calls
    <2> DEFINE k == Access!Call(op, w, u, n)
    <2>1. k \in Access!Locals /\ k.op = op /\ k.n = n /\ k.to = u
        BY DEF Access!Locals, Access!Call
    <2>2. x10' = [x10 EXCEPT ![c] = k]
        BY <1>d DEF Access!Begin
    <2> HIDE DEF k
    <2> QED BY <1>d, <2>1, <2>2, AccessCalls
<1>e. ASSUME NEW u \in User, x1' = [x1 EXCEPT ![u] = N] \/ x1' = [x1 EXCEPT ![u] = A], UNCHANGED <<x3, x5, x6, x7, x8, x9>>,
             Calls
      PROVE  Access!IInv'
    <2>1. PICK k \in {A, N} : x1' = [x1 EXCEPT ![u] = k]
        BY <1>e
    <2>2. k \in Access!AccountRow /\ k.verify = 0 /\ k.reset = 0 /\ ~(k.is = "member" /\ ~k.verified)
        BY <1>k
    <2>3. /\ x1' \in [User -> Access!AccountRow]
          /\ \A v \in User : x1'[v] = IF v = u THEN k ELSE x1[v]
        BY <1>0, <2>1, <2>2
    <2> QED BY <1>e, <2>2, <2>3, AccessChanges
<1>1. CASE UNCHANGED Access!vars
    BY <1>1, <1>c, AccessLooks DEF Access!vars
<1>2. CASE Access!login
    BY <1>2, <1>c, AccessLooks DEF Access!login
<1>3. CASE Access!resendVerification \/ Access!requestPasswordReset
    BY <1>3, AccessMails DEF Access!resendVerification, Access!requestPasswordReset
<1>4. CASE Access!changePassword
    <2>1. PICK u \in User : x1' = [x1 EXCEPT ![u].reset = 0]
        BY <1>4 DEF Access!changePassword
    <2>2. /\ x1' \in [User -> Access!AccountRow]
          /\ \A v \in User : /\ x1'[v].verify = x1[v].verify /\ x1'[v].reset \in {0, x1[v].reset}
                             /\ x1'[v].is = x1[v].is /\ x1'[v].verified = x1[v].verified
        <3>1. x3 \in Nat /\ x3' = x3
            BY <1>0, <1>4 DEF Access!changePassword
        <3> QED BY <1>0, <2>1, <3>1, AccessReset, ZenonT(30)
    <2> QED BY <1>4, <1>c, <2>2, AccessChanges DEF Access!changePassword
<1>5. CASE Access!ssoComplete
    <2>1. /\ UNCHANGED <<x3, x5, x6, x7, x8, x9>> /\ Calls
          /\ x1' = x1 \/ \E u \in User : x1' = [x1 EXCEPT ![u] = N]
        BY <1>5, <1>c DEF Access!ssoComplete, N
    <2> QED BY <1>e, <2>1, AccessLooks
<1>6. ASSUME NEW c \in Client, Access!FindVerify(c) \/ Access!FindReset(c)
      PROVE  Access!IInv'
    <2>1. Calls /\ UNCHANGED <<x1, x3, x5, x6, x7, x8, x9>>
        BY <1>0, <1>6, <1>d DEF Access!FindVerify, Access!FindReset, Access!Ops
    <2> QED BY <2>1, AccessLooks
<1>7. ASSUME NEW c \in Client, \/ Access!CheckInvite(c) \/ Access!CheckMember(c)
                               \/ Access!CheckSso(c) \/ Access!CheckRegenerate(c) \/ Access!matchRecoveryCode(c)
                               \/ Access!deleteSso(c)
      PROVE  Access!IInv'
    <2>1. CASE Access!CheckInvite(c)
        BY <1>0, <2>1, <1>d, AccessLooks DEF Access!CheckInvite, Access!Ops
    <2>2. CASE Access!CheckMember(c)
        BY <1>0, <2>2, <1>d, AccessLooks DEF Access!CheckMember, Access!Ops
    <2>3. CASE Access!CheckSso(c)
        BY <1>0, <2>3, <1>d, AccessLooks DEF Access!CheckSso, Access!Ops
    <2>4. CASE Access!CheckRegenerate(c)
        BY <1>0, <2>4, <1>d, AccessLooks DEF Access!CheckRegenerate, Access!Ops
    <2>5. CASE Access!matchRecoveryCode(c)
        BY <1>0, <2>5, <1>d, AccessLooks DEF Access!matchRecoveryCode, Access!Ops
    <2>6. CASE Access!deleteSso(c)
        BY <1>0, <2>6, <1>d, AccessLooks DEF Access!deleteSso, Access!Ops
    <2> QED BY <1>7, <2>1, <2>2, <2>3, <2>4, <2>5, <2>6
<1>8. ASSUME NEW c \in Client, \/ Access!UpsertSso(c) \/ Access!CountCodes(c) \/ Access!Abort(c)
      PROVE  Access!IInv'
    <2>1. Calls
        BY <1>8, <1>b, AccessCalls DEF Access!UpsertSso, Access!CountCodes, Access!Abort
    <2> QED BY <1>8, <2>1, AccessLooks DEF Access!UpsertSso, Access!CountCodes, Access!Abort
<1>9. ASSUME NEW c \in Client, \/ Access!MintCodes(c) \/ Access!Withdraw(c)
      PROVE  Access!IInv'
    <2>1. Calls
        BY <1>9, <1>b, AccessCalls DEF Access!MintCodes, Access!Withdraw
    <2> QED BY <1>9, <2>1, AccessCodes DEF Access!MintCodes, Access!Withdraw
<1>10. ASSUME NEW c \in Client, Access!recoveryLogin(c)
      PROVE  Access!IInv'
    <2>1. Calls
        BY <1>10, <1>b DEF Access!recoveryLogin
    <2>2. CASE Access!Unspent(x10[c].n)
        BY <1>10, <2>1, <2>2, AccessCodes DEF Access!recoveryLogin, Access!Unspent
    <2>3. CASE ~Access!Unspent(x10[c].n)
        BY <1>10, <2>1, <2>3, AccessLooks DEF Access!recoveryLogin
    <2> QED BY <2>2, <2>3
<1>11. ASSUME NEW c \in Client, Access!invite(c)
      PROVE  Access!IInv'
    <2>1. Calls /\ UNCHANGED <<x3, x5, x6, x7, x8, x9>>
        BY <1>11, <1>b DEF Access!invite
    <2>2. x1' = x1 \/ x1' = [x1 EXCEPT ![x10[c].to] = N]
        BY <1>11 DEF Access!invite, N
    <2>3. x10[c].to \notin User => [x1 EXCEPT ![x10[c].to] = N] = x1
        BY <1>0
    <2>4. CASE x1' = x1
        BY <2>1, <2>4, AccessLooks
    <2>5. CASE x10[c].to \in User /\ x1' = [x1 EXCEPT ![x10[c].to] = N]
        BY <2>1, <2>5, <1>e
    <2> QED BY <2>2, <2>3, <2>4, <2>5
<1>12. ASSUME NEW c \in Client, Access!removeMember(c)
      PROVE  Access!IInv'
    <2>1. Calls /\ UNCHANGED <<x3, x5, x6, x7, x8, x9>>
        BY <1>12, <1>b DEF Access!removeMember
    <2>2. x1' = [x1 EXCEPT ![x10[c].to] = A]
        BY <1>12 DEF Access!removeMember, A
    <2>3. x10[c].to \notin User => [x1 EXCEPT ![x10[c].to] = A] = x1
        BY <1>0
    <2>4. CASE x1' = x1
        BY <2>1, <2>4, AccessLooks
    <2>5. CASE x10[c].to \in User
        BY <2>1, <2>2, <2>5, <1>e
    <2> QED BY <2>2, <2>3, <2>4, <2>5
<1>13. ASSUME NEW c \in Client, Access!setRole(c)
      PROVE  Access!IInv'
    <2>1. Calls /\ UNCHANGED <<x3, x5, x6, x7, x8, x9>>
        BY <1>13, <1>b DEF Access!setRole
    <2>2. CASE x1' = x1
        BY <2>1, <2>2, AccessLooks
    <2>3. CASE \E u \in User, r \in {"admin", "analyst"} : x1' = [x1 EXCEPT ![u].role = r]
        <3>1. PICK u \in User, r \in {"admin", "analyst"} : x1' = [x1 EXCEPT ![u].role = r]
            BY <2>3
        <3>2. /\ x1' \in [User -> Access!AccountRow]
              /\ \A v \in User : /\ x1'[v].verify = x1[v].verify /\ x1'[v].reset = x1[v].reset
                                 /\ x1'[v].is = x1[v].is /\ x1'[v].verified = x1[v].verified
            BY <1>0, <2>1, <3>1, AccessRole
        <3> QED BY <2>1, <3>2, AccessChanges
    <2> QED BY <1>0, <1>13, <2>2, <2>3 DEF Access!setRole
<1>14. ASSUME NEW c \in Client, Access!verifyEmail(c)
      PROVE  Access!IInv'
    <2> DEFINE u == x10[c].to
               n == x10[c].n
    <2>1. Calls /\ UNCHANGED <<x3, x5, x6, x8>> /\ u \in User /\ n \in Nat /\ n # 0
        BY <1>0, <1>14, <1>b DEF Access!verifyEmail, Access!CallsFollow
    <2> HIDE DEF u, n
    <2>2. CASE ~(u \in Access!Members /\ x1[u].verify = n /\ ~x1[u].verified)
        <3>1. UNCHANGED <<x1, x7, x9>>
            BY <1>14, <2>2 DEF Access!verifyEmail, Access!Holds, u, n
        <3> QED BY <2>1, <3>1, AccessLooks
    <2>3. CASE u \in Access!Members /\ x1[u].verify = n /\ ~x1[u].verified
        <3>1. /\ x1' = [x1 EXCEPT ![u].verified = TRUE, ![u].verify = 0]
              /\ x7' = x7 + 1 /\ x9' = [x9 EXCEPT ![n] = @ + 1]
            BY <1>14, <2>3 DEF Access!verifyEmail, Access!Holds, u, n
        <3>2. /\ x1' \in [User -> Access!AccountRow]
              /\ x1'[u].verified /\ x1'[u].verify = 0 /\ x1'[u].reset = x1[u].reset /\ x1'[u].is = x1[u].is
              /\ \A v \in User \ {u} : x1'[v] = x1[v]
            BY <1>0, <2>1, <3>1, AccessVerifies
        <3>3. n <= x3 /\ n \in 1..MaxLink /\ x9[n] = 0
            BY <1>0, <2>1, <2>3, RecordsAssumption DEF Access!AccountRow, Access!IInv, Access!LinksUnspent
        <3>4. x9' = [x9 EXCEPT ![n] = 1]
            BY <1>0, <3>1, <3>3
        <3>5. \A v \in User : x1'[v].verify # n /\ x1'[v].reset # n
            BY <2>1, <2>3, <3>2 DEF Access!IInv, Access!LinksUnspent
        <3>6. x7' = 1 /\ \A v \in User : ~(x1'[v].is = "member" /\ ~x1'[v].verified)
            BY <2>1, <2>3, <3>1, <3>2 DEF Access!IInv, Access!FirstVerifies, Access!Members
        <3>7. \A v \in User : /\ x1'[v].verify \in {0, x1[v].verify} /\ x1'[v].reset \in {0, x1[v].reset}
                              /\ x1'[v].is = "member" /\ ~x1'[v].verified => x1[v].is = "member" /\ ~x1[v].verified
            BY <3>2
        <3> QED BY <2>1, <3>2, <3>3, <3>4, <3>5, <3>6, <3>7, AccessChanges
    <2> QED BY <2>2, <2>3
<1>15. ASSUME NEW c \in Client, Access!resetPassword(c)
      PROVE  Access!IInv'
    <2> DEFINE u == x10[c].to
               n == x10[c].n
    <2>1. Calls /\ UNCHANGED <<x3, x5, x6, x8>> /\ x7' = x7 /\ u \in User /\ n \in Nat /\ n # 0
        BY <1>0, <1>15, <1>b DEF Access!resetPassword, Access!CallsFollow
    <2> HIDE DEF u, n
    <2>2. \/ x1' = x1 /\ x9' = x9
          \/ x1' = [x1 EXCEPT ![u].reset = 0] /\ x9' = x9
          \/ x1' = [x1 EXCEPT ![u].reset = 0] /\ x9' = [x9 EXCEPT ![n] = @ + 1] /\ x1[u].reset = n
        BY <1>15 DEF Access!resetPassword, Access!Holds, u, n
    <2>3. ASSUME x1' = [x1 EXCEPT ![u].reset = 0]
          PROVE  /\ x1' \in [User -> Access!AccountRow]
                 /\ \A v \in User : /\ x1'[v].verify = x1[v].verify /\ x1'[v].reset = IF v = u THEN 0 ELSE x1[v].reset
                                    /\ x1'[v].is = x1[v].is /\ x1'[v].verified = x1[v].verified
        BY <1>0, <2>1, <2>3, AccessReset
    <2>4. CASE x1' = x1 /\ x9' = x9
        BY <2>1, <2>4, AccessLooks
    <2>5. CASE x1' = [x1 EXCEPT ![u].reset = 0] /\ x9' = x9
        BY <2>1, <2>3, <2>5, AccessChanges
    <2>6. CASE x1' = [x1 EXCEPT ![u].reset = 0] /\ x9' = [x9 EXCEPT ![n] = @ + 1] /\ x1[u].reset = n
        <3>3. n <= x3 /\ n \in 1..MaxLink /\ x9[n] = 0
            BY <1>0, <2>1, <2>6, RecordsAssumption DEF Access!AccountRow, Access!IInv, Access!LinksUnspent
        <3>4. x9' = [x9 EXCEPT ![n] = 1]
            BY <1>0, <2>6, <3>3
        <3>5. \A v \in User : x1'[v].verify # n /\ x1'[v].reset # n
            BY <2>1, <2>3, <2>6 DEF Access!IInv, Access!LinksUnspent
        <3> QED BY <2>1, <2>3, <2>6, <3>3, <3>4, <3>5, AccessChanges, ZenonT(30)
    <2> QED BY <2>2, <2>4, <2>5, <2>6
<1> QED BY <1>1, <1>2, <1>3, <1>4, <1>5, <1>6, <1>7, <1>8, <1>9, <1>10, <1>11, <1>12, <1>13, <1>14, <1>15
        DEF Access!Next

LEMMA AccessInit == Access!Init => Access!IInv
<1> SUFFICES ASSUME Access!Init PROVE Access!IInv
    OBVIOUS
<1>1. /\ x1 \in [User -> Access!AccountRow] /\ x10 \in [Client -> Access!Locals]
      /\ \A c \in Client : x10[c].op = "idle"
      /\ \A u \in User : /\ x1[u].reset = 0 /\ x1[u].verify = IF u = Founder THEN 1 ELSE 0
                         /\ x1[u].is = "member" => u = Founder
    BY RecordsAssumption DEF Access!Init, Access!AccountRow, Access!Locals, Access!Ops, Access!Free,
       Access!Call, Access!Absent
<1>2. Access!TypeOK
    BY <1>1, RecordsAssumption DEF Access!Init, Access!TypeOK
<1>3. Access!CallsFollow /\ Access!CodesUnspent
    BY <1>1 DEF Access!Init, Access!CallsFollow, Access!CodesUnspent
<1>4. Access!LinksUnspent
    BY <1>1, RecordsAssumption DEF Access!Init, Access!LinksUnspent
<1>5. Access!FirstVerifies
    BY <1>1 DEF Access!Init, Access!FirstVerifies, Access!Members
<1> QED BY <1>2, <1>3, <1>4, <1>5 DEF Access!IInv

LEMMA AccessHolds == Access!IInv => Access!UsedOnce
    BY DEF Access!IInv, Access!TypeOK, Access!UsedOnce

(***************************************************************************)
(* SharedReports: the time is x1, the links x2, the requests x6, the panel  *)
(* x7, what was sent x8.                                                    *)
(***************************************************************************)
SharesIdle == [at : {"idle"}]
SharesRevoke == [at : {"revoke"}, link : ShareLink]
SharesShow == [at : {"creator", "render", "count", "send"}, link : ShareLink, seen : Nat, iat : Nat]
SharesLoad == [at : {"creator", "render", "send"}, link : {0}, signed : Nat, iat : Nat]
SharesCalls == SharesIdle \cup SharesRevoke \cup SharesShow \cup SharesLoad

LEMMA SharesCount == \A S : Shares!Cardinality(S) = Cardinality(S)
    BY DEF Cardinality, Shares!Cardinality
LEMMA SharesFinite == \A S : Shares!IsFiniteSet(S) <=> IsFiniteSet(S)
    BY DEF IsFiniteSet, Shares!IsFiniteSet

\* The row of a link that was made.
SharesMade == [made : {TRUE}, expiresAt : Int, revoked : BOOLEAN, viewCount : Nat]
LEMMA SharesRow ==
    ASSUME NEW s \in Shares!ShareRow, s.made
    PROVE  s \in SharesMade /\ s.viewCount \in Nat
<1>1. s # Shares!NoShare
    BY DEF Shares!NoShare
<1>2. s \in SharesMade
    BY <1>1 DEF Shares!ShareRow, SharesMade
<1> QED BY <1>2 DEF SharesMade

\* What a link shows is covered by its views, with the counting of the library.
SharesCover(l) ==
    /\ IsFiniteSet(Shares!Sending(l))
    /\ IF x2[l].made THEN x8[l] + Cardinality(Shares!Sending(l)) <= x2[l].viewCount ELSE x8[l] = 0
LEMMA SharesViews ==
    /\ Shares!ViewsCover <=> \A l \in ShareLink : SharesCover(l)
    /\ Shares!ViewsCover' <=> \A l \in ShareLink : SharesCover(l)'
<1>1. Shares!ViewsCover <=> \A l \in ShareLink : SharesCover(l)
    BY SharesCount, SharesFinite DEF Shares!ViewsCover, SharesCover
<1>2. Shares!ViewsCover' <=> \A l \in ShareLink : SharesCover(l)'
    BY SharesCount, SharesFinite DEF Shares!ViewsCover, SharesCover
<1> QED BY <1>1, <1>2

\* A link that was not made has no request about it.
LEMMA SharesFacts ==
    ASSUME Shares!IInv
    PROVE  /\ x1 \in Nat /\ x2 \in [ShareLink -> Shares!ShareRow] /\ x8 \in [ShareLink -> Nat] /\ x7 \subseteq ShareLink
           /\ x6 \in [Client -> SharesCalls] /\ x5 \in Nat
           /\ \A l \in ShareLink : SharesCover(l) /\ (l \in x7 => x2[l].made)
           /\ \A l \in ShareLink, r \in Client : x6[r] # Shares!Idle /\ x6[r].link = l => x2[l].made
           /\ \A l \in ShareLink : ~x2[l].made => Shares!Sending(l) = {}
           /\ Shares!Idle \in SharesCalls /\ Shares!Idle.at = "idle"
           /\ \A k \in SharesCalls : k.at = "idle" <=> k = Shares!Idle
<1>1. Shares!Idle \in SharesCalls /\ Shares!Idle.at = "idle" /\ \A k \in SharesCalls : k.at = "idle" <=> k = Shares!Idle
    BY DEF Shares!Idle, SharesCalls, SharesIdle, SharesRevoke, SharesShow, SharesLoad
<1>2. x6 \in [Client -> SharesCalls]
    BY DEF Shares!IInv, Shares!TypeOK, SharesCalls, SharesIdle, SharesRevoke, SharesShow, SharesLoad
<1>3. \A l \in ShareLink, r \in Client : x6[r] # Shares!Idle /\ x6[r].link = l => x2[l].made
    BY DEF Shares!IInv, Shares!LinksMade
<1>4. \A l \in ShareLink : ~x2[l].made => Shares!Sending(l) = {}
    BY <1>1, <1>2, <1>3 DEF Shares!Sending
<1>5. \A l \in ShareLink : SharesCover(l) /\ (l \in x7 => x2[l].made)
    BY SharesViews DEF Shares!IInv, Shares!LinksMade
<1> QED BY <1>1, <1>2, <1>3, <1>4, <1>5 DEF Shares!IInv, Shares!TypeOK

\* Links are kept, with their views, and requests move on without sending one.
LEMMA SharesKeep ==
    ASSUME Shares!IInv, x1' \in Nat, x5' \in Nat, x2' \in [ShareLink -> Shares!ShareRow], x7' \subseteq ShareLink,
           x6' \in [Client -> SharesCalls], x8' = x8,
           \A l \in ShareLink : /\ x2[l].made => x2'[l].made /\ x2'[l].viewCount = x2[l].viewCount
                                /\ ~x2[l].made /\ x2'[l].made => x2'[l].viewCount = 0
                                /\ l \in x7' => x2'[l].made
                                /\ Shares!Sending(l)' \subseteq Shares!Sending(l),
           \A l \in ShareLink, r \in Client : x6'[r] # Shares!Idle /\ x6'[r].link = l => x2'[l].made
    PROVE  Shares!IInv'
<1>1. Shares!TypeOK' /\ Shares!LinksMade'
    BY SharesFacts DEF Shares!TypeOK, Shares!LinksMade, Shares!ShareRow, Shares!NoShare, SharesCalls, SharesIdle, SharesRevoke,
                       SharesShow, SharesLoad, Shares!Idle
<1>2. ASSUME NEW l \in ShareLink
      PROVE  SharesCover(l)'
    <2>1. SharesCover(l) /\ x8[l] \in Nat /\ (~x2[l].made => Shares!Sending(l) = {})
        BY SharesFacts
    <2> DEFINE S == Shares!Sending(l)
               T == Shares!Sending(l)'
    <2>2. T \subseteq S
        OBVIOUS
    <2>3. IsFiniteSet(S)
        BY <2>1 DEF SharesCover
    <2> HIDE DEF S, T
    <2>4. IsFiniteSet(T) /\ Cardinality(T) \in Nat /\ Cardinality(S) \in Nat /\ Cardinality(T) <= Cardinality(S)
        BY <2>2, <2>3, FS_Subset, FS_CardinalityType
    <2>5. S = {} => Cardinality(T) = 0
        BY <2>2, FS_EmptySet
    <2>6. x2[l].made => x8[l] + Cardinality(S) <= x2[l].viewCount
        BY <2>1 DEF SharesCover, S
    <2>7. ~x2[l].made => x8[l] = 0 /\ S = {}
        BY <2>1 DEF SharesCover, S
    <2>8. x2[l].made => x2[l].viewCount \in Nat
        BY SharesFacts, SharesRow
    <2>9. IF x2'[l].made THEN x8'[l] + Cardinality(T) <= x2'[l].viewCount ELSE x8'[l] = 0
        BY <2>1, <2>4, <2>5, <2>6, <2>7, <2>8
    <2> QED BY <2>4, <2>9 DEF SharesCover, T
<1> QED BY <1>1, <1>2, SharesViews DEF Shares!IInv

\* One request moves, and sends no link.
LEMMA SharesMoves ==
    ASSUME Shares!IInv, NEW r \in Client, NEW k \in SharesCalls, x6' = [x6 EXCEPT ![r] = k],
           k.at = "send" => k.link = 0,
           k.at # "idle" => k.link = 0 \/ (k.link \in ShareLink /\ x2[k.link].made),
           UNCHANGED <<x1, x2, x5, x7, x8>>
    PROVE  Shares!IInv'
<1>1. \A q \in Client : x6'[q] = IF q = r THEN k ELSE x6[q]
    BY SharesFacts
<1>2. x1' = x1 /\ x5' = x5 /\ x2' = x2 /\ x7' = x7 /\ x8' = x8 /\ x6' \in [Client -> SharesCalls]
    BY SharesFacts
<1>3. \A l \in ShareLink : Shares!Sending(l)' \subseteq Shares!Sending(l)
    BY <1>1, RecordsAssumption DEF Shares!Sending
<1>4. \A l \in ShareLink, q \in Client : x6'[q] # Shares!Idle /\ x6'[q].link = l => x2'[l].made
    BY <1>1, <1>2, SharesFacts, RecordsAssumption
<1> QED BY <1>2, <1>3, <1>4, SharesFacts, SharesKeep

LEMMA SharesStep ==
    ASSUME Shares!IInv, [Shares!Next]_(Shares!vars)
    PROVE  Shares!IInv'
<1>1. CASE UNCHANGED <<x2, x6, x7, x8>> /\ x1' \in Nat /\ x5' \in Nat
    <2>1. x2' = x2 /\ x6' = x6 /\ x7' = x7 /\ x8' = x8 /\ \A l \in ShareLink : Shares!Sending(l)' = Shares!Sending(l)
        BY <1>1 DEF Shares!Sending
    <2> QED BY <1>1, <2>1, SharesFacts, SharesKeep
<1>2. CASE Shares!Fetch
    <2>1. x1' = x1 /\ x5' = x5 /\ x2' = x2 /\ x6' = x6 /\ x8' = x8 /\ \A l \in ShareLink : Shares!Sending(l)' = Shares!Sending(l)
        BY <1>2 DEF Shares!Fetch, Shares!Sending
    <2>2. x7' \subseteq ShareLink /\ \A l \in ShareLink : l \in x7' => x2[l].made
        BY <1>2 DEF Shares!Fetch, Shares!Live
    <2> QED BY <2>1, <2>2, SharesFacts, SharesKeep
<1>3. ASSUME NEW m \in ShareLink, Shares!createShare(m)
      PROVE  Shares!IInv'
    <2> DEFINE k == [made |-> TRUE, expiresAt |-> x1 + Days, revoked |-> FALSE, viewCount |-> 0]
    <2>1. /\ x1' = x1 /\ x5' = x5 /\ x6' = x6 /\ x7' = x7 /\ x8' = x8 /\ \A l \in ShareLink : Shares!Sending(l)' = Shares!Sending(l)
          /\ ~x2[m].made /\ x2' = [x2 EXCEPT ![m] = k]
        BY <1>3 DEF Shares!createShare, Shares!Sending
    <2>2. k \in Shares!ShareRow /\ k.made /\ k.viewCount = 0
        BY SharesFacts, RecordsAssumption DEF Shares!ShareRow, SharesMade
    <2> HIDE DEF k
    <2>3. x2' \in [ShareLink -> Shares!ShareRow] /\ \A l \in ShareLink : x2'[l] = IF l = m THEN k ELSE x2[l]
        BY <2>1, <2>2, SharesFacts
    <2>4. \A l \in ShareLink : /\ x2[l].made => x2'[l].made /\ x2'[l].viewCount = x2[l].viewCount
                               /\ ~x2[l].made /\ x2'[l].made => x2'[l].viewCount = 0
        BY <2>1, <2>2, <2>3
    <2> QED BY <2>1, <2>3, <2>4, SharesFacts, SharesKeep
<1>4. ASSUME NEW r \in Client, NEW l \in ShareLink, Shares!FindShare(r, l)
      PROVE  Shares!IInv'
    <2> DEFINE k == [at |-> "revoke", link |-> l]
    <2>1. x6' = [x6 EXCEPT ![r] = k] /\ UNCHANGED <<x1, x2, x5, x7, x8>> /\ x2[l].made
        BY <1>4, SharesFacts DEF Shares!FindShare
    <2>2. k \in SharesCalls /\ k.at = "revoke" /\ k.link = l
        BY DEF SharesCalls, SharesRevoke
    <2> HIDE DEF k
    <2> QED BY <2>1, <2>2, SharesMoves
<1>5. ASSUME NEW r \in Client, Shares!revokeShare(r)
      PROVE  Shares!IInv'
    <2>1. PICK q \in SharesRevoke : q = x6[r]
        BY <1>5, SharesFacts DEF Shares!revokeShare, SharesCalls, SharesIdle, SharesRevoke, SharesShow, SharesLoad
    <2>2. q.link \in ShareLink /\ q.at = "revoke"
        BY DEF SharesRevoke
    <2>3. PICK m \in ShareLink : m = q.link
        BY <2>2
    <2>4. x2[m].made
        BY <2>1, <2>2, <2>3, SharesFacts
    <2> DEFINE k == [x2[m] EXCEPT !.revoked = TRUE]
    <2>5. /\ x1' = x1 /\ x5' = x5 /\ x7' = x7 /\ x8' = x8 /\ x2' = [x2 EXCEPT ![m] = k]
          /\ x6' = [x6 EXCEPT ![r] = Shares!Idle]
        BY <1>5, <2>1, <2>3 DEF Shares!revokeShare
    <2>6. k \in Shares!ShareRow /\ k.made /\ k.viewCount = x2[m].viewCount
        <3>1. PICK s \in SharesMade : s = x2[m]
            BY <2>4, SharesFacts, SharesRow
        <3>2. k = [s EXCEPT !.revoked = TRUE]
            BY <3>1
        <3>3. /\ [s EXCEPT !.revoked = TRUE] \in SharesMade
              /\ [s EXCEPT !.revoked = TRUE].viewCount = s.viewCount
            BY DEF SharesMade
        <3> HIDE DEF k
        <3>4. k \in SharesMade /\ k.viewCount = s.viewCount
            BY <3>2, <3>3
        <3> QED BY <3>1, <3>4 DEF Shares!ShareRow, SharesMade
    <2> HIDE DEF k
    <2>7. x2' \in [ShareLink -> Shares!ShareRow] /\ \A l \in ShareLink : x2'[l] = IF l = m THEN k ELSE x2[l]
        BY <2>5, <2>6, SharesFacts
    <2>8. /\ x6' \in [Client -> SharesCalls]
          /\ \A p \in Client : x6'[p] = IF p = r THEN Shares!Idle ELSE x6[p]
        BY <2>5, SharesFacts
    <2>9. \A l \in ShareLink : Shares!Sending(l)' \subseteq Shares!Sending(l)
        BY <2>8, SharesFacts DEF Shares!Sending
    <2>10. \A l \in ShareLink : /\ x2[l].made => x2'[l].made /\ x2'[l].viewCount = x2[l].viewCount
                                /\ ~x2[l].made /\ x2'[l].made => x2'[l].viewCount = 0
        BY <2>4, <2>6, <2>7
    <2>11. \A l \in ShareLink, p \in Client : x6'[p] # Shares!Idle /\ x6'[p].link = l => x2'[l].made
        BY <2>8, <2>10, SharesFacts
    <2> QED BY <2>5, <2>7, <2>8, <2>9, <2>10, <2>11, SharesFacts, SharesKeep
<1>6. ASSUME NEW r \in Client, NEW l \in ShareLink, Shares!Open(r, l)
      PROVE  Shares!IInv'
    <2> DEFINE k == [at |-> "creator", link |-> l, seen |-> x2[l].viewCount, iat |-> 0]
    <2>1. x6' = [x6 EXCEPT ![r] = k] /\ UNCHANGED <<x1, x2, x5, x7, x8>> /\ x2[l].made
        BY <1>6, SharesFacts DEF Shares!Open, Shares!Live
    <2>2. x2[l].viewCount \in Nat
        BY <2>1, SharesFacts, SharesRow
    <2>3. k \in SharesCalls /\ k.at = "creator" /\ k.link = l
        BY <2>2 DEF SharesCalls, SharesShow
    <2> HIDE DEF k
    <2> QED BY <2>1, <2>3, SharesMoves
<1>7. ASSUME NEW r \in Client, Shares!Download(r)
      PROVE  Shares!IInv'
    <2> DEFINE k == [at |-> "creator", link |-> 0, signed |-> x5, iat |-> 0]
    <2>1. x6' = [x6 EXCEPT ![r] = k] /\ UNCHANGED <<x1, x2, x5, x7, x8>>
        BY <1>7, SharesFacts DEF Shares!Download
    <2>3. k \in SharesCalls /\ k.at = "creator" /\ k.link = 0
        BY SharesFacts DEF SharesCalls, SharesLoad
    <2> HIDE DEF k
    <2> QED BY <2>1, <2>3, SharesMoves
<1>8. ASSUME NEW r \in Client, Shares!CheckCreator(r)
      PROVE  Shares!IInv'
    <2>1. x6[r].at = "creator" /\ x6[r] \in SharesCalls /\ UNCHANGED <<x1, x2, x5, x7, x8>> /\ x1 \in Nat
        BY <1>8, SharesFacts DEF Shares!CheckCreator
    <2>2. CASE x3
        <3> DEFINE k == [x6[r] EXCEPT !.at = "render", !.iat = x1]
        <3>1. x6' = [x6 EXCEPT ![r] = k]
            BY <1>8, <2>2 DEF Shares!CheckCreator
        <3>2. k \in SharesCalls /\ k.at = "render" /\ k.link = x6[r].link /\ (k.link = 0 \/ k.link \in ShareLink)
            <4>1. CASE x6[r] \in SharesShow
                BY <2>1, <4>1 DEF SharesShow, SharesCalls
            <4>2. CASE x6[r] \in SharesLoad
                BY <2>1, <4>2 DEF SharesLoad, SharesCalls
            <4> QED BY <2>1, <4>1, <4>2 DEF SharesCalls, SharesIdle, SharesRevoke
        <3>3. k.link = 0 \/ (k.link \in ShareLink /\ x2[k.link].made)
            BY <2>1, <3>2, SharesFacts
        <3> HIDE DEF k
        <3> QED BY <2>1, <3>1, <3>2, <3>3, SharesMoves
    <2>3. CASE ~x3
        <3> DEFINE k == Shares!Idle
        <3>1. x6' = [x6 EXCEPT ![r] = k] /\ k \in SharesCalls /\ k.at = "idle"
            BY <1>8, <2>3, SharesFacts DEF Shares!CheckCreator
        <3> HIDE DEF k
        <3> QED BY <2>1, <3>1, SharesMoves
    <2> QED BY <2>2, <2>3
<1>9. ASSUME NEW r \in Client, Shares!Render(r)
      PROVE  Shares!IInv'
    <2>1. x6[r].at = "render" /\ x6[r] \in SharesCalls /\ UNCHANGED <<x1, x2, x5, x7, x8>>
        BY <1>9, SharesFacts DEF Shares!Render
    <2> DEFINE k == [x6[r] EXCEPT !.at = IF x6[r].link = 0 THEN "send" ELSE "count", !.iat = 0]
    <2>2. x6' = [x6 EXCEPT ![r] = k]
        BY <1>9 DEF Shares!Render
    <2>3. /\ k \in SharesCalls /\ k.at \in {"send", "count"} /\ k.link = x6[r].link /\ (k.at = "send" => k.link = 0)
          /\ k.link = 0 \/ k.link \in ShareLink
        <3>1. CASE x6[r] \in SharesShow
            <4>1. x6[r].link # 0
                BY <3>1, RecordsAssumption DEF SharesShow
            <4> QED BY <2>1, <3>1, <4>1 DEF SharesShow, SharesCalls
        <3>2. CASE x6[r] \in SharesLoad
            BY <2>1, <3>2 DEF SharesLoad, SharesCalls
        <3> QED BY <2>1, <3>1, <3>2 DEF SharesCalls, SharesIdle, SharesRevoke
    <2>4. k.link = 0 \/ (k.link \in ShareLink /\ x2[k.link].made)
        BY <2>1, <2>3, SharesFacts
    <2> HIDE DEF k
    <2> QED BY <2>1, <2>2, <2>3, <2>4, SharesMoves
<1>10. ASSUME NEW r \in Client, Shares!Fail(r)
      PROVE  Shares!IInv'
    <2> DEFINE k == Shares!Idle
    <2>1. x6' = [x6 EXCEPT ![r] = k] /\ k \in SharesCalls /\ k.at = "idle" /\ UNCHANGED <<x1, x2, x5, x7, x8>>
        BY <1>10, SharesFacts DEF Shares!Fail
    <2> HIDE DEF k
    <2> QED BY <2>1, SharesMoves
<1>11. ASSUME NEW r \in Client, Shares!CountView(r)
      PROVE  Shares!IInv'
    <2>1. PICK q \in SharesShow : q = x6[r]
        BY <1>11, SharesFacts DEF Shares!CountView, SharesCalls, SharesIdle, SharesRevoke, SharesShow, SharesLoad
    <2>2. PICK m \in ShareLink : m = q.link
        BY DEF SharesShow
    <2>3. x2[m].made /\ x6[r].at = "count"
        BY <1>11, <2>1, <2>2, SharesFacts DEF Shares!CountView
    <2> DEFINE s == [x2[m] EXCEPT !.viewCount = x2[m].viewCount + 1]
               k == [q EXCEPT !.at = "send"]
    <2>4. /\ x1' = x1 /\ x5' = x5 /\ x7' = x7 /\ x8' = x8 /\ x2' = [x2 EXCEPT ![m] = s]
          /\ x6' = [x6 EXCEPT ![r] = k]
        BY <1>11, <2>1, <2>2 DEF Shares!CountView, Shares!Counted
    <2>5. s \in Shares!ShareRow /\ s.made /\ s.viewCount = x2[m].viewCount + 1 /\ x2[m].viewCount \in Nat
        <3>1. PICK t \in SharesMade : t = x2[m]
            BY <2>3, SharesFacts, SharesRow
        <3>2. PICK n \in Nat : n = t.viewCount + 1
            BY DEF SharesMade
        <3>3. s = [t EXCEPT !.viewCount = n]
            BY <3>1, <3>2
        <3>4. [t EXCEPT !.viewCount = n] \in SharesMade
            BY DEF SharesMade
        <3>5. [t EXCEPT !.viewCount = n].viewCount = n
            BY DEF SharesMade
        <3>6. [t EXCEPT !.viewCount = n].made
            BY <3>4 DEF SharesMade
        <3>7. t.viewCount \in Nat
            BY DEF SharesMade
        <3> QED BY <3>1, <3>2, <3>3, <3>4, <3>5, <3>6, <3>7 DEF Shares!ShareRow, SharesMade
    <2>6. k \in SharesCalls /\ k.at = "send" /\ k.link = m
        BY <2>2 DEF SharesShow, SharesCalls
    <2> HIDE DEF s, k
    <2>7. /\ x2' \in [ShareLink -> Shares!ShareRow] /\ \A l \in ShareLink : x2'[l] = IF l = m THEN s ELSE x2[l]
          /\ x6' \in [Client -> SharesCalls] /\ \A p \in Client : x6'[p] = IF p = r THEN k ELSE x6[p]
        BY <2>4, <2>5, <2>6, SharesFacts
    <2>8. \A l \in ShareLink : x2'[l].made <=> x2[l].made
        BY <2>3, <2>5, <2>7
    <2>9. Shares!TypeOK' /\ Shares!LinksMade'
        <3>1. Shares!TypeOK'
            BY <2>4, <2>7, SharesFacts DEF Shares!TypeOK, Shares!ShareRow, SharesCalls, SharesIdle, SharesRevoke,
                                           SharesShow, SharesLoad
        <3>2. Shares!LinksMade'
            BY <2>1, <2>2, <2>3, <2>4, <2>6, <2>7, <2>8, SharesFacts DEF Shares!LinksMade
        <3> QED BY <3>1, <3>2
    <2>10. ASSUME NEW l \in ShareLink
           PROVE  SharesCover(l)'
        <3>1. Shares!Sending(l)' = IF l = m THEN Shares!Sending(l) \cup {r} ELSE Shares!Sending(l)
            BY <2>1, <2>2, <2>3, <2>6, <2>7 DEF Shares!Sending
        <3>2. r \notin Shares!Sending(l) /\ SharesCover(l) /\ x8[l] \in Nat
            BY <2>3, SharesFacts DEF Shares!Sending
        <3>3. l = m => IsFiniteSet(Shares!Sending(l)') /\ Cardinality(Shares!Sending(l)') = Cardinality(Shares!Sending(l)) + 1
            BY <3>1, <3>2, FS_AddElement DEF SharesCover
        <3>4. Cardinality(Shares!Sending(l)) \in Nat
            BY <3>2, FS_CardinalityType DEF SharesCover
        <3> QED BY <2>3, <2>4, <2>5, <2>7, <3>1, <3>2, <3>3, <3>4 DEF SharesCover
    <2> QED BY <2>9, <2>10, SharesViews DEF Shares!IInv
<1>12. ASSUME NEW r \in Client, Shares!Send(r)
      PROVE  Shares!IInv'
    <2>1. /\ x1' = x1 /\ x7' = x7 /\ x2' = x2 /\ x6' = [x6 EXCEPT ![r] = Shares!Idle] /\ x6[r].at = "send"
          /\ x8' = [l \in ShareLink |-> IF l = x6[r].link THEN x8[l] + 1 ELSE x8[l]] /\ x5' = x5
        BY <1>12 DEF Shares!Send
    <2>2. /\ x6' \in [Client -> SharesCalls] /\ \A p \in Client : x6'[p] = IF p = r THEN Shares!Idle ELSE x6[p]
        BY <2>1, SharesFacts
    <2>3. Shares!TypeOK' /\ Shares!LinksMade'
        <3>0. x8' \in [ShareLink -> Nat] /\ x5' \in Nat
            BY <2>1, SharesFacts
        <3>1. Shares!TypeOK'
            BY <2>1, <2>2, <3>0, SharesFacts DEF Shares!TypeOK, Shares!ShareRow, SharesCalls, SharesIdle, SharesRevoke,
                                           SharesShow, SharesLoad
        <3>2. Shares!LinksMade'
            BY <2>1, <2>2, SharesFacts DEF Shares!LinksMade
        <3> QED BY <3>1, <3>2
    <2>4. ASSUME NEW l \in ShareLink
          PROVE  SharesCover(l)'
        <3>1. Shares!Sending(l)' = Shares!Sending(l) \ {r} /\ (r \in Shares!Sending(l) <=> l = x6[r].link)
            BY <2>1, <2>2, SharesFacts DEF Shares!Sending
        <3>2. SharesCover(l) /\ x8[l] \in Nat /\ (~x2[l].made => Shares!Sending(l) = {})
            BY SharesFacts
        <3>3. /\ IsFiniteSet(Shares!Sending(l)') /\ Cardinality(Shares!Sending(l)) \in Nat
              /\ Cardinality(Shares!Sending(l)') =
                   IF l = x6[r].link THEN Cardinality(Shares!Sending(l)) - 1 ELSE Cardinality(Shares!Sending(l))
            BY <3>1, <3>2, FS_RemoveElement, FS_CardinalityType DEF SharesCover
        <3>4. x2[l].made => x2[l].viewCount \in Nat
            BY SharesFacts, SharesRow
        <3> QED BY <2>1, <3>1, <3>2, <3>3, <3>4 DEF SharesCover
    <2> QED BY <2>3, <2>4, SharesViews DEF Shares!IInv
<1>13. (Shares!Tick \/ Shares!Leave \/ Shares!EndSessions \/ Shares!downloadToken \/ UNCHANGED Shares!vars) =>
          UNCHANGED <<x2, x6, x7, x8>> /\ x1' \in Nat /\ x5' \in Nat
    BY SharesFacts DEF Shares!Tick, Shares!Leave, Shares!EndSessions, Shares!downloadToken, Shares!vars
<1> QED BY <1>1, <1>2, <1>3, <1>4, <1>5, <1>6, <1>7, <1>8, <1>9, <1>10, <1>11, <1>12, <1>13
        DEF Shares!Next

LEMMA SharesInit == Shares!Init => Shares!IInv
<1> SUFFICES ASSUME Shares!Init PROVE Shares!IInv
    OBVIOUS
<1>1. Shares!TypeOK /\ Shares!LinksMade
    BY DEF Shares!Init, Shares!TypeOK, Shares!LinksMade, Shares!ShareRow, Shares!NoShare, Shares!Idle
<1>2. \A l \in ShareLink : Shares!Sending(l) = {} /\ ~x2[l].made /\ x8[l] = 0
    BY DEF Shares!Init, Shares!Sending, Shares!Idle, Shares!NoShare
<1>3. \A l \in ShareLink : SharesCover(l)
    BY <1>2, FS_EmptySet DEF SharesCover
<1> QED BY <1>1, <1>3, SharesViews DEF Shares!IInv

LEMMA SharesHolds == Shares!IInv => Shares!OpensAreCounted
<1> SUFFICES ASSUME Shares!IInv, NEW l \in ShareLink, x8[l] > 0
             PROVE  x2[l].made /\ x8[l] <= x2[l].viewCount
    BY DEF Shares!OpensAreCounted
<1>1. SharesCover(l) /\ x8[l] \in Nat
    BY SharesFacts
<1>2. Cardinality(Shares!Sending(l)) \in Nat
    BY <1>1, FS_CardinalityType DEF SharesCover
<1>3. x2[l].made => x2[l].viewCount \in Nat
    BY SharesFacts, SharesRow
<1> QED BY <1>1, <1>2, <1>3 DEF SharesCover

-----------------------------------------------------------------------------
(***************************************************************************)
(* SignInThrottle: the time is x1, the row x2, its owner x3, the requests   *)
(* x4 and the failures x5.                                                  *)
(***************************************************************************)

\* One request moves, to a time it read before now; who has the row locked is still writing it.
LEMMA ThrottleMoves ==
    ASSUME Throttle!IInv, NEW p \in Attempt,
           NEW k \in [at : {"idle", "allowed", "expire", "count", "lock"}, now : Nat], x4' = [x4 EXCEPT ![p] = k],
           x1' = x1, k.now <= x1, k.at \in {"expire", "count", "lock"} => k.now > 0,
           x3' \in {x3, p, Throttle!NoOwner}, x3' # x3 => x3 \in {p, Throttle!NoOwner},
           x3' = p <=> k.at = "lock" \/ (k.at = "count" /\ x3' = p),
           x2' \in [count : Nat, until : Nat], x5' \in Nat, x2'.count = x5',
           x3' = Throttle!NoOwner /\ x2'.count >= MAX_FAILURES => x2'.until # 0
    PROVE  Throttle!IInv'
<1> USE DEF Throttle!IInv
<1>1. /\ x4' \in [Attempt -> [at : {"idle", "allowed", "expire", "count", "lock"}, now : Nat]]
      /\ \A q \in Attempt : x4'[q] = IF q = p THEN k ELSE x4[q]
    BY DEF Throttle!TypeOK
<1>2. Throttle!TypeOK'
    BY <1>1 DEF Throttle!TypeOK
<1>3. Throttle!OwnerWrites'
    BY <1>1, RecordsAssumption DEF Throttle!OwnerWrites, Throttle!NoOwner
<1>4. Throttle!RowTells'
    BY DEF Throttle!RowTells
<1> QED BY <1>2, <1>3, <1>4

LEMMA ThrottleStep ==
    ASSUME Throttle!IInv, [Throttle!Next]_(Throttle!vars)
    PROVE  Throttle!IInv'
<1> DEFINE Call == [at : {"idle", "allowed", "expire", "count", "lock"}, now : Nat]
<1>0. /\ x1 \in Nat /\ x5 \in Nat /\ x2 \in [count : Nat, until : Nat] /\ x2.count = x5 /\ x1 > 0
      /\ x4 \in [Attempt -> Call] /\ MAX_FAILURES \in Nat \ {0} /\ LOCK \in Nat
      /\ Throttle!Idle \in Call /\ Throttle!Idle.at = "idle" /\ Throttle!Idle.now = 0
      /\ Throttle!NoRow \in [count : Nat, until : Nat] /\ Throttle!NoRow.count = 0
      /\ Throttle!NoOwner \notin Attempt
      /\ \A p \in Attempt : /\ x4[p].now <= x1 /\ (x3 = p => x4[p].at \in {"count", "lock"})
                            /\ (x4[p].at = "lock" => x3 = p)
                            /\ (x4[p].at \in {"expire", "count", "lock"} => x4[p].now > 0)
      /\ (x3 = Throttle!NoOwner /\ x2.count >= MAX_FAILURES => x2.until # 0)
    BY RecordsAssumption DEF Throttle!IInv, Throttle!TypeOK, Throttle!RowTells, Throttle!OwnerWrites, Throttle!Idle,
           Throttle!NoRow, Throttle!NoOwner
<1>1. CASE Throttle!Tick \/ UNCHANGED Throttle!vars
    BY <1>0, <1>1 DEF Throttle!Tick, Throttle!vars, Throttle!IInv, Throttle!TypeOK, Throttle!RowTells, Throttle!OwnerWrites
<1>2. ASSUME NEW p \in Attempt, Throttle!checkLockout(p)
      PROVE  Throttle!IInv'
    <2> DEFINE k == [x4[p] EXCEPT !.at = "allowed"]
    <2>1. k \in Call /\ k.at = "allowed" /\ k.now <= x1 /\ x4' = [x4 EXCEPT ![p] = k] /\ x3 # p
        BY <1>0, <1>2 DEF Throttle!checkLockout, Throttle!Goes
    <2> HIDE DEF k
    <2> QED BY <1>0, <1>2, <2>1, ThrottleMoves DEF Throttle!checkLockout
<1>3. ASSUME NEW p \in Attempt, Throttle!recordSuccess(p)
      PROVE  Throttle!IInv'
    <2>1. x3 = Throttle!NoOwner /\ x3' = x3
        BY <1>0, <1>3 DEF Throttle!recordSuccess, Throttle!MayWrite
    <2>2. x1' = x1 /\ x2' = Throttle!NoRow /\ x5' = 0 /\ x4' = [x4 EXCEPT ![p] = Throttle!Idle]
        BY <1>3 DEF Throttle!recordSuccess
    <2> DEFINE k == Throttle!Idle
    <2>3. k \in Call /\ k.at = "idle" /\ k.now <= x1 /\ x4' = [x4 EXCEPT ![p] = k] /\ x3' # p
        BY <1>0, <2>1, <2>2
    <2>4. x2' \in [count : Nat, until : Nat] /\ x5' \in Nat /\ x2'.count = x5' /\ ~(x2'.count >= MAX_FAILURES)
        BY <1>0, <2>2
    <2> HIDE DEF k
    <2> QED BY <1>0, <2>1, <2>2, <2>3, <2>4, ThrottleMoves
<1>4. ASSUME NEW p \in Attempt, Throttle!recordFailure(p)
      PROVE  Throttle!IInv'
    <2> DEFINE k == [at |-> "expire", now |-> x1]
    <2>1. k \in Call /\ k.at = "expire" /\ k.now = x1 /\ x4' = [x4 EXCEPT ![p] = k] /\ x3 # p
        BY <1>0, <1>4 DEF Throttle!recordFailure
    <2> HIDE DEF k
    <2>2. x1' = x1 /\ x2' = x2 /\ x3' = x3 /\ x5' = x5
        BY <1>4 DEF Throttle!recordFailure
    <2>3. k.now <= x1 /\ x3' # p
        BY <1>0, <2>1, <2>2
    <2> QED BY <1>0, <2>1, <2>2, <2>3, ThrottleMoves
<1>5. ASSUME NEW p \in Attempt, Throttle!ExpireLock(p)
      PROVE  Throttle!IInv'
    <2> DEFINE k == [x4[p] EXCEPT !.at = "count"]
    <2>1. /\ k \in Call /\ k.at = "count" /\ k.now = x4[p].now /\ x4[p].at = "expire" /\ x4' = [x4 EXCEPT ![p] = k]
          /\ x3 = Throttle!NoOwner /\ x1' = x1
        BY <1>0, <1>5 DEF Throttle!ExpireLock, Throttle!Goes, Throttle!MayWrite
    <2> HIDE DEF k
    <2>2. /\ x3' \in {x3, p} /\ x2' \in [count : Nat, until : Nat] /\ x5' \in Nat /\ x2'.count = x5'
          /\ (x3' = Throttle!NoOwner => x2' = x2)
        BY <1>0, <1>5 DEF Throttle!ExpireLock
    <2> QED BY <1>0, <2>1, <2>2, ThrottleMoves
<1>6. ASSUME NEW p \in Attempt, Throttle!CountFailure(p)
      PROVE  Throttle!IInv'
    <2> DEFINE k == [x4[p] EXCEPT !.at = "lock"]
    <2>1. /\ k \in Call /\ k.at = "lock" /\ k.now = x4[p].now /\ x4[p].at = "count" /\ x4' = [x4 EXCEPT ![p] = k]
          /\ x3 \in {p, Throttle!NoOwner} /\ x3' = p /\ x1' = x1 /\ x5' = x5 + 1
        BY <1>0, <1>6 DEF Throttle!CountFailure, Throttle!Goes, Throttle!MayWrite
    <2> HIDE DEF k
    <2>2. x2' \in [count : Nat, until : Nat] /\ x2'.count = x5 + 1
        BY <1>0, <1>6 DEF Throttle!CountFailure
    <2> QED BY <1>0, <2>1, <2>2, ThrottleMoves
<1>7. ASSUME NEW p \in Attempt, Throttle!LockAccount(p)
      PROVE  Throttle!IInv'
    <2>1. /\ x4[p].at = "lock" /\ x3 = p /\ x4[p].now \in Nat /\ x4[p].now > 0 /\ x3' = Throttle!NoOwner
          /\ x1' = x1 /\ x5' = x5 /\ x4' = [x4 EXCEPT ![p] = Throttle!Idle]
        BY <1>0, <1>7 DEF Throttle!LockAccount
    <2>2. x2' \in [count : Nat, until : Nat] /\ x2'.count = x5 /\ (x5 >= MAX_FAILURES => x2'.until # 0)
        BY <1>0, <1>7, <2>1 DEF Throttle!LockAccount
    <2> DEFINE k == Throttle!Idle
    <2>3. k \in Call /\ k.at = "idle" /\ k.now <= x1 /\ x4' = [x4 EXCEPT ![p] = k] /\ x3' # p
        BY <1>0, <2>1
    <2>4. x2'.count >= MAX_FAILURES => x2'.until # 0
        BY <2>2
    <2> HIDE DEF k
    <2> QED BY <1>0, <2>1, <2>2, <2>3, <2>4, ThrottleMoves
<1>8. ASSUME NEW p \in Attempt, Throttle!Crash(p)
      PROVE  Throttle!IInv'
    <2> DEFINE k == Throttle!Idle
    <2>1. x3 # p /\ x4' = [x4 EXCEPT ![p] = k] /\ x1' = x1 /\ x2' = x2 /\ x3' = x3 /\ x5' = x5
        BY <1>8 DEF Throttle!Crash
    <2>2. k \in Call /\ k.at = "idle" /\ k.now <= x1
        BY <1>0
    <2> HIDE DEF k
    <2> QED BY <1>0, <2>1, <2>2, ThrottleMoves
<1> QED BY <1>1, <1>2, <1>3, <1>4, <1>5, <1>6, <1>7, <1>8 DEF Throttle!Next

LEMMA ThrottleInit == Throttle!Init => Throttle!IInv
    BY RecordsAssumption DEF Throttle!Init, Throttle!IInv, Throttle!TypeOK, Throttle!RowTells, Throttle!OwnerWrites,
       Throttle!NoRow, Throttle!Idle, Throttle!NoOwner

\* A lock that has not ended by now had not ended when a request read the time.
LEMMA ThrottleTells ==
    ASSUME Throttle!IInv, Throttle!IInv', [Throttle!Next]_(Throttle!vars)
    PROVE  Throttle!Tells
<1>1. x2'.count = x5' /\ (x3' = Throttle!NoOwner /\ x2'.count >= MAX_FAILURES => x2'.until # 0)
    BY DEF Throttle!IInv, Throttle!RowTells, Throttle!NoOwner
<1>2. ASSUME NEW p \in Attempt, Throttle!ExpireLock(p), x2.until > x1
      PROVE  x2' = x2
    <2>1. x4[p].now <= x1 /\ x4[p].now \in Nat /\ x1 \in Nat /\ x2.until \in Nat
        BY DEF Throttle!IInv, Throttle!TypeOK, Throttle!OwnerWrites
    <2> QED BY <1>2, <2>1 DEF Throttle!ExpireLock, Throttle!Ended
<1> QED BY <1>1, <1>2 DEF Throttle!Tells, Throttle!NoOwner

-----------------------------------------------------------------------------
(***************************************************************************)
(* All of them: a step of the run is a step of the one machine it is of.    *)
(***************************************************************************)
MachinesHold ==
    /\ part = "Cost" => Cost!IInv
    /\ part = "Register" => Register!IInv
    /\ part = "Sales" => Sales!IInv
    /\ part = "FollowUps" => FollowUps!IInv
    /\ part = "Xero" => Xero!IInv
    /\ part = "Bank" => Bank!IInv
    /\ part = "Sources" => Sources!IInv
    /\ part = "Listing" => Listing!IInv
    /\ part = "Access" => Access!IInv
    /\ part = "Shares" => Shares!IInv
    /\ part = "Throttle" => Throttle!IInv

LEMMA RoomHolds == (RecordsInit \/ RecordsIdle => OInv) /\ (OInv /\ [RecordsNext]_records => OInv')
<1>1. RecordsInit \/ RecordsIdle => OInv
    BY InitOInv DEF RecordsInit, RecordsIdle
<1>2. [RecordsNext]_records => [Next]_vars
    BY DEF RecordsNext, RoomStep, records
<1> QED BY <1>1, <1>2, StepOInv

LEMMA MachinesInit == RecordsInit \/ RecordsIdle => MachinesHold
    BY CostInit, RegisterInit, SalesInit, FollowUpsInit, XeroInit, BankInit, SourcesInit, ListingInit, AccessInit, SharesInit, ThrottleInit DEF RecordsInit, RecordsIdle, MachinesHold

LEMMA MachinesStep ==
    ASSUME MachinesHold, [RecordsNext]_records
    PROVE  MachinesHold'
<1>1. part' = part
    BY DEF RecordsNext, records
<1>2. CASE part = "Cost"
    <2>1. Cost!IInv /\ [Cost!Next]_(Cost!vars)
        BY <1>2 DEF MachinesHold, RecordsNext, records, slots, Cost!vars
    <2> QED BY <1>1, <1>2, <2>1, CostStep DEF MachinesHold
<1>3. CASE part = "Register"
    <2>1. Register!IInv /\ [Register!Next]_(Register!vars)
        BY <1>3 DEF MachinesHold, RecordsNext, records, slots, Register!vars
    <2> QED BY <1>1, <1>3, <2>1, RegisterStep DEF MachinesHold
<1>4. CASE part = "Sales"
    <2>1. Sales!IInv /\ [Sales!Next]_(Sales!vars)
        BY <1>4 DEF MachinesHold, RecordsNext, records, slots, Sales!vars
    <2> QED BY <1>1, <1>4, <2>1, SalesStep DEF MachinesHold
<1>5. CASE part = "FollowUps"
    <2>1. FollowUps!IInv /\ [FollowUps!Next]_(FollowUps!vars)
        BY <1>5 DEF MachinesHold, RecordsNext, records, slots, FollowUps!vars
    <2> QED BY <1>1, <1>5, <2>1, FollowUpsStep DEF MachinesHold
<1>6. CASE part = "Xero"
    <2>1. Xero!IInv /\ [Xero!Next]_(Xero!vars)
        BY <1>6 DEF MachinesHold, RecordsNext, records, slots, Xero!vars
    <2> QED BY <1>1, <1>6, <2>1, XeroStep DEF MachinesHold
<1>7. CASE part = "Bank"
    <2>1. Bank!IInv /\ [Bank!Next]_(Bank!vars)
        BY <1>7 DEF MachinesHold, RecordsNext, records, slots, Bank!vars
    <2> QED BY <1>1, <1>7, <2>1, BankStep DEF MachinesHold
<1>8. CASE part = "Sources"
    <2>1. Sources!IInv /\ [Sources!Next]_(Sources!vars)
        BY <1>8 DEF MachinesHold, RecordsNext, records, slots, Sources!vars
    <2> QED BY <1>1, <1>8, <2>1, SourcesStep DEF MachinesHold
<1>9. CASE part = "Listing"
    <2>1. Listing!IInv /\ [Listing!Next]_(Listing!vars)
        BY <1>9 DEF MachinesHold, RecordsNext, records, slots, Listing!vars
    <2> QED BY <1>1, <1>9, <2>1, ListingStep DEF MachinesHold
<1>10. CASE part = "Access"
    <2>1. Access!IInv /\ [Access!Next]_(Access!vars)
        BY <1>10 DEF MachinesHold, RecordsNext, records, slots, Access!vars
    <2> QED BY <1>1, <1>10, <2>1, AccessStep DEF MachinesHold
<1>11. CASE part = "Shares"
    <2>1. Shares!IInv /\ [Shares!Next]_(Shares!vars)
        BY <1>11 DEF MachinesHold, RecordsNext, records, slots, Shares!vars
    <2> QED BY <1>1, <1>11, <2>1, SharesStep DEF MachinesHold
<1>12. CASE part = "Throttle"
    <2>1. Throttle!IInv /\ [Throttle!Next]_(Throttle!vars)
        BY <1>12 DEF MachinesHold, RecordsNext, records, slots, Throttle!vars
    <2> QED BY <1>1, <1>12, <2>1, ThrottleStep DEF MachinesHold
<1> QED BY <1>1, <1>2, <1>3, <1>4, <1>5, <1>6, <1>7, <1>8, <1>9, <1>10, <1>11, <1>12 DEF MachinesHold

-----------------------------------------------------------------------------
\* Every row, request and record of the data room stays within its type.
THEOREM TypeCorrect == RecordsSpec => []TypeOK
<1>1. OInv => TypeOK
    BY DEF OInv, IInv
<1> QED BY RoomHolds, <1>1, PTL DEF RecordsSpec

\* Following supersededById from any document ends, whoever links and unlinks meanwhile, as the comment at
\* ops.ts:912 says; and a plot's buyer is shown and signs only what was offered to that plot, on a plot that
\* exists, and no placeholder: sharing, signing and deleting a plot each write after what they checked.
THEOREM RoomStands == RecordsSpec => []RoomSound
<1>1. OInv => RoomSound
    BY ForwardEnds DEF OInv, IInv, RoomSound
<1> QED BY RoomHolds, <1>1, PTL DEF RecordsSpec

\* What a package is committed to is what was entered for it or the ledger gave, and it and the photograph are
\* of contractors on the register, whatever is saved meanwhile; while no two requests overlap there is one plan
\* and one imported package, no contract is dropped and every week logged is kept (costMonitoring.ts, ops.ts).
THEOREM CostRecordStands == RecordsSpec => []CostRecordSound
<1>1. MachinesHold => CostRecordSound
    BY CostHolds DEF MachinesHold, CostRecordSound
<1> QED BY MachinesInit, MachinesStep, <1>1, PTL DEF RecordsSpec

\* Money on an account keeps its investor and a holding is what was typed for it, field by field; a save of a plot
\* or a tenancy that found its stamp keeps what was not typed; a deposit of a plot is recorded after its milestone,
\* and a milestone with a date is done, however drawers, advances and deletions overlap or die.
THEOREM RegisterStands == RecordsSpec => []RegisterSound
<1>1. MachinesHold => RegisterSound
    BY RegisterHolds, SalesHolds DEF MachinesHold, RegisterSound
<1> QED BY MachinesInit, MachinesStep, <1>1, PTL DEF RecordsSpec

\* A submission has one task, of what its author reviewed and in a status somebody asked for, however
\* often its requests are sent and whenever they are carried out (FieldFollowups.tsx, ops.ts).
THEOREM FollowUpsHoldUp == RecordsSpec => []FollowUpsSound
<1>1. MachinesHold => FollowUpsSound
    BY FollowUpsHold DEF MachinesHold, FollowUpsSound
<1> QED BY MachinesInit, MachinesStep, <1>1, PTL DEF RecordsSpec

\* Of the tokens Xero stored one is alive, or a refresh has yet to store it; a booking of the bank is counted once and
\* under what people said it is; what a panel shows as found its source had published by the time it is dated, and one
\* refresh is under way; a walk through the deals gives none twice and at its end every deal that was there all along.
THEOREM FeedsStand == RecordsSpec => []FeedsSound
<1>1. MachinesHold => FeedsSound
    BY XeroHolds, BankHolds, SourcesHolds, ListingHolds DEF MachinesHold, FeedsSound
<1> QED BY MachinesInit, MachinesStep, <1>1, PTL DEF RecordsSpec

\* A code and a link are used once; what a link to a report showed is counted and a withdrawn one shows nothing more;
\* and failed sign-ins add up to a lock, which stands until it is over or somebody signs in, however the requests,
\* each of several reads and writes, overlap (auth.ts, public-appraisal.ts, login-throttle.ts).
THEOREM WaysInAreHeld == RecordsSpec => WaysInHold
<1>1. MachinesHold => (part = "Access" => Access!UsedOnce) /\ (part = "Shares" => Shares!OpensAreCounted)
    BY AccessHolds, SharesHolds DEF MachinesHold
<1>2. MachinesHold /\ MachinesHold' /\ [RecordsNext]_records => [part = "Throttle" => Throttle!Tells]_slots
    <2> SUFFICES ASSUME MachinesHold, MachinesHold', [RecordsNext]_records, part = "Throttle"
                 PROVE  Throttle!Tells
        OBVIOUS
    <2>1. part' = part /\ Throttle!IInv /\ [Throttle!Next]_(Throttle!vars)
        BY DEF MachinesHold, RecordsNext, records, slots, Throttle!vars
    <2>2. Throttle!IInv'
        BY <2>1 DEF MachinesHold
    <2> QED BY <2>1, <2>2, ThrottleTells
<1> QED BY MachinesInit, MachinesStep, <1>1, <1>2, PTL DEF RecordsSpec, WaysInHold
=============================================================================
