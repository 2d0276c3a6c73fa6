----------------------------- MODULE SharedReports ----------------------------
(***************************************************************************)
(* Who may fetch a report as a PDF (reports.ts): the holder of a read-only  *)
(* link (share.ts, createShare and revokeShare of routers/appraisal.ts,      *)
(* ShareLinks.tsx) and a colleague with a token for one document            *)
(* (download-token.ts).                                                    *)
(*                                                                         *)
(* Rendering takes seconds (ReportRendering); a link may be withdrawn, and   *)
(* whoever made it may leave, while it lasts.                               *)
(***************************************************************************)
EXTENDS Integers, FiniteSets

CONSTANTS
    Link,        \* links ever made
    Request,     \* requests of the server
    Days, TTL,   \* how long a link and a token live
    MaxViews,    \* bound on the views of a link
    MaxNow       \* bound on time

VARIABLES
    now,         \* time
    share,       \* the ReportShare rows
    member,      \* whether the colleague is still in the firm
    validFrom,   \* User.sessionsValidFrom
    token,       \* when the colleague's token for the document was signed; 0 before
    request,     \* what each request is doing
    panel,       \* the links the panel shows as live
    opens,       \* for each link, how often its PDF was sent
    withdrawn    \* for each link, how often its withdrawal is on the trail

vars == <<now, share, member, validFrom, token, request, panel, opens, withdrawn>>

NoShare == [made |-> FALSE]
Idle == [at |-> "idle"]

Init ==
    /\ now = 1 /\ share = [l \in Link |-> NoShare] /\ member = TRUE /\ validFrom = 0 /\ token = 0
    /\ request = [r \in Request |-> Idle] /\ panel = {}
    /\ opens = [l \in Link |-> 0] /\ withdrawn = [l \in Link |-> 0]

Tick ==
    /\ now < MaxNow /\ now' = now + 1
    /\ UNCHANGED <<share, member, validFrom, token, request, panel, opens, withdrawn>>

\* The colleague is removed from the firm, or ends every session (a new password).
Leave ==
    /\ member /\ member' = FALSE
    /\ UNCHANGED <<now, share, validFrom, token, request, panel, opens, withdrawn>>
EndSessions ==
    /\ validFrom # now /\ validFrom' = now
    /\ UNCHANGED <<now, share, member, token, request, panel, opens, withdrawn>>

\* createShare.  The token itself is returned once and only its hash is kept.
createShare(l) ==
    /\ member /\ ~share[l].made
    /\ share' = [share EXCEPT ![l] =
                   [made |-> TRUE, expiresAt |-> now + Days, revoked |-> FALSE, viewCount |-> 0]]
    /\ UNCHANGED <<now, member, validFrom, token, request, panel, opens, withdrawn>>

\* shareRefusal
Live(s) == s.made /\ ~s.revoked /\ now < s.expiresAt

\* The panel is opened, or its list is fetched again.
Fetch ==
    /\ panel' = {l \in Link : Live(share[l])} /\ panel' # panel
    /\ UNCHANGED <<now, share, member, validFrom, token, request, opens, withdrawn>>

\* revokeShare: the row is read, then withdrawn by id and the withdrawal recorded.
FindShare(r, l) ==
    /\ request[r] = Idle /\ l \in panel
    /\ ~share[l].revoked
    /\ request' = [request EXCEPT ![r] = [at |-> "revoke", link |-> l]]
    /\ UNCHANGED <<now, share, member, validFrom, token, panel, opens, withdrawn>>
revokeShare(r) ==
    LET l == request[r].link
    IN /\ request[r].at = "revoke"
       /\ share' = [share EXCEPT ![l].revoked = TRUE]
       /\ withdrawn' = [withdrawn EXCEPT ![l] = @ + 1]
       /\ request' = [request EXCEPT ![r] = Idle]
       /\ UNCHANGED <<now, member, validFrom, token, panel, opens>>

\* downloadToken
downloadToken ==
    /\ member /\ token # now /\ token' = now
    /\ UNCHANGED <<now, share, member, validFrom, request, panel, opens, withdrawn>>

-----------------------------------------------------------------------------
\* /shared/:token.pdf: the link is looked up, then whoever made it.
Open(r, l) ==
    /\ request[r] = Idle /\ Live(share[l])
    /\ request' = [request EXCEPT ![r] = [at |-> "creator", link |-> l, seen |-> share[l].viewCount, iat |-> 0]]
    /\ UNCHANGED <<now, share, member, validFrom, token, panel, opens, withdrawn>>

\* /reports/:dealId/:kind.pdf: a token for this document, not expired and not older than the cut-off.
Honoured == token # 0 /\ now <= token + TTL /\ token >= validFrom
Download(r) ==
    /\ request[r] = Idle /\ Honoured
    /\ request' = [request EXCEPT ![r] = [at |-> "creator", link |-> 0, signed |-> token, iat |-> 0]]
    /\ UNCHANGED <<now, share, member, validFrom, token, panel, opens, withdrawn>>

\* The account must still be the firm's; the page is rendered with a token signed now.
CheckCreator(r) ==
    /\ request[r].at = "creator"
    /\ request' = [request EXCEPT ![r] = IF member THEN [@ EXCEPT !.at = "render", !.iat = now] ELSE Idle]
    /\ UNCHANGED <<now, share, member, validFrom, token, panel, opens, withdrawn>>

\* The PDF is there, if the page could still be read with that token.
Render(r) ==
    /\ request[r].at = "render" /\ member /\ request[r].iat >= validFrom
    /\ request' = [request EXCEPT ![r].at = IF request[r].link = 0 THEN "send" ELSE "count", ![r].iat = 0]
    /\ UNCHANGED <<now, share, member, validFrom, token, panel, opens, withdrawn>>

\* No slot, no page in time, or the process ends.
Fail(r) ==
    /\ request[r] # Idle /\ request' = [request EXCEPT ![r] = Idle]
    /\ UNCHANGED <<now, share, member, validFrom, token, panel, opens, withdrawn>>

\* As if a view were counted from the row that was read when the link was opened.
FromRead(r) == request[r].seen + 1

\* The view is counted in one statement.
Counted(r) == share[request[r].link].viewCount + 1

CountView(r) ==
    /\ request[r].at = "count" /\ share[request[r].link].viewCount < MaxViews
    /\ share' = [share EXCEPT ![request[r].link].viewCount = Counted(r)]
    /\ request' = [request EXCEPT ![r].at = "send"]
    /\ UNCHANGED <<now, member, validFrom, token, panel, opens, withdrawn>>

\* The trail is written, and the PDF sent.
Send(r) ==
    /\ request[r].at = "send"
    /\ opens' = [l \in Link |-> IF l = request[r].link THEN opens[l] + 1 ELSE opens[l]]
    /\ request' = [request EXCEPT ![r] = Idle]
    /\ UNCHANGED <<now, share, member, validFrom, token, panel, withdrawn>>

Next ==
    \/ Tick \/ Leave \/ EndSessions \/ Fetch \/ downloadToken
    \/ \E l \in Link : createShare(l)
    \/ \E r \in Request :
        \/ Download(r) \/ CheckCreator(r) \/ Render(r) \/ Fail(r) \/ CountView(r) \/ Send(r) \/ revokeShare(r)
        \/ \E l \in Link : FindShare(r, l) \/ Open(r, l)

Spec == Init /\ [][Next]_vars

-----------------------------------------------------------------------------
(* Properties *)

\* Every time a report left by a link is counted, however many open it at once; a link
\* whose count is 0 has shown nobody anything.
OpensAreCounted == \A l \in Link : opens[l] > 0 => share[l].made /\ opens[l] <= share[l].viewCount

-----------------------------------------------------------------------------
(* The inductive invariant.                                                 *)

ShareRow == {NoShare} \cup [made : {TRUE}, expiresAt : Int, revoked : BOOLEAN, viewCount : Nat]
TypeOK ==
    /\ now \in Nat /\ share \in [Link -> ShareRow] /\ opens \in [Link -> Nat] /\ panel \subseteq Link
    /\ token \in Nat
    /\ request \in [Request -> [at : {"idle"}] \cup [at : {"revoke"}, link : Link]
                       \cup [at : {"creator", "render", "count", "send"}, link : Link, seen : Nat, iat : Nat]
                       \cup [at : {"creator", "render", "send"}, link : {0}, signed : Nat, iat : Nat]]

\* A request about a link is about one that was made.
LinksMade == \A l \in Link :
    /\ l \in panel => share[l].made
    /\ \A r \in Request : request[r] # Idle /\ request[r].link = l => share[l].made

\* What has left by a link, and what is about to, was counted.
Sending(l) == {r \in Request : request[r].at = "send" /\ request[r].link = l}
ViewsCover == \A l \in Link :
    /\ IsFiniteSet(Sending(l))
    /\ IF share[l].made THEN opens[l] + Cardinality(Sending(l)) <= share[l].viewCount ELSE opens[l] = 0

IInv == TypeOK /\ LinksMade /\ ViewsCover

-----------------------------------------------------------------------------
(* Refuted *)

\* Refuted: a withdrawn link opens nothing (share.ts:17).  One that is being rendered is sent.
WithdrawnOpensNothing == [][\A l \in Link : opens'[l] > opens[l] => ~share[l].revoked]_opens

\* Refuted: a token does not outlive a change of password (download-token.ts:93), likewise.
TokensEndWithSessions == [][\A r \in Request :
    request[r].at = "send" /\ request'[r] = Idle /\ request[r].link = 0 => request[r].signed >= validFrom]_request

\* Refuted: a withdrawal is recorded once: two who press at once both record it.
WithdrawnOnce == \A l \in Link : withdrawn[l] <= 1

=============================================================================
