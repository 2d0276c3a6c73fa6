----------------------------- MODULE SourceCache -----------------------------
(***************************************************************************)
(* The cache in front of one public source (opendata-cache.ts), for one key *)
(* of one table and several processes of the server: panels of the site      *)
(* pack (routers/sitepack.ts) and the place of a postcode (locate) read it,  *)
(* a sweep (row-sweeper.ts) empties it.                                     *)
(***************************************************************************)
EXTENDS Integers, FiniteSets

CONSTANTS
    Server,          \* processes
    Reader,          \* requests
    TTL, COOLOFF_MS, \* how long a value stays fresh, how long an outage is remembered
    Retention,       \* how long the sweep leaves a row
    MaxNow,          \* bound on time
    MaxVersion       \* bound on changes at the source

VARIABLES
    now,         \* time
    source,      \* what the source would answer: a version of its data, that there is none, or nothing
    version,     \* the version it last published
    since,       \* when it published each
    row,         \* the OpenDataCache row
    coolingOff,  \* each process: until when the source is not asked
    refreshing,  \* each process: whether a refresh is under way behind a request
    reader       \* each request: where it is, what it saw, what it told the screen

vars == <<now, source, version, since, row, coolingOff, refreshing, reader>>

NoRow == [value |-> 0, at |-> 0]
Idle == [at |-> "idle", said |-> "nothing"]

Init ==
    /\ now = 1 /\ version = 1 /\ since = [v \in 1..MaxVersion |-> 1]
    /\ source \in {"found", "absent", "down"} /\ row = NoRow
    /\ coolingOff = [s \in Server |-> 0] /\ refreshing = [s \in Server |-> FALSE]
    /\ reader = [r \in Reader |-> Idle]

Becomes(r, rec) == reader' = [reader EXCEPT ![r] = rec]
Says(r, what) == IF reader[r].said = "slow" THEN "slow" ELSE what
Tells(r, what) == Becomes(r, [at |-> "told", said |-> Says(r, what)])
Shows(r, value, at) == Becomes(r, [at |-> "told", said |-> Says(r, "ok"), value |-> value, asAt |-> at])

-----------------------------------------------------------------------------
Tick ==
    /\ now < MaxNow /\ now' = now + 1
    /\ UNCHANGED <<source, version, since, row, coolingOff, refreshing, reader>>

\* The source goes down, comes back, publishes or withdraws.
Change(s) ==
    /\ source' = s
    /\ IF s = "found" /\ version < MaxVersion
       THEN version' = version + 1 /\ since' = [since EXCEPT ![version + 1] = now]
       ELSE s # source /\ UNCHANGED <<version, since>>
    /\ UNCHANGED <<now, row, coolingOff, refreshing, reader>>

\* pruneOpenDataCache: on boot and hourly.
Prune ==
    /\ row # NoRow /\ row.at < now - Retention /\ row' = NoRow
    /\ UNCHANGED <<now, source, version, since, coolingOff, refreshing, reader>>

\* cached: the row is looked up.  A failing lookup is an empty one.
Find(r, s) ==
    /\ reader[r].at \in {"idle", "told"}
    /\ \E seen \in {row, NoRow} : Becomes(r, [at |-> "found", on |-> s, seen |-> seen, said |-> "nothing"])
    /\ UNCHANGED <<now, source, version, since, row, coolingOff, refreshing>>

Cooling(s) == coolingOff[s] > now

\* As if nobody looked whether a refresh is under way.
Always(s) == ~Cooling(s)

\* Only one refresh of a key is under way in a process.
MayRefresh(s) == ~refreshing[s] /\ ~Cooling(s)

\* Stored: it is served with its age, and refreshed behind the request once it is stale.
ServeStored(r) ==
    LET s == reader[r].on
        seen == reader[r].seen
    IN /\ reader[r].at = "found" /\ seen # NoRow
       /\ IF now - seen.at > TTL /\ MayRefresh(s)
          THEN /\ refreshing' = [refreshing EXCEPT ![s] = TRUE]
               /\ Becomes(r, [at |-> "refresh", on |-> s, said |-> "ok", value |-> seen.value, asAt |-> seen.at])
          ELSE /\ Shows(r, seen.value, seen.at) /\ UNCHANGED refreshing
       /\ UNCHANGED <<now, source, version, since, row, coolingOff>>

\* Nothing stored: the source is asked, unless it failed a moment ago.
ServeNothing(r) ==
    LET s == reader[r].on
    IN /\ reader[r].at = "found" /\ reader[r].seen = NoRow
       /\ IF Cooling(s) THEN Tells(r, "error")
          ELSE Becomes(r, [at |-> "ask", on |-> s, said |-> "nothing"])
       /\ UNCHANGED <<now, source, version, since, row, coolingOff, refreshing>>

\* Four seconds are over: the screen is told to look again, the request goes on.
Deadline(r) ==
    /\ reader[r].at \in {"ask", "write"} /\ reader[r].said = "nothing"
    /\ reader' = [reader EXCEPT ![r].said = "slow"]
    /\ UNCHANGED <<now, source, version, since, row, coolingOff, refreshing>>

\* As if a source that does not answer had answered that there is nothing.
AnyAnswer(answer) == IF answer = "found" THEN version ELSE MaxVersion + 1

\* What is written down of an answer: data, and nothing else.
Stored(answer) == IF answer = "found" THEN version ELSE 0

\* The source answers, a request or a refresh.  An outage is remembered; that there is
\* nothing is told to the request that asked, and taken for an outage by a refresh.
Answer(r) ==
    LET s == reader[r].on
        v == Stored(source)
        back == reader[r].at = "refresh"
    IN /\ reader[r].at \in {"ask", "refresh"}
       /\ IF v # 0
          THEN /\ coolingOff' = [coolingOff EXCEPT ![s] = 0]
               /\ reader' = [reader EXCEPT ![r] =
                    [at |-> "write", on |-> s, said |-> @.said, value |-> v, back |-> back]]
               /\ UNCHANGED refreshing
          ELSE /\ coolingOff' = [coolingOff EXCEPT ![s] =
                                   IF source = "down" \/ back THEN now + COOLOFF_MS ELSE @]
               /\ IF back
                  THEN refreshing' = [refreshing EXCEPT ![s] = FALSE] /\ Becomes(r, Idle)
                  ELSE UNCHANGED refreshing /\ Tells(r, IF source = "down" THEN "error" ELSE "absent")
       /\ UNCHANGED <<now, source, version, since, row>>

\* The value is written, or the write fails and is let go.
Write(r) ==
    LET v == reader[r].value
        s == reader[r].on
    IN /\ reader[r].at = "write"
       /\ row' \in {row, [value |-> v, at |-> now]}
       /\ IF reader[r].back
          THEN refreshing' = [refreshing EXCEPT ![s] = FALSE] /\ Becomes(r, Idle)
          ELSE UNCHANGED refreshing /\ Shows(r, v, now)
       /\ UNCHANGED <<now, source, version, since, coolingOff>>

\* The process starts anew: its memory is empty, its requests are gone.
Restart(s) ==
    /\ coolingOff' = [coolingOff EXCEPT ![s] = 0] /\ refreshing' = [refreshing EXCEPT ![s] = FALSE]
    /\ reader' = [r \in Reader |->
                    IF reader[r].at \notin {"idle", "told"} /\ reader[r].on = s THEN Idle ELSE reader[r]]
    /\ <<coolingOff, refreshing, reader>> # <<coolingOff', refreshing', reader'>>
    /\ UNCHANGED <<now, source, version, since, row>>

Next ==
    \/ Tick \/ Prune \/ (\E s \in {"found", "absent", "down"} : Change(s)) \/ (\E s \in Server : Restart(s))
    \/ \E r \in Reader :
        \/ \E s \in Server : Find(r, s)
        \/ ServeStored(r) \/ ServeNothing(r) \/ Deadline(r) \/ Answer(r) \/ Write(r)

Spec == Init /\ [][Next]_vars

-----------------------------------------------------------------------------
(* Properties *)

\* What is stored, and what a panel shows as found, is data the source has published by
\* the time it is dated: an outage never becomes a result that looks empty.
Published(value, at) == value \in 1..version /\ since[value] <= at
NothingInvented ==
    /\ row # NoRow => Published(row.value, row.at)
    /\ \A r \in Reader : reader[r].said = "ok" /\ reader[r].at = "told" => Published(reader[r].value, reader[r].asAt)

\* One refresh of a key is under way in a process, however many find it stale.
OneRefresh == \A s \in Server : Cardinality({r \in Reader :
    \/ reader[r].at = "refresh" /\ reader[r].on = s
    \/ reader[r].at = "write" /\ reader[r].back /\ reader[r].on = s}) <= 1

SourcesTold == NothingInvented /\ OneRefresh

-----------------------------------------------------------------------------
(* The inductive invariant.                                                 *)

Stamped == [value : 0..version, at : Nat]
Reading == {Idle}
    \cup [at : {"found"}, on : Server, seen : Stamped, said : {"nothing"}]
    \cup [at : {"ask"}, on : Server, said : {"nothing", "slow"}]
    \cup [at : {"refresh"}, on : Server, said : {"ok"}, value : 1..version, asAt : Nat]
    \cup [at : {"write"}, on : Server, said : {"nothing", "slow", "ok"}, value : 1..version, back : BOOLEAN]
    \cup [at : {"told"}, said : {"slow", "error", "absent"}]
    \cup [at : {"told"}, said : {"slow", "ok"}, value : 1..version, asAt : Nat]
TypeOK ==
    /\ now \in Nat /\ version \in 1..MaxVersion /\ since \in [1..MaxVersion -> Nat]
    /\ source \in {"found", "absent", "down"} /\ row \in Stamped
    /\ refreshing \in [Server -> BOOLEAN] /\ reader \in [Reader -> Reading]

\* Whatever is held of the source it had published by then.
Dated(r) == r = NoRow \/ Published(r.value, r.at)
AllPublished ==
    /\ \A v \in 1..version : since[v] <= now
    /\ Dated(row) /\ row.at <= now
    /\ \A r \in Reader :
         /\ reader[r].at = "found" => Dated(reader[r].seen) /\ reader[r].seen.at <= now
         /\ reader[r].at = "refresh" \/ (reader[r].at = "told" /\ reader[r].said = "ok") =>
              Published(reader[r].value, reader[r].asAt)

\* A process knows of the refresh it has under way.
Behind(r) == reader[r].at = "refresh" \/ (reader[r].at = "write" /\ reader[r].back)
RefreshKnown ==
    /\ \A r \in Reader : Behind(r) => refreshing[reader[r].on]
    /\ \A r, q \in Reader : Behind(r) /\ Behind(q) /\ reader[r].on = reader[q].on => r = q

IInv == TypeOK /\ AllPublished /\ RefreshKnown

-----------------------------------------------------------------------------
(* Refuted *)

\* Refuted: only an outage starts a cool-off, that there is nothing is not one (opendata-cache.ts:138).
\* A refresh that is told so starts one, and a request after the next sweep hears that the source is
\* unavailable.
CoolingIsOutage == [][\A s \in Server : coolingOff'[s] > coolingOff[s] => source = "down"]_coolingOff

\* Refuted: the age shown is when the fetch happened (opendata-cache.ts:50): it is when the value was
\* written, and an answer that was overtaken is dated after the one that overtook it.
NewerStays == [][row' # NoRow => row'.value >= row.value]_row

\* Refuted, where Retention < TTL, as it is for a place of a postcode (60 days against 90): only rows
\* nothing will read again are dropped (opendata-cache.ts:172).
PrunedUnread == [][row' = NoRow => now - row.at > TTL]_row

=============================================================================
