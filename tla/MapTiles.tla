------------------------------ MODULE MapTiles ------------------------------
(***************************************************************************)
(* The images of maps a server process keeps (tiles.ts, staticmap.ts): a   *)
(* Map in the order its keys were first put in, bounded by a count of      *)
(* bytes, filled by requests that wait for the network.                    *)
(***************************************************************************)
EXTENDS Integers, Sequences

CONSTANTS
    Request,     \* requests in flight
    Tile,        \* keys
    MAX_BYTES,
    Size,        \* how large an image may be
    MaxCount     \* bound on the count of bytes, which runs ahead of what is held

VARIABLES
    cache,       \* the keys held, oldest first
    size,        \* the bytes of each key's image
    bytes,       \* the count of bytes held
    call         \* the key each request fetches; Nothing when none

vars == <<cache, size, bytes, call>>
Nothing == "nothing"
Keys(s) == {s[i] : i \in DOMAIN s}

Init ==
    /\ cache = <<>> /\ size = [t \in Tile |-> 0] /\ bytes = 0
    /\ call = [r \in Request |-> Nothing]

\* The get handler: a key that is held is answered from the cache, any other is fetched.
Miss(r) ==
    /\ call[r] = Nothing
    /\ \E t \in Tile : t \notin Keys(cache) /\ call' = [call EXCEPT ![r] = t]
    /\ UNCHANGED <<cache, size, bytes>>

\* Refused, unreachable or too slow: nothing is kept.
Fail(r) ==
    /\ call[r] # Nothing
    /\ call' = [call EXCEPT ![r] = Nothing]
    /\ UNCHANGED <<cache, size, bytes>>

\* The sum of the first n numbers of g.
Total(g, n) == LET sum[i \in 0..n] == IF i = 0 THEN 0 ELSE sum[i - 1] + g[i] IN sum[n]
BytesOf(keys) == Total([i \in DOMAIN keys |-> size[keys[i]]], Len(keys))

\* As if one image made room enough.
DropOldest(n) == IF bytes + n > MAX_BYTES /\ cache # <<>> THEN 1 ELSE 0

\* How many of the oldest go before n bytes fit, or there are none left.
Evicted(n) ==
    CHOOSE k \in 0..Len(cache) :
      /\ k = Len(cache) \/ bytes - BytesOf(SubSeq(cache, 1, k)) + n <= MAX_BYTES
      /\ \A j \in 0..k - 1 : bytes - BytesOf(SubSeq(cache, 1, j)) + n > MAX_BYTES

\* remember: the oldest go, and the image is put in its place: an old one, if another request was first.
remember(r) ==
    /\ call[r] # Nothing
    /\ \E n \in Size :
         LET k == Evicted(n)
             kept == SubSeq(cache, k + 1, Len(cache)) IN
         /\ bytes' = bytes - BytesOf(SubSeq(cache, 1, k)) + n
         /\ cache' = IF call[r] \in Keys(kept) THEN kept ELSE Append(kept, call[r])
         /\ size' = [t \in Tile |-> IF t = call[r] THEN n ELSE IF t \in Keys(kept) THEN size[t] ELSE 0]
    /\ bytes' <= MaxCount
    /\ call' = [call EXCEPT ![r] = Nothing]

Next == \E r \in Request : Miss(r) \/ Fail(r) \/ remember(r)

Spec == Init /\ [][Next]_vars

-----------------------------------------------------------------------------
(* Properties                                                               *)

\* Whatever is fetched twice at once, what is held fits the bound, unless it is one image that does not.
HeldFits == BytesOf(cache) <= MAX_BYTES \/ Len(cache) = 1

\* No key is held twice, and the count is never less than what is held, so that what fits by the count fits.
IInv ==
    /\ cache \in Seq(Tile) /\ \A i, j \in DOMAIN cache : cache[i] = cache[j] => i = j
    /\ size \in [Tile -> Nat] /\ call \in [Request -> Tile \cup {Nothing}]
    /\ bytes \in Int /\ bytes >= BytesOf(cache)
    /\ HeldFits

\* Refuted: the count is what is held.  An image put in place of itself is never taken off the count, and
\* the cache holds less and less.
CountIsExact == bytes = BytesOf(cache)
=============================================================================
