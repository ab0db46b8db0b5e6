----------------------------- MODULE RateLimit -----------------------------
(***************************************************************************)
(* The token buckets of internal/protocol/handshake.go (type bucket,      *)
(* functions allow and evictOldest) and the tables that hold one bucket    *)
(* per source or per peer.                                                 *)
(*                                                                         *)
(* A bucket holds at most `max' tokens and refills at `max' tokens per     *)
(* second.  The code counts tokens in float64; here time is in ticks,      *)
(* Second ticks make a second, and a token is Second units, so that a      *)
(* tick refills exactly `max' units and every quantity is a natural.       *)
(***************************************************************************)
EXTENDS Maps

CONSTANT Second   \* ticks in one second

ASSUME SecondAssumption == Second \in Nat \ {0}

Bucket == [start : Nat, tokens : Nat]

\* A bucket that was never used: allow fills it on first use.
fresh(t, max) == [start |-> t, tokens |-> max * Second]

refill(b, t, max) ==
    LET sum == b.tokens + (t - b.start) * max
        cap == max * Second
    IN  IF t > b.start
          THEN [start |-> t, tokens |-> IF sum < cap THEN sum ELSE cap]
          ELSE b

\* Whether bucket b pays for one request at time t, and what is left of it.
allows(b, t, max) == refill(b, t, max).tokens >= Second

allow(b, t, max) ==
    LET r == refill(b, t, max)
    IN  IF allows(b, t, max) THEN [r EXCEPT !.tokens = @ - Second] ELSE r

\* table[k] as the code reads it: a missing entry is the unused bucket.
bucketOf(table, k, t, max) ==
    IF k \in DOMAIN table THEN table[k] ELSE fresh(t, max)

\* The periodic deletion of buckets not used for more than a second.
recent(table, t) ==
    Restrict(table, {k \in DOMAIN table : t - table[k].start <= Second})

\* The tables evictOldest may leave: map order decides between equal starts.
evictOldest(table) ==
    { Without(table, {k}) : k \in { o \in DOMAIN table :
        \A j \in DOMAIN table : table[o].start <= table[j].start } }

\* The tables a new entry for k may be added to, when size entries fit.
room(table, k, size) ==
    IF k \in DOMAIN table \/ Cardinality(DOMAIN table) < size
      THEN {table}
      ELSE evictOldest(table)

\* The tables that charging k one request may leave.
charged(table, k, t, max, size) ==
    { Put(r, k, allow(bucketOf(r, k, t, max), t, max)) : r \in room(table, k, size) }

permits(table, k, t, max) == allows(bucketOf(table, k, t, max), t, max)
=============================================================================
