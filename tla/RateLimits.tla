------------------------------ MODULE RateLimits ------------------------------
(***************************************************************************)
(* The anti-abuse arithmetic that the gossip client (src/src/p2p/client.ts)*)
(* and the relays (relay.ts, server-cf.ts) share: token buckets, the list  *)
(* of recent rejections that blocks a peer, and the duplicate window.      *)
(*                                                                         *)
(* Time is in ticks.  A bucket of "rate" tokens a minute gains a fraction  *)
(* of a token in a tick, so tokens are counted in parts: MINUTE parts are  *)
(* one token, and a tick is worth "rate" parts.  The code keeps buckets,   *)
(* block states and windows in maps filled on first use; a full bucket, no *)
(* rejections and an empty window stand for an entry not there yet.        *)
(***************************************************************************)
EXTENDS Integers, Sequences, FiniteSets

CONSTANTS
  MINUTE,           \* ticks in a minute
  DEDUP_WINDOW,     \* DEDUP_WINDOW_MS
  DEDUP_MAX,        \* DEDUP_MAX_PER_WINDOW
  BLOCK_WINDOW,     \* BLOCKLIST_TRIGGER_WINDOW_MS
  BLOCK_COUNT,      \* BLOCKLIST_TRIGGER_COUNT
  BLOCK_DURATION    \* BLOCKLIST_DURATION_MS

ASSUME RateLimitsAssumption ==
  /\ MINUTE \in Nat \ {0}
  /\ DEDUP_WINDOW \in Nat \ {0} /\ DEDUP_MAX \in Nat \ {0}
  /\ BLOCK_WINDOW \in Nat \ {0} /\ BLOCK_COUNT \in Nat \ {0}
  /\ BLOCK_DURATION \in Nat \ {0}

-----------------------------------------------------------------------------
(* Token buckets *)

Bucket(rate) == [tokens : 0 .. rate * MINUTE, last : Nat]

FullBucket(rate, now) == [tokens |-> rate * MINUTE, last |-> now]

\* Mutation: a refill does not stop at the bucket's size.
RefilledUncapped(b, rate, now) ==
  IF now <= b.last THEN b
  ELSE [tokens |-> b.tokens + (now - b.last) * rate, last |-> now]

\* refillBucket: nothing when the clock stood still or went back.
Refilled(b, rate, now) ==
  LET sum == b.tokens + (now - b.last) * rate
  IN  IF now <= b.last THEN b
      ELSE [tokens |-> IF sum < rate * MINUTE THEN sum ELSE rate * MINUTE,
            last |-> now]

\* consumeToken: is there one, and the bucket with it taken.
HasToken(b, rate, now) == Refilled(b, rate, now).tokens >= MINUTE
Spent(b, rate, now) == [Refilled(b, rate, now) EXCEPT !.tokens = @ - MINUTE]

-----------------------------------------------------------------------------
(* The times in s that are not older than the window.  Times are appended as the *)
(* clock goes, so the ones that the filter drops come first.                     *)

Old(s, window, now) == {k \in DOMAIN s : now - s[k] >= window}

Recent(s, window, now) == SubSeq(s, Cardinality(Old(s, window, now)) + 1, Len(s))

-----------------------------------------------------------------------------
(* Blocking *)

NoBlock == [rejections |-> <<>>, until |-> 0]

IsBlocked(b, now) == b.until > now

\* recordRejection: enough of them within the window block the peer and start
\* the count afresh.
Rejected(b, now) ==
  LET recent == Append(Recent(b.rejections, BLOCK_WINDOW, now), now)
  IN  IF Len(recent) >= BLOCK_COUNT
      THEN [rejections |-> <<>>, until |-> now + BLOCK_DURATION]
      ELSE [b EXCEPT !.rejections = recent]

-----------------------------------------------------------------------------
(* Duplicates *)

\* isDuplicate: this message is counted before the window is measured.
Window(seen, now) == Append(Recent(seen, DEDUP_WINDOW, now), now)

\* Mutation: the window is measured without this message.
IsDuplicateBefore(seen, now) == Len(Recent(seen, DEDUP_WINDOW, now)) > DEDUP_MAX

IsDuplicate(seen, now) == Len(Window(seen, now)) > DEDUP_MAX

=============================================================================
