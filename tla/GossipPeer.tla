------------------------------ MODULE GossipPeer ------------------------------
(***************************************************************************)
(* The gossip client, src/src/p2p/client.ts: a runtime per process, which  *)
(* publishes signed messages and decides which incoming ones to pass to    *)
(* its subscribers.  Every operation is synchronous.                       *)
(*                                                                         *)
(* A process holds a keypair; processes of one machine share one.  The     *)
(* messages are those publish makes: well-formed, well signed, and of the  *)
(* one workspace.  Type and fingerprint are one thing, the topic.          *)
(***************************************************************************)
EXTENDS RateLimits

CONSTANTS
  Procs,                   \* the processes
  Keys, Peers,             \* public keys, and the peer ids derived from them
  IdOf,                    \* the peer id of a key
  Topics,
  RATE_LIMIT_PER_MINUTE,
  TS_ACCEPT_PAST, TS_ACCEPT_FUTURE

VARIABLES
  now,             \* the clock
  keyOf,           \* the key of each process
  enabled,         \* whether its runtime is enabled
  publishBucket,
  receiveBuckets,  \* by peer id
  dedupWindow,     \* by peer id and topic
  blocklist,       \* by peer id
  heard,           \* history: what this runtime passed to its subscribers, and when
  rejectedAt       \* history: when it rejected messages of a peer for their rate

peerVars == <<enabled, publishBucket, receiveBuckets, dedupWindow, blocklist, heard,
              rejectedAt>>

\* nr identifies a message, and via, which the relay fills in, is the connection
\* it came in on; the code looks at neither.
Message == [nr : Nat, key : Keys, topic : Topics, ts : Nat, via : Procs \X Nat]

PeerTypeOK ==
  /\ enabled \in [Procs -> BOOLEAN]
  /\ publishBucket \in [Procs -> Bucket(RATE_LIMIT_PER_MINUTE)]
  /\ receiveBuckets \in [Procs -> [Peers -> Bucket(RATE_LIMIT_PER_MINUTE)]]
  /\ \A p \in Procs, i \in Peers :
       /\ Len(blocklist[p][i].rejections) < BLOCK_COUNT
       /\ \A t \in Topics : dedupWindow[p][i][t] \in Seq(0 .. now)

\* freshRuntime, without the flag.
FreshRuntime(p) ==
  /\ publishBucket' = [publishBucket EXCEPT ![p] = FullBucket(RATE_LIMIT_PER_MINUTE, now)]
  /\ receiveBuckets' = [receiveBuckets EXCEPT
                          ![p] = [i \in Peers |-> FullBucket(RATE_LIMIT_PER_MINUTE, 0)]]
  /\ dedupWindow' = [dedupWindow EXCEPT ![p] = [i \in Peers |-> [t \in Topics |-> <<>>]]]
  /\ blocklist' = [blocklist EXCEPT ![p] = [i \in Peers |-> NoBlock]]
  /\ heard' = [heard EXCEPT ![p] = {}]
  /\ rejectedAt' = [rejectedAt EXCEPT ![p] = [i \in Peers |-> <<>>]]

PeerInit ==
  /\ enabled = [p \in Procs |-> FALSE]
  /\ publishBucket = [p \in Procs |-> FullBucket(RATE_LIMIT_PER_MINUTE, 0)]
  /\ receiveBuckets =
       [p \in Procs |-> [i \in Peers |-> FullBucket(RATE_LIMIT_PER_MINUTE, 0)]]
  /\ dedupWindow = [p \in Procs |-> [i \in Peers |-> [t \in Topics |-> <<>>]]]
  /\ blocklist = [p \in Procs |-> [i \in Peers |-> NoBlock]]
  /\ heard = [p \in Procs |-> {}]
  /\ rejectedAt = [p \in Procs |-> [i \in Peers |-> <<>>]]

\* createPeer with a transport and a subscriber.
Enable(p) ==
  /\ ~enabled[p]
  /\ enabled' = [enabled EXCEPT ![p] = TRUE]
  /\ FreshRuntime(p)

\* shutdownRuntime: the maps are cleared, the publish bucket is not.
Disable(p) ==
  /\ enabled[p]
  /\ enabled' = [enabled EXCEPT ![p] = FALSE]
  /\ receiveBuckets' = [receiveBuckets EXCEPT
                          ![p] = [i \in Peers |-> FullBucket(RATE_LIMIT_PER_MINUTE, 0)]]
  /\ dedupWindow' = [dedupWindow EXCEPT ![p] = [i \in Peers |-> [t \in Topics |-> <<>>]]]
  /\ blocklist' = [blocklist EXCEPT ![p] = [i \in Peers |-> NoBlock]]
  /\ heard' = [heard EXCEPT ![p] = {}]
  /\ rejectedAt' = [rejectedAt EXCEPT ![p] = [i \in Peers |-> <<>>]]
  /\ UNCHANGED publishBucket

\* publishOnRuntime, when the bucket has a token for the message.  Without one the
\* bucket is refilled, which the next call makes up for, and nothing else happens.
MayPublish(p) ==
  /\ enabled[p]
  /\ HasToken(publishBucket[p], RATE_LIMIT_PER_MINUTE, now)

SignMessage(p) ==
  /\ publishBucket' =
       [publishBucket EXCEPT ![p] = Spent(@, RATE_LIMIT_PER_MINUTE, now)]
  /\ UNCHANGED <<enabled, receiveBuckets, dedupWindow, blocklist, heard, rejectedAt>>

\* isFreshTimestamp.
IsFresh(ts) == ts <= now + TS_ACCEPT_FUTURE /\ ts >= now - TS_ACCEPT_PAST

\* What admitOnRuntime tests before it touches the peer's bucket.
PassesChecks(p, m) ==
  /\ enabled[p]
  /\ IsFresh(m.ts)
  /\ ~IsBlocked(blocklist[p][IdOf[m.key]], now)

\* admitOnRuntime: no token, and the rejection may block the peer.
RejectForRate(p, m) ==
  LET i == IdOf[m.key]
  IN  /\ receiveBuckets' = [receiveBuckets EXCEPT
                              ![p][i] = Refilled(@, RATE_LIMIT_PER_MINUTE, now)]
      /\ blocklist' = [blocklist EXCEPT ![p][i] = Rejected(@, now)]
      /\ rejectedAt' = [rejectedAt EXCEPT ![p][i] = Append(@, now)]
      /\ UNCHANGED <<enabled, publishBucket, dedupWindow, heard>>

\* admitOnRuntime: a token is spent on a duplicate, too.
HearUnlessDuplicate(p, m) ==
  LET i == IdOf[m.key]
      seen == dedupWindow[p][i][m.topic]
  IN  /\ receiveBuckets' = [receiveBuckets EXCEPT
                              ![p][i] = Spent(@, RATE_LIMIT_PER_MINUTE, now)]
      /\ dedupWindow' = [dedupWindow EXCEPT ![p][i][m.topic] = Window(@, now)]
      /\ heard' = [heard EXCEPT
                     ![p] = IF IsDuplicate(seen, now) THEN @
                            ELSE @ \cup {[msg |-> m, at |-> now,
                                          nth |-> Cardinality(@) + 1]}]
      /\ UNCHANGED <<enabled, publishBucket, blocklist, rejectedAt>>

Admit(p, m) ==
  IF ~PassesChecks(p, m)
  THEN UNCHANGED peerVars
  ELSE IF HasToken(receiveBuckets[p][IdOf[m.key]], RATE_LIMIT_PER_MINUTE, now)
       THEN HearUnlessDuplicate(p, m)
       ELSE RejectForRate(p, m)

=============================================================================
