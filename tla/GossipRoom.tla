------------------------------ MODULE GossipRoom ------------------------------
(***************************************************************************)
(* The gossip relay of one workspace: the Durable Object of                *)
(* src/src/p2p/server-cf.ts, whose rules src/src/p2p/relay.ts shares.  It  *)
(* accepts WebSockets, tests each incoming message and sends it on to all  *)
(* other sockets.                                                          *)
(*                                                                         *)
(* Cloudflare runs one handler at a time and may unload the object between *)
(* two; the sockets stay, everything in memory is gone.                    *)
(***************************************************************************)
EXTENDS RateLimits

CONSTANTS
  Conns,            \* the connections
  Keys, Peers, IdOf,
  NoKey, NoPeer,
  NoSession,        \* no entry in sessions
  RELAY_RATE_LIMIT_PER_MINUTE,
  TS_ACCEPT_PAST, TS_ACCEPT_FUTURE

VARIABLES
  now,
  sockets,    \* the sockets the runtime holds, getWebSockets()
  sessions,   \* NoSession, or the peer the socket is bound to (NoPeer at first)
  registry,   \* the key of each peer id
  buckets,
  blocks,
  down        \* the frames on their way to each socket's client

roomVars == <<sockets, sessions, registry, buckets, blocks>>

RoomTypeOK ==
  /\ sockets \subseteq Conns
  /\ sessions \in [Conns -> Peers \cup {NoPeer, NoSession}]
  /\ \A c \in Conns : sessions[c] # NoSession => c \in sockets
  /\ registry \in [Peers -> Keys \cup {NoKey}]
  /\ buckets \in [Peers -> Bucket(RELAY_RATE_LIMIT_PER_MINUTE)]
  /\ \A i \in Peers : Len(blocks[i].rejections) < BLOCK_COUNT

RoomInit ==
  /\ sockets = {}
  /\ sessions = [c \in Conns |-> NoSession]
  /\ registry = [i \in Peers |-> NoKey]
  /\ buckets = [i \in Peers |-> FullBucket(RELAY_RATE_LIMIT_PER_MINUTE, 0)]
  /\ blocks = [i \in Peers |-> NoBlock]

\* fetch: a session not bound to a peer yet.
AcceptSocket(c) ==
  /\ c \notin sockets
  /\ sockets' = sockets \cup {c}
  /\ sessions' = [sessions EXCEPT ![c] = NoPeer]
  /\ UNCHANGED <<registry, buckets, blocks, down>>

\* webSocketClose, after which the runtime forgets the socket.
CloseSocket(c) ==
  /\ sockets' = sockets \ {c}
  /\ sessions' = [sessions EXCEPT ![c] = NoSession]
  /\ UNCHANGED <<registry, buckets, blocks, down>>

\* The object is unloaded, and built anew when the next event arrives.
Hibernate ==
  /\ sessions' = [c \in Conns |-> NoSession]
  /\ registry' = [i \in Peers |-> NoKey]
  /\ buckets' = [i \in Peers |-> FullBucket(RELAY_RATE_LIMIT_PER_MINUTE, 0)]
  /\ blocks' = [i \in Peers |-> NoBlock]
  /\ UNCHANGED <<sockets, down>>

-----------------------------------------------------------------------------
(* webSocketMessage and handlePublish *)

RoomIsFresh(ts) == ts <= now + TS_ACCEPT_FUTURE /\ ts >= now - TS_ACCEPT_PAST

\* Two keys may derive one peer id; the first one seen keeps it.
IsForged(m) == registry[IdOf[m.key]] \notin {NoKey, m.key}

RecordRejection(i) == blocks' = [blocks EXCEPT ![i] = Rejected(@, now)]

\* Every other socket gets the message, and those whose client is live receive it.
FanOut(c, m, live) ==
  down' = [d \in Conns |-> IF d \in (sockets \ {c}) \cap live
                           THEN Append(down[d], [m EXCEPT !.via = c]) ELSE down[d]]

\* Mutation: the key of the first message is not kept.
FanOutUnregistered(c, m, live) ==
  LET i == IdOf[m.key]
  IN  /\ UNCHANGED registry
      /\ IF sessions[c] \in {NoPeer, i}
         THEN sessions' = [sessions EXCEPT ![c] = i] /\ FanOut(c, m, live)
         ELSE UNCHANGED <<sessions, down>>

\* A socket is bound to the first peer that spoke through it.
BindAndFanOut(c, m, live) ==
  LET i == IdOf[m.key]
  IN  IF sessions[c] \in {NoPeer, i}
      THEN /\ sessions' = [sessions EXCEPT ![c] = i]
           /\ registry' = [registry EXCEPT ![i] = m.key]
           /\ FanOut(c, m, live)
      ELSE UNCHANGED <<sessions, registry, down>>

HandlePublish(c, m, live) ==
  LET i == IdOf[m.key]
      hasToken == HasToken(buckets[i], RELAY_RATE_LIMIT_PER_MINUTE, now)
      refuse == UNCHANGED <<sessions, registry, down>>
  IN  /\ UNCHANGED sockets
      /\ IF ~RoomIsFresh(m.ts)
         THEN refuse /\ UNCHANGED <<buckets, blocks>>
         ELSE IF IsForged(m)
         THEN refuse /\ RecordRejection(i) /\ UNCHANGED buckets
         ELSE IF IsBlocked(blocks[i], now)
         THEN refuse /\ UNCHANGED <<buckets, blocks>>
         ELSE IF hasToken
         THEN /\ buckets' = [buckets EXCEPT
                               ![i] = Spent(@, RELAY_RATE_LIMIT_PER_MINUTE, now)]
              /\ UNCHANGED blocks
              /\ BindAndFanOut(c, m, live)
         ELSE /\ buckets' = [buckets EXCEPT
                               ![i] = Refilled(@, RELAY_RATE_LIMIT_PER_MINUTE, now)]
              /\ RecordRejection(i)
              /\ refuse

\* A frame on a socket without a session closes the socket.
WebSocketMessage(c, m, live) ==
  /\ c \in sockets
  /\ IF sessions[c] = NoSession THEN CloseSocket(c) ELSE HandlePublish(c, m, live)

=============================================================================
