------------------------------ MODULE GossipMesh ------------------------------
(***************************************************************************)
(* The gossip mesh of one workspace: processes with a GossipPeer runtime   *)
(* and a WsTransport each, the GossipRoom they connect to, and the network *)
(* between them, which keeps the order of a connection and loses what is   *)
(* under way when the connection dies.                                     *)
(***************************************************************************)
EXTENDS RateLimits

CONSTANTS
  Procs, Keys, Peers, IdOf, Topics, NoKey, NoPeer, NoSession,
  KeyChoices,       \* the ways in which keys may be spread over the processes
  RATE_LIMIT_PER_MINUTE, RELAY_RATE_LIMIT_PER_MINUTE,
  TS_ACCEPT_PAST, TS_ACCEPT_FUTURE,
  QUEUE_MAX, RECONNECT_INITIAL, RECONNECT_MAX,
  MaxTime,          \* the bound on the clock
  MaxFaults,        \* the bound on lost connections, failed dials and hibernations
  MaxStarts,        \* the bound on createPeer calls
  MaxDials,         \* the bound on the connections of a process
  MaxPublished      \* the bound on the messages published

ASSUME GossipMeshAssumption ==
  /\ IsFiniteSet(Procs) /\ IsFiniteSet(Keys) /\ IsFiniteSet(Peers)
  /\ IdOf \in [Keys -> Peers]
  /\ KeyChoices \subseteq [Procs -> Keys]
  /\ NoKey \notin Keys /\ NoPeer \notin Peers /\ NoSession \notin Peers \cup {NoPeer}
  /\ RATE_LIMIT_PER_MINUTE \in Nat \ {0} /\ RELAY_RATE_LIMIT_PER_MINUTE \in Nat \ {0}
  /\ TS_ACCEPT_PAST \in Nat /\ TS_ACCEPT_FUTURE \in Nat
  /\ QUEUE_MAX \in Nat \ {0}
  /\ RECONNECT_INITIAL \in Nat \ {0}
  /\ RECONNECT_MAX \in Nat /\ RECONNECT_MAX >= RECONNECT_INITIAL
  /\ MaxTime \in Nat /\ MaxFaults \in Nat /\ MaxStarts \in Nat /\ MaxDials \in Nat
  /\ MaxPublished \in Nat

Numbers == 0 .. MaxDials
Conns == Procs \X Numbers

VARIABLES
  now,             \* the clock
  keyOf,           \* the key of each process
  faults,          \* how many connections, dials and room states were lost
  started,         \* how many runtimes were created
  published,       \* how many messages were published
  enabled, publishBucket, receiveBuckets, dedupWindow, blocklist, heard, rejectedAt,
  ws, conn, queue, retryDelay, timers, closed, up,
  sockets, sessions, registry, buckets, blocks,
  forgot,          \* history: the relay was unloaded, and its memory lost
  down

Peer == INSTANCE GossipPeer
Ws == INSTANCE WsTransport
Room == INSTANCE GossipRoom

peerVars == <<enabled, publishBucket, receiveBuckets, dedupWindow, blocklist, heard,
              rejectedAt>>
wsVars == <<ws, conn, queue, retryDelay, timers, closed, up>>
roomVars == <<sockets, sessions, registry, buckets, blocks, forgot>>
vars == <<now, keyOf, faults, started, published, peerVars, wsVars, roomVars, down>>

ConnOf(p) == <<p, conn[p]>>

\* The connections whose client is there.
Live == {ConnOf(p) : p \in {q \in Procs : ws[q] \in {"connecting", "open"}}}

TypeOK ==
  /\ now \in 0 .. MaxTime
  /\ keyOf \in KeyChoices
  /\ faults \in 0 .. MaxFaults
  /\ started \in 0 .. MaxStarts
  /\ published \in 0 .. MaxPublished
  /\ Peer!PeerTypeOK
  /\ Ws!WsTypeOK
  /\ Room!RoomTypeOK
  /\ forgot \in BOOLEAN
  /\ \A c \in Conns : up[c] \in Seq(Peer!Message) /\ down[c] \in Seq(Peer!Message)

Init ==
  /\ now = 0
  /\ keyOf \in KeyChoices
  /\ faults = 0
  /\ started = 0
  /\ published = 0
  /\ Peer!PeerInit
  /\ Ws!WsInit
  /\ Room!RoomInit
  /\ forgot = FALSE
  /\ down = [c \in Conns |-> <<>>]

-----------------------------------------------------------------------------

Tick ==
  /\ now < MaxTime
  /\ now' = now + 1
  /\ UNCHANGED <<keyOf, faults, started, published, peerVars, wsVars, roomVars, down>>

Fault == faults < MaxFaults /\ faults' = faults + 1

\* createPeer, with a transport that connects.
Start(p) ==
  /\ started < MaxStarts
  /\ Peer!Enable(p)
  /\ \/ Ws!Create(p) /\ UNCHANGED faults
     \/ Fault /\ Ws!CreateWithoutSocket(p)
  /\ started' = started + 1
  /\ UNCHANGED <<now, keyOf, published, roomVars, down>>

\* Peer.shutdown, which shuts the transport down.
Stop(p) ==
  /\ Peer!Disable(p)
  /\ Ws!Shutdown(p)
  /\ down' = [down EXCEPT ![ConnOf(p)] = <<>>]
  /\ UNCHANGED <<now, keyOf, faults, started, published, roomVars>>

Publish(p, t) ==
  /\ published < MaxPublished
  /\ Peer!MayPublish(p)
  /\ Peer!SignMessage(p)
  /\ Ws!Publish(p, [nr |-> published, key |-> keyOf[p], topic |-> t, ts |-> now,
                    via |-> ConnOf(p)])
  /\ published' = published + 1
  /\ UNCHANGED <<now, keyOf, faults, started, roomVars, down>>

-----------------------------------------------------------------------------
(* Connections *)

RoomAccepts(p) ==
  /\ ws[p] = "connecting"
  /\ Room!AcceptSocket(ConnOf(p))
  /\ UNCHANGED <<now, keyOf, faults, started, published, peerVars, wsVars, forgot>>

SocketOpens(p) ==
  /\ ConnOf(p) \in sockets
  /\ \/ Ws!Opened(p, Len(queue[p])) /\ UNCHANGED <<faults, down>>
     \/ /\ Fault
        /\ \E k \in 0 .. Len(queue[p]) - 1 : Ws!Opened(p, k)
        /\ down' = [down EXCEPT ![ConnOf(p)] = <<>>]
  /\ UNCHANGED <<now, keyOf, started, published, peerVars, roomVars>>

\* Either the network or the relay ended the connection.
SocketFails(p) ==
  /\ \/ ws[p] = "open" /\ ConnOf(p) \notin sockets /\ UNCHANGED faults
     \/ Fault
  /\ Ws!Fails(p)
  /\ down' = [down EXCEPT ![ConnOf(p)] = <<>>]
  /\ UNCHANGED <<now, keyOf, started, published, peerVars, roomVars>>

SocketClosed(p) ==
  /\ Ws!Closed(p)
  /\ UNCHANGED <<now, keyOf, faults, started, published, peerVars, roomVars, down>>

TimerFires(p) ==
  /\ \/ Ws!Reconnect(p) /\ UNCHANGED faults
     \/ Fault /\ Ws!DialFails(p)
     \/ Ws!IdleTimer(p) /\ UNCHANGED faults
  /\ UNCHANGED <<now, keyOf, started, published, peerVars, roomVars, down>>

\* The relay learns that the client is gone; frames it has not read are lost.
RoomLosesSocket(c) ==
  /\ c \in sockets \ Live
  /\ Room!CloseSocket(c)
  /\ up' = [up EXCEPT ![c] = <<>>]
  /\ UNCHANGED <<now, keyOf, faults, started, published, peerVars, ws, conn, queue, retryDelay, timers,
                 closed, forgot>>

RoomHibernates ==
  /\ Fault
  /\ Room!Hibernate
  /\ forgot' = TRUE
  /\ UNCHANGED <<now, keyOf, started, published, peerVars, wsVars>>

-----------------------------------------------------------------------------
(* Frames *)

RoomGetsFrame(c) ==
  /\ up[c] # <<>>
  /\ Room!WebSocketMessage(c, Head(up[c]), Live)
  /\ up' = [up EXCEPT ![c] = Tail(@)]
  /\ UNCHANGED <<now, keyOf, faults, started, published, peerVars, ws, conn, queue, retryDelay, timers,
                 closed, forgot>>

PeerGetsFrame(p) ==
  /\ ws[p] = "open"
  /\ down[ConnOf(p)] # <<>>
  /\ Peer!Admit(p, Head(down[ConnOf(p)]))
  /\ down' = [down EXCEPT ![ConnOf(p)] = Tail(@)]
  /\ UNCHANGED <<now, keyOf, faults, started, published, wsVars, roomVars>>

Next ==
  \/ Tick
  \/ \E p \in Procs : Start(p)
  \/ \E p \in Procs : Stop(p)
  \/ \E p \in Procs, t \in Topics : Publish(p, t)
  \/ \E p \in Procs : RoomAccepts(p)
  \/ \E p \in Procs : SocketOpens(p)
  \/ \E p \in Procs : SocketFails(p)
  \/ \E p \in Procs : SocketClosed(p)
  \/ \E p \in Procs : TimerFires(p)
  \/ \E c \in Conns : RoomLosesSocket(c)
  \/ RoomHibernates
  \/ \E c \in Conns : RoomGetsFrame(c)
  \/ \E p \in Procs : PeerGetsFrame(p)

Spec == Init /\ [][Next]_vars

-----------------------------------------------------------------------------
(* Properties *)

\* A transport in use has a socket or exactly one timer for the next one, never
\* both and never two timers: the close event alone schedules a reconnect, the
\* error event before it does not (transport-ws.ts:155-171).
SocketOrTimer ==
  \A p \in Procs : ~closed[p] =>
    timers[p] = IF ws[p] = "none" THEN 1 ELSE 0

\* What a runtime hears of one process comes in the order of publication: the queue is
\* drained when the socket opens, before anything is sent past it, and the relay keeps
\* the order of a socket (transport-ws.ts:81-91, 124-137).  Only what the process sent
\* on an older connection may come after what it sent on a newer one, while the relay
\* holds both (relay.ts:212-220), and then it is another message: none is heard twice,
\* across cut drains, full queues and reconnects of both ends.
InOrder ==
  \A p \in Procs : \A g, h \in heard[p] :
    g.msg.via[1] = h.msg.via[1] /\ g.nth < h.nth =>
      \/ g.msg.nr < h.msg.nr
      \/ g.msg.nr # h.msg.nr /\ g.msg.via[2] > h.msg.via[2]

\* At most DEDUP_MAX messages of a peer on one topic are heard in any window
\* (client.ts:37-44, 425-440).
DedupBound ==
  \A p \in Procs : \A h \in heard[p] :
    Cardinality({g \in heard[p] :
                   /\ IdOf[g.msg.key] = IdOf[h.msg.key]
                   /\ g.msg.topic = h.msg.topic
                   /\ g.at >= h.at /\ g.at - h.at < DEDUP_WINDOW}) <= DEDUP_MAX

\* In any span of time a runtime hears of a peer no more than a full bucket and
\* what the bucket gains in that span; and it blocks a peer only for BLOCK_COUNT
\* rejections within BLOCK_WINDOW, the last of them at the start of the block
\* (client.ts:395-423, 452-470).
LimitsKept ==
  \A p \in Procs, i \in Peers :
    /\ \A from \in 0 .. now :
         MINUTE * Cardinality({h \in heard[p] : IdOf[h.msg.key] = i /\ h.at >= from})
           <= RATE_LIMIT_PER_MINUTE * (MINUTE + now - from)
    /\ IsBlocked(blocklist[p][i], now) =>
         LET start == blocklist[p][i].until - BLOCK_DURATION
             times == rejectedAt[p][i]
         IN  Cardinality({j \in DOMAIN times :
                            times[j] <= start /\ start - times[j] < BLOCK_WINDOW})
               >= BLOCK_COUNT

\* Of a peer id a runtime hears the messages of one key, for as long as the relay's
\* memory lasts: the first key seen keeps the id, whichever socket or process it
\* comes from and however often connections are lost (relay.ts:180-187,
\* server-cf.ts:168-172).
OneKeyPerPeer ==
  ~forgot => \A p \in Procs : \A g, h \in heard[p] :
    IdOf[g.msg.key] = IdOf[h.msg.key] => g.msg.key = h.msg.key

=============================================================================
