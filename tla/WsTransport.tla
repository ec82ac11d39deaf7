------------------------------ MODULE WsTransport ------------------------------
(***************************************************************************)
(* The WebSocket transport of the gossip client, src/src/p2p/transport-ws. *)
(* ts, one for each process: a socket that is dialled again whenever it    *)
(* closes, and a bounded queue for what is published meanwhile.            *)
(*                                                                         *)
(* A connection is a process and a number, counted up with every dial.     *)
(* The socket itself is external: it opens, or dies at any time, and its   *)
(* close event follows.                                                    *)
(***************************************************************************)
EXTENDS Naturals, Sequences

CONSTANTS
  Procs,
  Numbers,          \* the numbers that connections of a process may have, from 0 on
  QUEUE_MAX,
  RECONNECT_INITIAL, RECONNECT_MAX

VARIABLES
  ws,           \* readyState of this.ws, or "none"
  conn,         \* the number of its connection, 0 before the first
  queue,
  retryDelay,
  timers,       \* reconnect timers pending
  closed,       \* the transport is shut down, or was not created yet
  up            \* frames on their way to the relay, by connection

wsVars == <<ws, conn, queue, retryDelay, timers, closed, up>>

Conns == Procs \X Numbers
ConnOf(p) == <<p, conn[p]>>

WsTypeOK ==
  /\ ws \in [Procs -> {"none", "connecting", "open", "closing"}]
  /\ conn \in [Procs -> Numbers]
  /\ \A p \in Procs : Len(queue[p]) <= QUEUE_MAX
  /\ retryDelay \in [Procs -> RECONNECT_INITIAL .. RECONNECT_MAX]
  /\ timers \in [Procs -> Nat]
  /\ closed \in [Procs -> BOOLEAN]

WsInit ==
  /\ ws = [p \in Procs |-> "none"]
  /\ conn = [p \in Procs |-> 0]
  /\ queue = [p \in Procs |-> <<>>]
  /\ retryDelay = [p \in Procs |-> RECONNECT_INITIAL]
  /\ timers = [p \in Procs |-> 0]
  /\ closed = [p \in Procs |-> TRUE]
  /\ up = [c \in Conns |-> <<>>]

-----------------------------------------------------------------------------
(* Connecting *)

Doubled(delay) == IF 2 * delay < RECONNECT_MAX THEN 2 * delay ELSE RECONNECT_MAX

\* scheduleReconnect, given the timers pending before.
ScheduleReconnect(p, pending) ==
  IF closed[p]
  THEN /\ timers' = [timers EXCEPT ![p] = pending]
       /\ UNCHANGED retryDelay
  ELSE /\ timers' = [timers EXCEPT ![p] = pending + 1]
       /\ retryDelay' = [retryDelay EXCEPT ![p] = Doubled(@)]

\* connect with a constructor that works: the next connection is dialled.
Dial(p) ==
  /\ conn[p] + 1 \in Numbers
  /\ ws' = [ws EXCEPT ![p] = "connecting"]
  /\ conn' = [conn EXCEPT ![p] = @ + 1]
  /\ UNCHANGED up

\* The constructor of the transport, which connects.  The timers of an earlier
\* transport of the process have nothing to do with it.
Create(p) ==
  /\ closed[p]
  /\ closed' = [closed EXCEPT ![p] = FALSE]
  /\ retryDelay' = [retryDelay EXCEPT ![p] = RECONNECT_INITIAL]
  /\ timers' = [timers EXCEPT ![p] = 0]
  /\ Dial(p)
  /\ UNCHANGED queue

\* The same, when the constructor of the WebSocket throws: a timer, no socket.
CreateWithoutSocket(p) ==
  /\ closed[p]
  /\ closed' = [closed EXCEPT ![p] = FALSE]
  /\ retryDelay' = [retryDelay EXCEPT ![p] = Doubled(RECONNECT_INITIAL)]
  /\ timers' = [timers EXCEPT ![p] = 1]
  /\ UNCHANGED <<ws, conn, queue, up>>

\* A timer fires on a transport in use: connect dials.
Reconnect(p) ==
  /\ timers[p] > 0
  /\ ~closed[p]
  /\ timers' = [timers EXCEPT ![p] = @ - 1]
  /\ Dial(p)
  /\ UNCHANGED <<queue, retryDelay, closed>>

\* The constructor of the WebSocket throws: another timer.
DialFails(p) ==
  /\ timers[p] > 0
  /\ ~closed[p]
  /\ ScheduleReconnect(p, timers[p] - 1)
  /\ UNCHANGED <<ws, conn, queue, closed, up>>

\* A timer fires after shutdown: connect returns.
IdleTimer(p) ==
  /\ timers[p] > 0
  /\ closed[p]
  /\ timers' = [timers EXCEPT ![p] = @ - 1]
  /\ UNCHANGED <<ws, conn, queue, retryDelay, closed, up>>

\* Mutation: the queue is drained from its end.
OpenedPops(p, k) ==
  /\ ws[p] = "connecting"
  /\ k = Len(queue[p])
  /\ ws' = [ws EXCEPT ![p] = "open"]
  /\ retryDelay' = [retryDelay EXCEPT ![p] = RECONNECT_INITIAL]
  /\ up' = [up EXCEPT ![ConnOf(p)] = @ \o [i \in 1 .. k |-> queue[p][k + 1 - i]]]
  /\ queue' = [queue EXCEPT ![p] = <<>>]
  /\ UNCHANGED <<conn, timers, closed>>

\* The open event: the queue is sent in order.  If the k-th send is followed by
\* one that throws, the socket is on its way out and the rest is lost.
Opened(p, k) ==
  /\ ws[p] = "connecting"
  /\ k \in 0 .. Len(queue[p])
  /\ ws' = [ws EXCEPT ![p] = IF k = Len(queue[p]) THEN "open" ELSE "closing"]
  /\ retryDelay' = [retryDelay EXCEPT ![p] = RECONNECT_INITIAL]
  /\ up' = [up EXCEPT ![ConnOf(p)] = @ \o SubSeq(queue[p], 1, k)]
  /\ queue' = [queue EXCEPT ![p] = <<>>]
  /\ UNCHANGED <<conn, timers, closed>>

\* Mutation: the error event schedules a reconnect of its own.
FailsAndSchedules(p) ==
  /\ ws[p] \in {"connecting", "open"}
  /\ ws' = [ws EXCEPT ![p] = "closing"]
  /\ ScheduleReconnect(p, timers[p])
  /\ UNCHANGED <<conn, queue, closed, up>>

\* The connection dies under the transport.
Fails(p) ==
  /\ ws[p] \in {"connecting", "open"}
  /\ ws' = [ws EXCEPT ![p] = "closing"]
  /\ UNCHANGED <<conn, queue, retryDelay, timers, closed, up>>

\* The close event.
Closed(p) ==
  /\ ws[p] = "closing"
  /\ ws' = [ws EXCEPT ![p] = "none"]
  /\ ScheduleReconnect(p, timers[p])
  /\ UNCHANGED <<conn, queue, closed, up>>

-----------------------------------------------------------------------------
(* publish and shutdown *)

\* Mutation: a full queue grows.
PublishUnbounded(p, m) ==
  /\ ~closed[p]
  /\ IF ws[p] = "open"
     THEN up' = [up EXCEPT ![ConnOf(p)] = Append(@, m)] /\ UNCHANGED queue
     ELSE queue' = [queue EXCEPT ![p] = Append(@, m)] /\ UNCHANGED up
  /\ UNCHANGED <<ws, conn, retryDelay, timers, closed>>

\* Straight to an open socket, else to the queue, whose oldest makes room.
Publish(p, m) ==
  /\ ~closed[p]
  /\ IF ws[p] = "open"
     THEN up' = [up EXCEPT ![ConnOf(p)] = Append(@, m)] /\ UNCHANGED queue
     ELSE /\ queue' = [queue EXCEPT
                         ![p] = Append(IF Len(@) >= QUEUE_MAX THEN Tail(@) ELSE @, m)]
          /\ UNCHANGED up
  /\ UNCHANGED <<ws, conn, retryDelay, timers, closed>>

Shutdown(p) ==
  /\ ~closed[p]
  /\ closed' = [closed EXCEPT ![p] = TRUE]
  /\ queue' = [queue EXCEPT ![p] = <<>>]
  /\ ws' = [ws EXCEPT ![p] = "none"]
  /\ UNCHANGED <<conn, retryDelay, timers, up>>

=============================================================================
