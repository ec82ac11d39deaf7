--------------------------- MODULE GossipMeshProofs ---------------------------
(***************************************************************************)
(* Proofs about GossipMesh: the transport's timers, the order and the      *)
(* uniqueness of what a runtime hears, and the bounds that its buckets,    *)
(* windows and blocks keep, for every set of processes, keys and topics    *)
(* and every limit.                                                        *)
(***************************************************************************)
EXTENDS GossipMesh, FiniteSetTheorems, SequenceTheorems, TLAPS

-----------------------------------------------------------------------------
(* The inductive invariant *)

\* The times of s from t on.
Since(s, t) == {k \in DOMAIN s : s[k] >= t}

\* Times recorded as the clock goes.
Times(n) == {s \in Seq(Nat) : /\ \A k \in DOMAIN s : s[k] <= n
                              /\ \A j, k \in DOMAIN s : j <= k => s[j] <= s[k]}

Blocks(n) == [rejections : Times(n), until : Nat]

\* The numbers of the messages in s, and of those p has heard.
NrsOf(s) == {s[k].nr : k \in DOMAIN s}
HeardNrs(p) == {h.msg.nr : h \in heard[p]}

Ascending(s) == \A j, k \in DOMAIN s : j < k => s[j].nr < s[k].nr
Distinct(s) == \A j, k \in DOMAIN s : s[j].nr = s[k].nr => j = k

RuntimeTypes ==
  /\ enabled \in [Procs -> BOOLEAN]
  /\ publishBucket \in [Procs -> Bucket(RATE_LIMIT_PER_MINUTE)]
  /\ receiveBuckets \in [Procs -> [Peers -> Bucket(RATE_LIMIT_PER_MINUTE)]]
  /\ \A p \in Procs : publishBucket[p].last <= now
  /\ \A p \in Procs, i \in Peers : receiveBuckets[p][i].last <= now
  /\ dedupWindow \in [Procs -> [Peers -> [Topics -> Times(now)]]]
  /\ blocklist \in [Procs -> [Peers -> Blocks(now)]]
  /\ \A p \in Procs, i \in Peers : Len(blocklist[p][i].rejections) < BLOCK_COUNT
  /\ heard \in [Procs -> SUBSET [msg : Peer!Message, at : 0 .. now, nth : Nat]]
  /\ \A p \in Procs : IsFiniteSet(heard[p])
  /\ rejectedAt \in [Procs -> [Peers -> Times(now)]]

TransportTypes ==
  /\ ws \in [Procs -> {"none", "connecting", "open", "closing"}]
  /\ conn \in [Procs -> Numbers]
  /\ queue \in [Procs -> Seq(Peer!Message)]
  /\ \A p \in Procs : Len(queue[p]) <= QUEUE_MAX
  /\ retryDelay \in [Procs -> RECONNECT_INITIAL .. RECONNECT_MAX]
  /\ timers \in [Procs -> Nat]
  /\ closed \in [Procs -> BOOLEAN]
  /\ up \in [Conns -> Seq(Peer!Message)]
  /\ down \in [Conns -> Seq(Peer!Message)]

RoomTypes ==
  /\ sockets \subseteq Conns
  /\ sessions \in [Conns -> Peers \cup {NoPeer, NoSession}]
  /\ \A c \in Conns : sessions[c] # NoSession => c \in sockets
  /\ registry \in [Peers -> Keys \cup {NoKey}]
  /\ buckets \in [Peers -> Bucket(RELAY_RATE_LIMIT_PER_MINUTE)]
  /\ \A i \in Peers : buckets[i].last <= now
  /\ blocks \in [Peers -> Blocks(now)]
  /\ \A i \in Peers : Len(blocks[i].rejections) < BLOCK_COUNT

Counters ==
  /\ now \in 0 .. MaxTime
  /\ keyOf \in KeyChoices
  /\ faults \in 0 .. MaxFaults
  /\ started \in 0 .. MaxStarts
  /\ published \in 0 .. MaxPublished
  /\ forgot \in BOOLEAN

\* A transport that is shut down has neither socket nor queue; an open socket has
\* emptied the queue; frames are on their way to live sockets only, and on none that
\* is yet to be dialled.
AtRest ==
  /\ \A p \in Procs : closed[p] => ws[p] = "none" /\ queue[p] = <<>>
  /\ \A p \in Procs : ws[p] = "open" => queue[p] = <<>>
  /\ \A p \in Procs, n \in Numbers :
       /\ n # conn[p] \/ ws[p] \in {"none", "closing"} => down[<<p, n>>] = <<>>
       /\ n > conn[p] => up[<<p, n>>] = <<>>

\* A message is on its way up in one place, and no longer once it goes down or is
\* heard; it goes down a connection once, and is heard once.
OncePerMessage ==
  /\ \A c \in Conns : Ascending(up[c]) /\ NrsOf(up[c]) \subseteq 0 .. published - 1
  /\ \A p \in Procs : Ascending(queue[p]) /\ NrsOf(queue[p]) \subseteq 0 .. published - 1
  /\ \A p \in Procs : \A j \in NrsOf(up[ConnOf(p)]), k \in NrsOf(queue[p]) : j < k
  /\ \A c, d \in Conns : c # d => NrsOf(up[c]) \cap NrsOf(up[d]) = {}
  /\ \A p, q \in Procs : p # q => NrsOf(queue[p]) \cap NrsOf(queue[q]) = {}
  /\ \A c \in Conns, p \in Procs : NrsOf(up[c]) \cap NrsOf(queue[p]) = {}
  /\ \A c \in Conns : Distinct(down[c]) /\ NrsOf(down[c]) \subseteq 0 .. published - 1
  /\ \A c, d \in Conns : NrsOf(down[c]) \cap NrsOf(up[d]) = {}
  /\ \A c \in Conns, p \in Procs : NrsOf(down[c]) \cap NrsOf(queue[p]) = {}
  /\ \A p \in Procs : HeardNrs(p) \subseteq 0 .. published - 1
  /\ \A p \in Procs, c \in Conns : HeardNrs(p) \cap NrsOf(up[c]) = {}
  /\ \A p, q \in Procs : HeardNrs(p) \cap NrsOf(queue[q]) = {}
  /\ \A p \in Procs : HeardNrs(p) \cap NrsOf(down[ConnOf(p)]) = {}
  /\ \A p \in Procs : \A g, h \in heard[p] : g.msg.nr = h.msg.nr => g = h

\* The relay's memory holds the key of what it sent on and what was heard.
KeyKnown ==
  ~forgot =>
    /\ \A c \in Conns : \A k \in DOMAIN down[c] :
         registry[IdOf[down[c][k].key]] = down[c][k].key
    /\ \A p \in Procs : \A h \in heard[p] : registry[IdOf[h.msg.key]] = h.msg.key

HeardOf(p, i, t) == {h \in heard[p] : IdOf[h.msg.key] = i /\ h.at >= t}
HeardOn(p, i, x, t) == {h \in HeardOf(p, i, t) : h.msg.topic = x}

\* A bucket pays for every message heard.
BucketPays ==
  \A p \in Procs, i \in Peers :
    LET b == receiveBuckets[p][i]
    IN  /\ \A h \in heard[p] : IdOf[h.msg.key] = i => h.at <= b.last
        /\ \A t \in 0 .. b.last :
             MINUTE * Cardinality(HeardOf(p, i, t)) + b.tokens
               <= RATE_LIMIT_PER_MINUTE * (MINUTE + b.last - t)

\* A window counts what was heard since its last message came in, and before it
\* as far as the window reaches back.
WindowCounts ==
  \A p \in Procs, i \in Peers, x \in Topics :
    LET s == dedupWindow[p][i][x]
    IN  \A t \in Nat :
          \/ s # <<>> /\ t + DEDUP_WINDOW <= s[Len(s)]
          \/ Cardinality(HeardOn(p, i, x, t)) <= Cardinality(Since(s, t))

\* What is counted towards a block was rejected, and a block had its count.
BlockExplained ==
  \A p \in Procs, i \in Peers :
    LET b == blocklist[p][i]
        times == rejectedAt[p][i]
        start == b.until - BLOCK_DURATION
    IN  /\ \A t \in Int : Cardinality(Since(b.rejections, t)) <= Cardinality(Since(times, t))
        /\ b.until # 0 =>
             Cardinality({j \in DOMAIN times :
                            times[j] <= start /\ start - times[j] < BLOCK_WINDOW})
               >= BLOCK_COUNT

\* What the relay has sent on, of it the numbers that came in on connection c, and
\* these with the ones still on their way up.
Passed ==
  {m \in Peer!Message : \/ \E d \in Conns : \E k \in DOMAIN down[d] : m = down[d][k]
                        \/ \E r \in Procs : \E h \in heard[r] : m = h.msg}
PassedOn(c) == {m.nr : m \in {x \in Passed : x.via = c}}
SentOn(c) == NrsOf(up[c]) \cup PassedOn(c)

Ahead(S, T) == \A a \in S, b \in T : a < b
Fifo(s) == \A j, k \in DOMAIN s : j < k /\ s[j].via = s[k].via => s[j].nr < s[k].nr

\* What a process sent on one connection is older than what it sent on the next, and
\* that older than what it still queues; a connection's frames come in in their order.
SendOrder ==
  /\ \A p \in Procs, n, k \in Numbers : n < k => Ahead(SentOn(<<p, n>>), SentOn(<<p, k>>))
  /\ \A p \in Procs, n \in Numbers : Ahead(SentOn(<<p, n>>), NrsOf(queue[p]))
  /\ \A p \in Procs, n \in Numbers : n > conn[p] => SentOn(<<p, n>>) = {}
  /\ \A c \in Conns : Ahead(PassedOn(c), NrsOf(up[c]))
  /\ \A m \in Passed : m.via \in Conns

\* What came in on one connection goes down each other one in that order, and is heard
\* so: what is heard is older than what is to come.
HearOrder ==
  /\ \A r \in Procs : \A h \in heard[r] : h.nth \in 1 .. Cardinality(heard[r])
  /\ \A r \in Procs : \A g, h \in heard[r] :
       g.msg.via = h.msg.via /\ g.nth < h.nth => g.msg.nr < h.msg.nr
  /\ \A r \in Procs, n \in Numbers : \A g \in heard[r], k \in DOMAIN down[<<r, n>>] :
       g.msg.via = down[<<r, n>>][k].via => g.msg.nr < down[<<r, n>>][k].nr
  /\ \A d \in Conns : Fifo(down[d])

IInv ==
  /\ Counters
  /\ RuntimeTypes
  /\ TransportTypes
  /\ RoomTypes
  /\ SocketOrTimer
  /\ AtRest
  /\ OncePerMessage
  /\ KeyKnown
  /\ BucketPays
  /\ WindowCounts
  /\ DedupBound
  /\ BlockExplained

-----------------------------------------------------------------------------
(* The operators of RateLimits are the same in every module that has them *)

LEMMA SameRateLimits ==
  /\ \A s, w, n : Peer!Recent(s, w, n) = Recent(s, w, n) /\ Room!Recent(s, w, n) = Recent(s, w, n)
  /\ \A b, n : Peer!Rejected(b, n) = Rejected(b, n) /\ Room!Rejected(b, n) = Rejected(b, n)
  /\ \A b, n : Peer!IsBlocked(b, n) = IsBlocked(b, n) /\ Room!IsBlocked(b, n) = IsBlocked(b, n)
  /\ \A r : Peer!Bucket(r) = Bucket(r) /\ Room!Bucket(r) = Bucket(r)
  /\ \A r, n : /\ Peer!FullBucket(r, n) = FullBucket(r, n)
               /\ Room!FullBucket(r, n) = FullBucket(r, n)
  /\ \A b, r, n : /\ Peer!Refilled(b, r, n) = Refilled(b, r, n)
                  /\ Room!Refilled(b, r, n) = Refilled(b, r, n)
  /\ \A b, r, n : /\ Peer!HasToken(b, r, n) = HasToken(b, r, n)
                  /\ Room!HasToken(b, r, n) = HasToken(b, r, n)
  /\ \A b, r, n : Peer!Spent(b, r, n) = Spent(b, r, n) /\ Room!Spent(b, r, n) = Spent(b, r, n)
  /\ \A s, n : Peer!Window(s, n) = Window(s, n)
  /\ \A s, n : Peer!IsDuplicate(s, n) = IsDuplicate(s, n)
  /\ Peer!NoBlock = NoBlock /\ Room!NoBlock = NoBlock
<1>1. \A s, w, n : Peer!Recent(s, w, n) = Recent(s, w, n) /\ Room!Recent(s, w, n) = Recent(s, w, n)
  BY DEF Peer!Recent, Room!Recent, Recent, Peer!Old, Room!Old, Old,
         Peer!Cardinality, Room!Cardinality, Cardinality
<1>2. \A b, n : Peer!Rejected(b, n) = Rejected(b, n) /\ Room!Rejected(b, n) = Rejected(b, n)
  BY <1>1 DEF Peer!Rejected, Room!Rejected, Rejected
<1>3. \A b, n : Peer!IsBlocked(b, n) = IsBlocked(b, n) /\ Room!IsBlocked(b, n) = IsBlocked(b, n)
  BY DEF Peer!IsBlocked, Room!IsBlocked, IsBlocked
<1>4. \A r : Peer!Bucket(r) = Bucket(r) /\ Room!Bucket(r) = Bucket(r)
  BY DEF Peer!Bucket, Room!Bucket, Bucket
<1>5. \A r, n : /\ Peer!FullBucket(r, n) = FullBucket(r, n)
                /\ Room!FullBucket(r, n) = FullBucket(r, n)
  BY DEF Peer!FullBucket, Room!FullBucket, FullBucket
<1>6. \A b, r, n : /\ Peer!Refilled(b, r, n) = Refilled(b, r, n)
                   /\ Room!Refilled(b, r, n) = Refilled(b, r, n)
  BY DEF Peer!Refilled, Room!Refilled, Refilled
<1>7. \A b, r, n : /\ Peer!HasToken(b, r, n) = HasToken(b, r, n)
                   /\ Room!HasToken(b, r, n) = HasToken(b, r, n)
  BY <1>6 DEF Peer!HasToken, Room!HasToken, HasToken
<1>8. \A b, r, n : Peer!Spent(b, r, n) = Spent(b, r, n) /\ Room!Spent(b, r, n) = Spent(b, r, n)
  BY <1>6 DEF Peer!Spent, Room!Spent, Spent
<1>9. \A s, n : Peer!Window(s, n) = Window(s, n)
  BY <1>1 DEF Peer!Window, Window
<1>10. \A s, n : Peer!IsDuplicate(s, n) = IsDuplicate(s, n)
  BY <1>9 DEF Peer!IsDuplicate, IsDuplicate
<1>11. Peer!NoBlock = NoBlock /\ Room!NoBlock = NoBlock
  BY DEF Peer!NoBlock, Room!NoBlock, NoBlock
<1> QED
  BY <1>1, <1>2, <1>3, <1>4, <1>5, <1>6, <1>7, <1>8, <1>9, <1>10, <1>11

-----------------------------------------------------------------------------
(* Lists of times *)

LEMMA UpTo ==
  ASSUME NEW l \in Nat
  PROVE  IsFiniteSet(1..l) /\ Cardinality(1..l) = l
<1>1. /\ IsFiniteSet(1..l)
      /\ Cardinality(1..l) = IF 1 > l THEN 0 ELSE l - 1 + 1
  BY FS_Interval
<1> QED
  BY <1>1

LEMMA OneMore ==
  ASSUME NEW S, IsFiniteSet(S), NEW e, NEW T \in SUBSET (S \cup {e})
  PROVE  /\ IsFiniteSet(T)
         /\ Cardinality(T) \in Nat /\ Cardinality(S) \in Nat
         /\ Cardinality(T) <= Cardinality(S) + 1
<1>1. /\ IsFiniteSet(S \cup {e})
      /\ Cardinality(S \cup {e}) = IF e \in S THEN Cardinality(S) ELSE Cardinality(S) + 1
  BY FS_AddElement
<1>2. IsFiniteSet(T) /\ Cardinality(T) <= Cardinality(S \cup {e})
  BY <1>1, FS_Subset
<1>3. Cardinality(T) \in Nat /\ Cardinality(S) \in Nat /\ Cardinality(S \cup {e}) \in Nat
  BY <1>1, <1>2, FS_CardinalityType
<1> QED
  BY <1>1, <1>2, <1>3

LEMMA NoTimes ==
  ASSUME NEW n \in Nat
  PROVE  /\ <<>> \in Times(n)
         /\ \A t \in Int : Since(<<>>, t) = {} /\ Cardinality(Since(<<>>, t)) = 0
<1>1. <<>> \in Seq(Nat) /\ DOMAIN <<>> = {}
  BY EmptySeq, LenProperties
<1> QED
  BY <1>1, FS_EmptySet DEF Times, Since

\* The clock going on does not disturb them.
LEMMA TimesGrow ==
  ASSUME NEW n \in Nat, NEW m \in Nat, n <= m
  PROVE  Times(n) \subseteq Times(m)
<1> SUFFICES ASSUME NEW s \in Times(n)
             PROVE  s \in Times(m)
  OBVIOUS
<1>1. s \in Seq(Nat) /\ \A k \in DOMAIN s : s[k] \in Nat /\ s[k] <= n
  BY LenProperties, ElementOfSeq DEF Times
<1> QED
  BY <1>1 DEF Times

LEMMA SinceFinite ==
  ASSUME NEW n \in Nat, NEW s \in Times(n), NEW t \in Int
  PROVE  /\ IsFiniteSet(Since(s, t))
         /\ Cardinality(Since(s, t)) \in Nat
         /\ Cardinality(Since(s, t)) <= Len(s)
<1>1. s \in Seq(Nat) /\ Len(s) \in Nat /\ DOMAIN s = 1..Len(s)
  BY LenProperties DEF Times
<1>2. IsFiniteSet(1..Len(s)) /\ Cardinality(1..Len(s)) = Len(s)
  BY <1>1, UpTo
<1>3. Since(s, t) \in SUBSET (1..Len(s))
  BY <1>1 DEF Since
<1>4. IsFiniteSet(Since(s, t)) /\ Cardinality(Since(s, t)) <= Len(s)
  BY <1>2, <1>3, FS_Subset
<1> QED
  BY <1>4, FS_CardinalityType

\* One more time, the clock's own: it counts in every span that reaches back to it.
LEMMA AppendTime ==
  ASSUME NEW n \in Nat, NEW s \in Times(n)
  PROVE  /\ Append(s, n) \in Times(n)
         /\ Append(s, n) # <<>>
         /\ Len(Append(s, n)) = Len(s) + 1
         /\ Append(s, n)[Len(s) + 1] = n
         /\ \A t \in Int : Since(Append(s, n), t)
              = IF t <= n THEN Since(s, t) \cup {Len(s) + 1} ELSE Since(s, t)
         /\ \A t \in Int : Cardinality(Since(Append(s, n), t))
              = IF t <= n THEN Cardinality(Since(s, t)) + 1 ELSE Cardinality(Since(s, t))
<1>1. s \in Seq(Nat) /\ Len(s) \in Nat /\ DOMAIN s = 1..Len(s)
  BY LenProperties DEF Times
<1>2. /\ Append(s, n) \in Seq(Nat)
      /\ Append(s, n) # <<>>
      /\ Len(Append(s, n)) = Len(s) + 1
      /\ \A k \in 1..Len(s) : Append(s, n)[k] = s[k]
      /\ Append(s, n)[Len(s) + 1] = n
  BY <1>1, AppendProperties
<1>3. DOMAIN Append(s, n) = 1..(Len(s) + 1)
  BY <1>2, LenProperties
<1>4. \A k \in 1..Len(s) : s[k] \in Nat /\ s[k] <= n
  BY <1>1, ElementOfSeq DEF Times
<1>5. \A k \in 1..(Len(s) + 1) : k = Len(s) + 1 \/ k \in 1..Len(s)
  BY <1>1
<1>6. \A k \in 1..(Len(s) + 1) : Append(s, n)[k] \in Nat /\ Append(s, n)[k] <= n
  BY <1>2, <1>4, <1>5
<1>7. ASSUME NEW j \in 1..(Len(s) + 1), NEW k \in 1..(Len(s) + 1), j <= k
      PROVE  Append(s, n)[j] <= Append(s, n)[k]
  <2>1. CASE k = Len(s) + 1
    BY <1>2, <1>6, <2>1
  <2>2. CASE k \in 1..Len(s)
    <3>1. j \in 1..Len(s)
      BY <1>7, <2>2
    <3> QED
      BY <1>1, <1>2, <1>7, <2>2, <3>1 DEF Times
  <2> QED
    BY <1>5, <2>1, <2>2
<1>8. Append(s, n) \in Times(n)
  BY <1>2, <1>3, <1>6, <1>7 DEF Times
<1>9. ASSUME NEW t \in Int
      PROVE  Since(Append(s, n), t)
               = IF t <= n THEN Since(s, t) \cup {Len(s) + 1} ELSE Since(s, t)
  <2>1. Since(Append(s, n), t) = {k \in 1..(Len(s) + 1) : Append(s, n)[k] >= t}
    BY <1>3 DEF Since
  <2>2. Since(s, t) = {k \in 1..Len(s) : s[k] >= t}
    BY <1>1 DEF Since
  <2> QED
    BY <1>1, <1>2, <1>4, <1>5, <2>1, <2>2
<1>10. ASSUME NEW t \in Int
       PROVE  Cardinality(Since(Append(s, n), t))
                = IF t <= n THEN Cardinality(Since(s, t)) + 1 ELSE Cardinality(Since(s, t))
  <2>1. IsFiniteSet(Since(s, t)) /\ Len(s) + 1 \notin 1..Len(s)
    BY <1>1, SinceFinite
  <2>3. Len(s) + 1 \notin Since(s, t)
    BY <1>1, <2>1 DEF Since
  <2>2. Cardinality(Since(s, t) \cup {Len(s) + 1}) = Cardinality(Since(s, t)) + 1
    BY <2>1, <2>3, FS_AddElement
  <2> QED
    BY <1>9, <2>2
<1> QED
  BY <1>2, <1>8, <1>9, <1>10

\* The filter keeps the times within the window, and of no span more than there were.
LEMMA RecentTimes ==
  ASSUME NEW n \in Nat, NEW s \in Times(n), NEW w \in Nat
  PROVE  /\ Recent(s, w, n) \in Times(n)
         /\ Len(Recent(s, w, n)) <= Len(s)
         /\ \A k \in DOMAIN Recent(s, w, n) : n - Recent(s, w, n)[k] < w
         /\ \A t \in Int : Cardinality(Since(Recent(s, w, n), t)) <= Cardinality(Since(s, t))
         /\ \A t \in Int : t + w > n =>
              Cardinality(Since(Recent(s, w, n), t)) = Cardinality(Since(s, t))
<1> DEFINE m == Cardinality(Old(s, w, n))
           r == Recent(s, w, n)
<1>1. s \in Seq(Nat) /\ Len(s) \in Nat /\ DOMAIN s = 1..Len(s)
  BY LenProperties DEF Times
<1>2. \A k \in 1..Len(s) : s[k] \in Nat /\ s[k] <= n
  BY <1>1, ElementOfSeq DEF Times
<1>3. \A j, k \in 1..Len(s) : j <= k => s[j] <= s[k]
  BY <1>1 DEF Times
<1>4. /\ IsFiniteSet(Old(s, w, n)) /\ m \in Nat /\ m <= Len(s)
  <2>1. IsFiniteSet(1..Len(s)) /\ Cardinality(1..Len(s)) = Len(s)
    BY <1>1, UpTo
  <2>2. Old(s, w, n) \in SUBSET (1..Len(s))
    BY <1>1 DEF Old
  <2> QED
    BY <2>1, <2>2, FS_Subset, FS_CardinalityType
<1>5. \A k \in 1..Len(s) : k \in Old(s, w, n) <=> k <= m
  <2> SUFFICES ASSUME NEW k \in 1..Len(s)
               PROVE  k \in Old(s, w, n) <=> k <= m
    OBVIOUS
  <2>1. CASE k \in Old(s, w, n)
    <3>1. 1..k \in SUBSET Old(s, w, n)
      BY <1>1, <1>2, <1>3, <2>1 DEF Old
    <3>2. Cardinality(1..k) = k
      BY FS_Interval
    <3>3. Cardinality(1..k) <= m
      BY <1>4, <3>1, FS_Subset
    <3> QED
      BY <2>1, <3>2, <3>3
  <2>2. CASE k \notin Old(s, w, n)
    <3>1. Old(s, w, n) \in SUBSET (1..(k - 1))
      BY <1>1, <1>2, <1>3, <2>2 DEF Old
    <3>2. IsFiniteSet(1..(k - 1)) /\ Cardinality(1..(k - 1)) = k - 1
      BY FS_Interval
    <3>3. m <= k - 1
      BY <3>1, <3>2, FS_Subset
    <3> QED
      BY <1>4, <2>2, <3>3
  <2> QED
    BY <2>1, <2>2
<1>6. /\ r \in Seq(Nat)
      /\ Len(r) = Len(s) - m
      /\ DOMAIN r = 1..(Len(s) - m)
      /\ \A k \in 1..(Len(s) - m) : r[k] = s[k + m]
  <2>1. r = SubSeq(s, m + 1, Len(s))
    BY DEF Recent
  <2>2. \A k \in m + 1 .. Len(s) : s[k] \in Nat
    BY <1>2, <1>4
  <2>3. /\ r \in Seq(Nat)
        /\ Len(r) = IF m + 1 <= Len(s) THEN Len(s) - (m + 1) + 1 ELSE 0
        /\ \A k \in 1 .. Len(s) - (m + 1) + 1 : r[k] = s[(m + 1) + k - 1]
    <3>1. m + 1 \in Int /\ Len(s) \in Int
      BY <1>1, <1>4
    <3> DEFINE a == m + 1
               b == Len(s)
    <3>2. a \in Int /\ b \in Int /\ \A k \in a .. b : s[k] \in Nat
      BY <2>2, <3>1
    <3> HIDE DEF a, b
    <3>3. /\ SubSeq(s, a, b) \in Seq(Nat)
          /\ Len(SubSeq(s, a, b)) = IF a <= b THEN b - a + 1 ELSE 0
          /\ \A k \in 1 .. b - a + 1 : SubSeq(s, a, b)[k] = s[a + k - 1]
      BY <3>2, SMT
    <3>4. r = SubSeq(s, a, b)
      BY <2>1 DEF a, b
    <3> HIDE DEF r
    <3> QED
      BY <3>3, <3>4 DEF a, b
  <2> DEFINE l == Len(s)
  <2>8. l \in Nat /\ m \in Nat /\ m <= l /\ Len(r) = IF m + 1 <= l THEN l - (m + 1) + 1 ELSE 0
    BY <1>1, <1>4, <2>3
  <2> HIDE DEF l, m, r
  <2>9. Len(r) = l - m
    BY <2>8
  <2>4. Len(r) = Len(s) - m
    BY <2>9 DEF l
  <2>5. \A k \in 1..(Len(s) - m) : r[k] = s[k + m]
    <3> SUFFICES ASSUME NEW k \in 1..(Len(s) - m)
                 PROVE  r[k] = s[k + m]
      OBVIOUS
    <3>1. k \in 1 .. Len(s) - (m + 1) + 1 /\ (m + 1) + k - 1 = k + m
      BY <1>1, <1>4
    <3> QED
      BY <2>3, <3>1
  <2> QED
    BY <2>3, <2>4, <2>5, LenProperties
<1> HIDE DEF m, r
<1>7. \A k \in 1..(Len(s) - m) : k + m \in 1..Len(s) /\ k + m > m
  BY <1>1, <1>4
<1>8. r \in Times(n)
  <2>1. ASSUME NEW k \in DOMAIN r
        PROVE  r[k] <= n
    <3>1. k \in 1..(Len(s) - m) /\ r[k] = s[k + m] /\ k + m \in 1..Len(s)
      BY <1>6, <1>7
    <3> QED
      BY <1>2, <3>1
  <2>2. ASSUME NEW j \in DOMAIN r, NEW k \in DOMAIN r, j <= k
        PROVE  r[j] <= r[k]
    <3>1. /\ r[j] = s[j + m] /\ j + m \in 1..Len(s) /\ j \in Nat
          /\ r[k] = s[k + m] /\ k + m \in 1..Len(s) /\ k \in Nat
      BY <1>6, <1>7
    <3>2. j + m <= k + m
      BY <1>4, <2>2, <3>1
    <3> QED
      BY <1>3, <3>1, <3>2
  <2> QED
    BY <1>6, <2>1, <2>2 DEF Times
<1>9. ASSUME NEW k \in DOMAIN r
      PROVE  n - r[k] < w
  <2>1. r[k] = s[k + m] /\ k + m \in 1..Len(s) /\ k + m > m
    BY <1>6, <1>7
  <2>2. k + m \notin Old(s, w, n)
    BY <1>4, <1>5, <2>1
  <2>3. ~(n - s[k + m] >= w) /\ s[k + m] \in Nat
    BY <1>1, <1>2, <2>1, <2>2 DEF Old
  <2> QED
    BY <2>1, <2>3
<1>10. ASSUME NEW t \in Int
       PROVE  /\ Cardinality(Since(r, t)) <= Cardinality(Since(s, t))
              /\ t + w > n => Cardinality(Since(r, t)) = Cardinality(Since(s, t))
  <2> DEFINE f == [k \in Since(r, t) |-> k + m]
  <2>1. IsFiniteSet(Since(s, t))
    BY SinceFinite
  <2>2. \A k \in Since(r, t) : k \in 1..(Len(s) - m) /\ k + m \in Since(s, t)
    BY <1>1, <1>6, <1>7 DEF Since
  <2>3. f \in [Since(r, t) -> Since(s, t)]
    BY <2>2
  <2>4. ASSUME NEW j \in Since(r, t), NEW k \in Since(r, t), f[j] = f[k]
        PROVE  j = k
    BY <1>4, <2>2, <2>4
  <2>5. IsInjective(f)
    BY <2>3, <2>4 DEF IsInjective
  <2>6. f \in Injection(Since(r, t), Since(s, t))
    BY <2>3, <2>5 DEF Injection
  <2>7. /\ Cardinality(Since(r, t)) <= Cardinality(Since(s, t))
        /\ f \in Surjection(Since(r, t), Since(s, t)) =>
             Cardinality(Since(r, t)) = Cardinality(Since(s, t))
    BY <2>1, <2>6, FS_Injection
  <2>8. ASSUME t + w > n, NEW k \in Since(s, t)
        PROVE  \E j \in Since(r, t) : f[j] = k
    <3>1. k \in 1..Len(s) /\ s[k] \in Nat /\ s[k] >= t
      BY <1>1, <1>2 DEF Since
    <3>2. k \notin Old(s, w, n)
      BY <1>1, <2>8, <3>1 DEF Old
    <3>3. k > m
      BY <1>4, <1>5, <3>1, <3>2
    <3>4. k - m \in 1..(Len(s) - m) /\ (k - m) + m = k
      BY <1>1, <1>4, <3>1, <3>3
    <3>5. k - m \in Since(r, t)
      BY <1>6, <3>1, <3>4 DEF Since
    <3> QED
      BY <3>4, <3>5
  <2>9. t + w > n => f \in Surjection(Since(r, t), Since(s, t))
    BY <2>3, <2>8 DEF Surjection
  <2> QED
    BY <2>7, <2>9
<1> QED
  BY <1>1, <1>4, <1>6, <1>8, <1>9, <1>10 DEF r

-----------------------------------------------------------------------------
(* Buckets and blocks *)

LEMMA Products ==
  ASSUME NEW a \in Nat, NEW b \in Nat
  PROVE  /\ a * b \in Nat
         /\ \A c \in Nat : (a + c) * b = a * b + c * b
         /\ \A c \in Nat : b * (a + c) = b * a + b * c
         /\ a * b = b * a
OBVIOUS

LEMMA ProductMonotone ==
  ASSUME NEW a \in Nat, NEW b \in Nat, NEW c \in Nat, b <= c
  PROVE  a * b <= a * c
<1>1. c - b \in Nat /\ c = b + (c - b)
  OBVIOUS
<1> DEFINE d == c - b
<1>2. a * (b + d) = a * b + a * d /\ a * d \in Nat /\ a * b \in Nat
  BY <1>1, Products
<1> HIDE DEF d
<1>3. c = b + d
  BY <1>1 DEF d
<1> QED
  BY <1>2, <1>3

\* A bucket refilled at n has got at most its gain, and never overflows.
LEMMA RefilledBucket ==
  ASSUME NEW rate \in Nat, NEW b \in Bucket(rate), NEW n \in Nat, b.last <= n
  PROVE  LET r == Refilled(b, rate, n)
         IN  /\ r \in Bucket(rate)
             /\ r.last = n
             /\ r.tokens \in Nat
             /\ r.tokens <= rate * MINUTE
             /\ r.tokens <= b.tokens + (n - b.last) * rate
<1> DEFINE gain == (n - b.last) * rate
           size == rate * MINUTE
<1>1. /\ b = [tokens |-> b.tokens, last |-> b.last]
      /\ b.tokens \in 0 .. size /\ b.last \in Nat
  BY DEF Bucket
<1>2. MINUTE \in Nat /\ n - b.last \in Nat
  BY <1>1, RateLimitsAssumption
<1>3. size \in Nat /\ gain \in Nat
  BY <1>2, Products
<1>4. n <= b.last => gain = 0
  <2> SUFFICES ASSUME n <= b.last
               PROVE  gain = 0
    OBVIOUS
  <2>1. n - b.last = 0
    BY <1>1
  <2> QED
    BY <2>1
<1>5. Refilled(b, rate, n)
        = IF n <= b.last THEN b
          ELSE [tokens |-> IF b.tokens + gain < size THEN b.tokens + gain ELSE size,
                last |-> n]
  BY DEF Refilled
<1>6. Bucket(rate) = [tokens : 0 .. size, last : Nat]
  BY DEF Bucket
<1> HIDE DEF gain, size
<1>7. CASE n <= b.last
  <2>1. Refilled(b, rate, n) = b /\ b.last = n /\ gain = 0
    BY <1>1, <1>4, <1>5, <1>7
  <2> QED
    BY <1>1, <1>3, <2>1 DEF gain, size
<1>8. CASE ~(n <= b.last)
  <2> DEFINE k == IF b.tokens + gain < size THEN b.tokens + gain ELSE size
  <2>1. k \in 0 .. size /\ k <= b.tokens + gain
    BY <1>1, <1>3
  <2>2. Refilled(b, rate, n) = [tokens |-> k, last |-> n]
    BY <1>5, <1>8
  <2> HIDE DEF k
  <2>3. Refilled(b, rate, n) \in Bucket(rate)
    BY <1>6, <2>1, <2>2
  <2>4. Refilled(b, rate, n).tokens = k /\ Refilled(b, rate, n).last = n
    BY <2>2
  <2>5. k \in Nat /\ k <= size
    BY <1>3, <2>1
  <2> QED
    BY <2>1, <2>3, <2>4, <2>5 DEF gain, size
<1> QED
  BY <1>7, <1>8

LEMMA SpentBucket ==
  ASSUME NEW rate \in Nat, NEW b \in Bucket(rate), NEW n \in Nat, b.last <= n,
         HasToken(b, rate, n)
  PROVE  LET r == Spent(b, rate, n)
         IN  /\ r \in Bucket(rate)
             /\ r.last = n
             /\ r.tokens = Refilled(b, rate, n).tokens - MINUTE
<1> DEFINE r == Refilled(b, rate, n)
           size == rate * MINUTE
<1>1. /\ r \in Bucket(rate) /\ r.last = n
      /\ r.tokens \in Nat /\ r.tokens <= size
  BY RefilledBucket
<1>2. r.tokens >= MINUTE /\ MINUTE \in Nat
  BY RateLimitsAssumption DEF HasToken
<1>3. Bucket(rate) = [tokens : 0 .. size, last : Nat]
  BY DEF Bucket
<1>4. Spent(b, rate, n) = [r EXCEPT !.tokens = r.tokens - MINUTE]
  BY DEF Spent
<1>5. size \in Nat
  BY <1>2, Products
<1> HIDE DEF r, size
<1>6. r.tokens - MINUTE \in 0 .. size
  BY <1>1, <1>2, <1>5
<1>7. Spent(b, rate, n) = [tokens |-> r.tokens - MINUTE, last |-> n]
  BY <1>1, <1>3, <1>4
<1> QED
  BY <1>3, <1>6, <1>7 DEF r

LEMMA FullBucketType ==
  ASSUME NEW rate \in Nat, NEW n \in Nat
  PROVE  /\ FullBucket(rate, n) \in Bucket(rate)
         /\ FullBucket(rate, n).last = n
         /\ FullBucket(rate, n).tokens = rate * MINUTE
<1>1. rate * MINUTE \in Nat
  BY Products, RateLimitsAssumption
<1> DEFINE size == rate * MINUTE
<1>2. size \in 0 .. size
  BY <1>1
<1> HIDE DEF size
<1> QED
  BY <1>2 DEF FullBucket, Bucket, size

\* A rejection keeps the times recorded, until there are enough of them.
LEMMA RejectedBlock ==
  ASSUME NEW n \in Nat, NEW b \in Blocks(n)
  PROVE  LET recent == Append(Recent(b.rejections, BLOCK_WINDOW, n), n)
             r == Rejected(b, n)
         IN  /\ r \in Blocks(n)
             /\ Len(r.rejections) < BLOCK_COUNT
             /\ \/ /\ Len(recent) >= BLOCK_COUNT
                   /\ r = [rejections |-> <<>>, until |-> n + BLOCK_DURATION]
                \/ /\ Len(recent) < BLOCK_COUNT
                   /\ r = [rejections |-> recent, until |-> b.until]
<1> DEFINE recent == Append(Recent(b.rejections, BLOCK_WINDOW, n), n)
<1>1. /\ BLOCK_WINDOW \in Nat /\ BLOCK_COUNT \in Nat /\ BLOCK_COUNT > 0
      /\ BLOCK_DURATION \in Nat
  BY RateLimitsAssumption
<1>2. /\ b = [rejections |-> b.rejections, until |-> b.until]
      /\ b.rejections \in Times(n) /\ b.until \in Nat
  BY DEF Blocks
<1>3. Recent(b.rejections, BLOCK_WINDOW, n) \in Times(n)
  BY <1>1, <1>2, RecentTimes
<1>4. recent \in Times(n)
  BY <1>3, AppendTime
<1>5. Rejected(b, n) = IF Len(recent) >= BLOCK_COUNT
                       THEN [rejections |-> <<>>, until |-> n + BLOCK_DURATION]
                       ELSE [b EXCEPT !.rejections = recent]
  BY DEF Rejected
<1>6. Len(recent) \in Nat
  BY <1>4, LenProperties DEF Times
<1> HIDE DEF recent
<1>7. CASE Len(recent) >= BLOCK_COUNT
  <2>1. Rejected(b, n) = [rejections |-> <<>>, until |-> n + BLOCK_DURATION]
    BY <1>5, <1>7
  <2>2. <<>> \in Times(n) /\ n + BLOCK_DURATION \in Nat /\ Len(<<>>) = 0
    BY <1>1, NoTimes
  <2> QED
    BY <1>1, <1>7, <2>1, <2>2 DEF Blocks, recent
<1>8. CASE ~(Len(recent) >= BLOCK_COUNT)
  <2>1. Rejected(b, n) = [rejections |-> recent, until |-> b.until]
    BY <1>2, <1>5, <1>8
  <2>2. Len(recent) < BLOCK_COUNT
    BY <1>1, <1>6, <1>8
  <2> QED
    BY <1>2, <1>4, <2>1, <2>2 DEF Blocks, recent
<1> QED
  BY <1>7, <1>8

-----------------------------------------------------------------------------
(* A runtime *)

RuntimeInv ==
  /\ now \in Nat
  /\ RuntimeTypes
  /\ BucketPays
  /\ WindowCounts
  /\ DedupBound
  /\ BlockExplained

LEMMA Rates ==
  /\ RATE_LIMIT_PER_MINUTE \in Nat /\ RELAY_RATE_LIMIT_PER_MINUTE \in Nat
  /\ MINUTE \in Nat /\ MINUTE > 0 /\ RATE_LIMIT_PER_MINUTE > 0
  /\ DEDUP_WINDOW \in Nat /\ DEDUP_WINDOW > 0 /\ DEDUP_MAX \in Nat
  /\ BLOCK_WINDOW \in Nat /\ BLOCK_WINDOW > 0
  /\ BLOCK_COUNT \in Nat /\ BLOCK_COUNT > 0
  /\ BLOCK_DURATION \in Nat /\ BLOCK_DURATION > 0
BY RateLimitsAssumption, GossipMeshAssumption

LEMMA MessageFields ==
  ASSUME NEW m \in Peer!Message
  PROVE  m.nr \in Nat /\ m.key \in Keys /\ m.topic \in Topics /\ IdOf[m.key] \in Peers
BY GossipMeshAssumption DEF Peer!Message

\* What is heard of one peer, and of it on one topic, is finite.
LEMMA HeardFinite ==
  ASSUME RuntimeTypes, NEW p \in Procs, NEW S \in SUBSET heard[p]
  PROVE  IsFiniteSet(S) /\ Cardinality(S) \in Nat
<1>1. IsFiniteSet(heard[p])
  BY DEF RuntimeTypes
<1> QED
  BY <1>1, FS_Subset, FS_CardinalityType

LEMMA CountsKept ==
  ASSUME RuntimeInv, UNCHANGED peerVars
  PROVE  BucketPays' /\ WindowCounts' /\ DedupBound' /\ BlockExplained'
<1>1. /\ dedupWindow' = dedupWindow /\ blocklist' = blocklist /\ rejectedAt' = rejectedAt
      /\ heard' = heard /\ receiveBuckets' = receiveBuckets
  BY DEF peerVars
<1>2. BucketPays'
  BY <1>1 DEF RuntimeInv, BucketPays, HeardOf
<1>3. WindowCounts'
  BY <1>1 DEF RuntimeInv, WindowCounts, HeardOf, HeardOn
<1>4. DedupBound'
  BY <1>1 DEF RuntimeInv, DedupBound
<1>5. BlockExplained'
  BY <1>1 DEF RuntimeInv, BlockExplained
<1> QED
  BY <1>2, <1>3, <1>4, <1>5

LEMMA RuntimeIdle ==
  ASSUME RuntimeInv, UNCHANGED <<now, peerVars>>
  PROVE  RuntimeInv'
<1>1. RuntimeTypes'
  BY DEF RuntimeInv, peerVars, RuntimeTypes
<1> QED
  BY <1>1, CountsKept DEF RuntimeInv

LEMMA RuntimeTick ==
  ASSUME RuntimeInv, now' = now + 1, UNCHANGED peerVars
  PROVE  RuntimeInv'
<1>1. now \in Nat /\ now' \in Nat /\ now <= now'
  BY DEF RuntimeInv
<1>2. Times(now) \subseteq Times(now')
  BY <1>1, TimesGrow
<1>3. Blocks(now) \subseteq Blocks(now')
  BY <1>2 DEF Blocks
<1>4. RuntimeTypes'
  <2>1. /\ dedupWindow' = dedupWindow /\ blocklist' = blocklist /\ rejectedAt' = rejectedAt
        /\ heard' = heard /\ receiveBuckets' = receiveBuckets /\ enabled' = enabled
        /\ publishBucket' = publishBucket
    BY DEF peerVars
  <2>2. RuntimeTypes
    BY DEF RuntimeInv
  <2>3. dedupWindow \in [Procs -> [Peers -> [Topics -> Times(now')]]]
    BY <1>2, <2>2 DEF RuntimeTypes
  <2>4. blocklist \in [Procs -> [Peers -> Blocks(now')]]
    BY <1>3, <2>2 DEF RuntimeTypes
  <2>5. rejectedAt \in [Procs -> [Peers -> Times(now')]]
    BY <1>2, <2>2 DEF RuntimeTypes
  <2>6. heard \in [Procs -> SUBSET [msg : Peer!Message, at : 0 .. now', nth : Nat]]
    <3>1. 0 .. now \subseteq 0 .. now'
      BY <1>1
    <3>2. [msg : Peer!Message, at : 0 .. now, nth : Nat]
            \subseteq [msg : Peer!Message, at : 0 .. now', nth : Nat]
      BY <3>1
    <3> QED
      BY <2>2, <3>2 DEF RuntimeTypes
  <2>7. \A p \in Procs, i \in Peers : receiveBuckets[p][i].last <= now'
    <3> SUFFICES ASSUME NEW p \in Procs, NEW i \in Peers
                 PROVE  receiveBuckets[p][i].last <= now'
      OBVIOUS
    <3>1. receiveBuckets[p][i].last <= now /\ receiveBuckets[p][i].last \in Nat
      BY <2>2 DEF RuntimeTypes, Bucket
    <3> QED
      BY <1>1, <3>1
  <2>8. \A p \in Procs : publishBucket[p].last <= now'
    <3> SUFFICES ASSUME NEW p \in Procs
                 PROVE  publishBucket[p].last <= now'
      OBVIOUS
    <3>1. publishBucket[p].last <= now /\ publishBucket[p].last \in Nat
      BY <2>2 DEF RuntimeTypes, Bucket
    <3> QED
      BY <1>1, <3>1
  <2> QED
    BY <2>1, <2>2, <2>3, <2>4, <2>5, <2>6, <2>7, <2>8 DEF RuntimeTypes
<1>5. BucketPays' /\ WindowCounts' /\ DedupBound' /\ BlockExplained'
  BY CountsKept
<1> QED
  BY <1>1, <1>4, <1>5 DEF RuntimeInv

\* A runtime built anew, or shut down.
LEMMA RuntimeFresh ==
  ASSUME RuntimeInv, NEW p \in Procs,
         now' = now,
         enabled' \in [Procs -> BOOLEAN],
         publishBucket' \in [Procs -> Bucket(RATE_LIMIT_PER_MINUTE)],
         \A q \in Procs : publishBucket'[q].last <= now,
         receiveBuckets' = [receiveBuckets EXCEPT
                              ![p] = [i \in Peers |-> FullBucket(RATE_LIMIT_PER_MINUTE, 0)]],
         dedupWindow' = [dedupWindow EXCEPT
                           ![p] = [i \in Peers |-> [x \in Topics |-> <<>>]]],
         blocklist' = [blocklist EXCEPT ![p] = [i \in Peers |-> NoBlock]],
         heard' = [heard EXCEPT ![p] = {}],
         rejectedAt' = [rejectedAt EXCEPT ![p] = [i \in Peers |-> <<>>]]
  PROVE  RuntimeInv'
<1>1. now \in Nat /\ RuntimeTypes
  BY DEF RuntimeInv
<1>2. /\ <<>> \in Times(now)
      /\ \A t \in Int : Since(<<>>, t) = {} /\ Cardinality(Since(<<>>, t)) = 0
  BY <1>1, NoTimes
<1> DEFINE full == FullBucket(RATE_LIMIT_PER_MINUTE, 0)
<1>3. /\ full \in Bucket(RATE_LIMIT_PER_MINUTE)
      /\ full.last = 0
      /\ full.tokens = RATE_LIMIT_PER_MINUTE * MINUTE
  BY Rates, FullBucketType
<1> HIDE DEF full
<1>4. /\ NoBlock \in Blocks(now) /\ NoBlock.rejections = <<>> /\ NoBlock.until = 0
      /\ Len(NoBlock.rejections) < BLOCK_COUNT
  BY <1>2, Rates DEF NoBlock, Blocks
<1>5. \A i \in Peers : /\ receiveBuckets'[p][i] = full
                       /\ blocklist'[p][i] = NoBlock
                       /\ rejectedAt'[p][i] = <<>>
                       /\ \A x \in Topics : dedupWindow'[p][i][x] = <<>>
  BY <1>1 DEF RuntimeTypes, full
<1>6. heard'[p] = {}
  BY <1>1 DEF RuntimeTypes
<1>7. \A q \in Procs : q # p => /\ receiveBuckets'[q] = receiveBuckets[q]
                                /\ blocklist'[q] = blocklist[q]
                                /\ rejectedAt'[q] = rejectedAt[q]
                                /\ dedupWindow'[q] = dedupWindow[q]
                                /\ heard'[q] = heard[q]
  BY <1>1 DEF RuntimeTypes
<1>8. RuntimeTypes'
  <2>1. receiveBuckets' \in [Procs -> [Peers -> Bucket(RATE_LIMIT_PER_MINUTE)]]
    BY <1>1, <1>3 DEF RuntimeTypes, full
  <2>2. dedupWindow' \in [Procs -> [Peers -> [Topics -> Times(now)]]]
    BY <1>1, <1>2 DEF RuntimeTypes
  <2>3. blocklist' \in [Procs -> [Peers -> Blocks(now)]]
    BY <1>1, <1>4 DEF RuntimeTypes
  <2>4. rejectedAt' \in [Procs -> [Peers -> Times(now)]]
    BY <1>1, <1>2 DEF RuntimeTypes
  <2>5. heard' \in [Procs -> SUBSET [msg : Peer!Message, at : 0 .. now, nth : Nat]]
    BY <1>1 DEF RuntimeTypes
  <2>6. \A q \in Procs, i \in Peers : receiveBuckets'[q][i].last <= now
    BY <1>1, <1>3, <1>5, <1>7 DEF RuntimeTypes
  <2>7. \A q \in Procs, i \in Peers : Len(blocklist'[q][i].rejections) < BLOCK_COUNT
    BY <1>1, <1>4, <1>5, <1>7 DEF RuntimeTypes
  <2>8. \A q \in Procs : IsFiniteSet(heard'[q])
    BY <1>1, <1>6, <1>7, FS_EmptySet DEF RuntimeTypes
  <2> QED
    BY <2>1, <2>2, <2>3, <2>4, <2>5, <2>6, <2>7, <2>8 DEF RuntimeTypes
<1>9. BucketPays'
  <2> SUFFICES ASSUME NEW q \in Procs, NEW i \in Peers
               PROVE  /\ \A h \in heard'[q] : IdOf[h.msg.key] = i =>
                           h.at <= receiveBuckets'[q][i].last
                      /\ \A t \in 0 .. receiveBuckets'[q][i].last :
                           MINUTE * Cardinality(HeardOf(q, i, t)') + receiveBuckets'[q][i].tokens
                             <= RATE_LIMIT_PER_MINUTE
                                  * (MINUTE + receiveBuckets'[q][i].last - t)
    BY DEF BucketPays
  <2>1. CASE q = p
    <3>1. \A t \in Int : HeardOf(q, i, t)' = {}
      BY <1>6, <2>1 DEF HeardOf
    <3>2. Cardinality({}) = 0 /\ MINUTE * 0 = 0 /\ MINUTE + 0 - 0 = MINUTE
      BY FS_EmptySet, Rates
    <3>3. RATE_LIMIT_PER_MINUTE * MINUTE \in Nat
      BY Rates, Products
    <3>4. receiveBuckets'[q][i] = full /\ heard'[q] = {}
      BY <1>5, <1>6, <2>1
    <3>5. ASSUME NEW t \in 0 .. full.last
          PROVE  MINUTE * Cardinality(HeardOf(q, i, t)') + full.tokens
                   <= RATE_LIMIT_PER_MINUTE * (MINUTE + full.last - t)
      <4>1. t = 0 /\ full.last = 0 /\ t \in Int
        BY <1>3
      <4>2. MINUTE + full.last - t = MINUTE
        BY <4>1, Rates
      <4>3. Cardinality(HeardOf(q, i, t)') = 0
        BY <3>1, <3>2, <4>1
      <4> QED
        BY <1>3, <3>2, <3>3, <4>2, <4>3
    <3> QED
      BY <3>4, <3>5
  <2>2. CASE q # p
    <3>1. \A t \in Int : HeardOf(q, i, t)' = HeardOf(q, i, t)
      BY <1>7, <2>2 DEF HeardOf
    <3>2. receiveBuckets[q][i].last \in Nat
      BY <1>1 DEF RuntimeTypes, Bucket
    <3> QED
      BY <1>7, <2>2, <3>1, <3>2 DEF RuntimeInv, BucketPays
  <2> QED
    BY <2>1, <2>2
<1>10. WindowCounts'
  <2> SUFFICES ASSUME NEW q \in Procs, NEW i \in Peers, NEW x \in Topics, NEW t \in Nat
               PROVE  \/ /\ dedupWindow'[q][i][x] # <<>>
                         /\ t + DEDUP_WINDOW
                              <= dedupWindow'[q][i][x][Len(dedupWindow'[q][i][x])]
                      \/ Cardinality(HeardOn(q, i, x, t)')
                           <= Cardinality(Since(dedupWindow'[q][i][x], t))
    BY DEF WindowCounts
  <2>1. CASE q = p
    <3>1. HeardOn(q, i, x, t)' = {}
      BY <1>6, <2>1 DEF HeardOf, HeardOn
    <3>2. dedupWindow'[q][i][x] = <<>> /\ Cardinality(Since(<<>>, t)) = 0
      BY <1>2, <1>5, <2>1
    <3> QED
      BY <3>1, <3>2, FS_EmptySet
  <2>2. CASE q # p
    <3>1. HeardOn(q, i, x, t)' = HeardOn(q, i, x, t)
      BY <1>7, <2>2 DEF HeardOf, HeardOn
    <3>2. dedupWindow'[q][i][x] = dedupWindow[q][i][x]
      BY <1>7, <2>2
    <3>3. WindowCounts
      BY DEF RuntimeInv
    <3> QED
      BY <3>1, <3>2, <3>3 DEF WindowCounts
  <2> QED
    BY <2>1, <2>2
<1>11. DedupBound'
  BY <1>6, <1>7 DEF RuntimeInv, DedupBound
<1>12. BlockExplained'
  <2> SUFFICES ASSUME NEW q \in Procs, NEW i \in Peers
               PROVE  /\ \A t \in Int : Cardinality(Since(blocklist'[q][i].rejections, t))
                                          <= Cardinality(Since(rejectedAt'[q][i], t))
                      /\ blocklist'[q][i].until # 0 =>
                           Cardinality({j \in DOMAIN rejectedAt'[q][i] :
                              /\ rejectedAt'[q][i][j] <= blocklist'[q][i].until - BLOCK_DURATION
                              /\ blocklist'[q][i].until - BLOCK_DURATION - rejectedAt'[q][i][j]
                                   < BLOCK_WINDOW})
                             >= BLOCK_COUNT
    BY DEF BlockExplained
  <2>1. CASE q = p
    BY <1>2, <1>4, <1>5, <2>1
  <2>2. CASE q # p
    BY <1>7, <2>2 DEF RuntimeInv, BlockExplained
  <2> QED
    BY <2>1, <2>2
<1> QED
  BY <1>1, <1>8, <1>9, <1>10, <1>11, <1>12 DEF RuntimeInv

LEMMA RuntimeSigns ==
  ASSUME RuntimeInv, NEW p \in Procs, now' = now, Peer!MayPublish(p), Peer!SignMessage(p)
  PROVE  RuntimeInv'
<1> DEFINE b == Spent(publishBucket[p], RATE_LIMIT_PER_MINUTE, now)
<1>1. now \in Nat /\ RuntimeTypes
  BY DEF RuntimeInv
<1>2. /\ publishBucket' = [publishBucket EXCEPT ![p] = b]
      /\ UNCHANGED <<enabled, receiveBuckets, dedupWindow, blocklist, heard, rejectedAt>>
      /\ HasToken(publishBucket[p], RATE_LIMIT_PER_MINUTE, now)
  BY SameRateLimits DEF Peer!MayPublish, Peer!SignMessage
<1>3. /\ publishBucket[p] \in Bucket(RATE_LIMIT_PER_MINUTE)
      /\ publishBucket[p].last <= now
  BY <1>1 DEF RuntimeTypes
<1>4. b \in Bucket(RATE_LIMIT_PER_MINUTE) /\ b.last = now
  BY <1>1, <1>2, <1>3, Rates, SpentBucket
<1> HIDE DEF b
<1>5. RuntimeTypes'
  <2>1. /\ publishBucket' \in [Procs -> Bucket(RATE_LIMIT_PER_MINUTE)]
        /\ \A q \in Procs : publishBucket'[q].last <= now
    BY <1>1, <1>2, <1>4 DEF RuntimeTypes
  <2> QED
    BY <1>1, <1>2, <2>1 DEF RuntimeTypes
<1>6. BucketPays' /\ WindowCounts' /\ DedupBound' /\ BlockExplained'
  <2>1. BucketPays'
    BY <1>2 DEF RuntimeInv, BucketPays, HeardOf
  <2>2. WindowCounts'
    BY <1>2 DEF RuntimeInv, WindowCounts, HeardOf, HeardOn
  <2>3. DedupBound'
    BY <1>2 DEF RuntimeInv, DedupBound
  <2>4. BlockExplained'
    BY <1>2 DEF RuntimeInv, BlockExplained
  <2> QED
    BY <2>1, <2>2, <2>3, <2>4
<1> QED
  BY <1>1, <1>5, <1>6 DEF RuntimeInv

\* A bucket refilled pays for what was heard, up to the moment.
LEMMA RefilledPays ==
  ASSUME RuntimeInv, NEW p \in Procs, NEW i \in Peers, NEW t \in 0 .. now
  PROVE  /\ MINUTE * Cardinality(HeardOf(p, i, t))
              + Refilled(receiveBuckets[p][i], RATE_LIMIT_PER_MINUTE, now).tokens
              <= RATE_LIMIT_PER_MINUTE * (MINUTE + now - t)
         /\ IsFiniteSet(HeardOf(p, i, t))
         /\ Cardinality(HeardOf(p, i, t)) \in Nat
<1> DEFINE b == receiveBuckets[p][i]
           k == Refilled(b, RATE_LIMIT_PER_MINUTE, now).tokens
           c == Cardinality(HeardOf(p, i, t))
           R == RATE_LIMIT_PER_MINUTE
<1>1. now \in Nat /\ RuntimeTypes /\ BucketPays
  BY DEF RuntimeInv
<1>2. /\ b \in Bucket(R) /\ b.last <= now /\ b.last \in Nat
  BY <1>1 DEF RuntimeTypes, Bucket
<1>3. k \in Nat /\ k <= R * MINUTE /\ k <= b.tokens + (now - b.last) * R
  BY <1>1, <1>2, Rates, RefilledBucket
<1>4. b.tokens \in Nat
  <2>1. R * MINUTE \in Nat
    BY Rates, Products
  <2> QED
    BY <1>2, <2>1 DEF Bucket
<1>5. IsFiniteSet(HeardOf(p, i, t)) /\ c \in Nat
  BY <1>1, HeardFinite DEF HeardOf
<1>6. R \in Nat /\ MINUTE \in Nat /\ t \in Nat /\ t <= now
  BY <1>1, Rates
<1>7. CASE t <= b.last
  <2>1. MINUTE * c + b.tokens <= R * (MINUTE + b.last - t)
    BY <1>1, <1>2, <1>6, <1>7 DEF BucketPays
  <2> HIDE DEF k, c, b, R
  <2> DEFINE e == MINUTE + b.last - t
             g == now - b.last
  <2>2. e \in Nat /\ g \in Nat /\ MINUTE + now - t = e + g
    BY <1>1, <1>2, <1>6, <1>7
  <2> HIDE DEF e, g
  <2>3. R * (e + g) = R * e + R * g /\ g * R = R * g /\ R * e \in Nat /\ R * g \in Nat
    BY <1>6, <2>2, Products
  <2>4. MINUTE * c + b.tokens <= R * e /\ k <= b.tokens + R * g
    BY <1>3, <2>1, <2>3 DEF e, g
  <2>5. MINUTE * c \in Nat
    BY <1>5, <1>6, Products
  <2>6. MINUTE * c + k <= R * e + R * g
    BY <1>3, <1>4, <2>3, <2>4, <2>5
  <2>7. MINUTE * c + k <= R * (MINUTE + now - t)
    BY <2>2, <2>3, <2>6
  <2> QED
    BY <1>5, <2>7 DEF k, c, b, R
<1>8. CASE t > b.last
  <2>1. \A h \in heard[p] : IdOf[h.msg.key] = i => h.at <= b.last /\ h.at \in Nat
    BY <1>1 DEF BucketPays, RuntimeTypes
  <2>2. HeardOf(p, i, t) = {}
    BY <1>2, <1>6, <1>8, <2>1 DEF HeardOf
  <2>3. c = 0
    BY <2>2, FS_EmptySet
  <2> HIDE DEF k, c, b, R
  <2> DEFINE g == now - t
  <2>4. g \in Nat /\ MINUTE + now - t = MINUTE + g
    BY <1>1, <1>6
  <2> HIDE DEF g
  <2>5. R * (MINUTE + g) = R * MINUTE + R * g /\ R * g \in Nat /\ R * MINUTE \in Nat
    BY <1>6, <2>4, Products
  <2>6. MINUTE * c = 0
    BY <1>6, <2>3
  <2>7. MINUTE * c + k <= R * (MINUTE + now - t)
    BY <1>3, <2>4, <2>5, <2>6
  <2> QED
    BY <1>5, <2>7 DEF k, c, b, R
<1> QED
  BY <1>2, <1>6, <1>7, <1>8

\* A block comes for times that were all recorded, and no other rejection undoes it.
LEMMA BlockStep ==
  ASSUME NEW n \in Nat, NEW b \in Blocks(n), NEW times \in Times(n),
         \A t \in Int : Cardinality(Since(b.rejections, t)) <= Cardinality(Since(times, t)),
         b.until # 0 =>
           Cardinality({l \in DOMAIN times :
                          /\ times[l] <= b.until - BLOCK_DURATION
                          /\ b.until - BLOCK_DURATION - times[l] < BLOCK_WINDOW})
             >= BLOCK_COUNT
  PROVE  LET r == Rejected(b, n)
             more == Append(times, n)
         IN  /\ \A t \in Int :
                  Cardinality(Since(r.rejections, t)) <= Cardinality(Since(more, t))
             /\ r.until # 0 =>
                  Cardinality({l \in DOMAIN more :
                                 /\ more[l] <= r.until - BLOCK_DURATION
                                 /\ r.until - BLOCK_DURATION - more[l] < BLOCK_WINDOW})
                    >= BLOCK_COUNT
<1> DEFINE kept == Recent(b.rejections, BLOCK_WINDOW, n)
           recent == Append(kept, n)
           r == Rejected(b, n)
           more == Append(times, n)
           Within(s, u) == {l \in DOMAIN s : /\ s[l] <= u - BLOCK_DURATION
                                             /\ u - BLOCK_DURATION - s[l] < BLOCK_WINDOW}
<1>1. b.rejections \in Times(n) /\ b.until \in Nat
  BY DEF Blocks
<1>2. /\ kept \in Times(n)
      /\ \A k \in DOMAIN kept : n - kept[k] < BLOCK_WINDOW
      /\ \A t \in Int : Cardinality(Since(kept, t)) <= Cardinality(Since(b.rejections, t))
  BY <1>1, Rates, RecentTimes
<1>3. /\ \/ /\ Len(recent) >= BLOCK_COUNT
            /\ r = [rejections |-> <<>>, until |-> n + BLOCK_DURATION]
         \/ /\ Len(recent) < BLOCK_COUNT
            /\ r = [rejections |-> recent, until |-> b.until]
  BY RejectedBlock
<1>4. /\ recent \in Times(n)
      /\ \A t \in Int : Cardinality(Since(recent, t))
           = IF t <= n THEN Cardinality(Since(kept, t)) + 1 ELSE Cardinality(Since(kept, t))
  BY <1>2, AppendTime
<1>5. /\ more \in Times(n)
      /\ \A t \in Int : Cardinality(Since(more, t))
           = IF t <= n THEN Cardinality(Since(times, t)) + 1 ELSE Cardinality(Since(times, t))
  BY AppendTime
<1>6. \A t \in Int : /\ Cardinality(Since(kept, t)) \in Nat
                     /\ Cardinality(Since(b.rejections, t)) \in Nat
                     /\ Cardinality(Since(times, t)) \in Nat
                     /\ Cardinality(Since(more, t)) \in Nat
  BY <1>1, <1>2, <1>5, SinceFinite
<1>7. \A t \in Int : Cardinality(Since(recent, t)) <= Cardinality(Since(more, t))
  BY <1>2, <1>4, <1>5, <1>6
<1>8. \A t \in Int : Cardinality(Since(<<>>, t)) = 0
  BY NoTimes
<1>9. /\ times \in Seq(Nat) /\ Len(times) \in Nat /\ DOMAIN times = 1..Len(times)
      /\ more \in Seq(Nat) /\ DOMAIN more = 1..(Len(times) + 1)
      /\ \A k \in 1..Len(times) : more[k] = times[k]
      /\ \A k \in DOMAIN more : more[k] \in Nat /\ more[k] <= n
  <2>1. times \in Seq(Nat) /\ more \in Seq(Nat) /\ \A k \in DOMAIN more : more[k] <= n
    BY <1>5 DEF Times
  <2>2. Len(more) = Len(times) + 1 /\ \A k \in 1..Len(times) : more[k] = times[k]
    BY <2>1, AppendProperties
  <2> QED
    BY <2>1, <2>2, LenProperties, ElementOfSeq
<1>10. \A u \in Int : IsFiniteSet(Within(more, u))
  <2> SUFFICES ASSUME NEW u \in Int
               PROVE  IsFiniteSet(Within(more, u))
    OBVIOUS
  <2>1. IsFiniteSet(1..(Len(times) + 1))
    BY <1>9, UpTo
  <2>2. Within(more, u) \in SUBSET (1..(Len(times) + 1))
    BY <1>9
  <2> QED
    BY <2>1, <2>2, FS_Subset
<1> HIDE DEF more, r, recent, kept
<1>11. CASE /\ Len(recent) >= BLOCK_COUNT
            /\ r = [rejections |-> <<>>, until |-> n + BLOCK_DURATION]
  <2>1. r.rejections = <<>> /\ r.until = n + BLOCK_DURATION
    BY <1>11
  <2> DEFINE t == n - BLOCK_WINDOW + 1
  <2>2. t \in Int
    BY Rates
  <2>3. Since(more, t) = Within(more, r.until)
    BY <1>9, <2>1, Rates DEF Since
  <2>4. Since(recent, t) = DOMAIN recent
    <3>1. recent = Append(kept, n) /\ kept \in Seq(Nat) /\ Len(kept) \in Nat
          /\ DOMAIN kept = 1..Len(kept)
      BY <1>2, LenProperties DEF Times, recent
    <3>2. /\ recent \in Seq(Nat) /\ Len(recent) = Len(kept) + 1
          /\ \A k \in 1..Len(kept) : recent[k] = kept[k]
          /\ recent[Len(kept) + 1] = n
      BY <3>1, AppendProperties
    <3>3. DOMAIN recent = 1..(Len(kept) + 1)
      BY <3>2, LenProperties
    <3>4. ASSUME NEW k \in 1..(Len(kept) + 1)
          PROVE  recent[k] >= t
      <4>1. CASE k = Len(kept) + 1
        BY <3>2, <4>1, Rates
      <4>2. CASE k # Len(kept) + 1
        <5>1. k \in 1..Len(kept)
          BY <3>1, <4>2
        <5>2. recent[k] = kept[k] /\ kept[k] \in Nat /\ n - kept[k] < BLOCK_WINDOW
          BY <1>2, <3>1, <3>2, <5>1, ElementOfSeq
        <5> QED
          BY <5>2, Rates
      <4> QED
        BY <4>1, <4>2
    <3> QED
      BY <3>3, <3>4 DEF Since
  <2>5. Cardinality(Since(recent, t)) = Len(recent)
    <3>1. Len(recent) \in Nat /\ DOMAIN recent = 1..Len(recent)
      BY <1>4, LenProperties DEF Times
    <3> QED
      BY <2>4, <3>1, UpTo
  <2>6. Cardinality(Within(more, r.until)) >= BLOCK_COUNT
    <3>1. Len(recent) <= Cardinality(Within(more, r.until))
      BY <1>7, <2>2, <2>3, <2>5
    <3>2. Len(recent) \in Nat /\ Cardinality(Within(more, r.until)) \in Nat
      BY <1>4, <1>6, <2>2, <2>3, LenProperties DEF Times
    <3> QED
      BY <1>11, <3>1, <3>2, Rates
  <2>7. \A u \in Int : Cardinality(Since(r.rejections, u)) <= Cardinality(Since(more, u))
    BY <1>6, <1>8, <2>1
  <2> QED
    BY <2>6, <2>7 DEF r, more
<1>12. CASE /\ Len(recent) < BLOCK_COUNT
            /\ r = [rejections |-> recent, until |-> b.until]
  <2>1. r.rejections = recent /\ r.until = b.until
    BY <1>12
  <2>2. ASSUME r.until # 0
        PROVE  Cardinality(Within(more, r.until)) >= BLOCK_COUNT
    <3>1. Cardinality(Within(times, b.until)) >= BLOCK_COUNT
      BY <2>1, <2>2
    <3>2. Within(times, b.until) \in SUBSET Within(more, b.until)
      BY <1>9
    <3>3. IsFiniteSet(Within(more, b.until))
      BY <1>1, <1>10
    <3>4. /\ Cardinality(Within(times, b.until)) <= Cardinality(Within(more, b.until))
          /\ IsFiniteSet(Within(times, b.until))
      BY <3>2, <3>3, FS_Subset
    <3>5. /\ Cardinality(Within(times, b.until)) \in Nat
          /\ Cardinality(Within(more, b.until)) \in Nat
      BY <3>3, <3>4, FS_CardinalityType
    <3> HIDE DEF Within
    <3> QED
      BY <2>1, <3>1, <3>4, <3>5, Rates
  <2> QED
    BY <1>7, <2>1, <2>2 DEF r, more
<1> QED
  BY <1>3, <1>11, <1>12

\* admitOnRuntime rejects a message for its rate.
LEMMA RuntimeRejects ==
  ASSUME RuntimeInv, NEW p \in Procs, NEW m \in Peer!Message, now' = now,
         Peer!RejectForRate(p, m)
  PROVE  RuntimeInv'
<1> DEFINE i == IdOf[m.key]
           b == Refilled(receiveBuckets[p][i], RATE_LIMIT_PER_MINUTE, now)
           r == Rejected(blocklist[p][i], now)
           times == Append(rejectedAt[p][i], now)
<1>1. now \in Nat /\ RuntimeTypes /\ i \in Peers
  BY MessageFields DEF RuntimeInv
<1>2. /\ receiveBuckets' = [receiveBuckets EXCEPT ![p][i] = b]
      /\ blocklist' = [blocklist EXCEPT ![p][i] = r]
      /\ rejectedAt' = [rejectedAt EXCEPT ![p][i] = times]
      /\ UNCHANGED <<enabled, publishBucket, dedupWindow, heard>>
  BY SameRateLimits DEF Peer!RejectForRate
<1>3. /\ receiveBuckets[p][i] \in Bucket(RATE_LIMIT_PER_MINUTE)
      /\ receiveBuckets[p][i].last <= now
      /\ blocklist[p][i] \in Blocks(now)
      /\ rejectedAt[p][i] \in Times(now)
  BY <1>1 DEF RuntimeTypes
<1>4. /\ b \in Bucket(RATE_LIMIT_PER_MINUTE) /\ b.last = now /\ b.tokens \in Nat
      /\ b.tokens <= RATE_LIMIT_PER_MINUTE * MINUTE
      /\ b.tokens <= receiveBuckets[p][i].tokens
                       + (now - receiveBuckets[p][i].last) * RATE_LIMIT_PER_MINUTE
  BY <1>1, <1>3, Rates, RefilledBucket
<1>5. /\ r \in Blocks(now)
      /\ Len(r.rejections) < BLOCK_COUNT
  BY <1>1, <1>3, RejectedBlock
<1>6. times \in Times(now)
  BY <1>1, <1>3, AppendTime
<1> HIDE DEF b, r, times
<1>7. \A q \in Procs, j \in Peers :
        IF q = p /\ j = i
        THEN receiveBuckets'[q][j] = b /\ blocklist'[q][j] = r /\ rejectedAt'[q][j] = times
        ELSE /\ receiveBuckets'[q][j] = receiveBuckets[q][j]
             /\ blocklist'[q][j] = blocklist[q][j]
             /\ rejectedAt'[q][j] = rejectedAt[q][j]
  BY <1>1, <1>2 DEF RuntimeTypes
<1> HIDE DEF i
<1>8. RuntimeTypes'
  <2>1. receiveBuckets' \in [Procs -> [Peers -> Bucket(RATE_LIMIT_PER_MINUTE)]]
    BY <1>1, <1>2, <1>4 DEF RuntimeTypes
  <2>2. blocklist' \in [Procs -> [Peers -> Blocks(now)]]
    BY <1>1, <1>2, <1>5 DEF RuntimeTypes
  <2>3. rejectedAt' \in [Procs -> [Peers -> Times(now)]]
    BY <1>1, <1>2, <1>6 DEF RuntimeTypes
  <2>4. ASSUME NEW q \in Procs, NEW j \in Peers
        PROVE  receiveBuckets'[q][j].last <= now
    <3>1. receiveBuckets[q][j].last <= now /\ b.last <= now
      BY <1>1, <1>4 DEF RuntimeTypes
    <3>2. receiveBuckets'[q][j] = b \/ receiveBuckets'[q][j] = receiveBuckets[q][j]
      BY <1>7
    <3> QED
      BY <3>1, <3>2
  <2>5. \A q \in Procs, j \in Peers : Len(blocklist'[q][j].rejections) < BLOCK_COUNT
    BY <1>1, <1>5, <1>7 DEF RuntimeTypes
  <2> QED
    BY <1>1, <1>2, <2>1, <2>2, <2>3, <2>4, <2>5 DEF RuntimeTypes
<1>9. WindowCounts' /\ DedupBound'
  <2>1. WindowCounts'
    BY <1>2 DEF RuntimeInv, WindowCounts, HeardOf, HeardOn
  <2>2. DedupBound'
    BY <1>2 DEF RuntimeInv, DedupBound
  <2> QED
    BY <2>1, <2>2

<1>10. BucketPays'
  <2> SUFFICES ASSUME NEW q \in Procs, NEW j \in Peers
               PROVE  /\ \A h \in heard'[q] : IdOf[h.msg.key] = j =>
                           h.at <= receiveBuckets'[q][j].last
                      /\ \A t \in 0 .. receiveBuckets'[q][j].last :
                           MINUTE * Cardinality(HeardOf(q, j, t)') + receiveBuckets'[q][j].tokens
                             <= RATE_LIMIT_PER_MINUTE
                                  * (MINUTE + receiveBuckets'[q][j].last - t)
    BY DEF BucketPays
  <2>1. \A t \in Int : HeardOf(q, j, t)' = HeardOf(q, j, t)
    BY <1>2 DEF HeardOf
  <2>2. CASE q = p /\ j = i
    <3>1. receiveBuckets'[q][j] = b
      BY <1>7, <2>2
    <3>2. \A h \in heard'[q] : h.at <= now
      BY <1>1, <1>2 DEF RuntimeTypes
    <3>3. ASSUME NEW t \in 0 .. now
          PROVE  MINUTE * Cardinality(HeardOf(q, j, t)) + b.tokens
                   <= RATE_LIMIT_PER_MINUTE * (MINUTE + now - t)
      BY <2>2, RefilledPays DEF b
    <3>4. \A t \in 0 .. now : t \in Int
      BY <1>1
    <3> QED
      BY <1>4, <2>1, <3>1, <3>2, <3>3, <3>4
  <2>3. CASE ~(q = p /\ j = i)
    <3>1. receiveBuckets'[q][j] = receiveBuckets[q][j] /\ heard' = heard
      BY <1>2, <1>7, <2>3
    <3>2. BucketPays /\ receiveBuckets[q][j].last \in Nat
      BY <1>1 DEF RuntimeInv, RuntimeTypes, Bucket
    <3> QED
      BY <2>1, <3>1, <3>2 DEF BucketPays
  <2> QED
    BY <2>2, <2>3
<1>11. BlockExplained'
  <2> SUFFICES ASSUME NEW q \in Procs, NEW j \in Peers
               PROVE  /\ \A t \in Int : Cardinality(Since(blocklist'[q][j].rejections, t))
                                          <= Cardinality(Since(rejectedAt'[q][j], t))
                      /\ blocklist'[q][j].until # 0 =>
                           Cardinality({l \in DOMAIN rejectedAt'[q][j] :
                              /\ rejectedAt'[q][j][l] <= blocklist'[q][j].until - BLOCK_DURATION
                              /\ blocklist'[q][j].until - BLOCK_DURATION - rejectedAt'[q][j][l]
                                   < BLOCK_WINDOW})
                             >= BLOCK_COUNT
    BY DEF BlockExplained
  <2>1. CASE q = p /\ j = i
    <3>1. blocklist'[q][j] = r /\ rejectedAt'[q][j] = times
      BY <1>7, <2>1
    <3>2. /\ \A t \in Int : Cardinality(Since(r.rejections, t)) <= Cardinality(Since(times, t))
          /\ r.until # 0 =>
               Cardinality({l \in DOMAIN times :
                              /\ times[l] <= r.until - BLOCK_DURATION
                              /\ r.until - BLOCK_DURATION - times[l] < BLOCK_WINDOW})
                 >= BLOCK_COUNT
      BY <1>1, <1>3, BlockStep DEF r, times, RuntimeInv, BlockExplained
    <3> QED
      BY <3>1, <3>2
  <2>2. CASE ~(q = p /\ j = i)
    <3>1. blocklist'[q][j] = blocklist[q][j] /\ rejectedAt'[q][j] = rejectedAt[q][j]
      BY <1>7, <2>2
    <3>2. BlockExplained
      BY DEF RuntimeInv
    <3> QED
      BY <3>1, <3>2 DEF BlockExplained
  <2> QED
    BY <2>1, <2>2
<1> QED
  BY <1>1, <1>8, <1>9, <1>10, <1>11 DEF RuntimeInv

\* admitOnRuntime spends a token, and passes the message on unless it is a duplicate.
LEMMA RuntimeHears ==
  ASSUME RuntimeInv, NEW p \in Procs, NEW m \in Peer!Message, now' = now,
         Peer!HasToken(receiveBuckets[p][IdOf[m.key]], RATE_LIMIT_PER_MINUTE, now),
         Peer!HearUnlessDuplicate(p, m)
  PROVE  RuntimeInv'
<1> DEFINE i == IdOf[m.key]
           x == m.topic
           old == Refilled(receiveBuckets[p][i], RATE_LIMIT_PER_MINUTE, now)
           b == Spent(receiveBuckets[p][i], RATE_LIMIT_PER_MINUTE, now)
           seen == dedupWindow[p][i][x]
           kept == Recent(seen, DEDUP_WINDOW, now)
           w == Append(kept, now)
           new == [msg |-> m, at |-> now, nth |-> Cardinality(heard[p]) + 1]
<1>1. now \in Nat /\ RuntimeTypes /\ i \in Peers /\ x \in Topics
  BY MessageFields DEF RuntimeInv
<1>2. /\ receiveBuckets' = [receiveBuckets EXCEPT ![p][i] = b]
      /\ dedupWindow' = [dedupWindow EXCEPT ![p][i][x] = w]
      /\ heard' = [heard EXCEPT ![p] = IF Len(w) > DEDUP_MAX THEN heard[p]
                                       ELSE heard[p] \cup {new}]
      /\ UNCHANGED <<enabled, publishBucket, blocklist, rejectedAt>>
  BY SameRateLimits DEF Peer!HearUnlessDuplicate, Window, IsDuplicate, Peer!Cardinality,
                        Cardinality
<1>3. /\ receiveBuckets[p][i] \in Bucket(RATE_LIMIT_PER_MINUTE)
      /\ receiveBuckets[p][i].last <= now
      /\ HasToken(receiveBuckets[p][i], RATE_LIMIT_PER_MINUTE, now)
      /\ seen \in Times(now)
      /\ \A h \in heard[p] : h.at \in Nat /\ h.at <= now
      /\ new \in [msg : Peer!Message, at : 0 .. now, nth : Nat]
      /\ new.msg = m /\ new.at = now
  BY <1>1, SameRateLimits, HeardFinite DEF RuntimeTypes
<1>4. /\ b \in Bucket(RATE_LIMIT_PER_MINUTE) /\ b.last = now
      /\ b.tokens = old.tokens - MINUTE /\ old.tokens \in Nat
  BY <1>1, <1>3, Rates, SpentBucket, RefilledBucket
<1>5. /\ kept \in Times(now)
      /\ \A t \in Int : t + DEDUP_WINDOW > now =>
           Cardinality(Since(kept, t)) = Cardinality(Since(seen, t))
  BY <1>1, <1>3, Rates, RecentTimes
<1>6. /\ w \in Times(now) /\ w # <<>> /\ w[Len(w)] = now
      /\ \A t \in Int : Cardinality(Since(w, t))
           = IF t <= now THEN Cardinality(Since(kept, t)) + 1 ELSE Cardinality(Since(kept, t))
  BY <1>1, <1>5, AppendTime
<1> HIDE DEF b, old, kept, w, new
<1>7. \A q \in Procs, j \in Peers :
        receiveBuckets'[q][j] = IF q = p /\ j = i THEN b ELSE receiveBuckets[q][j]
  BY <1>1, <1>2 DEF RuntimeTypes
<1>8. \A q \in Procs, j \in Peers, y \in Topics :
        dedupWindow'[q][j][y] = IF q = p /\ j = i /\ y = x THEN w ELSE dedupWindow[q][j][y]
  BY <1>1, <1>2 DEF RuntimeTypes
<1>9. /\ \A q \in Procs : q # p => heard'[q] = heard[q]
      /\ \/ heard'[p] = heard[p]
         \/ Len(w) <= DEDUP_MAX /\ heard'[p] = heard[p] \cup {new}
  <2>1. Len(w) \in Nat
    BY <1>6, LenProperties DEF Times
  <2> QED
    BY <1>1, <1>2, <2>1, Rates DEF RuntimeTypes
<1>10. \A h \in heard'[p] : h \in heard[p] \/ h = new
  BY <1>9
<1> DEFINE OfPeer == IdOf[new.msg.key] = i /\ new.msg.topic = x
<1>11. OfPeer
  BY <1>3
<1> HIDE DEF i, x, seen, OfPeer
<1>12. RuntimeTypes'
  <2>1. receiveBuckets' \in [Procs -> [Peers -> Bucket(RATE_LIMIT_PER_MINUTE)]]
    BY <1>1, <1>2, <1>4 DEF RuntimeTypes
  <2>2. dedupWindow' \in [Procs -> [Peers -> [Topics -> Times(now)]]]
    <3>1. dedupWindow \in [Procs -> [Peers -> [Topics -> Times(now)]]]
      BY <1>1 DEF RuntimeTypes
    <3> QED
      BY <1>1, <1>2, <1>6, <3>1
  <2>3. heard' \in [Procs -> SUBSET [msg : Peer!Message, at : 0 .. now, nth : Nat]]
    BY <1>1, <1>2, <1>3 DEF RuntimeTypes
  <2>4. ASSUME NEW q \in Procs, NEW j \in Peers
        PROVE  receiveBuckets'[q][j].last <= now
    <3>1. receiveBuckets[q][j].last <= now /\ b.last <= now
      BY <1>1, <1>4 DEF RuntimeTypes
    <3> QED
      BY <1>7, <3>1
  <2>5. ASSUME NEW q \in Procs
        PROVE  IsFiniteSet(heard'[q])
    <3>1. heard'[q] \in SUBSET (heard[q] \cup {new}) /\ IsFiniteSet(heard[q])
      BY <1>1, <1>9 DEF RuntimeTypes
    <3> QED
      BY <3>1, OneMore
  <2> QED
    BY <1>1, <1>2, <2>1, <2>2, <2>3, <2>4, <2>5 DEF RuntimeTypes
\* What is heard of the peer and on the topic grows by one message at most.
<1>13. ASSUME NEW j \in Peers, NEW t \in Int
       PROVE  HeardOf(p, j, t)' \subseteq
                IF j = i THEN HeardOf(p, j, t) \cup {new} ELSE HeardOf(p, j, t)
  BY <1>10, <1>11 DEF HeardOf, OfPeer
<1>14. BucketPays'
  <2> SUFFICES ASSUME NEW q \in Procs, NEW j \in Peers
               PROVE  /\ \A h \in heard'[q] : IdOf[h.msg.key] = j =>
                           h.at <= receiveBuckets'[q][j].last
                      /\ \A t \in 0 .. receiveBuckets'[q][j].last :
                           MINUTE * Cardinality(HeardOf(q, j, t)') + receiveBuckets'[q][j].tokens
                             <= RATE_LIMIT_PER_MINUTE
                                  * (MINUTE + receiveBuckets'[q][j].last - t)
    BY DEF BucketPays
  <2>1. CASE q = p /\ j = i
    <3>1. receiveBuckets'[q][j] = b
      BY <1>7, <2>1
    <3>2. \A h \in heard'[q] : h.at <= now
      BY <1>1, <1>3, <1>10, <2>1
    <3>3. ASSUME NEW t \in 0 .. now
          PROVE  MINUTE * Cardinality(HeardOf(q, j, t)') + b.tokens
                   <= RATE_LIMIT_PER_MINUTE * (MINUTE + now - t)
      <4> DEFINE c == Cardinality(HeardOf(p, i, t))
                 c1 == Cardinality(HeardOf(p, i, t)')
                 most == RATE_LIMIT_PER_MINUTE * (MINUTE + now - t)
      <4>1. /\ MINUTE * c + old.tokens <= most
            /\ IsFiniteSet(HeardOf(p, i, t)) /\ c \in Nat
        BY <1>1, RefilledPays DEF old
      <4>2. HeardOf(p, i, t)' \in SUBSET (HeardOf(p, i, t) \cup {new})
        BY <1>1, <1>13
      <4>6. c1 \in Nat /\ c1 <= c + 1
        BY <4>1, <4>2, OneMore
      <4>7. MINUTE * c1 <= MINUTE * (c + 1) /\ MINUTE * (c + 1) = MINUTE * c + MINUTE * 1
        BY <4>1, <4>6, Rates, ProductMonotone, Products
      <4>8. most \in Nat /\ MINUTE * c \in Nat /\ MINUTE * c1 \in Nat
        BY <1>1, <4>1, <4>6, Rates, Products
      <4> HIDE DEF c, c1, most
      <4>9. MINUTE * c1 + b.tokens <= most
        BY <1>4, <4>1, <4>7, <4>8, Rates
      <4> QED
        BY <2>1, <4>9 DEF c1, most
    <3> QED
      BY <1>4, <3>1, <3>2, <3>3
  <2>2. CASE ~(q = p /\ j = i)
    <3>1. receiveBuckets'[q][j] = receiveBuckets[q][j]
      BY <1>7, <2>2
    <3>2. BucketPays /\ receiveBuckets[q][j].last \in Nat
      BY <1>1 DEF RuntimeInv, RuntimeTypes, Bucket
    <3>3. \A h \in heard'[q] : IdOf[h.msg.key] = j => h \in heard[q]
      BY <1>9, <1>11, <2>2 DEF OfPeer
    <3>4. heard[q] \subseteq heard'[q]
      BY <1>9
    <3>5. \A t \in Int : HeardOf(q, j, t)' = HeardOf(q, j, t)
      BY <3>3, <3>4 DEF HeardOf
    <3> QED
      BY <3>1, <3>2, <3>3, <3>5 DEF BucketPays
  <2> QED
    BY <2>1, <2>2

<1>15. ASSUME NEW t \in Nat, t + DEDUP_WINDOW > now
       PROVE  Cardinality(HeardOn(p, i, x, t)') <= Cardinality(Since(w, t))
  <2>1. IsFiniteSet(HeardOn(p, i, x, t)) /\ Cardinality(HeardOn(p, i, x, t)) \in Nat
    <3>1. HeardOn(p, i, x, t) \in SUBSET heard[p]
      BY DEF HeardOn, HeardOf
    <3> QED
      BY <1>1, <3>1, HeardFinite
  <2>2. Cardinality(Since(seen, t)) \in Nat /\ Cardinality(Since(w, t)) \in Nat
    <3>1. now \in Nat /\ t \in Int /\ seen \in Times(now) /\ w \in Times(now)
      BY <1>1, <1>3, <1>6 DEF seen
    <3> QED
      BY <3>1, SinceFinite
  <2>3. Cardinality(HeardOn(p, i, x, t)) <= Cardinality(Since(seen, t))
    <3>1. \/ seen # <<>> /\ t + DEDUP_WINDOW <= seen[Len(seen)]
          \/ Cardinality(HeardOn(p, i, x, t)) <= Cardinality(Since(seen, t))
      BY <1>1 DEF RuntimeInv, WindowCounts, seen
    <3>2. ASSUME seen # <<>>
          PROVE  seen[Len(seen)] \in Nat /\ seen[Len(seen)] <= now
      <4>1. Len(seen) \in DOMAIN seen /\ seen \in Seq(Nat)
        BY <1>3, <3>2, LenProperties, EmptySeq DEF Times
      <4> QED
        BY <1>3, <4>1, ElementOfSeq, LenProperties DEF Times
    <3> QED
      BY <1>1, <1>15, <3>1, <3>2, Rates
  <2>4. CASE t <= now
    <3>1. HeardOn(p, i, x, t)' \in SUBSET (HeardOn(p, i, x, t) \cup {new})
      BY <1>10 DEF HeardOn, HeardOf
    <3>2. /\ Cardinality(HeardOn(p, i, x, t)') \in Nat
          /\ Cardinality(HeardOn(p, i, x, t)') <= Cardinality(HeardOn(p, i, x, t)) + 1
      BY <2>1, <3>1, OneMore
    <3>5. Cardinality(Since(w, t)) = Cardinality(Since(seen, t)) + 1
      BY <1>5, <1>6, <1>15, <2>4
    <3> QED
      BY <2>1, <2>2, <2>3, <3>2, <3>5
  <2>5. CASE t > now
    <3>1. \A h \in heard'[p] : h.at \in Nat /\ h.at <= now
      BY <1>1, <1>3, <1>10
    <3>2. HeardOn(p, i, x, t)' = {}
      BY <1>1, <2>5, <3>1 DEF HeardOn, HeardOf
    <3> QED
      BY <2>2, <3>2, FS_EmptySet
  <2> QED
    BY <1>1, <2>4, <2>5
<1>16. WindowCounts'
  <2> SUFFICES ASSUME NEW q \in Procs, NEW j \in Peers, NEW y \in Topics, NEW t \in Nat
               PROVE  \/ /\ dedupWindow'[q][j][y] # <<>>
                         /\ t + DEDUP_WINDOW
                              <= dedupWindow'[q][j][y][Len(dedupWindow'[q][j][y])]
                      \/ Cardinality(HeardOn(q, j, y, t)')
                           <= Cardinality(Since(dedupWindow'[q][j][y], t))
    BY DEF WindowCounts
  <2>1. CASE q = p /\ j = i /\ y = x
    <3>1. dedupWindow'[q][j][y] = w
      BY <1>8, <2>1
    <3>2. CASE t + DEDUP_WINDOW <= now
      BY <1>6, <3>1, <3>2
    <3>3. CASE t + DEDUP_WINDOW > now
      BY <1>15, <2>1, <3>1, <3>3
    <3> QED
      BY <1>1, <3>2, <3>3, Rates
  <2>2. CASE ~(q = p /\ j = i /\ y = x)
    <3>1. dedupWindow'[q][j][y] = dedupWindow[q][j][y]
      BY <1>8, <2>2
    <3>2. \A h \in heard'[q] : IdOf[h.msg.key] = j /\ h.msg.topic = y => h \in heard[q]
      BY <1>9, <1>11, <2>2 DEF OfPeer
    <3>3. heard[q] \subseteq heard'[q]
      BY <1>9
    <3>4. HeardOn(q, j, y, t)' = HeardOn(q, j, y, t)
      BY <3>2, <3>3 DEF HeardOn, HeardOf
    <3>5. WindowCounts
      BY DEF RuntimeInv
    <3> QED
      BY <3>1, <3>4, <3>5 DEF WindowCounts
  <2> QED
    BY <2>1, <2>2
<1>17. DedupBound'
  <2> SUFFICES ASSUME NEW q \in Procs, NEW h \in heard'[q]
               PROVE  Cardinality({g \in heard'[q] :
                                     /\ IdOf[g.msg.key] = IdOf[h.msg.key]
                                     /\ g.msg.topic = h.msg.topic
                                     /\ g.at >= h.at /\ g.at - h.at < DEDUP_WINDOW})
                        <= DEDUP_MAX
    BY DEF DedupBound
  <2> DEFINE Near(S) == {g \in S : /\ IdOf[g.msg.key] = IdOf[h.msg.key]
                                   /\ g.msg.topic = h.msg.topic
                                   /\ g.at >= h.at /\ g.at - h.at < DEDUP_WINDOW}
  <2>1. CASE heard'[q] = heard[q]
    BY <2>1 DEF RuntimeInv, DedupBound
  <2>2. CASE heard'[q] # heard[q]
    <3>1. q = p /\ Len(w) <= DEDUP_MAX /\ heard'[p] = heard[p] \cup {new}
      BY <1>9, <2>2
    <3>2. CASE IdOf[h.msg.key] = i /\ h.msg.topic = x /\ h.at + DEDUP_WINDOW > now
      <4>1. h.at \in Nat
        BY <1>1, <1>3, <1>10, <3>1
      <4>2. Near(heard'[p]) \in SUBSET HeardOn(p, i, x, h.at)'
        BY <3>2 DEF HeardOn, HeardOf
      <4>3. IsFiniteSet(heard'[p])
        BY <1>12 DEF RuntimeTypes
      <4>4. HeardOn(p, i, x, h.at)' \in SUBSET (heard'[p])
        BY DEF HeardOn, HeardOf
      <4>5. IsFiniteSet(HeardOn(p, i, x, h.at)')
        BY <4>3, <4>4, FS_Subset
      <4>6. /\ Cardinality(Near(heard'[p])) <= Cardinality(HeardOn(p, i, x, h.at)')
            /\ IsFiniteSet(Near(heard'[p]))
        BY <4>2, <4>5, FS_Subset
      <4>7. /\ Cardinality(Near(heard'[p])) \in Nat
            /\ Cardinality(HeardOn(p, i, x, h.at)') \in Nat
        BY <4>5, <4>6, FS_CardinalityType
      <4>8. Cardinality(HeardOn(p, i, x, h.at)') <= Cardinality(Since(w, h.at))
        BY <1>15, <3>2, <4>1
      <4>9. Cardinality(Since(w, h.at)) \in Nat /\ Cardinality(Since(w, h.at)) <= Len(w)
        BY <1>1, <1>6, <4>1, SinceFinite
      <4>10. Len(w) \in Nat
        BY <1>6, LenProperties DEF Times
      <4> HIDE DEF Near
      <4>11. Cardinality(Near(heard'[p])) <= DEDUP_MAX
        BY <3>1, <4>6, <4>7, <4>8, <4>9, <4>10, Rates
      <4> QED
        BY <3>1, <4>11 DEF Near
    <3>3. CASE ~(IdOf[h.msg.key] = i /\ h.msg.topic = x /\ h.at + DEDUP_WINDOW > now)
      <4>1. h # new
        BY <1>1, <1>3, <1>11, <3>3, Rates DEF OfPeer
      <4>2. h \in heard[p] /\ h.at \in Nat
        BY <1>3, <3>1, <4>1
      <4>3. new \notin Near(heard'[p])
        BY <1>1, <1>3, <1>11, <3>3, <4>2, Rates DEF OfPeer
      <4>4. Near(heard'[p]) = Near(heard[p])
        BY <3>1, <4>3
      <4>5. Cardinality(Near(heard[p])) <= DEDUP_MAX
        BY <4>2 DEF RuntimeInv, DedupBound
      <4> QED
        BY <3>1, <4>4, <4>5
    <3> QED
      BY <3>2, <3>3
  <2> QED
    BY <2>1, <2>2
<1>18. BlockExplained'
  BY <1>2 DEF RuntimeInv, BlockExplained
<1> QED
  BY <1>1, <1>12, <1>14, <1>16, <1>17, <1>18 DEF RuntimeInv

LEMMA RuntimeAdmits ==
  ASSUME RuntimeInv, NEW p \in Procs, NEW m \in Peer!Message, now' = now, Peer!Admit(p, m)
  PROVE  RuntimeInv'
<1>1. CASE UNCHANGED Peer!peerVars
  BY <1>1, RuntimeIdle DEF Peer!peerVars, peerVars
<1>2. CASE /\ Peer!HasToken(receiveBuckets[p][IdOf[m.key]], RATE_LIMIT_PER_MINUTE, now)
           /\ Peer!HearUnlessDuplicate(p, m)
  BY <1>2, RuntimeHears
<1>3. CASE Peer!RejectForRate(p, m)
  BY <1>3, RuntimeRejects
<1> QED
  BY <1>1, <1>2, <1>3 DEF Peer!Admit

-----------------------------------------------------------------------------
(* Messages on their way *)

LEMMA NrsEmpty ==
  /\ NrsOf(<<>>) = {} /\ Ascending(<<>>) /\ Distinct(<<>>)
  /\ <<>> \in Seq(Peer!Message) /\ Len(<<>>) = 0
<1>1. DOMAIN <<>> = {} /\ <<>> \in Seq(Peer!Message) /\ Len(<<>>) = 0
  BY EmptySeq, LenProperties
<1> QED
  BY <1>1 DEF NrsOf, Ascending, Distinct

LEMMA Elements ==
  ASSUME NEW s \in Seq(Peer!Message)
  PROVE  /\ Len(s) \in Nat /\ DOMAIN s = 1..Len(s)
         /\ \A k \in DOMAIN s : s[k] \in Peer!Message /\ s[k].nr \in Nat
         /\ Ascending(s) => Distinct(s)
<1>1. Len(s) \in Nat /\ DOMAIN s = 1..Len(s)
  BY LenProperties
<1>2. \A k \in DOMAIN s : s[k] \in Peer!Message /\ s[k].nr \in Nat
  BY <1>1, ElementOfSeq, MessageFields
<1>3. ASSUME Ascending(s), NEW j \in DOMAIN s, NEW k \in DOMAIN s, s[j].nr = s[k].nr
      PROVE  j = k
  <2>1. ~(j < k) /\ ~(k < j)
    BY <1>2, <1>3 DEF Ascending
  <2> QED
    BY <1>1, <2>1
<1> QED
  BY <1>1, <1>2, <1>3 DEF Distinct

LEMMA NrsAppend ==
  ASSUME NEW s \in Seq(Peer!Message), NEW m \in Peer!Message
  PROVE  /\ Append(s, m) \in Seq(Peer!Message)
         /\ Len(Append(s, m)) = Len(s) + 1
         /\ NrsOf(Append(s, m)) = NrsOf(s) \cup {m.nr}
         /\ Ascending(s) /\ (\A k \in NrsOf(s) : k < m.nr) => Ascending(Append(s, m))
         /\ Distinct(s) /\ m.nr \notin NrsOf(s) => Distinct(Append(s, m))
<1> DEFINE a == Append(s, m)
           l == Len(s)
<1>1. /\ a \in Seq(Peer!Message) /\ Len(a) = l + 1
      /\ \A k \in 1..l : a[k] = s[k]
      /\ a[l + 1] = m
  BY AppendProperties
<1>2. /\ l \in Nat /\ DOMAIN s = 1..l /\ DOMAIN a = 1..(l + 1)
  BY <1>1, LenProperties
<1> HIDE DEF a, l
<1>3. \A k \in 1..(l + 1) : k = l + 1 \/ k \in 1..l
  BY <1>2
<1>4. 1..l \subseteq 1..(l + 1) /\ l + 1 \in 1..(l + 1) /\ l + 1 \notin 1..l
  BY <1>2
<1>5. NrsOf(a) = NrsOf(s) \cup {m.nr}
  BY <1>1, <1>2, <1>3, <1>4 DEF NrsOf
<1>6. \A k \in 1..l : s[k].nr \in NrsOf(s)
  BY <1>2 DEF NrsOf
<1>7. Ascending(s) /\ (\A k \in NrsOf(s) : k < m.nr) => Ascending(a)
  <2> SUFFICES ASSUME Ascending(s), \A k \in NrsOf(s) : k < m.nr,
                      NEW j \in 1..(l + 1), NEW k \in 1..(l + 1), j < k
               PROVE  a[j].nr < a[k].nr
    BY <1>2 DEF Ascending
  <2>1. j \in 1..l
    BY <1>2
  <2>2. CASE k = l + 1
    BY <1>1, <1>6, <2>1, <2>2
  <2>3. CASE k \in 1..l
    BY <1>1, <1>2, <2>1, <2>3 DEF Ascending
  <2> QED
    BY <1>3, <2>2, <2>3
<1>8. Distinct(s) /\ m.nr \notin NrsOf(s) => Distinct(a)
  BY <1>1, <1>2, <1>3, <1>6 DEF Distinct
<1> QED
  BY <1>1, <1>5, <1>7, <1>8 DEF a, l

LEMMA NrsTail ==
  ASSUME NEW s \in Seq(Peer!Message), s # <<>>
  PROVE  /\ Head(s) \in Peer!Message
         /\ Tail(s) \in Seq(Peer!Message)
         /\ Len(Tail(s)) = Len(s) - 1
         /\ Head(s).nr \in NrsOf(s)
         /\ Head(s) = s[1] /\ 1 \in DOMAIN s
         /\ NrsOf(Tail(s)) \subseteq NrsOf(s)
         /\ \A k \in DOMAIN Tail(s) : k + 1 \in DOMAIN s /\ Tail(s)[k] = s[k + 1]
         /\ Ascending(s) => Ascending(Tail(s))
         /\ Distinct(s) => Distinct(Tail(s)) /\ Head(s).nr \notin NrsOf(Tail(s))
<1> DEFINE a == Tail(s)
           l == Len(s)
<1>1. /\ Head(s) \in Peer!Message
      /\ a \in Seq(Peer!Message) /\ Len(a) = l - 1
      /\ \A k \in 1..Len(a) : a[k] = s[k + 1]
  BY HeadTailProperties
<1>2. l \in Nat /\ l # 0 /\ DOMAIN s = 1..l
  BY LenProperties, EmptySeq
<1>3. DOMAIN a = 1..(l - 1) /\ Head(s) = s[1]
  BY <1>1, <1>2, LenProperties
<1> HIDE DEF a, l
<1>4. 1 \in 1..l /\ \A k \in 1..(l - 1) : k + 1 \in 1..l /\ k + 1 # 1 /\ k \in Nat
  BY <1>2
<1>5. \A k \in DOMAIN a : k + 1 \in DOMAIN s /\ a[k] = s[k + 1]
  BY <1>1, <1>2, <1>3, <1>4
<1>6. NrsOf(a) \subseteq NrsOf(s) /\ Head(s).nr \in NrsOf(s)
  BY <1>2, <1>3, <1>4, <1>5 DEF NrsOf
<1>7. ASSUME Ascending(s) PROVE Ascending(a)
  <2> SUFFICES ASSUME NEW j \in DOMAIN a, NEW k \in DOMAIN a, j < k
               PROVE  a[j].nr < a[k].nr
    BY DEF Ascending
  <2>1. j + 1 < k + 1
    BY <1>3
  <2> QED
    BY <1>5, <1>7, <2>1 DEF Ascending
<1>8. ASSUME Distinct(s) PROVE Distinct(a) /\ Head(s).nr \notin NrsOf(a)
  <2>1. \A j, k \in DOMAIN a : j + 1 = k + 1 => j = k
    BY <1>3
  <2>2. Distinct(a)
    BY <1>5, <1>8, <2>1 DEF Distinct
  <2>3. Head(s).nr \notin NrsOf(a)
    BY <1>2, <1>3, <1>4, <1>5, <1>8 DEF Distinct, NrsOf
  <2> QED
    BY <2>2, <2>3
<1> QED
  BY <1>1, <1>2, <1>3, <1>4, <1>5, <1>6, <1>7, <1>8 DEF a, l

\* Part of the queue put behind what is on its way.
LEMMA NrsDrain ==
  ASSUME NEW s \in Seq(Peer!Message), NEW q \in Seq(Peer!Message), NEW n \in 0 .. Len(q)
  PROVE  LET a == s \o SubSeq(q, 1, n)
         IN  /\ a \in Seq(Peer!Message)
             /\ NrsOf(a) \subseteq NrsOf(s) \cup NrsOf(q)
             /\ Ascending(s) /\ Ascending(q) /\ (\A j \in NrsOf(s), k \in NrsOf(q) : j < k)
                  => Ascending(a)
<1> DEFINE b == SubSeq(q, 1, n)
           a == s \o b
           l == Len(s)
<1>1. /\ Len(q) \in Nat /\ DOMAIN q = 1..Len(q) /\ l \in Nat /\ DOMAIN s = 1..l
      /\ \A k \in 1..Len(q) : q[k] \in Peer!Message
  BY LenProperties, ElementOfSeq
<1>2. n \in Nat /\ n <= Len(q)
  BY <1>1
<1>3. /\ b \in Seq(Peer!Message) /\ Len(b) = n
      /\ \A k \in 1..n : b[k] = q[k] /\ k \in DOMAIN q
  <2>1. \A k \in 1..n : q[k] \in Peer!Message
    BY <1>1, <1>2
  <2>2. /\ b \in Seq(Peer!Message)
        /\ Len(b) = IF 1 <= n THEN n - 1 + 1 ELSE 0
        /\ \A k \in 1 .. n - 1 + 1 : b[k] = q[1 + k - 1]
    BY <1>2, <2>1, SubSeqProperties
  <2> HIDE DEF b
  <2>3. \A k \in 1..n : k \in 1 .. n - 1 + 1 /\ 1 + k - 1 = k /\ k \in 1..Len(q)
    BY <1>1, <1>2
  <2>4. Len(b) = n
    BY <1>2, <2>2
  <2> QED
    BY <1>1, <2>2, <2>3, <2>4
<1> HIDE DEF b
<1>4. /\ a \in Seq(Peer!Message) /\ Len(a) = l + n
      /\ \A k \in 1..(l + n) : a[k] = IF k <= l THEN s[k] ELSE b[k - l]
  BY <1>3, ConcatProperties
<1>5. DOMAIN a = 1..(l + n)
  BY <1>4, LenProperties
<1> HIDE DEF a, l
<1>6. ASSUME NEW k \in 1..(l + n)
      PROVE  \/ k \in DOMAIN s /\ a[k] = s[k]
             \/ k > l /\ k - l \in DOMAIN q /\ a[k] = q[k - l]
  <2>1. CASE k <= l
    BY <1>1, <1>4, <2>1
  <2>2. CASE k > l
    <3>1. k - l \in 1..n
      BY <1>1, <1>2, <2>2
    <3> QED
      BY <1>1, <1>3, <1>4, <2>2, <3>1
  <2> QED
    BY <1>1, <2>1, <2>2
<1>7. NrsOf(a) \subseteq NrsOf(s) \cup NrsOf(q)
  BY <1>5, <1>6 DEF NrsOf
<1>8. ASSUME Ascending(s), Ascending(q), \A j \in NrsOf(s), k \in NrsOf(q) : j < k
      PROVE  Ascending(a)
  <2> SUFFICES ASSUME NEW j \in 1..(l + n), NEW k \in 1..(l + n), j < k
               PROVE  a[j].nr < a[k].nr
    BY <1>5 DEF Ascending
  <2>1. CASE k \in DOMAIN s /\ a[k] = s[k]
    <3>1. j \in DOMAIN s /\ a[j] = s[j]
      BY <1>1, <1>6, <2>1
    <3> QED
      BY <1>8, <2>1, <3>1 DEF Ascending
  <2>2. CASE k > l /\ k - l \in DOMAIN q /\ a[k] = q[k - l]
    <3>1. CASE j \in DOMAIN s /\ a[j] = s[j]
      BY <1>8, <2>2, <3>1 DEF NrsOf
    <3>2. CASE j > l /\ j - l \in DOMAIN q /\ a[j] = q[j - l]
      <4>1. j - l < k - l
        BY <1>1
      <4> QED
        BY <1>8, <2>2, <3>2, <4>1 DEF Ascending
    <3> QED
      BY <1>6, <3>1, <3>2
  <2> QED
    BY <1>6, <2>1, <2>2
<1> QED
  BY <1>4, <1>7, <1>8 DEF a, b

-----------------------------------------------------------------------------
(* The transports and the connections *)

TransportInv ==
  /\ published \in Nat
  /\ TransportTypes
  /\ SocketOrTimer
  /\ AtRest
  /\ OncePerMessage

LEMMA SameConns ==
  /\ Ws!Conns = Conns /\ \A p : Ws!ConnOf(p) = ConnOf(p)
  /\ Conns = Procs \X Numbers /\ Numbers \subseteq Nat /\ 0 \in Numbers
BY GossipMeshAssumption DEF Ws!Conns, Conns, Ws!ConnOf, ConnOf, Numbers

LEMMA ConnType ==
  ASSUME TransportTypes, NEW p \in Procs
  PROVE  conn[p] \in Numbers /\ ConnOf(p) \in Conns /\ ConnOf(p) = <<p, conn[p]>>
BY SameConns DEF TransportTypes, ConnOf

LEMMA Delays ==
  /\ RECONNECT_INITIAL \in RECONNECT_INITIAL .. RECONNECT_MAX
  /\ \A d \in RECONNECT_INITIAL .. RECONNECT_MAX :
       Ws!Doubled(d) \in RECONNECT_INITIAL .. RECONNECT_MAX
BY GossipMeshAssumption DEF Ws!Doubled

\* The relay puts in where a message came from.
LEMMA MarkedMessage ==
  ASSUME NEW m \in Peer!Message, NEW c \in Conns
  PROVE  LET marked == [m EXCEPT !.via = c]
         IN  /\ marked \in Peer!Message /\ marked.via = c
             /\ marked.nr = m.nr /\ marked.key = m.key
BY SameConns DEF Peer!Message

\* What only takes messages off their way, or gives a process a connection with
\* nothing on it, keeps each message in one place.
LEMMA OnceShrinks ==
  ASSUME TransportTypes, OncePerMessage,
         published' = published,
         \A c \in Conns : Ascending(up'[c]) /\ NrsOf(up'[c]) \subseteq NrsOf(up[c]),
         \A p \in Procs : Ascending(queue'[p]) /\ NrsOf(queue'[p]) \subseteq NrsOf(queue[p]),
         \A c \in Conns : Distinct(down'[c]) /\ NrsOf(down'[c]) \subseteq NrsOf(down[c]),
         \A p \in Procs : heard'[p] \subseteq heard[p],
         \A p \in Procs : \/ conn'[p] = conn[p]
                          \/ /\ NrsOf(up'[<<p, conn'[p]>>]) = {}
                             /\ NrsOf(down'[<<p, conn'[p]>>]) = {}
  PROVE  OncePerMessage'
<1>1. \A p \in Procs : HeardNrs(p)' \subseteq HeardNrs(p)
  BY DEF HeardNrs
<1>2. \A p \in Procs : \/ ConnOf(p)' = ConnOf(p) /\ ConnOf(p) \in Conns
                       \/ NrsOf(up[ConnOf(p)])' = {} /\ NrsOf(down[ConnOf(p)])' = {}
  BY ConnType DEF ConnOf
<1>3. \A p \in Procs : \A j \in NrsOf(up[ConnOf(p)])', k \in NrsOf(queue[p])' : j < k
  BY <1>2 DEF OncePerMessage
<1>4. \A p \in Procs : HeardNrs(p)' \cap NrsOf(down[ConnOf(p)])' = {}
  <2> SUFFICES ASSUME NEW p \in Procs
               PROVE  HeardNrs(p)' \cap NrsOf(down[ConnOf(p)])' = {}
    OBVIOUS
  <2>1. CASE NrsOf(down[ConnOf(p)])' = {}
    BY <2>1
  <2>2. CASE ConnOf(p)' = ConnOf(p) /\ ConnOf(p) \in Conns
    <3>1. NrsOf(down[ConnOf(p)])' \subseteq NrsOf(down[ConnOf(p)])
      BY <2>2
    <3> QED
      BY <1>1, <3>1 DEF OncePerMessage
  <2> QED
    BY <1>2, <2>1, <2>2
<1>5. \A p \in Procs : \A g, h \in heard'[p] : g.msg.nr = h.msg.nr => g = h
  BY DEF OncePerMessage
<1>6. /\ \A c \in Conns : NrsOf(up'[c]) \subseteq 0 .. published' - 1
      /\ \A p \in Procs : NrsOf(queue'[p]) \subseteq 0 .. published' - 1
      /\ \A c \in Conns : NrsOf(down'[c]) \subseteq 0 .. published' - 1
      /\ \A p \in Procs : HeardNrs(p)' \subseteq 0 .. published' - 1
  BY <1>1 DEF OncePerMessage
<1>7. /\ \A c, d \in Conns : c # d => NrsOf(up'[c]) \cap NrsOf(up'[d]) = {}
      /\ \A p, q \in Procs : p # q => NrsOf(queue'[p]) \cap NrsOf(queue'[q]) = {}
      /\ \A c \in Conns, p \in Procs : NrsOf(up'[c]) \cap NrsOf(queue'[p]) = {}
  BY DEF OncePerMessage
<1>8. /\ \A c, d \in Conns : NrsOf(down'[c]) \cap NrsOf(up'[d]) = {}
      /\ \A c \in Conns, p \in Procs : NrsOf(down'[c]) \cap NrsOf(queue'[p]) = {}
  BY DEF OncePerMessage
<1>9. /\ \A p \in Procs, c \in Conns : HeardNrs(p)' \cap NrsOf(up'[c]) = {}
      /\ \A p, q \in Procs : HeardNrs(p)' \cap NrsOf(queue'[q]) = {}
  BY <1>1 DEF OncePerMessage
<1> QED
  BY <1>3, <1>4, <1>5, <1>6, <1>7, <1>8, <1>9 DEF OncePerMessage

LEMMA TransportIdle ==
  ASSUME TransportInv, UNCHANGED <<wsVars, down, published>>,
         \A p \in Procs : heard'[p] \subseteq heard[p]
  PROVE  TransportInv'
<1>1. /\ ws' = ws /\ conn' = conn /\ queue' = queue /\ retryDelay' = retryDelay
      /\ timers' = timers /\ closed' = closed /\ up' = up /\ down' = down
      /\ published' = published
  BY DEF wsVars
<1>2. TransportTypes' /\ SocketOrTimer' /\ AtRest'
  BY <1>1 DEF TransportInv, TransportTypes, SocketOrTimer, AtRest
<1>3. OncePerMessage'
  BY <1>1, OnceShrinks DEF TransportInv, OncePerMessage
<1> QED
  BY <1>1, <1>2, <1>3 DEF TransportInv

\* connect dials a connection that nothing is on.
LEMMA DialKeeps ==
  ASSUME TransportInv, NEW p \in Procs, Ws!Dial(p),
         ws[p] = "none",
         closed' = [closed EXCEPT ![p] = FALSE],
         timers' \in [Procs -> Nat], timers'[p] = 0,
         \A q \in Procs : q # p => timers'[q] = timers[q],
         retryDelay' \in [Procs -> RECONNECT_INITIAL .. RECONNECT_MAX],
         UNCHANGED <<queue, down, published>>,
         \A q \in Procs : heard'[q] \subseteq heard[q]
  PROVE  TransportInv'
<1>1. /\ TransportTypes /\ SocketOrTimer /\ AtRest /\ OncePerMessage /\ published \in Nat
  BY DEF TransportInv
<1> DEFINE n == conn[p] + 1
<1>2. /\ ws' = [ws EXCEPT ![p] = "connecting"]
      /\ conn' = [conn EXCEPT ![p] = n]
      /\ up' = up
      /\ n \in Numbers /\ n > conn[p] /\ <<p, n>> \in Conns
  <2>1. conn[p] \in Nat /\ n > conn[p]
    <3>1. conn[p] \in Numbers /\ Numbers \subseteq Nat
      BY <1>1, ConnType, SameConns
    <3>2. conn[p] \in Nat
      BY <3>1
    <3> QED
      BY <3>2
  <2>2. n \in Numbers
    BY DEF Ws!Dial
  <2> QED
    BY <2>1, <2>2, SameConns DEF Ws!Dial
<1> HIDE DEF n
<1>3. TransportTypes'
  BY <1>1, <1>2, NrsEmpty DEF TransportTypes
<1>4. SocketOrTimer'
  BY <1>1, <1>2 DEF SocketOrTimer, TransportTypes
<1>5. AtRest'
  <2>1. \A q \in Procs : closed'[q] => ws'[q] = "none" /\ queue'[q] = <<>>
    BY <1>1, <1>2 DEF AtRest, TransportTypes
  <2>2. \A q \in Procs : ws'[q] = "open" => queue'[q] = <<>>
    BY <1>1, <1>2 DEF AtRest, TransportTypes
  <2>3. \A q \in Procs, k \in Numbers :
          k # conn'[q] \/ ws'[q] \in {"none", "closing"} => down'[<<q, k>>] = <<>>
    BY <1>1, <1>2 DEF AtRest, TransportTypes
  <2>4. ASSUME NEW q \in Procs, NEW k \in Numbers, k > conn'[q]
        PROVE  up'[<<q, k>>] = <<>>
    <3>1. /\ conn[q] \in Nat /\ conn[p] \in Nat /\ n \in Nat /\ k \in Nat
          /\ conn'[q] = IF q = p THEN n ELSE conn[q]
      BY <1>1, <1>2, ConnType, SameConns DEF TransportTypes
    <3>2. k > conn[q]
      BY <1>2, <2>4, <3>1
    <3> QED
      BY <1>1, <1>2, <3>2 DEF AtRest
  <2> QED
    BY <2>1, <2>2, <2>3, <2>4 DEF AtRest
<1>6. OncePerMessage'
  <2>2. \A c \in Conns : Ascending(up'[c]) /\ NrsOf(up'[c]) \subseteq NrsOf(up[c])
    BY <1>1, <1>2 DEF OncePerMessage
  <2>3. up'[<<p, n>>] = <<>> /\ down'[<<p, n>>] = <<>> /\ conn'[p] = n
    BY <1>1, <1>2 DEF AtRest, TransportTypes
  <2>4. \A q \in Procs : \/ conn'[q] = conn[q]
                         \/ /\ NrsOf(up'[<<q, conn'[q]>>]) = {}
                            /\ NrsOf(down'[<<q, conn'[q]>>]) = {}
    BY <1>1, <1>2, <2>3, NrsEmpty DEF TransportTypes
  <2>5. \A q \in Procs : Ascending(queue'[q]) /\ NrsOf(queue'[q]) \subseteq NrsOf(queue[q])
    BY <1>1 DEF OncePerMessage
  <2>6. \A c \in Conns : Distinct(down'[c]) /\ NrsOf(down'[c]) \subseteq NrsOf(down[c])
    BY <1>1 DEF OncePerMessage
  <2> QED
    BY <1>1, <2>2, <2>4, <2>5, <2>6, OnceShrinks
<1> QED
  BY <1>1, <1>3, <1>4, <1>5, <1>6 DEF TransportInv

\* Only the socket's state, the timers and the queue change, and frames on their way
\* down are lost.
LEMMA SocketKeeps ==
  ASSUME TransportInv, NEW p \in Procs,
         conn' = conn, up' = up, published' = published,
         ws' \in [Procs -> {"none", "connecting", "open", "closing"}],
         \A q \in Procs : q # p => ws'[q] = ws[q] /\ closed'[q] = closed[q]
                                   /\ timers'[q] = timers[q],
         closed' \in [Procs -> BOOLEAN],
         timers' \in [Procs -> Nat],
         ~closed'[p] => timers'[p] = IF ws'[p] = "none" THEN 1 ELSE 0,
         retryDelay' \in [Procs -> RECONNECT_INITIAL .. RECONNECT_MAX],
         \/ queue' = queue
         \/ queue' = [queue EXCEPT ![p] = <<>>],
         \/ down' = down /\ (ws'[p] \in {"none", "closing"} => ws[p] \in {"none", "closing"})
         \/ down' = [down EXCEPT ![ConnOf(p)] = <<>>],
         closed'[p] => ws'[p] = "none" /\ queue'[p] = <<>>,
         ws'[p] # "open",
         \A q \in Procs : heard'[q] \subseteq heard[q]
  PROVE  TransportInv'
<1>1. /\ TransportTypes /\ SocketOrTimer /\ AtRest /\ OncePerMessage /\ published \in Nat
  BY DEF TransportInv
<1>2. \A q \in Procs : queue'[q] = queue[q] \/ queue'[q] = <<>>
  BY <1>1 DEF TransportTypes
<1>3. /\ \A c \in Conns : down'[c] = down[c] \/ down'[c] = <<>>
      /\ ConnOf(p) \in Conns /\ ConnOf(p) = <<p, conn[p]>>
  BY <1>1, ConnType DEF TransportTypes
<1>4. TransportTypes'
  <2>1. queue' \in [Procs -> Seq(Peer!Message)] /\ down' \in [Conns -> Seq(Peer!Message)]
    BY <1>1, NrsEmpty DEF TransportTypes
  <2>2. \A q \in Procs : Len(queue'[q]) <= QUEUE_MAX
    BY <1>1, <1>2, NrsEmpty, GossipMeshAssumption DEF TransportTypes
  <2> QED
    BY <1>1, <2>1, <2>2 DEF TransportTypes
<1>5. SocketOrTimer'
  BY <1>1 DEF SocketOrTimer
<1>6. AtRest'
  <2>1. \A q \in Procs : closed'[q] => ws'[q] = "none" /\ queue'[q] = <<>>
    BY <1>1, <1>2 DEF AtRest
  <2>2. \A q \in Procs : ws'[q] = "open" => queue'[q] = <<>>
    BY <1>1, <1>2 DEF AtRest
  <2>3. ASSUME NEW q \in Procs, NEW k \in Numbers,
               k # conn'[q] \/ ws'[q] \in {"none", "closing"}
        PROVE  down'[<<q, k>>] = <<>>
    <3>1. <<q, k>> \in Conns
      BY SameConns
    <3>2. CASE q # p \/ k # conn[q]
      BY <1>1, <1>3, <2>3, <3>1, <3>2 DEF AtRest
    <3>3. CASE q = p /\ k = conn[p]
      <4>1. CASE down' = [down EXCEPT ![ConnOf(p)] = <<>>]
        BY <1>1, <1>3, <3>1, <3>3, <4>1 DEF TransportTypes
      <4>2. CASE down' = down /\ (ws'[p] \in {"none", "closing"} => ws[p] \in {"none", "closing"})
        BY <1>1, <2>3, <3>3, <4>2 DEF AtRest
      <4> QED
        BY <4>1, <4>2
    <3> QED
      BY <3>2, <3>3
  <2>4. \A q \in Procs, n \in Numbers : n > conn'[q] => up'[<<q, n>>] = <<>>
    BY <1>1 DEF AtRest
  <2> QED
    BY <2>1, <2>2, <2>3, <2>4 DEF AtRest
<1>7. OncePerMessage'
  <2>1. \A c \in Conns : Ascending(up'[c]) /\ NrsOf(up'[c]) \subseteq NrsOf(up[c])
    BY <1>1 DEF OncePerMessage
  <2>2. \A q \in Procs : Ascending(queue'[q]) /\ NrsOf(queue'[q]) \subseteq NrsOf(queue[q])
    BY <1>1, <1>2, NrsEmpty DEF OncePerMessage
  <2>3. \A c \in Conns : Distinct(down'[c]) /\ NrsOf(down'[c]) \subseteq NrsOf(down[c])
    BY <1>1, <1>3, NrsEmpty DEF OncePerMessage
  <2> QED
    BY <1>1, <2>1, <2>2, <2>3, OnceShrinks
<1> QED
  BY <1>1, <1>4, <1>5, <1>6, <1>7 DEF TransportInv

\* What a transport's part says of one of them.
LEMMA TransportAt ==
  ASSUME TransportInv, NEW p \in Procs
  PROVE  /\ ws[p] \in {"none", "connecting", "open", "closing"}
         /\ closed[p] \in BOOLEAN
         /\ closed[p] => ws[p] = "none" /\ queue[p] = <<>>
         /\ timers[p] \in Nat
         /\ ~closed[p] => timers[p] = IF ws[p] = "none" THEN 1 ELSE 0
         /\ ~closed[p] /\ timers[p] > 0 => ws[p] = "none" /\ timers[p] = 1
         /\ retryDelay[p] \in RECONNECT_INITIAL .. RECONNECT_MAX
BY DEF TransportInv, TransportTypes, SocketOrTimer, AtRest

LEMMA StartKeepsTransport ==
  ASSUME TransportInv, RuntimeTypes, NEW p \in Procs, Start(p)
  PROVE  TransportInv'
<1>1. /\ heard' = [heard EXCEPT ![p] = {}]
      /\ UNCHANGED <<down, published>>
      /\ closed[p]
  BY DEF Start, Peer!Enable, Peer!FreshRuntime, Ws!Create, Ws!CreateWithoutSocket
<1>2. \A q \in Procs : heard'[q] \subseteq heard[q]
  BY <1>1 DEF RuntimeTypes
<1>3. ws[p] = "none" /\ TransportTypes
  BY <1>1, TransportAt DEF TransportInv
<1>4. CASE Ws!Create(p)
  <2>1. /\ Ws!Dial(p)
        /\ closed' = [closed EXCEPT ![p] = FALSE]
        /\ timers' = [timers EXCEPT ![p] = 0]
        /\ retryDelay' = [retryDelay EXCEPT ![p] = RECONNECT_INITIAL]
        /\ UNCHANGED queue
    BY <1>4 DEF Ws!Create
  <2>2. /\ timers' \in [Procs -> Nat] /\ timers'[p] = 0
        /\ \A q \in Procs : q # p => timers'[q] = timers[q]
        /\ retryDelay' \in [Procs -> RECONNECT_INITIAL .. RECONNECT_MAX]
    BY <1>3, <2>1, Delays DEF TransportTypes
  <2> QED
    BY <1>1, <1>2, <1>3, <2>1, <2>2, DialKeeps
<1>5. CASE Ws!CreateWithoutSocket(p)
  <2>1. /\ closed' = [closed EXCEPT ![p] = FALSE]
        /\ timers' = [timers EXCEPT ![p] = 1]
        /\ retryDelay' = [retryDelay EXCEPT ![p] = Ws!Doubled(RECONNECT_INITIAL)]
        /\ ws' = ws /\ conn' = conn /\ queue' = queue /\ up' = up
    BY <1>5 DEF Ws!CreateWithoutSocket
  <2>2. retryDelay' \in [Procs -> RECONNECT_INITIAL .. RECONNECT_MAX]
    BY <1>3, <2>1, Delays DEF TransportTypes
  <2>3. /\ timers' \in [Procs -> Nat] /\ closed' \in [Procs -> BOOLEAN]
        /\ timers'[p] = 1 /\ closed'[p] = FALSE /\ ws'[p] = "none"
        /\ \A q \in Procs : q # p => timers'[q] = timers[q] /\ closed'[q] = closed[q]
        /\ ws' \in [Procs -> {"none", "connecting", "open", "closing"}]
    BY <1>3, <2>1 DEF TransportTypes
  <2> QED
    BY <1>1, <1>2, <1>3, <2>1, <2>2, <2>3, SocketKeeps
<1> QED
  BY <1>4, <1>5 DEF Start

LEMMA StopKeepsTransport ==
  ASSUME TransportInv, RuntimeTypes, NEW p \in Procs, Stop(p)
  PROVE  TransportInv'
<1>1. /\ heard' = [heard EXCEPT ![p] = {}]
      /\ closed' = [closed EXCEPT ![p] = TRUE]
      /\ queue' = [queue EXCEPT ![p] = <<>>]
      /\ ws' = [ws EXCEPT ![p] = "none"]
      /\ down' = [down EXCEPT ![ConnOf(p)] = <<>>]
      /\ UNCHANGED <<conn, retryDelay, timers, up, published>>
  BY DEF Stop, Peer!Disable, Ws!Shutdown
<1>2. \A q \in Procs : heard'[q] \subseteq heard[q]
  BY <1>1 DEF RuntimeTypes
<1>3. TransportTypes
  BY DEF TransportInv
<1>4. /\ ws' \in [Procs -> {"none", "connecting", "open", "closing"}]
      /\ closed' \in [Procs -> BOOLEAN] /\ timers' \in [Procs -> Nat]
      /\ retryDelay' \in [Procs -> RECONNECT_INITIAL .. RECONNECT_MAX]
      /\ closed'[p] = TRUE /\ ws'[p] = "none" /\ queue'[p] = <<>>
      /\ \A q \in Procs : q # p => ws'[q] = ws[q] /\ closed'[q] = closed[q]
                                   /\ timers'[q] = timers[q]
  BY <1>1, <1>3 DEF TransportTypes
<1> QED
  BY <1>1, <1>2, <1>4, SocketKeeps

LEMMA FailsKeepsTransport ==
  ASSUME TransportInv, NEW p \in Procs, SocketFails(p)
  PROVE  TransportInv'
<1>1. /\ ws[p] \in {"connecting", "open"}
      /\ ws' = [ws EXCEPT ![p] = "closing"]
      /\ down' = [down EXCEPT ![ConnOf(p)] = <<>>]
      /\ UNCHANGED <<conn, queue, retryDelay, timers, closed, up, published, heard>>
  BY DEF SocketFails, Ws!Fails, peerVars
<1>2. TransportTypes
  BY DEF TransportInv
<1>3. ~closed[p] /\ timers[p] = 0
  BY <1>1, TransportAt
<1>4. /\ ws' \in [Procs -> {"none", "connecting", "open", "closing"}]
      /\ closed' \in [Procs -> BOOLEAN] /\ timers' \in [Procs -> Nat]
      /\ retryDelay' \in [Procs -> RECONNECT_INITIAL .. RECONNECT_MAX]
      /\ closed'[p] = FALSE /\ ws'[p] = "closing" /\ timers'[p] = 0
      /\ \A q \in Procs : q # p => ws'[q] = ws[q] /\ closed'[q] = closed[q]
                                   /\ timers'[q] = timers[q]
  BY <1>1, <1>2, <1>3 DEF TransportTypes
<1> QED
  BY <1>1, <1>4, SocketKeeps

LEMMA ClosedKeepsTransport ==
  ASSUME TransportInv, NEW p \in Procs, SocketClosed(p)
  PROVE  TransportInv'
<1>1. /\ ws[p] = "closing"
      /\ ws' = [ws EXCEPT ![p] = "none"]
      /\ Ws!ScheduleReconnect(p, timers[p])
      /\ UNCHANGED <<conn, queue, closed, up, published, heard, down>>
  BY DEF SocketClosed, Ws!Closed, peerVars
<1>2. TransportTypes
  BY DEF TransportInv
<1>3. ~closed[p] /\ timers[p] = 0 /\ retryDelay[p] \in RECONNECT_INITIAL .. RECONNECT_MAX
  BY <1>1, TransportAt
<1>4. /\ timers' = [timers EXCEPT ![p] = 1]
      /\ retryDelay' = [retryDelay EXCEPT ![p] = Ws!Doubled(retryDelay[p])]
  BY <1>1, <1>3 DEF Ws!ScheduleReconnect
<1>5. retryDelay' \in [Procs -> RECONNECT_INITIAL .. RECONNECT_MAX]
  BY <1>2, <1>3, <1>4, Delays DEF TransportTypes
<1>6. /\ ws' \in [Procs -> {"none", "connecting", "open", "closing"}]
      /\ closed' \in [Procs -> BOOLEAN] /\ timers' \in [Procs -> Nat]
      /\ closed'[p] = FALSE /\ ws'[p] = "none" /\ timers'[p] = 1
      /\ \A q \in Procs : q # p => ws'[q] = ws[q] /\ closed'[q] = closed[q]
                                   /\ timers'[q] = timers[q]
  BY <1>1, <1>2, <1>3, <1>4 DEF TransportTypes
<1> QED
  BY <1>1, <1>5, <1>6, SocketKeeps

LEMMA TimerKeepsTransport ==
  ASSUME TransportInv, NEW p \in Procs, TimerFires(p)
  PROVE  TransportInv'
<1>1. UNCHANGED <<published, heard, down>> /\ TransportTypes
  BY DEF TimerFires, peerVars, TransportInv
<1>2. /\ timers[p] \in Nat /\ closed[p] \in BOOLEAN
      /\ ~closed[p] /\ timers[p] > 0 => ws[p] = "none" /\ timers[p] = 1
      /\ closed[p] => ws[p] = "none" /\ queue[p] = <<>>
      /\ retryDelay[p] \in RECONNECT_INITIAL .. RECONNECT_MAX
  BY TransportAt
<1>3. CASE Ws!Reconnect(p)
  <2>1. /\ Ws!Dial(p)
        /\ ~closed[p] /\ timers[p] > 0
        /\ timers' = [timers EXCEPT ![p] = timers[p] - 1]
        /\ UNCHANGED <<queue, retryDelay, closed>>
    BY <1>3 DEF Ws!Reconnect
  <2>2. ws[p] = "none" /\ timers[p] - 1 = 0
    BY <1>2, <2>1
  <2>3. /\ timers' \in [Procs -> Nat] /\ timers'[p] = 0
        /\ \A q \in Procs : q # p => timers'[q] = timers[q]
        /\ retryDelay' \in [Procs -> RECONNECT_INITIAL .. RECONNECT_MAX]
        /\ closed' = [closed EXCEPT ![p] = FALSE]
    BY <1>1, <2>1, <2>2 DEF TransportTypes
  <2> QED
    BY <1>1, <2>1, <2>2, <2>3, DialKeeps
<1>4. CASE Ws!DialFails(p)
  <2>1. /\ ~closed[p] /\ timers[p] > 0
        /\ Ws!ScheduleReconnect(p, timers[p] - 1)
        /\ UNCHANGED <<ws, conn, queue, closed, up>>
    BY <1>4 DEF Ws!DialFails
  <2>2. ws[p] = "none" /\ timers[p] - 1 = 0
    BY <1>2, <2>1
  <2>3. /\ timers' = [timers EXCEPT ![p] = 1]
        /\ retryDelay' = [retryDelay EXCEPT ![p] = Ws!Doubled(retryDelay[p])]
    BY <2>1, <2>2 DEF Ws!ScheduleReconnect
  <2>4. retryDelay' \in [Procs -> RECONNECT_INITIAL .. RECONNECT_MAX]
    BY <1>1, <1>2, <2>3, Delays DEF TransportTypes
  <2>5. /\ ws' \in [Procs -> {"none", "connecting", "open", "closing"}]
        /\ closed' \in [Procs -> BOOLEAN] /\ timers' \in [Procs -> Nat]
        /\ closed'[p] = FALSE /\ ws'[p] = "none" /\ timers'[p] = 1
        /\ \A q \in Procs : q # p => ws'[q] = ws[q] /\ closed'[q] = closed[q]
                                     /\ timers'[q] = timers[q]
    BY <1>1, <2>1, <2>2, <2>3 DEF TransportTypes
  <2> QED
    BY <1>1, <2>1, <2>2, <2>4, <2>5, SocketKeeps
<1>5. CASE Ws!IdleTimer(p)
  <2>1. /\ closed[p] /\ timers[p] > 0
        /\ timers' = [timers EXCEPT ![p] = timers[p] - 1]
        /\ UNCHANGED <<ws, conn, queue, retryDelay, closed, up>>
    BY <1>5 DEF Ws!IdleTimer
  <2>2. timers[p] - 1 \in Nat /\ ws[p] = "none" /\ queue[p] = <<>>
    BY <1>2, <2>1
  <2>3. /\ ws' \in [Procs -> {"none", "connecting", "open", "closing"}]
        /\ closed' \in [Procs -> BOOLEAN] /\ timers' \in [Procs -> Nat]
        /\ closed'[p] /\ ws'[p] = "none" /\ queue'[p] = <<>>
        /\ retryDelay' \in [Procs -> RECONNECT_INITIAL .. RECONNECT_MAX]
        /\ \A q \in Procs : q # p => ws'[q] = ws[q] /\ closed'[q] = closed[q]
                                     /\ timers'[q] = timers[q]
    BY <1>1, <2>1, <2>2 DEF TransportTypes
  <2> QED
    BY <1>1, <2>1, <2>2, <2>3, SocketKeeps
<1> QED
  BY <1>3, <1>4, <1>5 DEF TimerFires

\* The numbers given so far, before and after one more.
LEMMA Published ==
  ASSUME TransportInv
  PROVE  /\ \A k \in 0 .. published - 1 : k \in Nat /\ k < published
         /\ published \notin 0 .. published - 1
         /\ published \in 0 .. (published + 1) - 1
         /\ 0 .. published - 1 \subseteq 0 .. (published + 1) - 1
BY DEF TransportInv

LEMMA OpensKeepsTransport ==
  ASSUME TransportInv, NEW p \in Procs, SocketOpens(p)
  PROVE  TransportInv'
<1> DEFINE c == ConnOf(p)
<1>1. /\ TransportTypes /\ SocketOrTimer /\ AtRest /\ OncePerMessage /\ published \in Nat
  BY DEF TransportInv
<1>2. /\ c \in Conns /\ c = <<p, conn[p]>> /\ queue[p] \in Seq(Peer!Message)
      /\ up[c] \in Seq(Peer!Message) /\ Len(queue[p]) \in Nat
  BY <1>1, ConnType, LenProperties DEF TransportTypes
<1>3. PICK k \in 0 .. Len(queue[p]) :
        /\ Ws!Opened(p, k)
        /\ \/ k = Len(queue[p]) /\ down' = down
           \/ k # Len(queue[p]) /\ down' = [down EXCEPT ![c] = <<>>]
  BY <1>2 DEF SocketOpens
<1>4. /\ ws[p] = "connecting"
      /\ ws' = [ws EXCEPT ![p] = IF k = Len(queue[p]) THEN "open" ELSE "closing"]
      /\ retryDelay' = [retryDelay EXCEPT ![p] = RECONNECT_INITIAL]
      /\ up' = [up EXCEPT ![c] = up[c] \o SubSeq(queue[p], 1, k)]
      /\ queue' = [queue EXCEPT ![p] = <<>>]
      /\ UNCHANGED <<conn, timers, closed, published, heard>>
  BY <1>3, SameConns DEF Ws!Opened, SocketOpens, peerVars
<1> DEFINE a == up[c] \o SubSeq(queue[p], 1, k)
<1>5. /\ a \in Seq(Peer!Message)
      /\ NrsOf(a) \subseteq NrsOf(up[c]) \cup NrsOf(queue[p])
      /\ Ascending(a)
  <2>1. /\ Ascending(up[c]) /\ Ascending(queue[p])
        /\ \A j \in NrsOf(up[c]), l \in NrsOf(queue[p]) : j < l
    BY <1>1, <1>2 DEF OncePerMessage
  <2> QED
    BY <1>2, <2>1, NrsDrain
<1> HIDE DEF a
<1>6. up' = [up EXCEPT ![c] = a]
  BY <1>4 DEF a
<1>7. /\ up'[c] = a /\ \A d \in Conns : d # c => up'[d] = up[d]
      /\ queue'[p] = <<>> /\ \A q \in Procs : q # p => queue'[q] = queue[q]
      /\ \A d \in Conns : down'[d] = down[d] \/ down'[d] = <<>>
  BY <1>1, <1>2, <1>3, <1>4, <1>6 DEF TransportTypes
<1> HIDE DEF c
<1>8. TransportTypes'
  <2>1. /\ ws' \in [Procs -> {"none", "connecting", "open", "closing"}]
        /\ retryDelay' \in [Procs -> RECONNECT_INITIAL .. RECONNECT_MAX]
    BY <1>1, <1>4, Delays DEF TransportTypes
  <2>2. /\ queue' \in [Procs -> Seq(Peer!Message)]
        /\ \A q \in Procs : Len(queue'[q]) <= QUEUE_MAX
    BY <1>1, <1>4, NrsEmpty, GossipMeshAssumption DEF TransportTypes
  <2>3. up' \in [Conns -> Seq(Peer!Message)]
    BY <1>1, <1>5, <1>6 DEF TransportTypes
  <2>4. down' \in [Conns -> Seq(Peer!Message)]
    BY <1>1, <1>3, NrsEmpty DEF TransportTypes
  <2> QED
    BY <1>1, <1>4, <2>1, <2>2, <2>3, <2>4 DEF TransportTypes
<1>9. SocketOrTimer'
  BY <1>1, <1>4 DEF SocketOrTimer, TransportTypes
<1>10. AtRest'
  <2>1. \A q \in Procs : closed'[q] => ws'[q] = "none" /\ queue'[q] = <<>>
    BY <1>1, <1>4 DEF AtRest, TransportTypes
  <2>2. \A q \in Procs : ws'[q] = "open" => queue'[q] = <<>>
    BY <1>1, <1>4 DEF AtRest, TransportTypes
  <2>3. ASSUME NEW q \in Procs, NEW n \in Numbers,
               n # conn'[q] \/ ws'[q] \in {"none", "closing"}
        PROVE  down'[<<q, n>>] = <<>>
    <3>1. <<q, n>> \in Conns
      BY SameConns
    <3>2. CASE q # p \/ n # conn[q]
      BY <1>1, <1>4, <1>7, <2>3, <3>1, <3>2 DEF AtRest, TransportTypes
    <3>3. CASE q = p /\ n = conn[p]
      <4>1. ws'[p] = "closing"
        BY <1>1, <1>4, <2>3, <3>3 DEF TransportTypes
      <4>2. down' = [down EXCEPT ![c] = <<>>]
        BY <1>1, <1>3, <1>4, <4>1 DEF TransportTypes
      <4> QED
        BY <1>1, <1>2, <3>3, <4>2 DEF TransportTypes
    <3> QED
      BY <3>2, <3>3
  <2>4. ASSUME NEW q \in Procs, NEW n \in Numbers, n > conn'[q]
        PROVE  up'[<<q, n>>] = <<>>
    <3>1. <<q, n>> \in Conns /\ conn[q] \in Nat
      BY <1>1, ConnType, SameConns
    <3>2. <<q, n>> # c
      BY <1>2, <1>4, <2>4, <3>1
    <3> QED
      BY <1>1, <1>4, <1>7, <2>4, <3>1, <3>2 DEF AtRest
  <2> QED
    BY <2>1, <2>2, <2>3, <2>4 DEF AtRest
<1>11. OncePerMessage'
  <2>1. \A d \in Conns :
          \/ NrsOf(up'[d]) \subseteq NrsOf(up[d])
          \/ d = c /\ NrsOf(up'[d]) \subseteq NrsOf(up[d]) \cup NrsOf(queue[p])
    BY <1>5, <1>7
  <2>2. /\ \A q \in Procs : NrsOf(queue'[q]) \subseteq NrsOf(queue[q])
        /\ NrsOf(queue'[p]) = {}
    BY <1>7, NrsEmpty
  <2>3. \A d \in Conns : Distinct(down'[d]) /\ NrsOf(down'[d]) \subseteq NrsOf(down[d])
    BY <1>1, <1>7, NrsEmpty DEF OncePerMessage
  <2>4. /\ \A q \in Procs : ConnOf(q)' = ConnOf(q) /\ HeardNrs(q)' = HeardNrs(q)
        /\ \A q \in Procs : ConnOf(q) \in Conns /\ (q # p => ConnOf(q) # c)
    BY <1>1, <1>2, <1>4, ConnType DEF ConnOf, HeardNrs
  <2>5. \A d \in Conns : Ascending(up'[d]) /\ NrsOf(up'[d]) \subseteq 0 .. published' - 1
    BY <1>1, <1>2, <1>4, <1>5, <1>7 DEF OncePerMessage
  <2>6. \A q \in Procs : Ascending(queue'[q]) /\ NrsOf(queue'[q]) \subseteq 0 .. published' - 1
    BY <1>1, <1>4, <1>7, NrsEmpty DEF OncePerMessage
  <2>7. \A q \in Procs : \A j \in NrsOf(up[ConnOf(q)])', l \in NrsOf(queue[q])' : j < l
    BY <1>1, <1>7, <2>2, <2>4 DEF OncePerMessage
  <2>8. \A d, e \in Conns : d # e => NrsOf(up'[d]) \cap NrsOf(up'[e]) = {}
    <3>1. /\ \A d, e \in Conns : d # e => NrsOf(up[d]) \cap NrsOf(up[e]) = {}
          /\ \A d \in Conns : NrsOf(up[d]) \cap NrsOf(queue[p]) = {}
      BY <1>1 DEF OncePerMessage
    <3> SUFFICES ASSUME NEW d \in Conns, NEW e \in Conns, d # e
                 PROVE  NrsOf(up'[d]) \cap NrsOf(up'[e]) = {}
      OBVIOUS
    <3>2. CASE d # c /\ e # c
      BY <2>1, <3>1, <3>2
    <3>3. CASE d = c \/ e = c
      BY <2>1, <3>1, <3>3
    <3> QED
      BY <3>2, <3>3
  <2>9. \A q, r \in Procs : q # r => NrsOf(queue'[q]) \cap NrsOf(queue'[r]) = {}
    BY <1>1, <2>2 DEF OncePerMessage
  <2>10. \A d \in Conns, q \in Procs : NrsOf(up'[d]) \cap NrsOf(queue'[q]) = {}
    <3> SUFFICES ASSUME NEW d \in Conns, NEW q \in Procs, q # p
                 PROVE  NrsOf(up'[d]) \cap NrsOf(queue'[q]) = {}
      BY <2>2
    <3> QED
      BY <1>1, <2>1, <2>2 DEF OncePerMessage
  <2>11. \A d \in Conns : NrsOf(down'[d]) \subseteq 0 .. published' - 1
    BY <1>1, <1>4, <2>3 DEF OncePerMessage
  <2>12. \A d, e \in Conns : NrsOf(down'[d]) \cap NrsOf(up'[e]) = {}
    BY <1>1, <2>1, <2>3 DEF OncePerMessage
  <2>13. \A d \in Conns, q \in Procs : NrsOf(down'[d]) \cap NrsOf(queue'[q]) = {}
    BY <1>1, <2>2, <2>3 DEF OncePerMessage
  <2>14. \A q \in Procs : HeardNrs(q)' \subseteq 0 .. published' - 1
    BY <1>1, <1>4, <2>4 DEF OncePerMessage
  <2>15. \A q \in Procs, d \in Conns : HeardNrs(q)' \cap NrsOf(up'[d]) = {}
    BY <1>1, <2>1, <2>4 DEF OncePerMessage
  <2>16. \A q, r \in Procs : HeardNrs(q)' \cap NrsOf(queue'[r]) = {}
    BY <1>1, <2>2, <2>4 DEF OncePerMessage
  <2>17. \A q \in Procs : HeardNrs(q)' \cap NrsOf(down[ConnOf(q)])' = {}
    BY <1>1, <2>3, <2>4 DEF OncePerMessage
  <2>18. \A q \in Procs : \A g, h \in heard'[q] : g.msg.nr = h.msg.nr => g = h
    BY <1>1, <1>4 DEF OncePerMessage
  <2> QED
    BY <2>3, <2>5, <2>6, <2>7, <2>8, <2>9, <2>10, <2>11, <2>12, <2>13, <2>14, <2>15, <2>16,
       <2>17, <2>18 DEF OncePerMessage
<1> QED
  BY <1>1, <1>4, <1>8, <1>9, <1>10, <1>11 DEF TransportInv

\* A new message goes to the open socket or into the queue.
LEMMA PublishEffect ==
  ASSUME TransportInv, NEW p \in Procs, NEW m \in Peer!Message,
         m.nr = published, Ws!Publish(p, m)
  PROVE  /\ ~closed[p]
         /\ UNCHANGED <<ws, conn, retryDelay, timers, closed>>
         /\ up' \in [Conns -> Seq(Peer!Message)]
         /\ queue' \in [Procs -> Seq(Peer!Message)]
         /\ \A q \in Procs : Len(queue'[q]) <= QUEUE_MAX
         /\ \/ /\ ws[p] = "open" /\ queue' = queue /\ queue[p] = <<>>
               /\ Ascending(up'[ConnOf(p)])
               /\ NrsOf(up'[ConnOf(p)]) \subseteq NrsOf(up[ConnOf(p)]) \cup {published}
               /\ \A d \in Conns : d # ConnOf(p) => up'[d] = up[d]
            \/ /\ ws[p] # "open" /\ up' = up
               /\ Ascending(queue'[p])
               /\ NrsOf(queue'[p]) \subseteq NrsOf(queue[p]) \cup {published}
               /\ \A q \in Procs : q # p => queue'[q] = queue[q]
<1> DEFINE c == ConnOf(p)
           room == IF Len(queue[p]) >= QUEUE_MAX THEN Tail(queue[p]) ELSE queue[p]
<1>1. /\ TransportTypes /\ SocketOrTimer /\ AtRest /\ OncePerMessage
      /\ published \in Nat
  BY DEF TransportInv
<1>2. /\ c \in Conns /\ c = <<p, conn[p]>> /\ queue[p] \in Seq(Peer!Message)
      /\ up[c] \in Seq(Peer!Message) /\ Len(queue[p]) \in Nat /\ Len(queue[p]) <= QUEUE_MAX
  BY <1>1, ConnType, LenProperties DEF TransportTypes
<1>3. /\ ~closed[p]
      /\ UNCHANGED <<ws, conn, retryDelay, timers, closed>>
      /\ \/ /\ ws[p] = "open"
            /\ up' = [up EXCEPT ![c] = Append(up[c], m)] /\ queue' = queue
         \/ /\ ws[p] # "open"
            /\ queue' = [queue EXCEPT ![p] = Append(room, m)] /\ up' = up
  BY SameConns DEF Ws!Publish
<1>4. /\ Ascending(up[c]) /\ Ascending(queue[p])
      /\ NrsOf(up[c]) \subseteq 0 .. published - 1 /\ NrsOf(queue[p]) \subseteq 0 .. published - 1
  BY <1>1, <1>2 DEF OncePerMessage
<1>5. /\ room \in Seq(Peer!Message) /\ NrsOf(room) \subseteq NrsOf(queue[p])
      /\ Ascending(room) /\ Len(room) + 1 <= QUEUE_MAX
  <2>1. QUEUE_MAX \in Nat /\ QUEUE_MAX > 0
    BY GossipMeshAssumption
  <2>2. CASE Len(queue[p]) >= QUEUE_MAX
    <3>1. queue[p] # <<>>
      BY <2>1, <2>2, NrsEmpty
    <3>2. /\ Tail(queue[p]) \in Seq(Peer!Message)
          /\ Len(Tail(queue[p])) = Len(queue[p]) - 1
          /\ NrsOf(Tail(queue[p])) \subseteq NrsOf(queue[p])
          /\ Ascending(Tail(queue[p]))
      BY <1>2, <1>4, <3>1, NrsTail
    <3>3. Len(Tail(queue[p])) + 1 <= QUEUE_MAX
      BY <1>2, <2>1, <3>2
    <3> QED
      BY <2>2, <3>2, <3>3
  <2>3. CASE ~(Len(queue[p]) >= QUEUE_MAX)
    <3>1. room = queue[p] /\ Len(queue[p]) + 1 <= QUEUE_MAX
      BY <1>2, <2>1, <2>3
    <3> QED
      BY <1>2, <1>4, <3>1
  <2> QED
    BY <2>2, <2>3
<1> HIDE DEF room
<1>6. \A k \in 0 .. published - 1 : k < m.nr
  BY Published
<1>7. /\ Append(up[c], m) \in Seq(Peer!Message)
      /\ NrsOf(Append(up[c], m)) = NrsOf(up[c]) \cup {published}
      /\ Ascending(Append(up[c], m))
  BY <1>2, <1>4, <1>6, NrsAppend
<1>8. /\ Append(room, m) \in Seq(Peer!Message) /\ Len(Append(room, m)) <= QUEUE_MAX
      /\ NrsOf(Append(room, m)) \subseteq NrsOf(queue[p]) \cup {published}
      /\ Ascending(Append(room, m))
  BY <1>4, <1>5, <1>6, NrsAppend
<1>9. \/ /\ ws[p] = "open" /\ queue' = queue /\ queue[p] = <<>>
         /\ Ascending(up'[c]) /\ NrsOf(up'[c]) \subseteq NrsOf(up[c]) \cup {published}
         /\ \A d \in Conns : d # c => up'[d] = up[d]
      \/ /\ ws[p] # "open" /\ up' = up
         /\ Ascending(queue'[p]) /\ NrsOf(queue'[p]) \subseteq NrsOf(queue[p]) \cup {published}
         /\ \A q \in Procs : q # p => queue'[q] = queue[q]
  BY <1>1, <1>2, <1>3, <1>7, <1>8 DEF TransportTypes, AtRest
<1>10. up' \in [Conns -> Seq(Peer!Message)]
  BY <1>1, <1>2, <1>3, <1>7 DEF TransportTypes
<1>11. /\ queue' \in [Procs -> Seq(Peer!Message)]
       /\ \A q \in Procs : Len(queue'[q]) <= QUEUE_MAX
  BY <1>1, <1>3, <1>8 DEF TransportTypes
<1> QED
  BY <1>3, <1>9, <1>10, <1>11 DEF c

LEMMA PublishKeepsTransport ==
  ASSUME TransportInv, NEW p \in Procs, NEW m \in Peer!Message,
         m.nr = published, published' = published + 1,
         Ws!Publish(p, m),
         UNCHANGED <<heard, down>>
  PROVE  TransportInv'
<1> DEFINE c == ConnOf(p)
           new == {published}
<1>1. /\ TransportTypes /\ SocketOrTimer /\ AtRest /\ OncePerMessage
      /\ published \in Nat /\ published' \in Nat
  BY DEF TransportInv
<1>2. c \in Conns /\ c = <<p, conn[p]>>
  BY <1>1, ConnType
<1>3. /\ ~closed[p]
      /\ UNCHANGED <<ws, conn, retryDelay, timers, closed>>
  BY PublishEffect
\* The new number is put in one place; all others stay where they are or go.
<1>9. \/ /\ ws[p] = "open" /\ queue' = queue /\ queue[p] = <<>>
         /\ Ascending(up'[c]) /\ NrsOf(up'[c]) \subseteq NrsOf(up[c]) \cup new
         /\ \A d \in Conns : d # c => up'[d] = up[d]
      \/ /\ ws[p] # "open" /\ up' = up
         /\ Ascending(queue'[p]) /\ NrsOf(queue'[p]) \subseteq NrsOf(queue[p]) \cup new
         /\ \A q \in Procs : q # p => queue'[q] = queue[q]
  BY PublishEffect
<1>10. TransportTypes'
  BY <1>1, <1>3, PublishEffect DEF TransportTypes
<1>11. SocketOrTimer'
  BY <1>1, <1>3 DEF SocketOrTimer
<1>12. AtRest'
  <2>1. \A q \in Procs : closed'[q] => ws'[q] = "none" /\ queue'[q] = <<>>
    BY <1>1, <1>3, <1>9 DEF AtRest
  <2>2. \A q \in Procs : ws'[q] = "open" => queue'[q] = <<>>
    BY <1>1, <1>3, <1>9 DEF AtRest, TransportTypes
  <2>3. ASSUME NEW q \in Procs, NEW k \in Numbers, k > conn'[q]
        PROVE  up'[<<q, k>>] = <<>>
    <3>1. /\ <<q, k>> \in Conns /\ up[<<q, k>>] = <<>>
          /\ conn[q] \in Nat /\ k \in Nat
      BY <1>1, <1>3, <2>3, ConnType, SameConns DEF AtRest
    <3>2. <<q, k>> # c
      BY <1>2, <1>3, <2>3, <3>1
    <3> QED
      BY <1>9, <3>1, <3>2
  <2> QED
    BY <1>1, <1>3, <2>1, <2>2, <2>3 DEF AtRest
<1> HIDE DEF c
<1>13. OncePerMessage'
  <2>1. /\ published \notin 0 .. published - 1
        /\ published \in 0 .. published' - 1
        /\ 0 .. published - 1 \subseteq 0 .. published' - 1
    BY Published
  <2>2. /\ \A q \in Procs : ConnOf(q)' = ConnOf(q) /\ HeardNrs(q)' = HeardNrs(q)
        /\ \A q \in Procs : ConnOf(q) \in Conns /\ (q # p => ConnOf(q) # c)
    BY <1>1, <1>2, <1>3, ConnType DEF ConnOf, HeardNrs
  <2>3. /\ \A d \in Conns : NrsOf(up'[d]) \subseteq NrsOf(up[d]) \cup new
        /\ \A q \in Procs : NrsOf(queue'[q]) \subseteq NrsOf(queue[q]) \cup new
        /\ \A d \in Conns : Ascending(up'[d])
        /\ \A q \in Procs : Ascending(queue'[q])
    BY <1>1, <1>9 DEF OncePerMessage
  \* Nobody else has the new number.
  <2>4. /\ \A d \in Conns : published \notin NrsOf(up[d]) \cup NrsOf(down[d])
        /\ \A q \in Procs : published \notin NrsOf(queue[q]) \cup HeardNrs(q)
    BY <1>1, <2>1 DEF OncePerMessage
  <2>5. /\ \A d \in Conns : published \in NrsOf(up'[d]) => d = c /\ queue' = queue
        /\ \A q \in Procs : published \in NrsOf(queue'[q]) => q = p /\ up' = up
    BY <1>9, <2>4
  <2>6. \A d \in Conns : NrsOf(up'[d]) \subseteq 0 .. published' - 1
    BY <1>1, <2>1, <2>3 DEF OncePerMessage
  <2>7. \A q \in Procs : NrsOf(queue'[q]) \subseteq 0 .. published' - 1
    BY <1>1, <2>1, <2>3 DEF OncePerMessage
  <2>8. ASSUME NEW q \in Procs, NEW j \in NrsOf(up[ConnOf(q)])', NEW k \in NrsOf(queue[q])'
        PROVE  j < k
    <3>1. CASE j \in NrsOf(up[ConnOf(q)]) /\ k \in NrsOf(queue[q])
      BY <1>1, <3>1 DEF OncePerMessage
    <3>2. CASE j = published
      <4>1. ConnOf(q) = c /\ queue' = queue /\ up' # up
        BY <2>2, <2>4, <2>5, <2>8, <3>2
      <4>2. q = p /\ queue'[p] = <<>>
        BY <1>9, <2>2, <4>1
      <4> QED
        BY <2>8, <4>2, NrsEmpty
    <3>3. CASE j # published /\ k = published
      <4>1. j \in NrsOf(up[ConnOf(q)])
        BY <2>2, <2>3, <2>8, <3>3
      <4>2. j \in 0 .. published - 1
        BY <1>1, <2>2, <4>1 DEF OncePerMessage
      <4> QED
        BY <3>3, <4>2, Published
    <3> QED
      BY <2>2, <2>3, <2>8, <3>1, <3>2, <3>3
  <2>9. \A d, e \in Conns : d # e => NrsOf(up'[d]) \cap NrsOf(up'[e]) = {}
    BY <1>1, <2>3, <2>5 DEF OncePerMessage
  <2>10. \A q, r \in Procs : q # r => NrsOf(queue'[q]) \cap NrsOf(queue'[r]) = {}
    BY <1>1, <2>3, <2>5 DEF OncePerMessage
  <2>11. \A d \in Conns, q \in Procs : NrsOf(up'[d]) \cap NrsOf(queue'[q]) = {}
    BY <1>1, <2>3, <2>4, <2>5 DEF OncePerMessage
  <2>12. \A d \in Conns : /\ Distinct(down'[d]) /\ NrsOf(down'[d]) = NrsOf(down[d])
                          /\ NrsOf(down'[d]) \subseteq 0 .. published' - 1
    BY <1>1, <2>1 DEF OncePerMessage
  <2>13. \A d, e \in Conns : NrsOf(down'[d]) \cap NrsOf(up'[e]) = {}
    BY <1>1, <2>3, <2>4, <2>12 DEF OncePerMessage
  <2>14. \A d \in Conns, q \in Procs : NrsOf(down'[d]) \cap NrsOf(queue'[q]) = {}
    BY <1>1, <2>3, <2>4, <2>12 DEF OncePerMessage
  <2>15. \A q \in Procs : HeardNrs(q)' \subseteq 0 .. published' - 1
    BY <1>1, <2>1, <2>2 DEF OncePerMessage
  <2>16. \A q \in Procs, d \in Conns : HeardNrs(q)' \cap NrsOf(up'[d]) = {}
    BY <1>1, <2>2, <2>3, <2>4 DEF OncePerMessage
  <2>17. \A q, r \in Procs : HeardNrs(q)' \cap NrsOf(queue'[r]) = {}
    BY <1>1, <2>2, <2>3, <2>4 DEF OncePerMessage
  <2>18. \A q \in Procs : HeardNrs(q)' \cap NrsOf(down[ConnOf(q)])' = {}
    BY <1>1, <2>2, <2>12 DEF OncePerMessage
  <2>19. \A q \in Procs : \A g, h \in heard'[q] : g.msg.nr = h.msg.nr => g = h
    BY <1>1 DEF OncePerMessage
  <2> QED
    BY <2>3, <2>6, <2>7, <2>8, <2>9, <2>10, <2>11, <2>12, <2>13, <2>14, <2>15, <2>16,
       <2>17, <2>18, <2>19 DEF OncePerMessage
<1> QED
  BY <1>1, <1>10, <1>11, <1>12, <1>13 DEF TransportInv

LEMMA LiveConns ==
  ASSUME TransportTypes, NEW p \in Procs, NEW n \in Numbers, <<p, n>> \in Live
  PROVE  n = conn[p] /\ ws[p] \in {"connecting", "open"}
BY DEF Live, ConnOf

\* What the relay does with a frame: all other live sockets get it, its key being the
\* one that its peer id has, or it goes no further.
LEMMA RoomEffect ==
  ASSUME NEW c \in Conns, NEW m, Room!WebSocketMessage(c, m, Live)
  PROVE  \/ UNCHANGED <<registry, down>>
         \/ /\ registry' = [registry EXCEPT ![IdOf[m.key]] = m.key]
            /\ registry[IdOf[m.key]] \in {NoKey, m.key}
            /\ down' = [d \in Conns |-> IF d \in (sockets \ {c}) \cap Live
                                        THEN Append(down[d], [m EXCEPT !.via = c])
                                        ELSE down[d]]
BY DEF Room!WebSocketMessage, Room!CloseSocket, Room!HandlePublish, Room!BindAndFanOut,
       Room!FanOut, Room!IsForged

LEMMA LosesKeepsTransport ==
  ASSUME TransportInv, NEW c \in Conns, RoomLosesSocket(c)
  PROVE  TransportInv'
<1>1. /\ TransportTypes /\ SocketOrTimer /\ AtRest /\ OncePerMessage /\ published \in Nat
  BY DEF TransportInv
<1>2. /\ up' = [up EXCEPT ![c] = <<>>]
      /\ UNCHANGED <<published, heard, ws, conn, queue, retryDelay, timers, closed, down>>
  BY DEF RoomLosesSocket, Room!CloseSocket, peerVars
<1>3. \A d \in Conns : up'[d] = up[d] \/ up'[d] = <<>>
  BY <1>1, <1>2 DEF TransportTypes
<1>4. TransportTypes' /\ SocketOrTimer' /\ AtRest'
  BY <1>1, <1>2, NrsEmpty DEF TransportTypes, SocketOrTimer, AtRest
<1>5. OncePerMessage'
  <2>1. \A d \in Conns : Ascending(up'[d]) /\ NrsOf(up'[d]) \subseteq NrsOf(up[d])
    BY <1>1, <1>3, NrsEmpty DEF OncePerMessage
  <2>2. /\ \A q \in Procs : Ascending(queue'[q]) /\ NrsOf(queue'[q]) \subseteq NrsOf(queue[q])
        /\ \A d \in Conns : Distinct(down'[d]) /\ NrsOf(down'[d]) \subseteq NrsOf(down[d])
    BY <1>1, <1>2 DEF OncePerMessage
  <2> QED
    BY <1>1, <1>2, <2>1, <2>2, OnceShrinks
<1> QED
  BY <1>1, <1>2, <1>4, <1>5 DEF TransportInv

LEMMA FrameKeepsTransport ==
  ASSUME TransportInv, NEW c \in Conns, RoomGetsFrame(c)
  PROVE  TransportInv'
<1> DEFINE m == Head(up[c])
           marked == [m EXCEPT !.via = c]
           rest == Tail(up[c])
           all == (sockets \ {c}) \cap Live
<1>1. /\ TransportTypes /\ SocketOrTimer /\ AtRest /\ OncePerMessage /\ published \in Nat
  BY DEF TransportInv
<1>2. /\ up[c] # <<>> /\ up[c] \in Seq(Peer!Message)
      /\ Room!WebSocketMessage(c, m, Live)
      /\ up' = [up EXCEPT ![c] = rest]
      /\ UNCHANGED <<published, heard, ws, conn, queue, retryDelay, timers, closed>>
  BY <1>1 DEF RoomGetsFrame, TransportTypes, peerVars
<1>3. /\ \A d \in Conns : down[d] \in Seq(Peer!Message)
      /\ \/ down' = down
         \/ down' = [d \in Conns |-> IF d \in all THEN Append(down[d], marked) ELSE down[d]]
  BY <1>1, <1>2, RoomEffect DEF TransportTypes
<1>4. Ascending(up[c]) /\ Distinct(up[c])
  BY <1>1, <1>2, Elements DEF OncePerMessage
<1>5. /\ m \in Peer!Message /\ rest \in Seq(Peer!Message)
      /\ m.nr \in NrsOf(up[c]) /\ m.nr \notin NrsOf(rest)
      /\ NrsOf(rest) \subseteq NrsOf(up[c]) /\ Ascending(rest)
      /\ marked \in Peer!Message /\ marked.nr = m.nr
  BY <1>2, <1>4, NrsTail, MarkedMessage
<1> HIDE DEF m, marked, rest, all
<1>6. /\ up'[c] = rest /\ \A d \in Conns : d # c => up'[d] = up[d]
  BY <1>1, <1>2 DEF TransportTypes
\* The message has left the way up, and was not on a way down.
<1>7. /\ \A d \in Conns : m.nr \notin NrsOf(up'[d]) \cup NrsOf(down[d])
      /\ \A q \in Procs : m.nr \notin NrsOf(queue[q]) \cup HeardNrs(q)
      /\ m.nr \in 0 .. published - 1
  <2>1. \A d \in Conns : m.nr \notin NrsOf(up'[d])
    BY <1>1, <1>5, <1>6 DEF OncePerMessage
  <2>2. \A d \in Conns : m.nr \notin NrsOf(down[d])
    BY <1>1, <1>5 DEF OncePerMessage
  <2>3. \A q \in Procs : m.nr \notin NrsOf(queue[q]) \cup HeardNrs(q)
    BY <1>1, <1>5 DEF OncePerMessage
  <2>4. m.nr \in 0 .. published - 1
    BY <1>1, <1>5 DEF OncePerMessage
  <2> QED
    BY <2>1, <2>2, <2>3, <2>4
<1>8. \A d \in Conns : \/ down'[d] = down[d]
                       \/ d \in all /\ down'[d] = Append(down[d], marked)
  BY <1>3
<1>9. \A d \in Conns : /\ down'[d] \in Seq(Peer!Message)
                       /\ Distinct(down'[d])
                       /\ NrsOf(down'[d]) \subseteq NrsOf(down[d]) \cup {m.nr}
  <2> SUFFICES ASSUME NEW d \in Conns
               PROVE  /\ down'[d] \in Seq(Peer!Message)
                      /\ Distinct(down'[d])
                      /\ NrsOf(down'[d]) \subseteq NrsOf(down[d]) \cup {m.nr}
    OBVIOUS
  <2>1. down[d] \in Seq(Peer!Message) /\ Distinct(down[d]) /\ m.nr \notin NrsOf(down[d])
    BY <1>1, <1>3, <1>7 DEF OncePerMessage
  <2>2. /\ Append(down[d], marked) \in Seq(Peer!Message)
        /\ Distinct(Append(down[d], marked))
        /\ NrsOf(Append(down[d], marked)) = NrsOf(down[d]) \cup {m.nr}
    BY <1>5, <2>1, NrsAppend
  <2> QED
    BY <1>8, <2>1, <2>2
<1>10. TransportTypes'
  <2>1. up' \in [Conns -> Seq(Peer!Message)]
    BY <1>1, <1>2, <1>5 DEF TransportTypes
  <2>2. down' \in [Conns -> Seq(Peer!Message)]
    BY <1>1, <1>3, <1>9 DEF TransportTypes
  <2> QED
    BY <1>1, <1>2, <2>1, <2>2 DEF TransportTypes
<1>11. SocketOrTimer'
  BY <1>1, <1>2 DEF SocketOrTimer
<1>12. AtRest'
  <2>1. ASSUME NEW q \in Procs, NEW n \in Numbers,
               n # conn[q] \/ ws[q] \in {"none", "closing"}
        PROVE  down'[<<q, n>>] = <<>>
    <3>1. <<q, n>> \in Conns /\ <<q, n>> \notin all
      BY <1>1, <2>1, LiveConns, SameConns DEF all
    <3> QED
      BY <1>1, <1>8, <2>1, <3>1 DEF AtRest
  <2>2. \A q \in Procs, n \in Numbers : n > conn[q] => up'[<<q, n>>] = <<>>
    BY <1>1, <1>2, <1>6, SameConns DEF AtRest
  <2> QED
    BY <1>1, <1>2, <2>1, <2>2 DEF AtRest
<1>13. OncePerMessage'
  <2>1. \A d \in Conns : Ascending(up'[d]) /\ NrsOf(up'[d]) \subseteq NrsOf(up[d])
    BY <1>1, <1>5, <1>6 DEF OncePerMessage
  <2>2. /\ \A q \in Procs : ConnOf(q)' = ConnOf(q) /\ HeardNrs(q)' = HeardNrs(q)
        /\ \A q \in Procs : ConnOf(q) \in Conns
    BY <1>1, <1>2, ConnType DEF ConnOf, HeardNrs
  <2>3. /\ \A d \in Conns : NrsOf(up'[d]) \subseteq 0 .. published' - 1
        /\ \A d \in Conns : NrsOf(down'[d]) \subseteq 0 .. published' - 1
    BY <1>1, <1>2, <1>7, <1>9, <2>1 DEF OncePerMessage
  <2>4. /\ \A q \in Procs : Ascending(queue'[q]) /\ NrsOf(queue'[q]) \subseteq 0 .. published' - 1
        /\ \A q, r \in Procs : q # r => NrsOf(queue'[q]) \cap NrsOf(queue'[r]) = {}
    BY <1>1, <1>2 DEF OncePerMessage
  <2>5. \A q \in Procs : \A j \in NrsOf(up[ConnOf(q)])', k \in NrsOf(queue[q])' : j < k
    BY <1>1, <1>2, <2>1, <2>2 DEF OncePerMessage
  <2>6. \A d, e \in Conns : d # e => NrsOf(up'[d]) \cap NrsOf(up'[e]) = {}
    BY <1>1, <2>1 DEF OncePerMessage
  <2>7. \A d \in Conns, q \in Procs : NrsOf(up'[d]) \cap NrsOf(queue'[q]) = {}
    BY <1>1, <1>2, <2>1 DEF OncePerMessage
  <2>8. ASSUME NEW d \in Conns, NEW e \in Conns
        PROVE  NrsOf(down'[d]) \cap NrsOf(up'[e]) = {}
    <3>1. NrsOf(down'[d]) \subseteq NrsOf(down[d]) \cup {m.nr} /\ m.nr \notin NrsOf(up'[e])
      BY <1>7, <1>9
    <3>2. NrsOf(down[d]) \cap NrsOf(up[e]) = {}
      BY <1>1 DEF OncePerMessage
    <3>3. NrsOf(up'[e]) \subseteq NrsOf(up[e])
      BY <2>1
    <3> QED
      BY <3>1, <3>2, <3>3
  <2>9. ASSUME NEW d \in Conns, NEW q \in Procs
        PROVE  NrsOf(down'[d]) \cap NrsOf(queue'[q]) = {}
    <3>1. /\ NrsOf(down'[d]) \subseteq NrsOf(down[d]) \cup {m.nr}
          /\ queue'[q] = queue[q] /\ m.nr \notin NrsOf(queue[q])
      BY <1>2, <1>7, <1>9
    <3>2. NrsOf(down[d]) \cap NrsOf(queue[q]) = {}
      BY <1>1 DEF OncePerMessage
    <3> QED
      BY <3>1, <3>2
  <2>10. /\ \A q \in Procs : HeardNrs(q)' \subseteq 0 .. published' - 1
         /\ \A q, r \in Procs : HeardNrs(q)' \cap NrsOf(queue'[r]) = {}
         /\ \A q \in Procs : \A g, h \in heard'[q] : g.msg.nr = h.msg.nr => g = h
    BY <1>1, <1>2, <2>2 DEF OncePerMessage
  <2>11. \A q \in Procs, d \in Conns : HeardNrs(q)' \cap NrsOf(up'[d]) = {}
    BY <1>1, <2>1, <2>2 DEF OncePerMessage
  <2>12. ASSUME NEW q \in Procs
         PROVE  HeardNrs(q)' \cap NrsOf(down[ConnOf(q)])' = {}
    <3>1. /\ ConnOf(q) \in Conns /\ down[ConnOf(q)]' = down'[ConnOf(q)]
          /\ HeardNrs(q)' = HeardNrs(q) /\ m.nr \notin HeardNrs(q)
      BY <1>7, <2>2
    <3>2. NrsOf(down'[ConnOf(q)]) \subseteq NrsOf(down[ConnOf(q)]) \cup {m.nr}
      BY <1>9, <3>1
    <3>3. HeardNrs(q) \cap NrsOf(down[ConnOf(q)]) = {}
      BY <1>1 DEF OncePerMessage
    <3> QED
      BY <3>1, <3>2, <3>3
  <2> QED
    BY <1>9, <2>1, <2>3, <2>4, <2>5, <2>6, <2>7, <2>8, <2>9, <2>10, <2>11, <2>12, Zenon
       DEF OncePerMessage
<1> QED
  BY <1>1, <1>2, <1>10, <1>11, <1>12, <1>13 DEF TransportInv

\* What a frame adds to what a runtime has heard.
LEMMA AdmitEffect ==
  ASSUME RuntimeTypes, NEW p \in Procs, NEW m, Peer!Admit(p, m)
  PROVE  /\ \A q \in Procs : q # p => heard'[q] = heard[q]
         /\ \/ heard'[p] = heard[p]
            \/ heard'[p] = heard[p] \cup {[msg |-> m, at |-> now,
                                           nth |-> Cardinality(heard[p]) + 1]}
<1>1. heard \in [Procs -> SUBSET [msg : Peer!Message, at : 0 .. now, nth : Nat]]
  BY DEF RuntimeTypes
<1>2. CASE heard' = heard
  BY <1>2
<1>3. CASE Peer!HearUnlessDuplicate(p, m)
  BY <1>1, <1>3 DEF Peer!HearUnlessDuplicate, Peer!Cardinality, Cardinality
<1> QED
  BY <1>2, <1>3 DEF Peer!Admit, Peer!RejectForRate, Peer!peerVars

LEMMA HearKeepsTransport ==
  ASSUME TransportInv, RuntimeTypes, NEW p \in Procs, PeerGetsFrame(p)
  PROVE  TransportInv'
<1> DEFINE c == ConnOf(p)
           m == Head(down[c])
           rest == Tail(down[c])
           new == [msg |-> m, at |-> now, nth |-> Cardinality(heard[p]) + 1]
<1>1. /\ TransportTypes /\ SocketOrTimer /\ AtRest /\ OncePerMessage /\ published \in Nat
  BY DEF TransportInv
<1>2. /\ c \in Conns /\ c = <<p, conn[p]>> /\ down[c] \in Seq(Peer!Message)
  BY <1>1, ConnType DEF TransportTypes
<1>3. /\ down[c] # <<>> /\ ws[p] = "open"
      /\ Peer!Admit(p, m)
      /\ down' = [down EXCEPT ![c] = rest]
      /\ UNCHANGED <<published, ws, conn, queue, retryDelay, timers, closed, up>>
  BY DEF PeerGetsFrame, wsVars
<1>4. /\ \A q \in Procs : q # p => heard'[q] = heard[q]
      /\ heard'[p] = heard[p] \/ heard'[p] = heard[p] \cup {new}
  BY <1>3, AdmitEffect
<1>5. Distinct(down[c])
  BY <1>1, <1>2 DEF OncePerMessage
<1>6. /\ m \in Peer!Message /\ rest \in Seq(Peer!Message)
      /\ m.nr \in NrsOf(down[c]) /\ m.nr \notin NrsOf(rest)
      /\ NrsOf(rest) \subseteq NrsOf(down[c]) /\ Distinct(rest)
  BY <1>2, <1>3, <1>5, NrsTail
<1>7. new.msg = m
  OBVIOUS
<1> HIDE DEF m, rest, c, new
<1>8. down'[c] = rest /\ \A d \in Conns : d # c => down'[d] = down[d]
  BY <1>1, <1>2, <1>3 DEF TransportTypes
<1>9. /\ \A d \in Conns : m.nr \notin NrsOf(up[d])
      /\ \A q \in Procs : m.nr \notin NrsOf(queue[q])
      /\ m.nr \in 0 .. published - 1
      /\ m.nr \notin HeardNrs(p)
  <2>1. c = ConnOf(p)
    BY DEF c
  <2> QED
    BY <1>1, <1>2, <1>6, <2>1 DEF OncePerMessage
<1>10. TransportTypes' /\ SocketOrTimer'
  <2>1. down' \in [Conns -> Seq(Peer!Message)]
    BY <1>1, <1>3, <1>6 DEF TransportTypes
  <2> QED
    BY <1>1, <1>3, <2>1 DEF TransportTypes, SocketOrTimer
<1>11. AtRest'
  <2>1. ASSUME NEW q \in Procs, NEW n \in Numbers,
               n # conn[q] \/ ws[q] \in {"none", "closing"}
        PROVE  down'[<<q, n>>] = <<>>
    <3>1. <<q, n>> \in Conns /\ <<q, n>> # c
      BY <1>2, <1>3, <2>1, SameConns
    <3> QED
      BY <1>1, <1>8, <2>1, <3>1 DEF AtRest
  <2> QED
    BY <1>1, <1>3, <2>1 DEF AtRest
<1>12. OncePerMessage'
  <2>1. \A d \in Conns : Distinct(down'[d]) /\ NrsOf(down'[d]) \subseteq NrsOf(down[d])
    BY <1>1, <1>6, <1>8 DEF OncePerMessage
  <2>2. /\ \A q \in Procs : q # p => HeardNrs(q)' = HeardNrs(q)
        /\ HeardNrs(p)' \subseteq HeardNrs(p) \cup {m.nr}
        /\ \A q \in Procs : ConnOf(q)' = ConnOf(q) /\ ConnOf(q) \in Conns
    BY <1>1, <1>3, <1>4, <1>7, ConnType DEF ConnOf, HeardNrs
  <2>3. /\ \A d \in Conns : Ascending(up'[d]) /\ NrsOf(up'[d]) \subseteq 0 .. published' - 1
        /\ \A q \in Procs : Ascending(queue'[q]) /\ NrsOf(queue'[q]) \subseteq 0 .. published' - 1
        /\ \A d, e \in Conns : d # e => NrsOf(up'[d]) \cap NrsOf(up'[e]) = {}
        /\ \A q, r \in Procs : q # r => NrsOf(queue'[q]) \cap NrsOf(queue'[r]) = {}
        /\ \A d \in Conns, q \in Procs : NrsOf(up'[d]) \cap NrsOf(queue'[q]) = {}
    BY <1>1, <1>3 DEF OncePerMessage
  <2>4. \A q \in Procs : \A j \in NrsOf(up[ConnOf(q)])', k \in NrsOf(queue[q])' : j < k
    BY <1>1, <1>3, <2>2 DEF OncePerMessage
  <2>5. \A d \in Conns : NrsOf(down'[d]) \subseteq 0 .. published' - 1
    BY <1>1, <1>3, <2>1 DEF OncePerMessage
  <2>6. \A d, e \in Conns : NrsOf(down'[d]) \cap NrsOf(up'[e]) = {}
    BY <1>1, <1>3, <2>1 DEF OncePerMessage
  <2>7. \A d \in Conns, q \in Procs : NrsOf(down'[d]) \cap NrsOf(queue'[q]) = {}
    BY <1>1, <1>3, <2>1 DEF OncePerMessage
  <2>8. ASSUME NEW q \in Procs
        PROVE  /\ HeardNrs(q)' \subseteq 0 .. published' - 1
               /\ \A d \in Conns : HeardNrs(q)' \cap NrsOf(up'[d]) = {}
               /\ \A r \in Procs : HeardNrs(q)' \cap NrsOf(queue'[r]) = {}
    <3>1. HeardNrs(q)' \subseteq HeardNrs(q) \cup {m.nr}
      BY <2>2
    <3>2. /\ HeardNrs(q) \subseteq 0 .. published - 1
          /\ \A d \in Conns : HeardNrs(q) \cap NrsOf(up[d]) = {}
          /\ \A r \in Procs : HeardNrs(q) \cap NrsOf(queue[r]) = {}
      BY <1>1 DEF OncePerMessage
    <3> QED
      BY <1>3, <1>9, <3>1, <3>2
  <2>9. ASSUME NEW q \in Procs
        PROVE  HeardNrs(q)' \cap NrsOf(down[ConnOf(q)])' = {}
    <3>1. /\ HeardNrs(q) \cap NrsOf(down[ConnOf(q)]) = {}
          /\ NrsOf(down[ConnOf(q)])' \subseteq NrsOf(down[ConnOf(q)])
      BY <1>1, <2>1, <2>2 DEF OncePerMessage
    <3>2. CASE q # p
      BY <2>2, <3>1, <3>2
    <3>3. CASE q = p
      <4>1. NrsOf(down[ConnOf(q)])' = NrsOf(rest)
        BY <1>8, <2>2, <3>3 DEF c
      <4> QED
        BY <1>6, <2>2, <3>1, <3>3, <4>1
    <3> QED
      BY <3>2, <3>3
  <2>10. \A q \in Procs : \A g, h \in heard'[q] : g.msg.nr = h.msg.nr => g = h
    <3> SUFFICES ASSUME NEW q \in Procs, NEW g \in heard'[q], NEW h \in heard'[q],
                        g.msg.nr = h.msg.nr
                 PROVE  g = h
      OBVIOUS
    <3>1. \A k, l \in heard[q] : k.msg.nr = l.msg.nr => k = l
      BY <1>1 DEF OncePerMessage
    <3>2. \A k \in heard[p] : k.msg.nr # m.nr
      BY <1>9 DEF HeardNrs
    <3> QED
      BY <1>4, <1>7, <3>1, <3>2
  <2> QED
    BY <2>1, <2>3, <2>4, <2>5, <2>6, <2>7, <2>8, <2>9, <2>10, Zenon DEF OncePerMessage
<1> QED
  BY <1>1, <1>3, <1>10, <1>11, <1>12 DEF TransportInv

-----------------------------------------------------------------------------
(* The relay *)

RoomInv ==
  /\ now \in Nat
  /\ RoomTypes

LEMMA RoomIdle ==
  ASSUME RoomInv, UNCHANGED <<now, roomVars>>
  PROVE  RoomInv'
BY DEF RoomInv, RoomTypes, roomVars

LEMMA RoomTick ==
  ASSUME RoomInv, now' = now + 1, UNCHANGED roomVars
  PROVE  RoomInv'
<1>1. /\ now \in Nat /\ now' \in Nat /\ now <= now' /\ RoomTypes
      /\ sockets' = sockets /\ sessions' = sessions /\ registry' = registry
      /\ buckets' = buckets /\ blocks' = blocks
  BY DEF RoomInv, roomVars
<1>2. Times(now) \subseteq Times(now')
  BY <1>1, TimesGrow
<1>3. Blocks(now) \subseteq Blocks(now')
  BY <1>2 DEF Blocks
<1>4. blocks' \in [Peers -> Blocks(now')]
  BY <1>1, <1>3 DEF RoomTypes
<1>5. ASSUME NEW i \in Peers
      PROVE  buckets'[i].last <= now'
  <2>1. buckets[i].last <= now /\ buckets[i].last \in Nat
    BY <1>1 DEF RoomTypes, Bucket
  <2> QED
    BY <1>1, <2>1
<1> QED
  BY <1>1, <1>4, <1>5 DEF RoomInv, RoomTypes

LEMMA RoomAcceptsTypes ==
  ASSUME RoomInv, NEW c \in Conns, now' = now, Room!AcceptSocket(c)
  PROVE  RoomInv'
BY DEF RoomInv, RoomTypes, Room!AcceptSocket

LEMMA RoomClosesTypes ==
  ASSUME RoomInv, NEW c \in Conns, now' = now, Room!CloseSocket(c)
  PROVE  RoomInv'
<1>1. /\ sockets' = sockets \ {c}
      /\ sessions' = [sessions EXCEPT ![c] = NoSession]
      /\ UNCHANGED <<registry, buckets, blocks>>
  BY DEF Room!CloseSocket
<1>2. RoomTypes /\ now \in Nat
  BY DEF RoomInv
<1>3. /\ sessions' \in [Conns -> Peers \cup {NoPeer, NoSession}]
      /\ \A d \in Conns : sessions'[d] # NoSession => d \in sockets'
  BY <1>1, <1>2 DEF RoomTypes
<1> QED
  BY <1>1, <1>2, <1>3 DEF RoomInv, RoomTypes

LEMMA RoomFreshTypes ==
  ASSUME RoomInv, now' = now, Room!Hibernate
  PROVE  RoomInv'
<1> DEFINE full == FullBucket(RELAY_RATE_LIMIT_PER_MINUTE, 0)
<1>1. /\ sessions' = [c \in Conns |-> NoSession]
      /\ registry' = [i \in Peers |-> NoKey]
      /\ buckets' = [i \in Peers |-> full]
      /\ blocks' = [i \in Peers |-> NoBlock]
      /\ sockets' = sockets
  BY SameRateLimits DEF Room!Hibernate
<1>2. RoomTypes /\ now \in Nat
  BY DEF RoomInv
<1>3. full \in Bucket(RELAY_RATE_LIMIT_PER_MINUTE) /\ full.last = 0
  BY Rates, FullBucketType
<1>4. <<>> \in Times(now) /\ Len(<<>>) = 0
  BY <1>2, NoTimes
<1>5. NoBlock \in Blocks(now) /\ Len(NoBlock.rejections) < BLOCK_COUNT
  BY <1>4, Rates DEF NoBlock, Blocks
<1> HIDE DEF full
<1> QED
  BY <1>1, <1>2, <1>3, <1>5 DEF RoomInv, RoomTypes

\* The relay's bucket and block of a peer, whatever becomes of the message.
LEMMA RoomLimits ==
  ASSUME RoomInv, NEW i \in Peers
  PROVE  /\ LET b == Refilled(buckets[i], RELAY_RATE_LIMIT_PER_MINUTE, now)
            IN  b \in Bucket(RELAY_RATE_LIMIT_PER_MINUTE) /\ b.last = now
         /\ HasToken(buckets[i], RELAY_RATE_LIMIT_PER_MINUTE, now)
              => LET b == Spent(buckets[i], RELAY_RATE_LIMIT_PER_MINUTE, now)
                 IN  b \in Bucket(RELAY_RATE_LIMIT_PER_MINUTE) /\ b.last = now
         /\ LET r == Rejected(blocks[i], now)
            IN  r \in Blocks(now) /\ Len(r.rejections) < BLOCK_COUNT
<1>1. /\ now \in Nat /\ RoomTypes
      /\ buckets[i] \in Bucket(RELAY_RATE_LIMIT_PER_MINUTE) /\ buckets[i].last <= now
      /\ blocks[i] \in Blocks(now)
  BY DEF RoomInv, RoomTypes
<1> QED
  BY <1>1, Rates, RefilledBucket, SpentBucket, RejectedBlock

LEMMA RoomHandlesTypes ==
  ASSUME RoomInv, NEW c \in Conns, NEW m \in Peer!Message, now' = now,
         sessions[c] # NoSession, Room!HandlePublish(c, m, Live)
  PROVE  RoomInv'
<1> DEFINE i == IdOf[m.key]
           refilled == Refilled(buckets[i], RELAY_RATE_LIMIT_PER_MINUTE, now)
           spent == Spent(buckets[i], RELAY_RATE_LIMIT_PER_MINUTE, now)
           rejected == Rejected(blocks[i], now)
<1>1. /\ now \in Nat /\ RoomTypes /\ i \in Peers /\ m.key \in Keys /\ sockets' = sockets
  BY MessageFields DEF RoomInv, Room!HandlePublish
<1>2. /\ refilled \in Bucket(RELAY_RATE_LIMIT_PER_MINUTE) /\ refilled.last = now
      /\ HasToken(buckets[i], RELAY_RATE_LIMIT_PER_MINUTE, now)
           => spent \in Bucket(RELAY_RATE_LIMIT_PER_MINUTE) /\ spent.last = now
      /\ rejected \in Blocks(now) /\ Len(rejected.rejections) < BLOCK_COUNT
  BY <1>1, RoomLimits
<1>3. /\ \/ buckets' = buckets
         \/ buckets' = [buckets EXCEPT ![i] = refilled]
         \/ /\ HasToken(buckets[i], RELAY_RATE_LIMIT_PER_MINUTE, now)
            /\ buckets' = [buckets EXCEPT ![i] = spent]
      /\ blocks' = blocks \/ blocks' = [blocks EXCEPT ![i] = rejected]
  BY SameRateLimits DEF Room!HandlePublish, Room!RecordRejection
<1>4. \/ UNCHANGED <<sessions, registry>>
      \/ /\ sessions' = [sessions EXCEPT ![c] = i]
         /\ registry' = [registry EXCEPT ![i] = m.key]
  BY DEF Room!HandlePublish, Room!BindAndFanOut
<1> HIDE DEF i, refilled, spent, rejected
<1>5. /\ buckets' \in [Peers -> Bucket(RELAY_RATE_LIMIT_PER_MINUTE)]
      /\ \A j \in Peers : buckets'[j].last <= now
  <2>1. \A b : b.last = now => b.last <= now
    BY <1>1
  <2> QED
    BY <1>1, <1>2, <1>3, <2>1 DEF RoomTypes
<1>6. /\ blocks' \in [Peers -> Blocks(now)]
      /\ \A j \in Peers : Len(blocks'[j].rejections) < BLOCK_COUNT
  BY <1>1, <1>2, <1>3 DEF RoomTypes
<1>7. /\ sessions' \in [Conns -> Peers \cup {NoPeer, NoSession}]
      /\ \A d \in Conns : sessions'[d] # NoSession => d \in sockets
      /\ registry' \in [Peers -> Keys \cup {NoKey}]
  BY <1>1, <1>4 DEF RoomTypes
<1> QED
  BY <1>1, <1>5, <1>6, <1>7 DEF RoomInv, RoomTypes

LEMMA RoomGetsTypes ==
  ASSUME RoomInv, NEW c \in Conns, NEW m \in Peer!Message, now' = now,
         Room!WebSocketMessage(c, m, Live)
  PROVE  RoomInv'
BY RoomClosesTypes, RoomHandlesTypes DEF Room!WebSocketMessage

-----------------------------------------------------------------------------
(* The relay's memory *)

\* What only takes messages away, or forgets what a runtime heard, with the relay's
\* keys as they were.
LEMMA KeyShrinks ==
  ASSUME KeyKnown, forgot' = forgot, registry' = registry,
         \A c \in Conns : \A k \in DOMAIN down'[c] :
           \E l \in DOMAIN down[c] : down'[c][k] = down[c][l],
         \A p \in Procs : heard'[p] \subseteq heard[p]
  PROVE  KeyKnown'
BY DEF KeyKnown

LEMMA KeyDropsDown ==
  ASSUME KeyKnown, TransportTypes, RuntimeTypes, forgot' = forgot, registry' = registry,
         NEW c, down' = [down EXCEPT ![c] = <<>>] \/ down' = down,
         \A p \in Procs : heard'[p] \subseteq heard[p]
  PROVE  KeyKnown'
<1>1. DOMAIN <<>> = {}
  BY EmptySeq, LenProperties
<1>2. \A d \in Conns : down'[d] = down[d] \/ down'[d] = <<>>
  BY DEF TransportTypes
<1>3. \A d \in Conns : \A k \in DOMAIN down'[d] :
        \E l \in DOMAIN down[d] : down'[d][k] = down[d][l]
  BY <1>1, <1>2
<1> QED
  BY <1>3, KeyShrinks

\* A message that goes down has the key its peer id has, which was no other before.
LEMMA KeyFanOut ==
  ASSUME KeyKnown, TransportTypes, RuntimeTypes, RoomTypes,
         NEW c \in Conns, NEW m \in Peer!Message,
         Room!WebSocketMessage(c, m, Live), forgot' = forgot, heard' = heard
  PROVE  KeyKnown'
<1> DEFINE i == IdOf[m.key]
           marked == [m EXCEPT !.via = c]
           all == (sockets \ {c}) \cap Live
<1>1. /\ i \in Peers /\ m.key \in Keys /\ NoKey \notin Keys
      /\ registry \in [Peers -> Keys \cup {NoKey}]
      /\ marked \in Peer!Message /\ marked.key = m.key
  BY MessageFields, MarkedMessage, GossipMeshAssumption DEF RoomTypes
<1>2. CASE UNCHANGED <<registry, down>>
  BY <1>2 DEF KeyKnown
<1>3. CASE /\ registry' = [registry EXCEPT ![i] = m.key]
           /\ registry[i] \in {NoKey, m.key}
           /\ down' = [d \in Conns |-> IF d \in all THEN Append(down[d], marked) ELSE down[d]]
  <2> SUFFICES ASSUME ~forgot
               PROVE  /\ \A d \in Conns : \A k \in DOMAIN down'[d] :
                           registry'[IdOf[down'[d][k].key]] = down'[d][k].key
                      /\ \A p \in Procs : \A h \in heard[p] :
                           registry'[IdOf[h.msg.key]] = h.msg.key
    BY DEF KeyKnown
  <2>1. \A x \in Keys : registry[IdOf[x]] = x => registry'[IdOf[x]] = x
    BY <1>1, <1>3, GossipMeshAssumption
  <2>2. registry'[IdOf[m.key]] = m.key
    BY <1>1, <1>3
  <2>3. ASSUME NEW p \in Procs, NEW h \in heard[p]
        PROVE  registry'[IdOf[h.msg.key]] = h.msg.key
    <3>1. h.msg \in Peer!Message
      BY DEF RuntimeTypes
    <3> QED
      BY <2>1, <3>1, MessageFields DEF KeyKnown
  <2>4. ASSUME NEW d \in Conns, NEW k \in DOMAIN down'[d]
        PROVE  registry'[IdOf[down'[d][k].key]] = down'[d][k].key
    <3>1. /\ down[d] \in Seq(Peer!Message)
          /\ down'[d] = down[d] \/ down'[d] = Append(down[d], marked)
      BY <1>3 DEF TransportTypes
    <3>2. /\ DOMAIN down[d] = 1..Len(down[d]) /\ Len(down[d]) \in Nat
          /\ \A l \in DOMAIN down[d] : down[d][l] \in Peer!Message
      BY <3>1, Elements
    <3>3. CASE k \in DOMAIN down[d] /\ down'[d][k] = down[d][k]
      <4>1. down[d][k].key \in Keys
        BY <3>2, <3>3, MessageFields
      <4> QED
        BY <2>1, <3>3, <4>1 DEF KeyKnown
    <3>4. CASE down'[d][k] = marked
      BY <1>1, <2>2, <3>4
    <3>5. CASE down'[d] = Append(down[d], marked)
      <4>1. /\ Len(Append(down[d], marked)) = Len(down[d]) + 1
            /\ \A l \in 1..Len(down[d]) : Append(down[d], marked)[l] = down[d][l]
            /\ Append(down[d], marked)[Len(down[d]) + 1] = marked
            /\ Append(down[d], marked) \in Seq(Peer!Message)
        BY <1>1, <3>1, AppendProperties
      <4>2. k \in 1..(Len(down[d]) + 1)
        BY <3>5, <4>1, LenProperties
      <4>3. k \in 1..Len(down[d]) \/ k = Len(down[d]) + 1
        BY <3>2, <4>2
      <4> QED
        BY <3>2, <3>3, <3>4, <3>5, <4>1, <4>3
    <3> QED
      BY <3>1, <3>3, <3>5
  <2> QED
    BY <2>3, <2>4
<1> QED
  BY <1>2, <1>3, RoomEffect

\* A runtime hears what came down.
LEMMA KeyHeard ==
  ASSUME KeyKnown, TransportTypes, RuntimeTypes, NEW p \in Procs, PeerGetsFrame(p)
  PROVE  KeyKnown'
<1> DEFINE c == ConnOf(p)
           m == Head(down[c])
           new == [msg |-> m, at |-> now, nth |-> Cardinality(heard[p]) + 1]
<1>1. c \in Conns /\ down[c] \in Seq(Peer!Message) /\ down[c] # <<>>
  BY ConnType DEF TransportTypes, PeerGetsFrame
<1>2. /\ Peer!Admit(p, m)
      /\ down' = [down EXCEPT ![c] = Tail(down[c])]
      /\ forgot' = forgot /\ registry' = registry
  BY DEF PeerGetsFrame, roomVars
<1>3. /\ \A q \in Procs : q # p => heard'[q] = heard[q]
      /\ heard'[p] = heard[p] \/ heard'[p] = heard[p] \cup {new}
  BY <1>2, AdmitEffect
<1>4. /\ Len(down[c]) \in Nat /\ Len(down[c]) # 0 /\ DOMAIN down[c] = 1..Len(down[c])
      /\ m = down[c][1]
  BY <1>1, EmptySeq, LenProperties
<1>5. 1 \in DOMAIN down[c]
  BY <1>4
<1>6. new.msg = down[c][1]
  BY <1>4
<1>7. \A k \in DOMAIN Tail(down[c]) : k + 1 \in DOMAIN down[c] /\ Tail(down[c])[k] = down[c][k + 1]
  <2>1. /\ Tail(down[c]) \in Seq(Peer!Message)
        /\ Len(Tail(down[c])) = Len(down[c]) - 1
        /\ \A k \in 1 .. Len(Tail(down[c])) : Tail(down[c])[k] = down[c][k + 1]
    BY <1>1, HeadTailProperties
  <2>2. DOMAIN Tail(down[c]) = 1 .. Len(down[c]) - 1
    BY <2>1, LenProperties
  <2> QED
    BY <1>4, <2>1, <2>2
<1>8. \A d \in Conns : \A k \in DOMAIN down'[d] :
        \E l \in DOMAIN down[d] : down'[d][k] = down[d][l]
  BY <1>1, <1>2, <1>7 DEF TransportTypes
<1> HIDE DEF new
<1>9. \A q \in Procs : \A h \in heard'[q] :
        h \in heard[q] \/ (1 \in DOMAIN down[c] /\ h.msg = down[c][1])
  BY <1>3, <1>5, <1>6
<1> HIDE DEF c, m
<1> SUFFICES ASSUME ~forgot
             PROVE  /\ \A d \in Conns : \A k \in DOMAIN down'[d] :
                         registry[IdOf[down'[d][k].key]] = down'[d][k].key
                    /\ \A q \in Procs : \A h \in heard'[q] :
                         registry[IdOf[h.msg.key]] = h.msg.key
  BY <1>2 DEF KeyKnown
<1>10. /\ \A d \in Conns : \A k \in DOMAIN down[d] :
            registry[IdOf[down[d][k].key]] = down[d][k].key
       /\ \A q \in Procs : \A h \in heard[q] : registry[IdOf[h.msg.key]] = h.msg.key
  BY DEF KeyKnown
<1>11. ASSUME NEW d \in Conns, NEW k \in DOMAIN down'[d]
       PROVE  registry[IdOf[down'[d][k].key]] = down'[d][k].key
  <2>1. PICK l \in DOMAIN down[d] : down'[d][k] = down[d][l]
    BY <1>8
  <2> QED
    BY <1>10, <2>1
<1>12. ASSUME NEW q \in Procs, NEW h \in heard'[q]
       PROVE  registry[IdOf[h.msg.key]] = h.msg.key
  BY <1>1, <1>9, <1>10
<1> QED
  BY <1>11, <1>12

-----------------------------------------------------------------------------
(* The invariant *)

LEMMA InvariantParts ==
  IInv <=> Counters /\ RuntimeInv /\ TransportInv /\ RoomInv /\ KeyKnown
<1>1. Counters => now \in Nat /\ published \in Nat
  BY GossipMeshAssumption DEF Counters
<1> QED
  BY <1>1, Zenon DEF IInv, RuntimeInv, TransportInv, RoomInv

LEMMA NextParts ==
  Counters' /\ RuntimeInv' /\ TransportInv' /\ RoomInv' /\ KeyKnown' => IInv'
BY Zenon DEF IInv, RuntimeInv, TransportInv, RoomInv

LEMMA InvariantHolds ==
  Init => IInv
<1> SUFFICES ASSUME Init
             PROVE  IInv
  OBVIOUS
<1> DEFINE full == FullBucket(RATE_LIMIT_PER_MINUTE, 0)
           room == FullBucket(RELAY_RATE_LIMIT_PER_MINUTE, 0)
<1>1. /\ now = 0 /\ keyOf \in KeyChoices /\ faults = 0 /\ started = 0 /\ published = 0
      /\ forgot = FALSE /\ down = [c \in Conns |-> <<>>]
  BY DEF Init
<1>2. /\ enabled = [p \in Procs |-> FALSE]
      /\ publishBucket = [p \in Procs |-> full]
      /\ receiveBuckets = [p \in Procs |-> [i \in Peers |-> full]]
      /\ dedupWindow = [p \in Procs |-> [i \in Peers |-> [x \in Topics |-> <<>>]]]
      /\ blocklist = [p \in Procs |-> [i \in Peers |-> NoBlock]]
      /\ heard = [p \in Procs |-> {}]
      /\ rejectedAt = [p \in Procs |-> [i \in Peers |-> <<>>]]
  BY SameRateLimits DEF Init, Peer!PeerInit
<1>3. /\ ws = [p \in Procs |-> "none"]
      /\ conn = [p \in Procs |-> 0]
      /\ queue = [p \in Procs |-> <<>>]
      /\ retryDelay = [p \in Procs |-> RECONNECT_INITIAL]
      /\ timers = [p \in Procs |-> 0]
      /\ closed = [p \in Procs |-> TRUE]
      /\ up = [c \in Conns |-> <<>>]
  BY SameConns DEF Init, Ws!WsInit
<1>4. /\ sockets = {}
      /\ sessions = [c \in Conns |-> NoSession]
      /\ registry = [i \in Peers |-> NoKey]
      /\ buckets = [i \in Peers |-> room]
      /\ blocks = [i \in Peers |-> NoBlock]
  BY SameRateLimits DEF Init, Room!RoomInit
<1>5. Counters
  <2>1. forgot \in BOOLEAN
    BY <1>1, Zenon
  <2>2. /\ 0 \in 0 .. MaxTime /\ 0 \in 0 .. MaxFaults
        /\ 0 \in 0 .. MaxStarts /\ 0 \in 0 .. MaxPublished
    BY GossipMeshAssumption
  <2> QED
    BY <1>1, <2>1, <2>2, Zenon DEF Counters
<1>6. /\ full \in Bucket(RATE_LIMIT_PER_MINUTE) /\ full.last = 0
      /\ full.tokens = RATE_LIMIT_PER_MINUTE * MINUTE
      /\ room \in Bucket(RELAY_RATE_LIMIT_PER_MINUTE) /\ room.last = 0
  BY Rates, FullBucketType
<1>7. /\ <<>> \in Times(now)
      /\ \A t \in Int : Since(<<>>, t) = {} /\ Cardinality(Since(<<>>, t)) = 0
      /\ Len(<<>>) = 0
  BY <1>1, NoTimes
<1>8. /\ NoBlock \in Blocks(now) /\ NoBlock.rejections = <<>> /\ NoBlock.until = 0
      /\ Len(NoBlock.rejections) < BLOCK_COUNT
  BY <1>7, Rates DEF NoBlock, Blocks
<1> HIDE DEF full, room
<1>9. IsFiniteSet({}) /\ Cardinality({}) = 0
  BY FS_EmptySet
<1>10. RuntimeTypes
  BY <1>1, <1>2, <1>6, <1>7, <1>8, <1>9 DEF RuntimeTypes
<1>11. /\ \A p \in Procs, i \in Peers, t \in Int :
            HeardOf(p, i, t) = {} /\ Cardinality(HeardOf(p, i, t)) = 0
       /\ \A p \in Procs, i \in Peers, x \in Topics, t \in Int :
            HeardOn(p, i, x, t) = {} /\ Cardinality(HeardOn(p, i, x, t)) = 0
  <2>1. \A p \in Procs, i \in Peers, t \in Int : HeardOf(p, i, t) = {}
    BY <1>2 DEF HeardOf
  <2>2. \A p \in Procs, i \in Peers, x \in Topics, t \in Int : HeardOn(p, i, x, t) = {}
    BY <2>1 DEF HeardOn
  <2> QED
    BY <1>9, <2>1, <2>2
<1>12. BucketPays
  <2> SUFFICES ASSUME NEW p \in Procs, NEW i \in Peers
               PROVE  /\ \A h \in heard[p] : FALSE
                      /\ \A t \in 0 .. 0 : MINUTE * Cardinality(HeardOf(p, i, t)) + full.tokens
                                             <= RATE_LIMIT_PER_MINUTE * (MINUTE + 0 - t)
    BY <1>2, <1>6 DEF BucketPays
  <2>1. Cardinality(HeardOf(p, i, 0)) = 0 /\ heard[p] = {}
    BY <1>2, <1>11
  <2>2. full.tokens = RATE_LIMIT_PER_MINUTE * MINUTE /\ full.tokens \in Nat
    BY <1>6, Rates, Products
  <2>3. MINUTE * 0 = 0 /\ MINUTE + 0 - 0 = MINUTE
    BY Rates
  <2>4. \A t \in 0 .. 0 : t = 0
    OBVIOUS
  <2> QED
    BY <2>1, <2>2, <2>3, <2>4
<1>13. WindowCounts
  BY <1>2, <1>7, <1>11 DEF WindowCounts
<1>14. DedupBound /\ BlockExplained
  <2>1. DedupBound
    BY <1>2 DEF DedupBound
  <2>2. BlockExplained
    BY <1>2, <1>7, <1>8 DEF BlockExplained
  <2> QED
    BY <2>1, <2>2
<1>15. RuntimeInv
  BY <1>1, <1>10, <1>12, <1>13, <1>14 DEF RuntimeInv
<1>16. TransportInv
  <2>1. TransportTypes
    BY <1>1, <1>3, SameConns, Delays, NrsEmpty, GossipMeshAssumption DEF TransportTypes
  <2>2. SocketOrTimer /\ AtRest
    BY <1>1, <1>3, SameConns DEF SocketOrTimer, AtRest
  <2>3. OncePerMessage
    <3>1. \A p \in Procs : ConnOf(p) \in Conns /\ HeardNrs(p) = {}
      BY <1>2, <2>1, ConnType DEF HeardNrs
    <3> QED
      BY <1>1, <1>2, <1>3, <3>1, NrsEmpty DEF OncePerMessage
  <2> QED
    BY <1>1, <2>1, <2>2, <2>3 DEF TransportInv
<1>17. RoomInv
  BY <1>1, <1>4, <1>6, <1>8 DEF RoomInv, RoomTypes
<1>18. KeyKnown
  <2>1. DOMAIN <<>> = {}
    BY EmptySeq, LenProperties
  <2> QED
    BY <1>1, <1>2, <2>1 DEF KeyKnown
<1> QED
  BY <1>5, <1>15, <1>16, <1>17, <1>18, InvariantParts

LEMMA InvariantKept ==
  IInv /\ [Next]_vars => IInv'
<1> SUFFICES ASSUME IInv, [Next]_vars
             PROVE  IInv'
  OBVIOUS
<1>1. Counters /\ RuntimeInv /\ TransportInv /\ RoomInv /\ KeyKnown
  BY InvariantParts
<1>2. /\ RuntimeTypes /\ TransportTypes /\ RoomTypes
      /\ now \in Nat /\ MaxTime \in Nat /\ MaxFaults \in Nat
      /\ MaxStarts \in Nat /\ MaxPublished \in Nat
      /\ faults \in Nat /\ started \in Nat /\ published \in Nat
  BY <1>1, GossipMeshAssumption DEF RuntimeInv, TransportInv, RoomInv, Counters
<1>3. /\ Fault => faults' \in 0 .. MaxFaults
      /\ UNCHANGED faults => faults' \in 0 .. MaxFaults
  BY <1>1, <1>2 DEF Counters, Fault
<1>4. CASE Tick
  <2>1. /\ now < MaxTime /\ now' = now + 1
        /\ UNCHANGED <<keyOf, faults, started, published, peerVars, wsVars, roomVars, down>>
    BY <1>4 DEF Tick
  <2>2. Counters'
    BY <1>1, <1>2, <2>1 DEF Counters, roomVars
  <2>3. RuntimeInv'
    BY <1>1, <2>1, RuntimeTick
  <2>4. /\ heard' = heard /\ registry' = registry /\ down' = down /\ forgot' = forgot
        /\ published' = published
    BY <2>1 DEF peerVars, roomVars
  <2>5. TransportInv'
    BY <1>1, <2>1, <2>4, TransportIdle
  <2>6. RoomInv'
    BY <1>1, <2>1, RoomTick
  <2>7. KeyKnown'
    BY <1>1, <2>4 DEF KeyKnown
  <2> QED
    BY <2>2, <2>3, <2>5, <2>6, <2>7, NextParts
<1>5. ASSUME NEW p \in Procs, Start(p)
      PROVE  IInv'
  <2>1. /\ started < MaxStarts /\ started' = started + 1
        /\ Peer!Enable(p)
        /\ UNCHANGED faults \/ Fault
        /\ UNCHANGED <<now, keyOf, published, roomVars, down>>
    BY <1>5 DEF Start
  <2>2. Counters'
    BY <1>1, <1>2, <1>3, <2>1 DEF Counters, roomVars
  <2>3. /\ RuntimeInv'
        /\ heard' = [heard EXCEPT ![p] = {}]
    <3> DEFINE full == FullBucket(RATE_LIMIT_PER_MINUTE, now)
    <3>1. full \in Bucket(RATE_LIMIT_PER_MINUTE) /\ full.last = now
      BY <1>2, Rates, FullBucketType
    <3>2. /\ enabled' = [enabled EXCEPT ![p] = TRUE]
          /\ publishBucket' = [publishBucket EXCEPT ![p] = full]
          /\ receiveBuckets' = [receiveBuckets EXCEPT
                                  ![p] = [i \in Peers |-> FullBucket(RATE_LIMIT_PER_MINUTE, 0)]]
          /\ dedupWindow' = [dedupWindow EXCEPT
                               ![p] = [i \in Peers |-> [x \in Topics |-> <<>>]]]
          /\ blocklist' = [blocklist EXCEPT ![p] = [i \in Peers |-> NoBlock]]
          /\ heard' = [heard EXCEPT ![p] = {}]
          /\ rejectedAt' = [rejectedAt EXCEPT ![p] = [i \in Peers |-> <<>>]]
      BY <2>1, SameRateLimits DEF Peer!Enable, Peer!FreshRuntime
    <3> HIDE DEF full
    <3>3. /\ enabled' \in [Procs -> BOOLEAN]
          /\ publishBucket' \in [Procs -> Bucket(RATE_LIMIT_PER_MINUTE)]
          /\ \A q \in Procs : publishBucket'[q].last <= now
      BY <1>2, <3>1, <3>2 DEF RuntimeTypes
    <3> QED
      BY <1>1, <2>1, <3>2, <3>3, RuntimeFresh
  <2>4. TransportInv'
    BY <1>1, <1>2, <1>5, StartKeepsTransport
  <2>5. RoomInv'
    BY <1>1, <2>1, RoomIdle
  <2>6. KeyKnown'
    <3>1. /\ registry' = registry /\ forgot' = forgot
          /\ \A q \in Procs : heard'[q] \subseteq heard[q]
      BY <1>2, <1>3, <2>1, <2>3 DEF roomVars, RuntimeTypes
    <3> QED
      BY <1>1, <1>2, <2>1, <3>1, KeyDropsDown
  <2> QED
    BY <2>2, <2>3, <2>4, <2>5, <2>6, NextParts
<1>6. ASSUME NEW p \in Procs, Stop(p)
      PROVE  IInv'
  <2>1. /\ Peer!Disable(p)
        /\ down' = [down EXCEPT ![ConnOf(p)] = <<>>]
        /\ UNCHANGED <<now, keyOf, faults, started, published, roomVars>>
    BY <1>6 DEF Stop
  <2>2. Counters'
    BY <1>1, <2>1 DEF Counters, roomVars
  <2>3. /\ RuntimeInv'
        /\ heard' = [heard EXCEPT ![p] = {}]
    <3>1. /\ enabled' = [enabled EXCEPT ![p] = FALSE]
          /\ publishBucket' = publishBucket
          /\ receiveBuckets' = [receiveBuckets EXCEPT
                                  ![p] = [i \in Peers |-> FullBucket(RATE_LIMIT_PER_MINUTE, 0)]]
          /\ dedupWindow' = [dedupWindow EXCEPT
                               ![p] = [i \in Peers |-> [x \in Topics |-> <<>>]]]
          /\ blocklist' = [blocklist EXCEPT ![p] = [i \in Peers |-> NoBlock]]
          /\ heard' = [heard EXCEPT ![p] = {}]
          /\ rejectedAt' = [rejectedAt EXCEPT ![p] = [i \in Peers |-> <<>>]]
      BY <2>1, SameRateLimits DEF Peer!Disable
    <3>2. /\ enabled' \in [Procs -> BOOLEAN]
          /\ publishBucket' \in [Procs -> Bucket(RATE_LIMIT_PER_MINUTE)]
          /\ \A q \in Procs : publishBucket'[q].last <= now
      BY <1>2, <3>1 DEF RuntimeTypes
    <3> QED
      BY <1>1, <2>1, <3>1, <3>2, RuntimeFresh
  <2>4. TransportInv'
    BY <1>1, <1>2, <1>6, StopKeepsTransport
  <2>5. RoomInv'
    BY <1>1, <2>1, RoomIdle
  <2>6. KeyKnown'
    <3>1. /\ registry' = registry /\ forgot' = forgot
          /\ \A q \in Procs : heard'[q] \subseteq heard[q]
      BY <1>2, <2>1, <2>3 DEF roomVars, RuntimeTypes
    <3> QED
      BY <1>1, <1>2, <2>1, <3>1, KeyDropsDown
  <2> QED
    BY <2>2, <2>3, <2>4, <2>5, <2>6, NextParts
<1>7. ASSUME NEW p \in Procs, NEW t \in Topics, Publish(p, t)
      PROVE  IInv'
  <2> DEFINE m == [nr |-> published, key |-> keyOf[p], topic |-> t, ts |-> now,
                    via |-> ConnOf(p)]
  <2>1. /\ published < MaxPublished /\ published' = published + 1
        /\ Peer!MayPublish(p) /\ Peer!SignMessage(p) /\ Ws!Publish(p, m)
        /\ UNCHANGED <<now, keyOf, faults, started, roomVars, down>>
    BY <1>7 DEF Publish
  <2>2. m \in Peer!Message /\ m.nr = published
    <3>1. keyOf[p] \in Keys
      BY <1>1, GossipMeshAssumption DEF Counters
    <3>2. ConnOf(p) \in Procs \X Nat
      BY <1>2, ConnType, SameConns
    <3> QED
      BY <1>2, <3>1, <3>2 DEF Peer!Message
  <2> HIDE DEF m
  <2>3. heard' = heard
    BY <2>1 DEF Peer!SignMessage
  <2>4. Counters'
    BY <1>1, <1>2, <2>1 DEF Counters, roomVars
  <2>5. RuntimeInv'
    BY <1>1, <2>1, RuntimeSigns
  <2>6. TransportInv'
    BY <1>1, <2>1, <2>2, <2>3, PublishKeepsTransport
  <2>7. RoomInv'
    BY <1>1, <2>1, RoomIdle
  <2>8. KeyKnown'
    BY <1>1, <2>1, <2>3 DEF KeyKnown, roomVars
  <2> QED
    BY <2>4, <2>5, <2>6, <2>7, <2>8, NextParts
<1>8. ASSUME NEW p \in Procs, RoomAccepts(p)
      PROVE  IInv'
  <2>1. /\ Room!AcceptSocket(ConnOf(p))
        /\ UNCHANGED <<now, keyOf, faults, started, published, peerVars, wsVars>>
        /\ registry' = registry /\ down' = down /\ heard' = heard
        /\ forgot' = forgot
    BY <1>8 DEF RoomAccepts, Room!AcceptSocket, peerVars
  <2>2. Counters' /\ RuntimeInv'
    BY <1>1, <2>1, RuntimeIdle DEF Counters
  <2>3. TransportInv'
    BY <1>1, <2>1, TransportIdle
  <2>4. RoomInv'
    BY <1>1, <1>2, <2>1, ConnType, RoomAcceptsTypes
  <2>5. KeyKnown'
    BY <1>1, <2>1 DEF KeyKnown
  <2> QED
    BY <2>2, <2>3, <2>4, <2>5, NextParts
<1>9. ASSUME NEW p \in Procs, SocketOpens(p)
      PROVE  IInv'
  <2>1. /\ UNCHANGED <<now, keyOf, started, published, peerVars, roomVars>>
        /\ UNCHANGED faults \/ Fault
        /\ down' = [down EXCEPT ![ConnOf(p)] = <<>>] \/ down' = down
        /\ registry' = registry /\ heard' = heard /\ forgot' = forgot
    BY <1>9 DEF SocketOpens, peerVars, roomVars
  <2>2. Counters' /\ RuntimeInv'
    BY <1>1, <1>3, <2>1, RuntimeIdle DEF Counters
  <2>3. TransportInv'
    BY <1>1, <1>9, OpensKeepsTransport
  <2>4. RoomInv'
    BY <1>1, <2>1, RoomIdle
  <2>5. KeyKnown'
    BY <1>1, <1>2, <1>3, <2>1, KeyDropsDown
  <2> QED
    BY <2>2, <2>3, <2>4, <2>5, NextParts
<1>10. ASSUME NEW p \in Procs, SocketFails(p)
       PROVE  IInv'
  <2>1. /\ UNCHANGED <<now, keyOf, started, published, peerVars, roomVars>>
        /\ UNCHANGED faults \/ Fault
        /\ down' = [down EXCEPT ![ConnOf(p)] = <<>>]
        /\ registry' = registry /\ heard' = heard /\ forgot' = forgot
    BY <1>10 DEF SocketFails, peerVars, roomVars
  <2>2. Counters' /\ RuntimeInv'
    BY <1>1, <1>3, <2>1, RuntimeIdle DEF Counters
  <2>3. TransportInv'
    BY <1>1, <1>10, FailsKeepsTransport
  <2>4. RoomInv'
    BY <1>1, <2>1, RoomIdle
  <2>5. KeyKnown'
    BY <1>1, <1>2, <1>3, <2>1, KeyDropsDown
  <2> QED
    BY <2>2, <2>3, <2>4, <2>5, NextParts
<1>11. ASSUME NEW p \in Procs, SocketClosed(p)
       PROVE  IInv'
  <2>1. /\ UNCHANGED <<now, keyOf, faults, started, published, peerVars, roomVars, down>>
        /\ registry' = registry /\ heard' = heard /\ forgot' = forgot
    BY <1>11 DEF SocketClosed, peerVars, roomVars
  <2>2. Counters' /\ RuntimeInv'
    BY <1>1, <2>1, RuntimeIdle DEF Counters
  <2>3. TransportInv'
    BY <1>1, <1>11, ClosedKeepsTransport
  <2>4. RoomInv'
    BY <1>1, <2>1, RoomIdle
  <2>5. KeyKnown'
    BY <1>1, <2>1 DEF KeyKnown
  <2> QED
    BY <2>2, <2>3, <2>4, <2>5, NextParts
<1>12. ASSUME NEW p \in Procs, TimerFires(p)
       PROVE  IInv'
  <2>1. /\ UNCHANGED <<now, keyOf, started, published, peerVars, roomVars, down>>
        /\ UNCHANGED faults \/ Fault
        /\ registry' = registry /\ heard' = heard /\ forgot' = forgot
    BY <1>12 DEF TimerFires, peerVars, roomVars
  <2>2. Counters' /\ RuntimeInv'
    BY <1>1, <1>3, <2>1, RuntimeIdle DEF Counters
  <2>3. TransportInv'
    BY <1>1, <1>12, TimerKeepsTransport
  <2>4. RoomInv'
    BY <1>1, <2>1, RoomIdle
  <2>5. KeyKnown'
    BY <1>1, <1>3, <2>1 DEF KeyKnown
  <2> QED
    BY <2>2, <2>3, <2>4, <2>5, NextParts
<1>13. ASSUME NEW c \in Conns, RoomLosesSocket(c)
       PROVE  IInv'
  <2>1. /\ Room!CloseSocket(c)
        /\ UNCHANGED <<now, keyOf, faults, started, published, peerVars>>
        /\ registry' = registry /\ down' = down /\ heard' = heard
        /\ forgot' = forgot
    BY <1>13 DEF RoomLosesSocket, Room!CloseSocket, peerVars
  <2>2. Counters' /\ RuntimeInv'
    BY <1>1, <2>1, RuntimeIdle DEF Counters
  <2>3. TransportInv'
    BY <1>1, <1>13, LosesKeepsTransport
  <2>4. RoomInv'
    BY <1>1, <2>1, RoomClosesTypes
  <2>5. KeyKnown'
    BY <1>1, <2>1 DEF KeyKnown
  <2> QED
    BY <2>2, <2>3, <2>4, <2>5, NextParts
<1>14. CASE RoomHibernates
  <2>1. /\ Fault /\ Room!Hibernate
        /\ UNCHANGED <<now, keyOf, started, published, peerVars, wsVars>>
        /\ down' = down /\ heard' = heard /\ forgot' = TRUE
    BY <1>14 DEF RoomHibernates, Room!Hibernate, peerVars
  <2>2. Counters' /\ RuntimeInv'
    BY <1>1, <1>3, <2>1, RuntimeIdle DEF Counters
  <2>3. TransportInv'
    BY <1>1, <2>1, TransportIdle
  <2>4. RoomInv'
    BY <1>1, <2>1, RoomFreshTypes
  <2>5. KeyKnown'
    BY <1>3, <2>1 DEF KeyKnown
  <2> QED
    BY <2>2, <2>3, <2>4, <2>5, NextParts
<1>15. ASSUME NEW c \in Conns, RoomGetsFrame(c)
       PROVE  IInv'
  <2>1. /\ Room!WebSocketMessage(c, Head(up[c]), Live)
        /\ UNCHANGED <<now, keyOf, faults, started, published, peerVars>>
        /\ heard' = heard /\ up[c] # <<>> /\ forgot' = forgot
    BY <1>15 DEF RoomGetsFrame, peerVars
  <2>2. Head(up[c]) \in Peer!Message
    BY <1>2, <2>1, HeadTailProperties DEF TransportTypes
  <2>3. Counters' /\ RuntimeInv'
    BY <1>1, <2>1, RuntimeIdle DEF Counters
  <2>4. TransportInv'
    BY <1>1, <1>15, FrameKeepsTransport
  <2>5. RoomInv'
    BY <1>1, <2>1, <2>2, RoomGetsTypes
  <2>6. KeyKnown'
    BY <1>1, <1>2, <2>1, <2>2, KeyFanOut
  <2> QED
    BY <2>3, <2>4, <2>5, <2>6, NextParts
<1>16. ASSUME NEW p \in Procs, PeerGetsFrame(p)
       PROVE  IInv'
  <2>1. /\ Peer!Admit(p, Head(down[ConnOf(p)])) /\ down[ConnOf(p)] # <<>>
        /\ UNCHANGED <<now, keyOf, faults, started, published, roomVars>>
    BY <1>16 DEF PeerGetsFrame
  <2>2. Head(down[ConnOf(p)]) \in Peer!Message
    BY <1>2, <2>1, ConnType, HeadTailProperties DEF TransportTypes
  <2>3. Counters'
    BY <1>1, <2>1 DEF Counters, roomVars
  <2>4. RuntimeInv'
    BY <1>1, <2>1, <2>2, RuntimeAdmits
  <2>5. TransportInv'
    BY <1>1, <1>2, <1>16, HearKeepsTransport
  <2>6. RoomInv'
    BY <1>1, <2>1, RoomIdle
  <2>7. KeyKnown'
    BY <1>1, <1>2, <1>16, KeyHeard
  <2> QED
    BY <2>3, <2>4, <2>5, <2>6, <2>7, NextParts
<1>17. CASE UNCHANGED vars
  <2>1. /\ UNCHANGED <<now, keyOf, faults, started, published, peerVars, wsVars, roomVars, down>>
        /\ registry' = registry /\ heard' = heard /\ forgot' = forgot
    BY <1>17 DEF vars, roomVars, peerVars
  <2>2. Counters' /\ RuntimeInv'
    BY <1>1, <2>1, RuntimeIdle DEF Counters
  <2>3. TransportInv'
    BY <1>1, <2>1, TransportIdle
  <2>4. RoomInv' /\ KeyKnown'
    BY <1>1, <2>1, RoomIdle DEF KeyKnown
  <2> QED
    BY <2>2, <2>3, <2>4, NextParts
<1> QED
  BY <1>4, <1>5, <1>6, <1>7, <1>8, <1>9, <1>10, <1>11, <1>12, <1>13, <1>14, <1>15, <1>16,
     <1>17 DEF Next

LEMMA InvariantAlways ==
  Spec => []IInv
<1> QED
  BY InvariantHolds, InvariantKept, PTL DEF Spec

-----------------------------------------------------------------------------
(* The order of what is heard *)

Orderly == SendOrder /\ HearOrder

\* A message goes from one place to the next, or is lost.
LEMMA SendShrinks ==
  ASSUME TransportTypes, SendOrder,
         \A q \in Procs : conn'[q] \in Numbers /\ conn'[q] >= conn[q],
         \A c \in Conns : NrsOf(up'[c]) \subseteq NrsOf(up[c]),
         Passed' \subseteq Passed,
         \A q \in Procs : NrsOf(queue'[q]) \subseteq NrsOf(queue[q])
  PROVE  SendOrder'
<1>1. \A c \in Conns : PassedOn(c)' \subseteq PassedOn(c)
  BY DEF PassedOn
<1>2. \A c \in Conns : SentOn(c)' \subseteq SentOn(c)
  BY <1>1 DEF SentOn
<1>3. \A p \in Procs, n \in Numbers : <<p, n>> \in Conns /\ n \in Nat /\ conn[p] \in Nat
  BY ConnType, SameConns
<1>4. \A p \in Procs, n, k \in Numbers :
        n < k => Ahead(SentOn(<<p, n>>)', SentOn(<<p, k>>)')
  BY <1>2, <1>3 DEF SendOrder, Ahead
<1>5. \A p \in Procs, n \in Numbers : Ahead(SentOn(<<p, n>>)', NrsOf(queue'[p]))
  BY <1>2, <1>3 DEF SendOrder, Ahead
<1>6. ASSUME NEW p \in Procs, NEW n \in Numbers, n > conn'[p]
      PROVE  SentOn(<<p, n>>)' = {}
  <2>1. n > conn[p]
    <3>1. conn'[p] \in Nat /\ conn'[p] >= conn[p] /\ conn[p] \in Nat /\ n \in Nat
      BY <1>3, SameConns
    <3> QED
      BY <1>6, <3>1
  <2> QED
    BY <1>2, <1>3, <2>1 DEF SendOrder
<1>7. \A c \in Conns : Ahead(PassedOn(c)', NrsOf(up'[c]))
  BY <1>1 DEF SendOrder, Ahead
<1>8. \A m \in Passed' : m.via \in Conns
  BY DEF SendOrder
<1> QED
  BY <1>4, <1>5, <1>6, <1>7, <1>8 DEF SendOrder, Ahead

LEMMA PassedShrinks ==
  ASSUME \A d \in Conns : down'[d] = down[d] \/ down'[d] = <<>>,
         \A r \in Procs : heard'[r] = heard[r] \/ heard'[r] = {}
  PROVE  Passed' \subseteq Passed
<1>1. DOMAIN <<>> = {}
  OBVIOUS
<1> QED
  BY <1>1 DEF Passed

LEMMA HearShrinks ==
  ASSUME HearOrder,
         \A d \in Conns : down'[d] = down[d] \/ down'[d] = <<>>,
         \A r \in Procs : heard'[r] = heard[r] \/ heard'[r] = {}
  PROVE  HearOrder'
<1>1. DOMAIN <<>> = {}
  OBVIOUS
<1>2. \A r \in Procs, n \in Numbers : <<r, n>> \in Conns
  BY SameConns
<1>3. \A r \in Procs : \A h \in heard'[r] : h.nth \in 1 .. Cardinality(heard'[r])
  BY DEF HearOrder
<1>4. \A r \in Procs : \A g, h \in heard'[r] :
        g.msg.via = h.msg.via /\ g.nth < h.nth => g.msg.nr < h.msg.nr
  BY DEF HearOrder
<1>5. \A r \in Procs, n \in Numbers : \A g \in heard'[r], k \in DOMAIN down'[<<r, n>>] :
        g.msg.via = down'[<<r, n>>][k].via => g.msg.nr < down'[<<r, n>>][k].nr
  BY <1>1, <1>2 DEF HearOrder
<1>6. \A d \in Conns : Fifo(down'[d])
  BY <1>1 DEF HearOrder, Fifo
<1> QED
  BY <1>3, <1>4, <1>5, <1>6 DEF HearOrder

\* The steps that put no message anywhere.
LEMMA OrderShrinks ==
  ASSUME TransportTypes, Orderly,
         \A q \in Procs : conn'[q] \in Numbers /\ conn'[q] >= conn[q],
         \A c \in Conns : up'[c] = up[c] \/ up'[c] = <<>>,
         \A q \in Procs : queue'[q] = queue[q] \/ queue'[q] = <<>>,
         \A d \in Conns : down'[d] = down[d] \/ down'[d] = <<>>,
         \A r \in Procs : heard'[r] = heard[r] \/ heard'[r] = {}
  PROVE  Orderly'
<1>1. /\ \A c \in Conns : NrsOf(up'[c]) \subseteq NrsOf(up[c])
      /\ \A q \in Procs : NrsOf(queue'[q]) \subseteq NrsOf(queue[q])
  BY NrsEmpty
<1>2. SendOrder'
  BY <1>1, PassedShrinks, SendShrinks DEF Orderly
<1>3. HearOrder'
  BY HearShrinks DEF Orderly
<1> QED
  BY <1>2, <1>3 DEF Orderly

\* What the transport sends itself comes after all that it has sent.
LEMMA OrderDrains ==
  ASSUME TransportTypes, OncePerMessage, Orderly,
         NEW p \in Procs, NEW c \in Conns, c = ConnOf(p),
         conn' = conn,
         \A d \in Conns : d # c => up'[d] = up[d],
         NrsOf(up'[c]) \subseteq NrsOf(up[c]) \cup NrsOf(queue[p]),
         queue' = [queue EXCEPT ![p] = <<>>],
         \A d \in Conns : down'[d] = down[d] \/ down'[d] = <<>>,
         heard' = heard
  PROVE  Orderly'
<1> DEFINE waiting == NrsOf(queue[p])
<1>1. c = <<p, conn[p]>> /\ conn[p] \in Numbers
  BY ConnType
<1>2. /\ \A d \in Conns : PassedOn(d)' \subseteq PassedOn(d)
      /\ \A m \in Passed' : m.via \in Conns
  BY PassedShrinks DEF PassedOn, Orderly, SendOrder
<1>3. /\ SentOn(c)' \subseteq SentOn(c) \cup waiting
      /\ \A d \in Conns : d # c => SentOn(d)' \subseteq SentOn(d)
  BY <1>2 DEF SentOn
<1>4. /\ NrsOf(queue'[p]) = {}
      /\ \A q \in Procs : q # p => queue'[q] = queue[q]
  BY NrsEmpty DEF TransportTypes
<1>5. \A n \in Numbers : /\ n \in Nat /\ <<p, n>> \in Conns
                         /\ Ahead(SentOn(<<p, n>>), waiting)
                         /\ n > conn[p] => SentOn(<<p, n>>)' = {}
  <2>1. \A n \in Numbers : n > conn[p] => <<p, n>> # c /\ SentOn(<<p, n>>) = {}
    BY <1>1, SameConns DEF Orderly, SendOrder
  <2> QED
    BY <1>3, <2>1, SameConns DEF Orderly, SendOrder
<1>6. Ahead(PassedOn(c), waiting)
  BY <1>1, <1>5 DEF SentOn, Ahead
<1> HIDE DEF waiting
<1>7. ASSUME NEW q \in Procs, NEW n \in Numbers, NEW k \in Numbers, n < k
      PROVE  Ahead(SentOn(<<q, n>>)', SentOn(<<q, k>>)')
  <2>1. <<q, n>> \in Conns /\ <<q, k>> \in Conns /\ n \in Nat /\ k \in Nat
    BY SameConns
  <2>2. Ahead(SentOn(<<q, n>>), SentOn(<<q, k>>))
    BY <1>7 DEF Orderly, SendOrder
  <2>3. CASE q # p
    BY <1>1, <1>3, <2>1, <2>2, <2>3 DEF Ahead
  <2>4. CASE q = p /\ n = conn[p]
    BY <1>5, <1>7, <2>4 DEF Ahead
  <2>5. CASE q = p /\ k = conn[p]
    <3>1. SentOn(<<q, n>>)' \subseteq SentOn(<<q, n>>)
      BY <1>1, <1>3, <1>7, <2>1, <2>5
    <3>2. /\ SentOn(<<q, k>>)' \subseteq SentOn(<<q, k>>) \cup waiting
          /\ Ahead(SentOn(<<q, n>>), waiting)
      BY <1>1, <1>3, <1>5, <2>5
    <3> QED
      BY <2>2, <3>1, <3>2 DEF Ahead
  <2>6. CASE q = p /\ n # conn[p] /\ k # conn[p]
    <3>1. <<q, n>> # c /\ <<q, k>> # c
      BY <1>1, <2>6
    <3> QED
      BY <1>3, <2>1, <2>2, <3>1 DEF Ahead
  <2> QED
    BY <2>3, <2>4, <2>5, <2>6
<1>8. ASSUME NEW q \in Procs, NEW n \in Numbers
      PROVE  Ahead(SentOn(<<q, n>>)', NrsOf(queue'[q]))
  <2>1. CASE q = p
    BY <1>4, <2>1 DEF Ahead
  <2>2. CASE q # p
    BY <1>1, <1>3, <1>4, <2>2, SameConns DEF Ahead, Orderly, SendOrder
  <2> QED
    BY <2>1, <2>2
<1>9. ASSUME NEW q \in Procs, NEW n \in Numbers, n > conn'[q]
      PROVE  SentOn(<<q, n>>)' = {}
  <2>1. CASE q = p
    BY <1>5, <1>9, <2>1
  <2>2. CASE q # p
    BY <1>1, <1>3, <1>9, <2>2, SameConns DEF Orderly, SendOrder
  <2> QED
    BY <2>1, <2>2
<1>10. ASSUME NEW d \in Conns
       PROVE  Ahead(PassedOn(d)', NrsOf(up'[d]))
  <2>1. CASE d = c
    BY <1>2, <1>6, <2>1 DEF waiting, Ahead, Orderly, SendOrder
  <2>2. CASE d # c
    BY <1>2, <2>2 DEF Ahead, Orderly, SendOrder
  <2> QED
    BY <2>1, <2>2
<1>11. SendOrder'
  BY <1>2, <1>7, <1>8, <1>9, <1>10 DEF SendOrder, Ahead
<1>12. HearOrder'
  BY HearShrinks DEF Orderly
<1> QED
  BY <1>11, <1>12 DEF Orderly
LEMMA FifoAppend ==
  ASSUME NEW s \in Seq(Peer!Message), NEW m \in Peer!Message, Fifo(s),
         \A k \in DOMAIN s : s[k].via = m.via => s[k].nr < m.nr
  PROVE  Fifo(Append(s, m))
<1> DEFINE a == Append(s, m)
           l == Len(s)
<1>1. /\ a \in Seq(Peer!Message) /\ Len(a) = l + 1
      /\ \A k \in 1..l : a[k] = s[k]
      /\ a[l + 1] = m
  BY AppendProperties
<1>2. /\ l \in Nat /\ DOMAIN s = 1..l /\ DOMAIN a = 1..(l + 1)
  BY <1>1, LenProperties
<1> HIDE DEF a, l
<1>3. ASSUME NEW j \in 1..(l + 1), NEW k \in 1..(l + 1), j < k, a[j].via = a[k].via
      PROVE  a[j].nr < a[k].nr
  <2>1. j \in 1..l /\ (k = l + 1 \/ k \in 1..l)
    BY <1>2, <1>3
  <2>2. CASE k = l + 1
    BY <1>1, <1>2, <1>3, <2>1, <2>2
  <2>3. CASE k \in 1..l
    BY <1>1, <1>2, <1>3, <2>1, <2>3 DEF Fifo
  <2> QED
    BY <2>1, <2>2, <2>3
<1> QED
  BY <1>2, <1>3 DEF Fifo, a

LEMMA FifoTail ==
  ASSUME NEW s \in Seq(Peer!Message), s # <<>>, Fifo(s)
  PROVE  /\ Fifo(Tail(s))
         /\ \A k \in DOMAIN Tail(s) : Head(s).via = Tail(s)[k].via => Head(s).nr < Tail(s)[k].nr
<1>1. /\ \A k \in DOMAIN Tail(s) : k + 1 \in DOMAIN s /\ Tail(s)[k] = s[k + 1]
      /\ Head(s) = s[1] /\ 1 \in DOMAIN s
  BY NrsTail
<1>2. DOMAIN Tail(s) \subseteq Nat \ {0}
  BY NrsTail, Elements
<1>3. /\ \A k \in DOMAIN Tail(s) : 1 < k + 1
      /\ \A j, k \in DOMAIN Tail(s) : j < k => j + 1 < k + 1
  BY <1>2
<1> QED
  BY <1>1, <1>3 DEF Fifo

\* The numbers sent are those of messages published, and what the relay has sent on is
\* no longer queued.
LEMMA SentBefore ==
  ASSUME TransportInv, RuntimeTypes
  PROVE  \A d \in Conns : SentOn(d) \subseteq 0 .. published - 1
<1>1. /\ TransportTypes /\ OncePerMessage
  BY DEF TransportInv
<1>2. ASSUME NEW m \in Passed
      PROVE  m.nr \in 0 .. published - 1
  <2>1. CASE \E d \in Conns : \E k \in DOMAIN down[d] : m = down[d][k]
    BY <1>1, <2>1 DEF OncePerMessage, NrsOf
  <2>2. CASE \E r \in Procs : \E h \in heard[r] : m = h.msg
    BY <1>1, <2>2 DEF OncePerMessage, HeardNrs
  <2> QED
    BY <2>1, <2>2 DEF Passed
<1> QED
  BY <1>1, <1>2 DEF SentOn, PassedOn, OncePerMessage

\* A new message is the latest, and goes behind all others.
LEMMA OrderPublished ==
  ASSUME TransportInv, RuntimeTypes, Orderly, NEW p \in Procs, NEW m \in Peer!Message,
         NEW c \in Conns, c = ConnOf(p),
         m.nr = published, Ws!Publish(p, m),
         UNCHANGED <<heard, down>>
  PROVE  Orderly'
<1> DEFINE new == {m.nr}
<1>1. /\ TransportTypes /\ c = <<p, conn[p]>> /\ conn[p] \in Numbers
      /\ conn' = conn
  BY ConnType, PublishEffect DEF TransportInv
<1>2. Passed' = Passed /\ HearOrder'
  BY PassedShrinks, HearShrinks DEF Passed, Orderly
<1>3. \A d \in Conns : /\ PassedOn(d)' = PassedOn(d)
                       /\ Ahead(SentOn(d), new) /\ Ahead(PassedOn(d), new)
  BY <1>2, SentBefore, Published DEF PassedOn, SentOn, Ahead
<1>4. CASE /\ queue[p] = <<>> /\ queue' = queue
           /\ NrsOf(up'[c]) \subseteq NrsOf(up[c]) \cup new
           /\ \A d \in Conns : d # c => up'[d] = up[d]
  <2>1. /\ SentOn(c)' \subseteq SentOn(c) \cup new
        /\ \A d \in Conns : d # c => SentOn(d)' = SentOn(d)
    BY <1>3, <1>4 DEF SentOn
  <2>2. \A n \in Numbers : /\ n \in Nat /\ <<p, n>> \in Conns
                           /\ n > conn[p] => SentOn(<<p, n>>)' = {}
    <3>1. \A n \in Numbers : n > conn[p] => <<p, n>> # c /\ SentOn(<<p, n>>) = {}
      BY <1>1, SameConns DEF Orderly, SendOrder
    <3> QED
      BY <2>1, <3>1, SameConns
  <2>3. NrsOf(queue'[p]) = {}
    BY <1>4, NrsEmpty
  <2> HIDE DEF new
  <2>4. ASSUME NEW q \in Procs, NEW n \in Numbers, NEW k \in Numbers, n < k
        PROVE  Ahead(SentOn(<<q, n>>)', SentOn(<<q, k>>)')
    <3>1. /\ <<q, n>> \in Conns /\ <<q, k>> \in Conns /\ n \in Nat /\ k \in Nat
          /\ Ahead(SentOn(<<q, n>>), SentOn(<<q, k>>))
      BY <2>4, SameConns DEF Orderly, SendOrder
    <3>2. CASE <<q, n>> = c
      BY <1>1, <2>2, <2>4, <3>2 DEF Ahead
    <3>3. CASE <<q, n>> # c
      BY <1>3, <2>1, <3>1, <3>3 DEF Ahead
    <3> QED
      BY <3>2, <3>3
  <2>5. ASSUME NEW q \in Procs, NEW n \in Numbers
        PROVE  Ahead(SentOn(<<q, n>>)', NrsOf(queue'[q]))
    <3>1. CASE q = p
      BY <2>3, <3>1 DEF Ahead
    <3>2. CASE q # p
      BY <1>1, <1>4, <2>1, <3>2, SameConns DEF Ahead, Orderly, SendOrder
    <3> QED
      BY <3>1, <3>2
  <2>6. ASSUME NEW q \in Procs, NEW n \in Numbers, n > conn'[q]
        PROVE  SentOn(<<q, n>>)' = {}
    <3>1. CASE q = p
      BY <1>1, <2>2, <2>6, <3>1
    <3>2. CASE q # p
      BY <1>1, <2>1, <2>6, <3>2, SameConns DEF Orderly, SendOrder
    <3> QED
      BY <3>1, <3>2
  <2>7. ASSUME NEW d \in Conns
        PROVE  Ahead(PassedOn(d)', NrsOf(up'[d]))
    <3>1. CASE d = c
      BY <1>3, <1>4, <3>1 DEF Ahead, Orderly, SendOrder
    <3>2. CASE d # c
      BY <1>3, <1>4, <3>2 DEF Ahead, Orderly, SendOrder
    <3> QED
      BY <3>1, <3>2
  <2>8. SendOrder'
    BY <1>2, <2>4, <2>5, <2>6, <2>7 DEF Orderly, SendOrder, Ahead
  <2> QED
    BY <1>2, <2>8 DEF Orderly
<1>5. CASE /\ up' = up
           /\ NrsOf(queue'[p]) \subseteq NrsOf(queue[p]) \cup new
           /\ \A q \in Procs : q # p => queue'[q] = queue[q]
  <2>1. \A d \in Conns : SentOn(d)' = SentOn(d)
    BY <1>3, <1>5 DEF SentOn
  <2> HIDE DEF new
  <2>2. \A q \in Procs : NrsOf(queue'[q]) \subseteq NrsOf(queue[q]) \cup new
    BY <1>5
  <2>3. \A q \in Procs, n \in Numbers : Ahead(SentOn(<<q, n>>)', NrsOf(queue'[q]))
    BY <1>3, <2>1, <2>2, SameConns DEF Ahead, Orderly, SendOrder
  <2>4. /\ \A q \in Procs, n, k \in Numbers :
             n < k => Ahead(SentOn(<<q, n>>)', SentOn(<<q, k>>)')
        /\ \A q \in Procs, n \in Numbers : n > conn'[q] => SentOn(<<q, n>>)' = {}
        /\ \A d \in Conns : Ahead(PassedOn(d)', NrsOf(up'[d]))
    BY <1>1, <1>3, <1>5, <2>1, SameConns DEF Orderly, SendOrder
  <2>5. SendOrder'
    BY <1>2, <2>3, <2>4 DEF Orderly, SendOrder, Ahead
  <2> QED
    BY <1>2, <2>5 DEF Orderly
<1> QED
  BY <1>4, <1>5, PublishEffect

\* The relay sends on the oldest of what is on its way from a connection.
LEMMA OrderFrame ==
  ASSUME TransportInv, RuntimeTypes, Orderly, NEW c \in Conns, RoomGetsFrame(c)
  PROVE  Orderly'
<1> DEFINE m == Head(up[c])
           marked == [m EXCEPT !.via = c]
           rest == Tail(up[c])
           all == (sockets \ {c}) \cap Live
<1>1. TransportTypes /\ OncePerMessage
  BY DEF TransportInv
<1>2. /\ up[c] # <<>> /\ up[c] \in Seq(Peer!Message)
      /\ Room!WebSocketMessage(c, m, Live)
      /\ up' = [up EXCEPT ![c] = rest]
      /\ UNCHANGED <<heard, conn, queue>>
  BY <1>1 DEF RoomGetsFrame, TransportTypes, peerVars
<1>3. /\ \A d \in Conns : down[d] \in Seq(Peer!Message)
      /\ \/ down' = down
         \/ down' = [d \in Conns |-> IF d \in all THEN Append(down[d], marked) ELSE down[d]]
  BY <1>1, <1>2, RoomEffect DEF TransportTypes
<1>4. /\ m \in Peer!Message /\ rest \in Seq(Peer!Message)
      /\ m.nr \in NrsOf(up[c]) /\ NrsOf(rest) \subseteq NrsOf(up[c])
      /\ marked \in Peer!Message /\ marked.nr = m.nr /\ marked.via = c
  BY <1>2, NrsTail, MarkedMessage
<1>5. Ahead({m.nr}, NrsOf(rest)) /\ Ahead(PassedOn(c), {m.nr})
  <2>1. Ahead({m.nr}, NrsOf(rest))
    <3>1. Ascending(up[c])
      BY <1>1 DEF OncePerMessage
    <3>2. /\ \A k \in DOMAIN rest : k + 1 \in DOMAIN up[c] /\ rest[k] = up[c][k + 1]
          /\ m = up[c][1] /\ 1 \in DOMAIN up[c]
      BY <1>2, NrsTail
    <3>3. \A k \in DOMAIN rest : 1 < k + 1
      BY <1>4, Elements
    <3> QED
      BY <3>1, <3>2, <3>3 DEF Ascending, Ahead, NrsOf
  <2> QED
    BY <1>4, <2>1 DEF Orderly, SendOrder, Ahead
<1> HIDE DEF m, marked, rest, all
<1>6. /\ up'[c] = rest /\ \A d \in Conns : d # c => up'[d] = up[d]
  BY <1>1, <1>2 DEF TransportTypes
<1>7. \A d \in Conns : \/ down'[d] = down[d]
                       \/ down'[d] = Append(down[d], marked)
  BY <1>3
<1>8. \A x \in Passed' : x \in Passed \/ x = marked
  <2> SUFFICES ASSUME NEW x \in Peer!Message, NEW d \in Conns, NEW k \in DOMAIN down'[d],
                      x = down'[d][k], x # marked
               PROVE  \E j \in DOMAIN down[d] : x = down[d][j]
    BY <1>2 DEF Passed
  <2>1. CASE down'[d] = down[d]
    BY <2>1
  <2>2. CASE down'[d] = Append(down[d], marked)
    <3>1. /\ Len(down'[d]) = Len(down[d]) + 1 /\ down'[d] \in Seq(Peer!Message)
          /\ \A j \in 1..Len(down[d]) : down'[d][j] = down[d][j]
          /\ down'[d][Len(down[d]) + 1] = marked
      BY <1>3, <1>4, <2>2, AppendProperties
    <3>2. /\ DOMAIN down'[d] = 1..(Len(down[d]) + 1) /\ DOMAIN down[d] = 1..Len(down[d])
          /\ Len(down[d]) \in Nat
      BY <1>3, <3>1, LenProperties
    <3> QED
      BY <3>1, <3>2
  <2> QED
    BY <1>7, <2>1, <2>2
<1>9. /\ \A d \in Conns : d # c => PassedOn(d)' \subseteq PassedOn(d)
      /\ PassedOn(c)' \subseteq PassedOn(c) \cup {m.nr}
      /\ \A x \in Passed' : x.via \in Conns
  BY <1>4, <1>8 DEF PassedOn, Orderly, SendOrder
<1>10. \A d \in Conns : SentOn(d)' \subseteq SentOn(d)
  BY <1>4, <1>6, <1>9 DEF SentOn
<1>11. SendOrder'
  <2>1. /\ \A p \in Procs, n, k \in Numbers :
             n < k => Ahead(SentOn(<<p, n>>)', SentOn(<<p, k>>)')
        /\ \A p \in Procs, n \in Numbers : Ahead(SentOn(<<p, n>>)', NrsOf(queue'[p]))
        /\ \A p \in Procs, n \in Numbers : n > conn'[p] => SentOn(<<p, n>>)' = {}
    <3>1. \A p \in Procs, n \in Numbers : SentOn(<<p, n>>)' \subseteq SentOn(<<p, n>>)
      BY <1>10, SameConns
    <3> QED
      BY <1>2, <3>1 DEF Ahead, Orderly, SendOrder
  <2>2. ASSUME NEW d \in Conns
        PROVE  Ahead(PassedOn(d)', NrsOf(up'[d]))
    <3>1. CASE d = c
      BY <1>4, <1>5, <1>6, <1>9, <3>1 DEF Ahead, Orderly, SendOrder
    <3>2. CASE d # c
      BY <1>6, <1>9, <3>2 DEF Ahead, Orderly, SendOrder
    <3> QED
      BY <3>1, <3>2
  <2> QED
    BY <1>9, <2>1, <2>2 DEF SendOrder, Ahead
\* All that came from c before is older.
<1>12. /\ \A d \in Conns : \A k \in DOMAIN down[d] : down[d][k].via = c => down[d][k].nr < m.nr
       /\ \A r \in Procs : \A h \in heard[r] : h.msg.via = c => h.msg.nr < m.nr
  <2>1. \A x \in Passed : x.via = c => x.nr < m.nr
    BY <1>5 DEF PassedOn, Ahead
  <2>2. \A d \in Conns : \A k \in DOMAIN down[d] : down[d][k] \in Passed
    BY <1>3, Elements DEF Passed
  <2>3. \A r \in Procs : \A h \in heard[r] : h.msg \in Passed
    BY DEF RuntimeTypes, Passed
  <2> QED
    BY <2>1, <2>2, <2>3
<1>13. HearOrder'
  <2>1. \A d \in Conns : Fifo(down'[d])
    BY <1>3, <1>4, <1>7, <1>12, FifoAppend DEF Orderly, HearOrder
  <2>2. ASSUME NEW r \in Procs, NEW n \in Numbers, NEW g \in heard[r],
               NEW k \in DOMAIN down'[<<r, n>>], g.msg.via = down'[<<r, n>>][k].via
        PROVE  g.msg.nr < down'[<<r, n>>][k].nr
    <3> DEFINE s == down[<<r, n>>]
    <3>1. <<r, n>> \in Conns
      BY SameConns
    <3>2. CASE down'[<<r, n>>] = s
      BY <2>2, <3>2 DEF Orderly, HearOrder
    <3>3. CASE down'[<<r, n>>] = Append(s, marked)
      <4>1. /\ Len(Append(s, marked)) = Len(s) + 1 /\ Append(s, marked) \in Seq(Peer!Message)
            /\ \A j \in 1..Len(s) : Append(s, marked)[j] = s[j]
            /\ Append(s, marked)[Len(s) + 1] = marked
        <5>1. s \in Seq(Peer!Message)
          BY <1>3, <3>1
        <5> HIDE DEF s
        <5> QED
          BY <1>4, <5>1, AppendProperties
      <4>2. /\ DOMAIN Append(s, marked) = 1..(Len(s) + 1) /\ DOMAIN s = 1..Len(s)
            /\ Len(s) \in Nat
        BY <1>3, <3>1, <4>1, LenProperties
      <4>3. CASE k = Len(s) + 1
        BY <1>4, <1>12, <2>2, <3>3, <4>1, <4>3
      <4>4. CASE k \in DOMAIN s
        BY <2>2, <3>3, <4>1, <4>2, <4>4 DEF Orderly, HearOrder
      <4> QED
        BY <2>2, <3>3, <4>2, <4>3, <4>4
    <3> QED
      BY <1>7, <3>1, <3>2, <3>3
  <2>3. /\ \A r \in Procs : \A h \in heard'[r] : h.nth \in 1 .. Cardinality(heard'[r])
        /\ \A r \in Procs : \A g, h \in heard'[r] :
             g.msg.via = h.msg.via /\ g.nth < h.nth => g.msg.nr < h.msg.nr
    BY <1>2 DEF Orderly, HearOrder
  <2>4. \A r \in Procs, n \in Numbers : \A g \in heard'[r], k \in DOMAIN down'[<<r, n>>] :
          g.msg.via = down'[<<r, n>>][k].via => g.msg.nr < down'[<<r, n>>][k].nr
    BY <1>2, <2>2
  <2> QED
    BY <2>1, <2>3, <2>4 DEF HearOrder
<1> QED
  BY <1>11, <1>13 DEF Orderly

\* A runtime hears the oldest of what is on its way to it.
LEMMA OrderHeard ==
  ASSUME TransportInv, RuntimeTypes, Orderly, NEW p \in Procs, PeerGetsFrame(p)
  PROVE  Orderly'
<1> DEFINE c == ConnOf(p)
           m == Head(down[c])
           rest == Tail(down[c])
           count == Cardinality(heard[p])
           new == [msg |-> m, at |-> now, nth |-> count + 1]
<1>1. TransportTypes /\ AtRest
  BY DEF TransportInv
<1>2. /\ c \in Conns /\ c = <<p, conn[p]>> /\ down[c] \in Seq(Peer!Message)
      /\ conn[p] \in Numbers
  BY <1>1, ConnType DEF TransportTypes
<1>3. /\ down[c] # <<>> /\ Peer!Admit(p, m)
      /\ down' = [down EXCEPT ![c] = rest]
      /\ UNCHANGED <<conn, queue, up>>
  BY DEF PeerGetsFrame, wsVars
<1>4. /\ \A q \in Procs : q # p => heard'[q] = heard[q]
      /\ heard'[p] = heard[p] \/ heard'[p] = heard[p] \cup {new}
  BY <1>3, AdmitEffect
<1>5. /\ m \in Peer!Message /\ m = down[c][1] /\ 1 \in DOMAIN down[c]
      /\ \A k \in DOMAIN rest : k + 1 \in DOMAIN down[c] /\ rest[k] = down[c][k + 1]
      /\ Fifo(rest)
      /\ \A k \in DOMAIN rest : m.via = rest[k].via => m.nr < rest[k].nr
  BY <1>2, <1>3, NrsTail, FifoTail DEF Orderly, HearOrder
<1>6. count \in Nat /\ IsFiniteSet(heard[p])
  BY HeardFinite
<1>7. new.msg = m /\ new.nth = count + 1
  OBVIOUS
<1>8. /\ down'[c] = rest /\ \A d \in Conns : d # c => down'[d] = down[d]
  BY <1>1, <1>2, <1>3 DEF TransportTypes
\* What p hears comes on its one live connection.
<1>9. \A n \in Numbers : <<p, n>> # c => DOMAIN down'[<<p, n>>] = {}
  <2>1. \A n \in Numbers : <<p, n>> # c => <<p, n>> \in Conns /\ down[<<p, n>>] = <<>>
    BY <1>1, <1>2, SameConns DEF AtRest
  <2> QED
    BY <1>8, <2>1
<1>10. new \notin heard[p] /\ \A h \in heard[p] : h.nth \in Nat /\ h.nth <= count
  BY <1>6, <1>7 DEF Orderly, HearOrder
<1> HIDE DEF m, rest, c, new, count
<1>11. Passed' \subseteq Passed
  <2>1. m \in Passed
    BY <1>2, <1>5 DEF Passed
  <2>2. ASSUME NEW d \in Conns, NEW k \in DOMAIN down'[d]
        PROVE  \E j \in DOMAIN down[d] : down'[d][k] = down[d][j]
    BY <1>5, <1>8, <2>2
  <2>3. ASSUME NEW r \in Procs, NEW h \in heard'[r]
        PROVE  h.msg = m \/ h \in heard[r]
    BY <1>4, <1>7, <2>3
  <2> QED
    BY <2>1, <2>2, <2>3 DEF Passed
<1>12. SendOrder'
  <2>1. \A q \in Procs : conn'[q] \in Numbers /\ conn'[q] >= conn[q]
    <3>1. \A q \in Procs : conn[q] \in Numbers /\ conn[q] \in Nat
      BY <1>1, ConnType, SameConns
    <3> QED
      BY <1>3, <3>1
  <2> QED
    BY <1>1, <1>3, <1>11, <2>1, SendShrinks DEF Orderly
<1>13. \A r \in Procs : \A h \in heard'[r] : h.nth \in 1 .. Cardinality(heard'[r])
  <2>1. CASE heard'[p] = heard[p]
    BY <1>4, <2>1 DEF Orderly, HearOrder
  <2>2. CASE heard'[p] = heard[p] \cup {new}
    <3>1. Cardinality(heard'[p]) = count + 1
      BY <1>6, <1>10, <2>2, FS_AddElement DEF count
    <3>2. \A h \in heard'[p] : h.nth \in 1 .. count + 1
      <4>1. \A h \in heard[p] : h.nth \in 1 .. count
        BY DEF Orderly, HearOrder, count
      <4> QED
        BY <1>6, <1>7, <2>2, <4>1
    <3> QED
      BY <1>4, <3>1, <3>2 DEF Orderly, HearOrder
  <2> QED
    BY <1>4, <2>1, <2>2
<1>14. ASSUME NEW r \in Procs, NEW g \in heard'[r], NEW h \in heard'[r],
              g.msg.via = h.msg.via, g.nth < h.nth
       PROVE  g.msg.nr < h.msg.nr
  <2>1. CASE g \in heard[r] /\ h \in heard[r]
    BY <1>14, <2>1 DEF Orderly, HearOrder
  <2>2. CASE g \notin heard[r]
    <3>1. r = p /\ g = new /\ (h = new \/ h \in heard[p])
      BY <1>4, <1>14, <2>2
    <3> QED
      BY <1>6, <1>7, <1>10, <1>14, <3>1
  <2>3. CASE g \in heard[r] /\ h \notin heard[r]
    <3>1. r = p /\ h = new
      BY <1>4, <1>14, <2>3
    <3>2. \A k \in DOMAIN down[c] : g.msg.via = down[c][k].via => g.msg.nr < down[c][k].nr
      BY <1>2, <2>3, <3>1 DEF Orderly, HearOrder
    <3> QED
      BY <1>5, <1>7, <1>14, <3>1, <3>2
  <2> QED
    BY <2>1, <2>2, <2>3
<1>15. ASSUME NEW r \in Procs, NEW n \in Numbers, NEW g \in heard'[r],
              NEW k \in DOMAIN down'[<<r, n>>], g.msg.via = down'[<<r, n>>][k].via
       PROVE  g.msg.nr < down'[<<r, n>>][k].nr
  <2>1. <<r, n>> \in Conns
    BY SameConns
  <2>2. CASE <<r, n>> # c /\ r # p
    BY <1>4, <1>8, <1>15, <2>1, <2>2 DEF Orderly, HearOrder
  <2>3. CASE <<r, n>> # c /\ r = p
    BY <1>9, <1>15, <2>3
  <2>4. CASE <<r, n>> = c
    <3>1. r = p /\ down'[<<r, n>>] = rest
      BY <1>2, <1>8, <2>4
    <3>2. CASE g \in heard[p]
      <4>1. \A j \in DOMAIN down[c] : g.msg.via = down[c][j].via => g.msg.nr < down[c][j].nr
        BY <2>4, <3>1, <3>2 DEF Orderly, HearOrder
      <4> QED
        BY <1>5, <1>15, <3>1, <4>1
    <3>3. CASE g = new
      BY <1>5, <1>7, <1>15, <3>1, <3>3
    <3> QED
      BY <1>4, <1>15, <3>1, <3>2, <3>3
  <2> QED
    BY <2>2, <2>3, <2>4
<1>16. \A d \in Conns : Fifo(down'[d])
  BY <1>5, <1>8 DEF Orderly, HearOrder
<1>17. HearOrder'
  BY <1>13, <1>14, <1>15, <1>16 DEF HearOrder
<1> QED
  BY <1>12, <1>17 DEF Orderly

LEMMA OrderHolds ==
  Init => Orderly
<1> SUFFICES ASSUME Init
             PROVE  Orderly
  OBVIOUS
<1>1. /\ heard = [p \in Procs |-> {}] /\ down = [c \in Conns |-> <<>>]
      /\ up = [c \in Conns |-> <<>>] /\ queue = [p \in Procs |-> <<>>]
  BY SameConns DEF Init, Peer!PeerInit, Ws!WsInit
<1>2. DOMAIN <<>> = {} /\ \A p \in Procs, n \in Numbers : <<p, n>> \in Conns
  BY SameConns
<1>3. Passed = {}
  BY <1>1, <1>2 DEF Passed
<1>4. \A c \in Conns : PassedOn(c) = {} /\ SentOn(c) = {}
  BY <1>1, <1>3, NrsEmpty DEF PassedOn, SentOn
<1>5. SendOrder
  BY <1>2, <1>3, <1>4 DEF SendOrder, Ahead
<1>6. HearOrder
  BY <1>1, <1>2 DEF HearOrder, Fifo
<1> QED
  BY <1>5, <1>6 DEF Orderly

LEMMA OrderStays ==
  IInv /\ Orderly /\ [Next]_vars => Orderly'
<1> SUFFICES ASSUME IInv, Orderly, [Next]_vars
             PROVE  Orderly'
  OBVIOUS
<1>1. TransportInv /\ RuntimeTypes /\ TransportTypes /\ OncePerMessage
  BY InvariantParts DEF RuntimeInv, TransportInv
<1>2. \A q \in Procs : conn[q] \in Numbers /\ conn[q] \in Nat /\ conn[q] >= conn[q]
  <2>1. \A q \in Procs : conn[q] \in Numbers /\ conn[q] \in Nat
    BY <1>1, ConnType, SameConns
  <2> QED
    BY <2>1
<1>3. CASE UNCHANGED <<conn, up, queue, down, heard>>
  BY <1>1, <1>2, <1>3, OrderShrinks
<1>4. CASE Tick \/ UNCHANGED vars
  BY <1>3, <1>4 DEF Tick, vars, wsVars, peerVars
<1>5. ASSUME NEW p \in Procs, Start(p) \/ TimerFires(p)
      PROVE  Orderly'
  <2>1. /\ UNCHANGED <<up, queue, down>>
        /\ heard' = heard \/ heard' = [heard EXCEPT ![p] = {}]
        /\ conn' = conn \/ Ws!Dial(p)
    BY <1>5 DEF Start, TimerFires, Peer!Enable, Peer!FreshRuntime, peerVars, Ws!Create,
                Ws!CreateWithoutSocket, Ws!Reconnect, Ws!DialFails, Ws!IdleTimer, Ws!Dial
  <2>2. \A q \in Procs : heard'[q] = heard[q] \/ heard'[q] = {}
    BY <1>1, <2>1 DEF RuntimeTypes
  <2>3. ASSUME NEW q \in Procs
        PROVE  conn'[q] \in Numbers /\ conn'[q] >= conn[q]
    <3>1. CASE conn' = conn
      BY <1>2, <3>1
    <3>2. CASE Ws!Dial(p)
      <4>1. conn' = [conn EXCEPT ![p] = conn[p] + 1] /\ conn[p] + 1 \in Numbers
        BY <3>2 DEF Ws!Dial
      <4>2. conn[p] \in Nat /\ conn[p] + 1 >= conn[p]
        BY <1>2
      <4> QED
        BY <1>1, <1>2, <4>1, <4>2 DEF TransportTypes
    <3> QED
      BY <2>1, <3>1, <3>2
  <2> QED
    BY <1>1, <2>1, <2>2, <2>3, OrderShrinks
<1>6. ASSUME NEW p \in Procs, Stop(p) \/ SocketFails(p) \/ SocketClosed(p)
      PROVE  Orderly'
  <2>1. /\ UNCHANGED <<up, conn>>
        /\ queue' = queue \/ queue' = [queue EXCEPT ![p] = <<>>]
        /\ down' = down \/ down' = [down EXCEPT ![ConnOf(p)] = <<>>]
        /\ heard' = heard \/ heard' = [heard EXCEPT ![p] = {}]
    BY <1>6 DEF Stop, SocketFails, SocketClosed, Peer!Disable, peerVars, Ws!Shutdown,
                Ws!Fails, Ws!Closed
  <2>2. /\ \A q \in Procs : heard'[q] = heard[q] \/ heard'[q] = {}
        /\ \A q \in Procs : queue'[q] = queue[q] \/ queue'[q] = <<>>
        /\ \A d \in Conns : down'[d] = down[d] \/ down'[d] = <<>>
    BY <1>1, <2>1 DEF RuntimeTypes, TransportTypes
  <2> QED
    BY <1>1, <1>2, <2>1, <2>2, OrderShrinks
<1>7. ASSUME NEW p \in Procs, NEW t \in Topics, Publish(p, t)
      PROVE  Orderly'
  <2> DEFINE m == [nr |-> published, key |-> keyOf[p], topic |-> t, ts |-> now,
                    via |-> ConnOf(p)]
  <2>1. Ws!Publish(p, m) /\ UNCHANGED <<heard, down>>
    BY <1>7 DEF Publish, Peer!SignMessage
  <2>2. m \in Peer!Message /\ m.nr = published
    <3>1. keyOf[p] \in Keys /\ now \in Nat /\ published \in Nat
      BY GossipMeshAssumption DEF IInv, Counters
    <3>2. ConnOf(p) \in Procs \X Nat
      BY <1>1, ConnType, SameConns
    <3> QED
      BY <3>1, <3>2 DEF Peer!Message
  <2> HIDE DEF m
  <2> QED
    BY <1>1, <2>1, <2>2, ConnType, OrderPublished
<1>8. ASSUME NEW p \in Procs, RoomAccepts(p)
      PROVE  Orderly'
  BY <1>3, <1>8 DEF RoomAccepts, Room!AcceptSocket, wsVars, peerVars
<1>9. ASSUME NEW p \in Procs, SocketOpens(p)
      PROVE  Orderly'
  <2>1. PICK k \in 0 .. Len(queue[p]) : Ws!Opened(p, k)
    <3>1. queue[p] \in Seq(Peer!Message) /\ Len(queue[p]) \in Nat
      BY <1>1, LenProperties DEF TransportTypes
    <3> QED
      BY <1>9, <3>1 DEF SocketOpens
  <2>2. /\ down' = down \/ down' = [down EXCEPT ![ConnOf(p)] = <<>>]
        /\ heard' = heard
    BY <1>9 DEF SocketOpens, peerVars
  <2>3. /\ up' = [up EXCEPT ![ConnOf(p)] = up[ConnOf(p)] \o SubSeq(queue[p], 1, k)]
        /\ queue' = [queue EXCEPT ![p] = <<>>] /\ conn' = conn
    BY <2>1, SameConns DEF Ws!Opened
  <2>4. /\ ConnOf(p) \in Conns /\ up[ConnOf(p)] \in Seq(Peer!Message)
        /\ queue[p] \in Seq(Peer!Message)
    BY <1>1, ConnType DEF TransportTypes
  <2>5. /\ \A c \in Conns : c # ConnOf(p) => up'[c] = up[c]
        /\ NrsOf(up'[ConnOf(p)]) \subseteq NrsOf(up[ConnOf(p)]) \cup NrsOf(queue[p])
    BY <1>1, <2>3, <2>4, NrsDrain DEF TransportTypes
  <2>6. \A d \in Conns : down'[d] = down[d] \/ down'[d] = <<>>
    BY <1>1, <2>2 DEF TransportTypes
  <2> QED
    BY <1>1, <2>2, <2>3, <2>4, <2>5, <2>6, OrderDrains
<1>10. ASSUME NEW c \in Conns, RoomLosesSocket(c)
       PROVE  Orderly'
  <2>1. /\ up' = [up EXCEPT ![c] = <<>>]
        /\ UNCHANGED <<conn, queue, down, heard>>
    BY <1>10 DEF RoomLosesSocket, Room!CloseSocket, peerVars
  <2>2. \A d \in Conns : up'[d] = up[d] \/ up'[d] = <<>>
    BY <1>1, <2>1 DEF TransportTypes
  <2> QED
    BY <1>1, <1>2, <2>1, <2>2, OrderShrinks
<1>11. CASE RoomHibernates
  BY <1>3, <1>11 DEF RoomHibernates, Room!Hibernate, wsVars, peerVars
<1>12. ASSUME NEW c \in Conns, RoomGetsFrame(c)
       PROVE  Orderly'
  BY <1>1, <1>12, OrderFrame
<1>13. ASSUME NEW p \in Procs, PeerGetsFrame(p)
       PROVE  Orderly'
  BY <1>1, <1>13, OrderHeard
<1> QED
  BY <1>4, <1>5, <1>6, <1>7, <1>8, <1>9, <1>10, <1>11, <1>12, <1>13 DEF Next

LEMMA OrderAlways ==
  Spec => []Orderly
<1> QED
  BY OrderHolds, OrderStays, InvariantAlways, PTL DEF Spec

-----------------------------------------------------------------------------
(* Theorems *)

\* Every step of the runtimes, the transports and the relay keeps their state well
\* formed: in particular no queue outgrows QUEUE_MAX, no delay the maximum, no bucket
\* its size, and no list of rejections its count.
THEOREM TypeCorrect ==
  Spec => []TypeOK
<1>1. IInv => TypeOK
  <2> SUFFICES ASSUME IInv
               PROVE  TypeOK
    OBVIOUS
  <2>1. Counters /\ RuntimeTypes /\ TransportTypes /\ RoomTypes
    BY DEF IInv
  <2>2. now \in Nat
    BY <2>1, GossipMeshAssumption DEF Counters
  <2>3. Times(now) \subseteq Seq(0 .. now)
    <3> SUFFICES ASSUME NEW s \in Times(now)
                 PROVE  s \in Seq(0 .. now)
      OBVIOUS
    <3>1. s \in Seq(Nat) /\ Len(s) \in Nat /\ DOMAIN s = 1..Len(s)
      BY LenProperties DEF Times
    <3>2. \A k \in 1..Len(s) : s[k] \in Nat /\ s[k] <= now
      BY <3>1, ElementOfSeq DEF Times
    <3>3. \A k \in 1..Len(s) : s[k] \in 0 .. now
      BY <2>2, <3>2
    <3>4. SubSeq(s, 1, Len(s)) \in Seq(0 .. now)
      BY <3>1, <3>3, SubSeqProperties
    <3> QED
      BY <3>1, <3>4, SubSeqFull
  <2>4. Peer!PeerTypeOK
    <3>1. /\ enabled \in [Procs -> BOOLEAN]
          /\ publishBucket \in [Procs -> Peer!Bucket(RATE_LIMIT_PER_MINUTE)]
          /\ receiveBuckets \in [Procs -> [Peers -> Peer!Bucket(RATE_LIMIT_PER_MINUTE)]]
      BY <2>1, SameRateLimits DEF RuntimeTypes
    <3>2. \A p \in Procs, i \in Peers :
            /\ Len(blocklist[p][i].rejections) < BLOCK_COUNT
            /\ \A t \in Topics : dedupWindow[p][i][t] \in Seq(0 .. now)
      BY <2>1, <2>3 DEF RuntimeTypes
    <3> QED
      BY <3>1, <3>2 DEF Peer!PeerTypeOK
  <2>5. Ws!WsTypeOK
    BY <2>1 DEF TransportTypes, Ws!WsTypeOK
  <2>6. Room!RoomTypeOK
    BY <2>1, SameRateLimits DEF RoomTypes, Room!RoomTypeOK
  <2>7. \A c \in Conns : up[c] \in Seq(Peer!Message) /\ down[c] \in Seq(Peer!Message)
    BY <2>1 DEF TransportTypes
  <2> QED
    BY <2>1, <2>4, <2>5, <2>6, <2>7 DEF TypeOK, Counters
<1> QED
  BY <1>1, InvariantAlways, PTL

\* Whatever the order of open, error and close events, timers and shutdowns, a
\* transport in use has a socket or exactly one reconnect timer: it neither gives up
\* for good nor dials twice.
THEOREM OneWayBack ==
  Spec => []SocketOrTimer
<1>1. IInv => SocketOrTimer
  BY DEF IInv
<1> QED
  BY <1>1, InvariantAlways, PTL

\* What a runtime hears of one process is in the order of publication, but for what
\* an older connection of it still brings after a newer one, and no message is heard
\* twice: across drained queues, drains cut short and reconnects of both ends, for any
\* number of processes and any bound on the queue.
THEOREM OrderKept ==
  Spec => []InOrder
<1>1. IInv /\ Orderly => InOrder
  <2> SUFFICES ASSUME IInv, Orderly, NEW r \in Procs,
                      NEW g \in heard[r], NEW h \in heard[r],
                      g.msg.via[1] = h.msg.via[1], g.nth < h.nth
               PROVE  \/ g.msg.nr < h.msg.nr
                      \/ g.msg.nr # h.msg.nr /\ g.msg.via[2] > h.msg.via[2]
    BY DEF InOrder
  <2>1. g.msg \in Passed /\ h.msg \in Passed /\ g.nth \in Nat
    BY DEF IInv, RuntimeTypes, Passed
  <2>2. PICK p \in Procs, n \in Numbers, k \in Numbers :
          g.msg.via = <<p, n>> /\ h.msg.via = <<p, k>>
    <3>1. g.msg.via \in Conns /\ h.msg.via \in Conns
      BY <2>1 DEF Orderly, SendOrder
    <3>2. PICK p, q \in Procs, n, k \in Numbers :
            g.msg.via = <<p, n>> /\ h.msg.via = <<q, k>>
      <4>1. \A c \in Conns : \E p \in Procs, n \in Numbers : c = <<p, n>>
        BY DEF Conns
      <4> QED
        BY <3>1, <4>1
    <3>3. p = q
      BY <3>2
    <3> QED
      BY <3>2, <3>3
  <2>3. n \in Nat /\ k \in Nat
    BY SameConns
  <2>4. CASE n < k
    <3>1. g.msg.nr \in SentOn(<<p, n>>) /\ h.msg.nr \in SentOn(<<p, k>>)
      BY <2>1, <2>2 DEF SentOn, PassedOn
    <3> QED
      BY <2>4, <3>1 DEF Orderly, SendOrder, Ahead
  <2>5. CASE n = k
    BY <2>2, <2>5 DEF Orderly, HearOrder
  <2>6. CASE n > k
    <3>1. g.msg.nr # h.msg.nr
      <4>1. g # h
        BY <2>1
      <4> QED
        BY <4>1 DEF IInv, OncePerMessage
    <3> QED
      BY <2>2, <2>6, <3>1
  <2> QED
    BY <2>3, <2>4, <2>5, <2>6
<1> QED
  BY <1>1, InvariantAlways, OrderAlways, PTL

\* No sequence of messages, ticks and restarts gets more than DEDUP_MAX messages of a
\* peer on one topic past the duplicate test within any window.
THEOREM WindowBounded ==
  Spec => []DedupBound
<1>1. IInv => DedupBound
  BY DEF IInv
<1> QED
  BY <1>1, InvariantAlways, PTL

\* In no span of time does a runtime hear more of a peer than a full bucket and its
\* gain, and it blocks a peer only for BLOCK_COUNT rejections within BLOCK_WINDOW.
THEOREM LimitsHold ==
  Spec => []LimitsKept
<1>1. IInv => LimitsKept
  <2> SUFFICES ASSUME IInv, NEW p \in Procs, NEW i \in Peers
               PROVE  /\ \A from \in 0 .. now :
                           MINUTE * Cardinality({h \in heard[p] :
                                                   IdOf[h.msg.key] = i /\ h.at >= from})
                             <= RATE_LIMIT_PER_MINUTE * (MINUTE + now - from)
                      /\ IsBlocked(blocklist[p][i], now) =>
                           LET start == blocklist[p][i].until - BLOCK_DURATION
                               times == rejectedAt[p][i]
                           IN  Cardinality({j \in DOMAIN times :
                                              times[j] <= start /\ start - times[j] < BLOCK_WINDOW})
                                 >= BLOCK_COUNT
    BY DEF LimitsKept
  <2>1. RuntimeInv
    BY InvariantParts
  <2>2. now \in Nat /\ RuntimeTypes
    BY <2>1 DEF RuntimeInv
  <2>3. ASSUME NEW from \in 0 .. now
        PROVE  MINUTE * Cardinality(HeardOf(p, i, from))
                 <= RATE_LIMIT_PER_MINUTE * (MINUTE + now - from)
    <3> DEFINE tokens == Refilled(receiveBuckets[p][i], RATE_LIMIT_PER_MINUTE, now).tokens
               paid == MINUTE * Cardinality(HeardOf(p, i, from))
               bound == RATE_LIMIT_PER_MINUTE * (MINUTE + now - from)
    <3>1. paid + tokens <= bound /\ Cardinality(HeardOf(p, i, from)) \in Nat
      BY <2>1, RefilledPays
    <3>2. tokens \in Nat
      BY <2>2, Rates, RefilledBucket DEF RuntimeTypes
    <3>3. paid \in Nat
      BY <3>1, Rates, Products
    <3>4. bound \in Nat
      <4>1. MINUTE + now - from \in Nat
        BY <2>2, Rates
      <4> QED
        BY <4>1, Rates, Products
    <3> HIDE DEF tokens, paid, bound
    <3>5. paid <= bound
      BY <3>1, <3>2, <3>3, <3>4
    <3> QED
      BY <3>5 DEF paid, bound
  <2>4. ASSUME IsBlocked(blocklist[p][i], now)
        PROVE  blocklist[p][i].until # 0
    BY <2>2, <2>4 DEF IsBlocked
  <2> QED
    BY <2>1, <2>3, <2>4 DEF RuntimeInv, BlockExplained, HeardOf
<1> QED
  BY <1>1, InvariantAlways, PTL

\* Until the relay is unloaded, a runtime hears a peer id with one key only, for every
\* assignment of ids to keys, whichever sockets the messages came through.
THEOREM FirstKeyStays ==
  Spec => []OneKeyPerPeer
<1>1. IInv => OneKeyPerPeer
  BY DEF IInv, KeyKnown, OneKeyPerPeer
<1> QED
  BY <1>1, InvariantAlways, PTL

=============================================================================
