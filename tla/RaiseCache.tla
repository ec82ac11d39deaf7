------------------------------- MODULE RaiseCache -------------------------------
(***************************************************************************)
(* The frame cache of the Python SDK,                                      *)
(* python/src/inariwatch_capture/monitoring.py: a RAISE callback stores    *)
(* the raising frame under id(exception), capture_exception reads the      *)
(* frames.  An entry leaves the cache only when newer ones push it out, so *)
(* an id the interpreter uses again finds the frames of its last owner.    *)
(***************************************************************************)
EXTENDS Naturals, Sequences, SequencesExt, FiniteSets

CONSTANTS
  Errors,       \* exception objects
  Ids,          \* what id() returns
  MAX_CACHED,   \* _MAX_CACHED
  MaxRaises,    \* bound: raises of one exception
  Gone    \* the id of an exception that is not there

ASSUME RaiseCacheAssumption ==
  MAX_CACHED \in Nat \ {0} /\ MaxRaises \in Nat /\ Gone \notin Ids

VARIABLES
  registered,   \* _registered
  cache,        \* _cache, in the order of its insertions
  idOfError,
  raises,       \* how often each has been raised since registration
  heirs,        \* history: exceptions that got an id with an entry in the cache
  order         \* history: the raises since registration

cacheVars == <<registered, cache, idOfError, raises, heirs, order>>

Frames == Errors \X (1..MaxRaises)

CacheTypeOK ==
  /\ registered \in BOOLEAN
  /\ cache \in Seq([id : Ids, frames : Seq(Frames)]) /\ Len(cache) <= MAX_CACHED
  /\ IsInjective([n \in DOMAIN cache |-> cache[n].id])
  /\ idOfError \in [Errors -> Ids \cup {Gone}]
  /\ raises \in [Errors -> 0..MaxRaises]
  /\ heirs \subseteq Errors
  /\ order \in Seq(Errors)

CacheInit ==
  /\ registered = FALSE /\ cache = <<>> /\ heirs = {} /\ order = <<>>
  /\ idOfError = [x \in Errors |-> Gone]
  /\ raises = [x \in Errors |-> 0]

Cached == {cache[n].id : n \in DOMAIN cache}
Living == {x \in Errors : idOfError[x] # Gone}

RegisterMonitoring ==
  /\ ~registered
  /\ registered' = TRUE
  /\ UNCHANGED <<cache, idOfError, raises, heirs, order>>

UnregisterMonitoring ==
  /\ registered
  /\ registered' = FALSE
  /\ cache' = <<>> /\ heirs' = {} /\ order' = <<>>
  /\ raises' = [x \in Errors |-> 0]
  /\ UNCHANGED idOfError

\* A mutant of Room: the bound is tested after the entry should have gone.
RoomTooLate == IF Len(cache) > MAX_CACHED THEN Tail(cache) ELSE cache

\* The first key of a dict is the oldest.
Room == IF Len(cache) >= MAX_CACHED THEN Tail(cache) ELSE cache

\* _on_raise
Stored(id, frame) ==
  cache' = IF id \in Cached
           THEN [n \in DOMAIN cache |->
                   IF cache[n].id = id THEN [cache[n] EXCEPT !.frames = Append(@, frame)]
                   ELSE cache[n]]
           ELSE Append(Room, [id |-> id, frames |-> <<frame>>])

\* An exception is created where it is first raised.
CreateError(x) ==
  /\ x \notin Living /\ raises[x] = 0
  /\ \E id \in Ids \ {idOfError[y] : y \in Living} :
       /\ idOfError' = [idOfError EXCEPT ![x] = id]
       /\ heirs' = IF id \in Cached THEN heirs \cup {x} ELSE heirs
  /\ UNCHANGED <<registered, cache, raises, order>>

RaiseError(x) ==
  /\ registered
  /\ x \in Living /\ raises[x] < MaxRaises
  /\ raises' = [raises EXCEPT ![x] = @ + 1]
  /\ order' = Append(order, x)
  /\ Stored(idOfError[x], <<x, raises[x] + 1>>)
  /\ UNCHANGED <<registered, idOfError, heirs>>

\* Nothing tells the cache.
CollectError(x) ==
  /\ x \in Living
  /\ idOfError' = [idOfError EXCEPT ![x] = Gone]
  /\ UNCHANGED <<registered, cache, raises, heirs, order>>

CacheNext ==
  \/ RegisterMonitoring \/ UnregisterMonitoring
  \/ \E x \in Errors : CreateError(x) \/ RaiseError(x) \/ CollectError(x)

GetFrameLocalsFor(x) ==
  IF idOfError[x] \in Cached
  THEN (CHOOSE e \in Range(cache) : e.id = idOfError[x]).frames
  ELSE <<>>

\* client.py: without frames of the cache, those of the traceback.
WalkTraceback(x) == [n \in 1..raises[x] |-> <<x, n>>]
ForensicPayload(x) ==
  IF GetFrameLocalsFor(x) # <<>> THEN [source |-> "python-pep669", frames |-> GetFrameLocalsFor(x)]
  ELSE [source |-> "python-traceback", frames |-> WalkTraceback(x)]

-----------------------------------------------------------------------------
(* Properties *)

\* The frames read for an exception are its own and end with its last raise,
\* none of the later ones missing; they are gone only after _MAX_CACHED others
\* were raised since its first.  Unless its id is that of an entry left in the
\* cache (monitoring.py:131-147, 150-161).  The event then has the traceback.
FramesAreItsOwn ==
  \A x \in Living \ heirs :
    LET frames == GetFrameLocalsFor(x)
        told == ForensicPayload(x).frames
        first == CHOOSE n \in DOMAIN order :
                   order[n] = x /\ \A m \in 1..(n - 1) : order[m] # x
    IN  /\ raises[x] > 0 => Last(told) = <<x, raises[x]>>
        /\ frames = [n \in 1..Len(frames) |-> <<x, raises[x] - Len(frames) + n>>]
        /\ raises[x] > Len(frames) =>
             Cardinality(Range(SubSeq(order, first, Len(order))) \ {x}) >= MAX_CACHED

=============================================================================
