---------------------------- MODULE EventDelivery ----------------------------
(***************************************************************************)
(* What an SDK transport promises about the events it accepts, whatever    *)
(* the language: an accepted event stays with the SDK until the endpoint   *)
(* answers for it, and the SDK may give an event up only for one of three  *)
(* reasons -- it cannot be serialised, an event of the same fingerprint is *)
(* still with the SDK, or the SDK is left holding a full retry buffer.  An *)
(* SDK that does not catch every exception of a request may lose events    *)
(* with the thread that had them; the others keep "lost" empty.            *)
(*                                                                         *)
(* The transports (NodeTransport, ...) implement this specification under  *)
(* a mapping that forgets where in the SDK an event is kept.               *)
(***************************************************************************)
EXTENDS Naturals, FiniteSets

CONSTANTS
  Events,           \* the captured events, each an object of its own
  FingerprintOf,    \* the fingerprint of each event
  Unserialisable,   \* the events that cannot be turned into a request body
  Capacity          \* the number of events a full retry buffer holds

VARIABLES
  held,             \* events the SDK has accepted and not settled
  delivered,        \* events the endpoint answered for good
  dropped,          \* events the SDK gave up
  lost              \* events that went with an exception

vars == <<held, delivered, dropped, lost>>

TypeOK ==
  /\ held \subseteq Events
  /\ delivered \subseteq Events
  /\ dropped \subseteq Events
  /\ lost \subseteq Events

Init ==
  /\ held = {}
  /\ delivered = {}
  /\ dropped = {}
  /\ lost = {}

Accept(e) ==
  /\ e \notin held \cup delivered \cup dropped \cup lost
  /\ held' = held \cup {e}
  /\ UNCHANGED <<delivered, dropped, lost>>

Deliver(e) ==
  /\ e \in held
  /\ held' = held \ {e}
  /\ delivered' = delivered \cup {e}
  /\ UNCHANGED <<dropped, lost>>

\* The reasons for which event e may be given up when the SDK keeps "kept".
MayDrop(e, kept) ==
  \/ e \in Unserialisable
  \/ \E k \in kept : FingerprintOf[k] = FingerprintOf[e]
  \/ Cardinality(kept) >= Capacity

Drop(S) ==
  /\ S \subseteq held
  /\ \A e \in S : MayDrop(e, held \ S)
  /\ held' = held \ S
  /\ dropped' = dropped \cup S
  /\ UNCHANGED <<delivered, lost>>

\* An SDK that already holds a full load may turn an event away.
Refuse(e) ==
  /\ e \notin held \cup delivered \cup dropped \cup lost
  /\ Cardinality(held) >= Capacity
  /\ dropped' = dropped \cup {e}
  /\ UNCHANGED <<held, delivered, lost>>

\* An exception takes what one thread had in hand: no more than a buffer of events.
Lose(S) ==
  /\ S \subseteq held
  /\ Cardinality(S) <= Capacity
  /\ held' = held \ S
  /\ lost' = lost \cup S
  /\ UNCHANGED <<delivered, dropped>>

\* An event that was given up happens again.
Recur(e) ==
  /\ e \in dropped
  /\ dropped' = dropped \ {e}
  /\ UNCHANGED <<held, delivered, lost>>

Next ==
  \/ \E e \in Events : Accept(e)
  \/ \E e \in Events : Refuse(e)
  \/ \E e \in Events : Deliver(e)
  \/ \E S \in SUBSET Events : Drop(S)
  \/ \E S \in SUBSET Events : Lose(S)
  \/ \E e \in Events : Recur(e)

Spec == Init /\ [][Next]_vars

=============================================================================
