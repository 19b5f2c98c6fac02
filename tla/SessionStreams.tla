--------------------------- MODULE SessionStreams ---------------------------
(***************************************************************************)
(* What the output queues of a tunnel promise, without queues, locks,      *)
(* waiters or round-robin lists: one bounded FIFO stream per session key.  *)
(* Items enter only under the generation that is current, leave in the     *)
(* order they came in, and are dropped only all together, by a reset.      *)
(***************************************************************************)
EXTENDS Naturals, Sequences

CONSTANTS Keys, Items, Capacity, Resetters

VARIABLES
  stream,   \* session key -> the items on their way to the server
  current,  \* the generation
  resetting \* resetters that began a generation and have not dropped the items

svars == <<stream, current, resetting>>

SInit ==
  /\ stream = [k \in Keys |-> <<>>]
  /\ current = 1
  /\ resetting = {}

Put(k, it) ==
  /\ it.gen = current
  /\ Len(stream[k]) < Capacity
  /\ stream' = [stream EXCEPT ![k] = Append(@, it)]
  /\ UNCHANGED <<current, resetting>>

Take(k) ==
  /\ stream[k] # <<>>
  /\ stream' = [stream EXCEPT ![k] = Tail(@)]
  /\ UNCHANGED <<current, resetting>>

NewGeneration(t) ==
  /\ t \notin resetting
  /\ current' = current + 1
  /\ resetting' = resetting \cup {t}
  /\ UNCHANGED stream

Drop(t) ==
  /\ t \in resetting
  /\ stream' = [k \in Keys |-> <<>>]
  /\ resetting' = resetting \ {t}
  /\ UNCHANGED current

SNext ==
  \/ \E k \in Keys, it \in Items : Put(k, it)
  \/ \E k \in Keys : Take(k)
  \/ \E t \in Resetters : NewGeneration(t) \/ Drop(t)

SSpec == SInit /\ [][SNext]_svars
=============================================================================
