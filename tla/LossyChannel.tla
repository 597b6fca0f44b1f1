---------------------------- MODULE LossyChannel ----------------------------
(***************************************************************************)
(* What the events on their way to one subscriber make up: a queue that    *)
(* takes events at the end and gives them up at the front, in order, none  *)
(* twice, and that may lose an event on the way, but an event the          *)
(* subscriber wants only when a queue's worth of others are ahead of it.   *)
(***************************************************************************)
EXTENDS Naturals, Sequences, SequencesExt

CONSTANTS
  Item,        \* what is sent
  Wanted,      \* the items the subscriber is to get
  Room         \* the length of the subscriber's queue

VARIABLE channel    \* the items on their way, the next to be delivered first

Send == \E item \in Item : channel' = Append(channel, item)

Deliver == channel # << >> /\ channel' = Tail(channel)

Lose ==
  \E i \in 1..Len(channel) :
    /\ channel[i] \in Wanted => i > Room
    /\ channel' = RemoveAt(channel, i)

Spec == channel = << >> /\ [][Send \/ Deliver \/ Lose]_channel
=============================================================================
