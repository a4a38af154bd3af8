---------------------------- MODULE EventChannel ----------------------------
(***************************************************************************)
(* What the HTTP log promises of the way from a finished request to the    *)
(* sink: a first-in first-out channel that holds at most Capacity events,  *)
(* hands every event over at most once and in the order of acceptance, and *)
(* turns an event away only when it is full.  One place may be taken by    *)
(* the end marker of an orderly shutdown.                                  *)
(***************************************************************************)
EXTENDS Integers, Sequences

CONSTANTS Events,    \* one event per request
          Capacity   \* places in the channel; 0 or less: no limit

VARIABLES accepted,  \* the events taken in, in that order
          delivered, \* the events handed over, in that order
          dropped    \* the events turned away

channelVars == <<accepted, delivered, dropped>>

Waiting == Len(accepted) - Len(delivered)

ChannelInit == accepted = <<>> /\ delivered = <<>> /\ dropped = {}

IsNew(e) == e \notin dropped /\ \A i \in 1..Len(accepted) : accepted[i] # e

Accept(e) == /\ IsNew(e)
             /\ Capacity > 0 => Waiting < Capacity
             /\ accepted' = Append(accepted, e)
             /\ UNCHANGED <<delivered, dropped>>

TurnAway(e) == /\ IsNew(e)
               /\ Capacity > 0 /\ Waiting + 1 >= Capacity
               /\ dropped' = dropped \cup {e}
               /\ UNCHANGED <<accepted, delivered>>

HandOverUpTo(k) == /\ delivered' = SubSeq(accepted, 1, k)
                   /\ UNCHANGED <<accepted, dropped>>

ChannelNext == \/ \E e \in Events : Accept(e) \/ TurnAway(e)
               \/ \E k \in (Len(delivered) + 1)..Len(accepted) : HandOverUpTo(k)

ChannelSpec == ChannelInit /\ [][ChannelNext]_channelVars
=============================================================================
