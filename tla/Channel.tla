------------------------------ MODULE Channel -------------------------------
(* What a bounded buffer promises: a queue of at most Capacity items, each *)
(* sent once and received in the order of sending.                         *)
EXTENDS Naturals, Sequences

CONSTANTS Capacity, ItemCount

VARIABLES inFlight, sent, received

channel == <<inFlight, sent, received>>

Send ==
    /\ sent < ItemCount /\ Len(inFlight) < Capacity
    /\ inFlight' = Append(inFlight, sent)
    /\ sent' = sent + 1
    /\ UNCHANGED received

Receive ==
    /\ inFlight # <<>>
    /\ received' = Append(received, Head(inFlight))
    /\ inFlight' = Tail(inFlight)
    /\ UNCHANGED sent

ChannelInit == inFlight = <<>> /\ sent = 0 /\ received = <<>>
ChannelSpec == ChannelInit /\ [][Send \/ Receive]_channel
=============================================================================
