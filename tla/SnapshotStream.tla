--------------------------- MODULE SnapshotStream ---------------------------
(***************************************************************************)
(* What a delta session promises over a channel that keeps order and loses *)
(* nothing: it is as good as sending every state whole.  The consumer's    *)
(* replica goes through exactly the states the producer published, in      *)
(* order, skipping none.                                                   *)
(***************************************************************************)
EXTENDS Sequences

CONSTANTS
    Contents,  \* contents a state may have
    Nothing    \* what the replica holds before it has received any

VARIABLES
    current,   \* the producer's state
    inflight,  \* published and not yet received
    replica    \* the consumer's state

vars == <<current, inflight, replica>>

Init ==
    /\ current \in Contents
    /\ inflight = <<current>>
    /\ replica = Nothing

Publish(c) ==
    /\ current' = c
    /\ inflight' = Append(inflight, c)
    /\ UNCHANGED replica

Receive ==
    /\ inflight # << >>
    /\ replica' = Head(inflight)
    /\ inflight' = Tail(inflight)
    /\ UNCHANGED current

Next == Receive \/ \E c \in Contents : Publish(c)

Spec == Init /\ [][Next]_vars
=============================================================================
