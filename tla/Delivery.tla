------------------------------ MODULE Delivery ------------------------------
(***************************************************************************)
(* What the push side promises of the cycles it is handed, as sender.go's   *)
(* and README's own words have it and without a word on how: every batch is *)
(* delivered at least once, or dropped and counted; the receiver sees them  *)
(* oldest first; and only a receiver's refusal or a full buffer drops one,  *)
(* the oldest.                                                              *)
(***************************************************************************)
EXTENDS Naturals, Sequences

CONSTANT Capacity

VARIABLES
    pending,   \* batches neither delivered nor dropped, the oldest first
    begun,     \* the last cycle handed over
    stored,    \* the last batch the receiver stored
    evicted,   \* batches a full buffer dropped
    refused    \* batches dropped for the receiver's refusal

vars == <<pending, begun, stored, evicted, refused>>

Init == pending = <<>> /\ begun = 0 /\ stored = 0 /\ evicted = 0 /\ refused = 0

\* A cycle is handed over; one that collected nothing makes no batch.
Begin ==
    /\ Len(pending) <= Capacity
    /\ begun' = begun + 1 /\ pending' \in {Append(pending, begun + 1), pending}
    /\ UNCHANGED <<stored, evicted, refused>>

\* Only the oldest is ever on its way, as often as it takes.
Store ==
    /\ pending # <<>> /\ stored' = Head(pending)
    /\ UNCHANGED <<pending, begun, evicted, refused>>

Deliver ==
    /\ pending # <<>> /\ stored = Head(pending)
    /\ pending' = Tail(pending)
    /\ UNCHANGED <<begun, stored, evicted, refused>>

Evict ==
    /\ Len(pending) > Capacity
    /\ pending' = Tail(pending) /\ evicted' = evicted + 1
    /\ UNCHANGED <<begun, stored, refused>>

Refuse ==
    /\ pending # <<>>
    /\ pending' = Tail(pending) /\ refused' = refused + 1
    /\ UNCHANGED <<begun, stored, evicted>>

Next == Begin \/ Store \/ Deliver \/ Evict \/ Refuse

Spec == Init /\ [][Next]_vars
=============================================================================
