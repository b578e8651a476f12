----------------------------- MODULE FrameStream -----------------------------
(***************************************************************************)
(* What the transfer of raw frames over one connection promises: whole     *)
(* frames, in the order in which they were offered, each at most once, and *)
(* none after the first that does not arrive.                              *)
(***************************************************************************)
EXTENDS Naturals, Sequences

CONSTANT Frames
VARIABLES offered, delivered

svars == <<offered, delivered>>

Init == offered = <<>> /\ delivered = <<>>

Offer(f) == offered' = Append(offered, f) /\ UNCHANGED delivered

Deliver ==
    /\ Len(delivered) < Len(offered)
    /\ delivered' = Append(delivered, offered[Len(delivered) + 1])
    /\ UNCHANGED offered

Next == (\E f \in Frames : Offer(f)) \/ Deliver

Spec == Init /\ [][Next]_svars
=============================================================================
