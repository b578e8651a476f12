---------------------------- MODULE FrameDelivery ----------------------------
(***************************************************************************)
(* What the resumable session promises for a frame, with no files, no      *)
(* connection and no calls: a frame becomes pending, is handed to the      *)
(* network any number of times while it is pending, is made durable by the *)
(* server only after that, and stops to be pending only after that.  A     *)
(* frame that is forgotten and never made durable is lost: this            *)
(* specification allows it, because the code does.                         *)
(***************************************************************************)
CONSTANT Frames
VARIABLES pending, handed, saved

dvars == <<pending, handed, saved>>

Init == pending = {} /\ handed = {} /\ saved = {}

Accept(f) == pending' = pending \cup {f} /\ UNCHANGED <<handed, saved>>

HandOver(f) ==
    /\ f \in pending
    /\ handed' = handed \cup {f}
    /\ UNCHANGED <<pending, saved>>

Save(f) ==
    /\ f \in handed
    /\ saved' = saved \cup {f}
    /\ UNCHANGED <<pending, handed>>

Forget(f) ==
    /\ f \in pending \cap handed
    /\ pending' = pending \ {f}
    /\ UNCHANGED <<handed, saved>>

Next == \E f \in Frames : Accept(f) \/ HandOver(f) \/ Save(f) \/ Forget(f)

Spec == Init /\ [][Next]_dvars
=============================================================================
