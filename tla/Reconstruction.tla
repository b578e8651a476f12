---------------------------- MODULE Reconstruction ----------------------------
(***************************************************************************)
(* What the two reconstruction programs promise of their pipeline,         *)
(* whatever threads and queues it is made of: frames arrive one after the  *)
(* other, each usable one is added to the image once, in any order, and    *)
(* the image is used when nothing that arrived is missing from it.         *)
(***************************************************************************)
EXTENDS Naturals

CONSTANT MaxFrames      \* bound on the frames of a scan

VARIABLES undecodable,  \* frames that contribute nothing
          arrived,      \* frames 1 .. arrived have been read
          image,        \* how often each frame was added to the image
          used          \* main() has gone on to compute the image

rvars == <<undecodable, arrived, image, used>>

Usable == (1 .. arrived) \ undecodable

RInit ==
    /\ undecodable \subseteq 1 .. MaxFrames
    /\ arrived = 0 /\ image = [f \in 1 .. MaxFrames |-> 0] /\ used = FALSE

Arrive ==
    /\ ~used /\ arrived < MaxFrames
    /\ arrived' = arrived + 1 /\ UNCHANGED <<image, used>>

Add(f) ==
    /\ ~used /\ f \in Usable /\ image[f] = 0
    /\ image' = [image EXCEPT ![f] = 1] /\ UNCHANGED <<arrived, used>>

Use ==
    /\ ~used /\ \A f \in Usable : image[f] = 1
    /\ used' = TRUE /\ UNCHANGED <<arrived, image>>

RNext == /\ Arrive \/ Use \/ \E f \in 1 .. MaxFrames : Add(f)
         /\ UNCHANGED undecodable

RSpec == RInit /\ [][RNext]_rvars
=============================================================================
