------------------------------ MODULE ScanPath ------------------------------
(***************************************************************************)
(* opencv_demo.cc: from a binary image to the path of a laser.  main()     *)
(* splits the foreground into connected regions, drops the small ones,     *)
(* orders the others by nearest neighbour and lays a snake over the        *)
(* bounding box of each.                                                   *)
(*                                                                         *)
(* An image is the set of its foreground pixels, a pixel is <<x, y>>, a    *)
(* region the set of its pixels.  OpenCV numbers the regions in an order   *)
(* of its own, so that any may be the first, and any of several at the     *)
(* same distance the nearest.  Reading, scaling, thresholding and display  *)
(* are left out: every binary image is an input.                           *)
(***************************************************************************)
EXTENDS Integers, Sequences, FiniteSets, FiniteSetsExt, SequencesExt

CONSTANTS Width, Height,
          MinArea   \* 10 in the code

ScanAssumption == {Width, Height, MinArea} \subseteq Nat \ {0}

VARIABLES image,     \* binary
          regions,   \* what extractRegions() returns
          ordered,   \* what planRegionOrder() has put in order so far
          fullPath,  \* the points of the path so far
          scanned,   \* the number of ordered regions that are in the path
          pc

vars == <<image, regions, ordered, fullPath, scanned, pc>>

Pixels == (0 .. Width - 1) \X (0 .. Height - 1)
Points == [x : 0 .. Width - 1, y : 0 .. Height - 1, laserOn : BOOLEAN]

Distance(i, j) == IF i < j THEN j - i ELSE i - j
Touch(p, q) == Distance(p[1], q[1]) <= 1 /\ Distance(p[2], q[2]) <= 1

(* The 8-connected component of p: p, grown as often as there are pixels.  *)
Component(p) ==
    LET grown[n \in 0 .. Width * Height] ==
            IF n = 0 THEN {p}
            ELSE LET before == grown[n - 1]
                 IN  {q \in image : \E r \in before : Touch(q, r)}
    IN  grown[Width * Height]

Components == {Component(p) : p \in image}

(* The bounding box of a region.                                           *)
Xs(region) == {p[1] : p \in region}
Ys(region) == {p[2] : p \in region}
Left(region) == Min(Xs(region))
Right(region) == Max(Xs(region))
Top(region) == Min(Ys(region))
Bottom(region) == Max(Ys(region))

(* Centroids are quotients with the area as denominator: the squared       *)
(* distance of two of them, times the square of both areas.                *)
SumX(region) == MapThenSumSet(LAMBDA p : p[1], region)
SumY(region) == MapThenSumSet(LAMBDA p : p[2], region)
Area(region) == Cardinality(region)
SquaredGap(r, s) ==
    LET dx == SumX(r) * Area(s) - SumX(s) * Area(r)
        dy == SumY(r) * Area(s) - SumY(s) * Area(r)
    IN  dx * dx + dy * dy

Nearer(r, s, from) ==
    SquaredGap(r, from) * Area(s) * Area(s) < SquaredGap(s, from) * Area(r) * Area(r)

(* A row of the snake: even rows of the box to the right, odd ones back.   *)
SnakeRow(region, y) ==
    [i \in 1 .. Right(region) - Left(region) + 1 |->
        LET x == IF (y - Top(region)) % 2 = 0 THEN Left(region) + i - 1
                                              ELSE Right(region) - i + 1
        IN  [x |-> x, y |-> y, laserOn |-> <<x, y>> \in image]]

(* Mutant: the last row of the box is left out.                            *)
SnakePathShort(region) ==
    FlattenSeq([j \in 1 .. Bottom(region) - Top(region) |->
                    SnakeRow(region, Top(region) + j - 1)])

(* generateSnakePathForRegion(): all of the bounding box, and the laser on *)
(* wherever the image is foreground.                                       *)
SnakePath(region) ==
    FlattenSeq([j \in 1 .. Bottom(region) - Top(region) + 1 |->
                    SnakeRow(region, Top(region) + j - 1)])

InitWith(binary) ==
    /\ image = binary
    /\ regions = {} /\ ordered = <<>> /\ fullPath = <<>> /\ scanned = 0
    /\ pc = "extract"

Init == \E binary \in SUBSET Pixels : InitWith(binary)

(* extractRegions(): the noise goes from the list, not from the image.     *)
ExtractRegions ==
    /\ pc = "extract"
    /\ regions' = {r \in Components : Area(r) >= MinArea}
    /\ pc' = "plan"
    /\ UNCHANGED <<image, ordered, fullPath, scanned>>

Unused == regions \ ToSet(ordered)

FirstRegion ==
    /\ pc = "plan" /\ ordered = <<>>
    /\ \E r \in regions : ordered' = <<r>>
    /\ UNCHANGED <<image, regions, fullPath, scanned, pc>>

(* Mutant: used[] is not consulted for the region just visited.            *)
NearestOfAll ==
    /\ pc = "plan" /\ ordered # <<>> /\ Unused # {}
    /\ \E r \in regions :
         /\ ~ \E s \in regions : Nearer(s, r, Last(ordered))
         /\ ordered' = Append(ordered, r)
    /\ UNCHANGED <<image, regions, fullPath, scanned, pc>>

NearestRegion ==
    /\ pc = "plan" /\ ordered # <<>> /\ Unused # {}
    /\ \E r \in Unused :
         /\ ~ \E s \in Unused : Nearer(s, r, Last(ordered))
         /\ ordered' = Append(ordered, r)
    /\ UNCHANGED <<image, regions, fullPath, scanned, pc>>

Planned ==
    /\ pc = "plan" /\ Unused = {} /\ pc' = "path"
    /\ UNCHANGED <<image, regions, ordered, fullPath, scanned>>

(* Mutant: no jump point.                                                  *)
JumpNowhere(path) == <<>>

(* The jump point: the first point of the next region, with the laser off. *)
Jump(path) ==
    IF fullPath = <<>> \/ path = <<>> THEN <<>>
    ELSE << [Head(path) EXCEPT !.laserOn = FALSE] >>

AppendRegion ==
    /\ pc = "path" /\ scanned < Len(ordered)
    /\ LET path == SnakePath(ordered[scanned + 1])
       IN  fullPath' = fullPath \o Jump(path) \o path
    /\ scanned' = scanned + 1
    /\ UNCHANGED <<image, regions, ordered, pc>>

Finished ==
    /\ pc = "path" /\ scanned = Len(ordered) /\ pc' = "done"
    /\ UNCHANGED <<image, regions, ordered, fullPath, scanned>>

Next == ExtractRegions \/ FirstRegion \/ NearestRegion \/ Planned
        \/ AppendRegion \/ Finished

Spec == Init /\ [][Next]_vars

-----------------------------------------------------------------------------
TypeOK ==
    /\ image \subseteq Pixels /\ regions \subseteq SUBSET image
    /\ ordered \in Seq(regions) /\ Len(ordered) <= Cardinality(regions)
    /\ fullPath \in Seq(Points) /\ scanned \in 0 .. Len(ordered)
    /\ pc \in {"extract", "plan", "path", "done"}

Lit == {i \in DOMAIN fullPath : fullPath[i].laserOn}
At(i) == <<fullPath[i].x, fullPath[i].y>>

(* The finished path exposes every pixel of every region that was kept,    *)
(* whatever the shape of the region and the parity of its rows (lines      *)
(* 91-111, 143-153).                                                       *)
KeptPixelsExposed ==
    pc = "done" => UNION regions \subseteq {At(i) : i \in Lit}

(* The laser is never on during a move: a point with the laser on is next  *)
(* to, or the same as, the point before it, within a snake and from one    *)
(* region to the next (lines 95-107, 146-151).                             *)
NoLightOnTheWay ==
    \A i \in Lit : i > 1 => Touch(At(i - 1), At(i))

(* Every region is visited once (lines 67-85).                             *)
VisitsEachOnce ==
    IsInjective(ordered) /\ (pc = "done" => ToSet(ordered) = regions)

(* The path exposes what it should, once, and nothing on its way          *)
(* (opencv_demo.cc:56-156).                                               *)
PathCorrect == TypeOK /\ KeptPixelsExposed /\ NoLightOnTheWay /\ VisitsEachOnce
=============================================================================
