------------------------- MODULE SampleAccumulation -------------------------
(***************************************************************************)
(* The accumulator's picture (reconstruction_core.cpp): addBilinearSample()*)
(* spreads a sample over the four pixels around it, normalizeByWeight()    *)
(* divides by the weights, and fillHolesByInpaint() takes as holes the     *)
(* pixels without weight.  The workers deliver the samples in any order.   *)
(*                                                                         *)
(* Positions are in units of 1 / Unit of a pixel, so that a weight is a    *)
(* natural number of Unit * Unit-ths and a value stays a natural number:   *)
(* the sums of the code, without their rounding.  The smallest weight is   *)
(* then above the 1e-6 that the code takes for none.                       *)
(***************************************************************************)
EXTENDS Integers, FiniteSets, FiniteSetsExt, Functions

CONSTANTS Width, Height,
          Unit,      \* fractions of a pixel
          Values,    \* intensities
          Samples    \* the samples, by their numbers

AccumulationAssumption ==
    /\ {Width, Height, Unit} \subseteq Nat \ {0} /\ Values \subseteq Nat
    /\ IsFiniteSet(Samples)

VARIABLES sample,    \* where and how bright each sample is
          added,     \* the samples that the accumulator has popped
          accum, weight,
          recon,     \* after normalizeByWeight(): sum and weight of a pixel
          holes      \* the mask of fillHolesByInpaint()

vars == <<sample, added, accum, weight, recon, holes>>

Pixels == (0 .. Width - 1) \X (0 .. Height - 1)

(* A stage may take a spot up to a pixel over the edge of the picture.     *)
Positions == [x : -Unit .. Width * Unit, y : -Unit .. Height * Unit, value : Values]

(* std::floor, in pixels.                                                  *)
Floor(x) == x \div Unit

(* The four pixels, each with its weight.                                  *)
Corners(s) ==
    LET x0 == Floor(s.x)  dx == s.x - x0 * Unit
        y0 == Floor(s.y)  dy == s.y - y0 * Unit
    IN  { [p |-> <<x0, y0>>,         w |-> (Unit - dx) * (Unit - dy)],
          [p |-> <<x0 + 1, y0>>,     w |-> dx * (Unit - dy)],
          [p |-> <<x0, y0 + 1>>,     w |-> (Unit - dx) * dy],
          [p |-> <<x0 + 1, y0 + 1>>, w |-> dx * dy] }

(* Mutant: what falls over the edge goes to the pixel at the edge.         *)
WeightAtClamped(s, p) ==
    LET Clamp(q) == << Max({0, Min({q[1], Width - 1})}), Max({0, Min({q[2], Height - 1})}) >>
    IN  MapThenSumSet(LAMBDA c : IF Clamp(c.p) = p THEN c.w ELSE 0, Corners(s))

(* What addOne() gives to pixel p; corners outside the picture are skipped.*)
WeightAt(s, p) ==
    SumFunction([c \in Corners(s) |-> IF c.p = p THEN c.w ELSE 0])

InitWith(samples) ==
    /\ sample = samples
    /\ added = {}
    /\ accum = [p \in Pixels |-> 0] /\ weight = [p \in Pixels |-> 0]
    /\ recon = [p \in Pixels |-> <<0, 1>>] /\ holes = {}

Init == \E samples \in [Samples -> Positions] : InitWith(samples)

(* Mutant: a pixel keeps the last value instead of the sum.                *)
AddSampleOver(i) ==
    /\ i \notin added /\ added' = added \cup {i}
    /\ accum' = [p \in Pixels |->
                   IF WeightAt(sample[i], p) = 0 THEN accum[p]
                   ELSE sample[i].value * WeightAt(sample[i], p)]
    /\ weight' = [p \in Pixels |-> weight[p] + WeightAt(sample[i], p)]
    /\ UNCHANGED <<sample, recon, holes>>

AddBilinearSample(i) ==
    /\ i \notin added /\ added' = added \cup {i}
    /\ accum' = [p \in Pixels |->
                   accum[p] + sample[i].value * WeightAt(sample[i], p)]
    /\ weight' = [p \in Pixels |-> weight[p] + WeightAt(sample[i], p)]
    /\ UNCHANGED <<sample, recon, holes>>

(* normalizeByWeight() and the mask, once the accumulator has ended.       *)
Normalize ==
    /\ added = Samples
    /\ recon' = [p \in Pixels |->
                   IF weight[p] > 0 THEN <<accum[p], weight[p]>> ELSE <<0, 1>>]
    /\ holes' = {p \in Pixels : weight[p] = 0}
    /\ UNCHANGED <<sample, added, accum, weight>>

Next == (\E i \in Samples : AddBilinearSample(i)) \/ Normalize

Spec == Init /\ [][Next]_vars

-----------------------------------------------------------------------------
TypeOK ==
    /\ sample \in [Samples -> Positions] /\ added \subseteq Samples
    /\ accum \in [Pixels -> Nat]
    /\ weight \in [Pixels -> 0 .. Cardinality(Samples) * Unit * Unit]
    /\ recon \in [Pixels -> Nat \X (Nat \ {0})] /\ holes \subseteq Pixels

(* The weight of a sample falls off linearly with the distance and is zero *)
(* a pixel away, along both axes.                                          *)
Tent(d) == Max({0, Unit - (IF d < 0 THEN -d ELSE d)})
TentWeight(s, p) == Tent(s.x - p[1] * Unit) * Tent(s.y - p[2] * Unit)

(* The picture is the sum of what each sample gives by its distance alone: *)
(* it does not depend on the order in which the workers delivered, on the  *)
(* side of the pixel or on the edge of the picture that a sample is at     *)
(* (reconstruction_core.cpp:86-104).                                       *)
PictureIsTentSum ==
    \A p \in Pixels :
        LET tents == [i \in Samples |-> TentWeight(sample[i], p)]
            parts == [i \in Samples |-> sample[i].value * tents[i]]
        IN  /\ weight[p] = SumFunctionOnSet(tents, added)
            /\ accum[p] = SumFunctionOnSet(parts, added)

(* A pixel that is not a hole lies between the values of the samples that  *)
(* are less than a pixel away, and a hole has none: no pixel is brighter   *)
(* or darker than what was measured around it                              *)
(* (reconstruction_core.cpp:106-115, 122-127).                             *)
MeanOfNeighbours ==
    holes # {} \/ recon # [p \in Pixels |-> <<0, 1>>] =>
        \A p \in Pixels :
            LET near == {sample[i].value : i \in
                            {j \in Samples : TentWeight(sample[j], p) > 0}}
            IN  IF p \in holes THEN near = {}
                ELSE /\ near # {}
                     /\ Min(near) * recon[p][2] <= recon[p][1]
                     /\ recon[p][1] <= Max(near) * recon[p][2]

(* The picture is what the samples make of it, before and after the division*)
(* by the weights (reconstruction_core.cpp:86-127).                       *)
PictureCorrect == TypeOK /\ PictureIsTentSum /\ MeanOfNeighbours
=============================================================================
