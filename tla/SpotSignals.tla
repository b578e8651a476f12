----------------------------- MODULE SpotSignals -----------------------------
(***************************************************************************)
(* What a worker of the reconstruction does with one frame after another:  *)
(* the background from the border (reconstruction_core.cpp), background    *)
(* removal and blur on the GPU (cuda_kernels.cu) in buffers that it keeps  *)
(* from frame to frame (main.cpp:136-146), and the mean over the circle of *)
(* each spot.                                                              *)
(*                                                                         *)
(* A kernel is a grid of blocks that the GPU runs in any order; a thread   *)
(* writes one pixel at most.  Device buffers are linear, as in the code.   *)
(* Values are natural numbers, times 16 after the blur, whose weights are  *)
(* sixteenths, and a mean is a pair of sum and count: the model has no     *)
(* rounding.  The buffers have the size of the output, which a frame need  *)
(* not have; of a larger one the copy takes the first bytes.               *)
(***************************************************************************)
EXTENDS Integers, Sequences, FiniteSets, FiniteSetsExt, Functions

CONSTANTS Width, Height,            \* of the output: 512 in the code
          FrameWidth, FrameHeight,  \* of a frame
          BlockSize,    \* 16 in the code
          BorderWidth,  \* 20 in the code
          Radius,       \* of the spots, in pixels
          Spots,        \* their centres, as pixels
          MaxValue,     \* of the pixels of the first frame
          Frames        \* number of frames

FrameAssumption ==
    /\ {Width, Height, FrameWidth, FrameHeight, BlockSize, BorderWidth, MaxValue,
         Frames} \subseteq Nat \ {0}
    /\ Width <= FrameWidth /\ Height <= FrameHeight
    /\ Radius \in Nat
    /\ Spots \subseteq (0 .. Width - 1) \X (0 .. Height - 1)

VARIABLES
    frame,    \* the frame in hand
    number,   \* how many it is
    bg,       \* its background
    input, temp, output,  \* d_input, d_temp, d_output
    pc,
    blocks,   \* blocks of the running kernel that are still to run
    signals   \* for each frame so far its pixels and its spots' means

vars == <<frame, number, bg, input, temp, output, pc, blocks, signals>>

Pixels == (0 .. Width - 1) \X (0 .. Height - 1)
FramePixels == (0 .. FrameWidth - 1) \X (0 .. FrameHeight - 1)
Index(p) == p[2] * Width + p[1]
Cells == 0 .. Width * Height - 1

(* estimateBorderBackground(): the upper median of the border.             *)
InBorder(p) ==
    \/ p[1] < BorderWidth \/ p[1] >= FrameWidth - BorderWidth
    \/ p[2] < BorderWidth \/ p[2] >= FrameHeight - BorderWidth
Border == {p \in FramePixels : InBorder(p)}

(* Mutant: a background that does not come from the frame.                 *)
FixedBackground(f) == IF Border = {} THEN 0 ELSE 1

(* values[n / 2] when they are sorted: at most n / 2 are smaller, and more *)
(* than n / 2 are not greater.                                             *)
Background(f) ==
    LET middle == Cardinality(Border) \div 2
    IN  IF Border = {} THEN 0
        ELSE CHOOSE v \in {f[p] : p \in Border} :
               /\ Cardinality({p \in Border : f[p] < v}) <= middle
               /\ Cardinality({p \in Border : f[p] <= v}) > middle

Ramp(v) == IF v > 0 THEN v ELSE 0

(* Mutant: the division rounds down.                                       *)
NumBlocksDown(size) == size \div BlockSize

(* The grid covers the image, and the blocks at its right and bottom reach *)
(* over it; threads there do nothing.                                      *)
NumBlocks(size) == (size + BlockSize - 1) \div BlockSize
Grid == (0 .. NumBlocks(Width) - 1) \X (0 .. NumBlocks(Height) - 1)

(* The pixels of the threads of a block that pass the check.               *)
PixelsOf(b) ==
    {p \in Pixels : p[1] \div BlockSize = b[1] /\ p[2] \div BlockSize = b[2]}
IndicesOf(b) == {Index(p) : p \in PixelsOf(b)}
PixelAt(i) == <<i % Width, i \div Width>>

(* d_gaussianKernel, in sixteenths, by distance from the centre.           *)
KernelWeight(dx, dy) ==
    CASE dx = 0 /\ dy = 0 -> 4
      [] dx = 0 /\ dy # 0 -> 2
      [] dx # 0 /\ dy = 0 -> 2
      [] OTHER            -> 1

Inner(p) == p[1] >= 1 /\ p[1] < Width - 1 /\ p[2] >= 1 /\ p[2] < Height - 1
Offsets == (-1 .. 1) \X (-1 .. 1)

(* What a thread of gaussianBlurKernel writes.                             *)
Blurred(buffer, p) ==
    IF Inner(p)
    THEN SumFunction([d \in Offsets |->
             buffer[(p[2] + d[2]) * Width + p[1] + d[1]] * KernelWeight(d[1], d[2])])
    ELSE 16 * buffer[Index(p)]

(* extractCircularRoiMean(): the pixels of the circle that are in the image.*)
Roi(spot) ==
    {p \in Pixels : (p[1] - spot[1]) * (p[1] - spot[1])
                    + (p[2] - spot[2]) * (p[2] - spot[2]) <= Radius * Radius}

RoiMean(image, spot) ==
    [sum |-> SumFunction([p \in Roi(spot) |-> image[Index(p)]]),
     count |-> Cardinality(Roi(spot))]

-----------------------------------------------------------------------------
FirstFrames == [FramePixels -> 0 .. MaxValue]

(* A following frame is the same picture brighter, or its negative.        *)
NextFrames ==
    { [p \in FramePixels |-> frame[p] + 1],
      [p \in FramePixels |-> MaxValue + number - frame[p]] }

(* cudaMalloc() leaves the buffers as they are: here they start with -1.   *)
InitWith(first) ==
    /\ frame = first /\ number = 1 /\ bg = 0
    /\ input = [i \in Cells |-> -1]
    /\ temp = [i \in Cells |-> -1] /\ output = [i \in Cells |-> -1]
    /\ pc = "estimate" /\ blocks = {} /\ signals = <<>>

Init == \E first \in FirstFrames : InitWith(first)

EstimateBackground ==
    /\ pc = "estimate" /\ bg' = Background(frame) /\ pc' = "upload"
    /\ UNCHANGED <<frame, number, input, temp, output, blocks, signals>>

(* cudaMemcpy() to the device, and the launch of the first kernel.         *)
Upload ==
    /\ pc = "upload"
    /\ input' = [i \in Cells |-> frame[<<i % FrameWidth, i \div FrameWidth>>]]
    /\ blocks' = Grid /\ pc' = "preprocess"
    /\ UNCHANGED <<frame, number, bg, temp, output, signals>>

PreprocessBlock ==
    /\ pc = "preprocess"
    /\ \E b \in blocks :
         /\ temp' = [i \in Cells |-> IF i \in IndicesOf(b) THEN Ramp(input[i] - bg)
                                                          ELSE temp[i]]
         /\ blocks' = blocks \ {b}
    /\ UNCHANGED <<frame, number, bg, input, output, pc, signals>>

(* cudaDeviceSynchronize(), and the launch of the second kernel.           *)
Synchronize ==
    /\ pc = "preprocess" /\ blocks = {}
    /\ blocks' = Grid /\ pc' = "blur"
    /\ UNCHANGED <<frame, number, bg, input, temp, output, signals>>

(* Mutant: the pixels at the edge are not written.                         *)
BlurInnerOnly ==
    /\ pc = "blur"
    /\ \E b \in blocks :
         /\ output' = [i \in Cells |->
                        IF i \in IndicesOf(b) /\ Inner(PixelAt(i))
                        THEN Blurred(temp, PixelAt(i)) ELSE output[i]]
         /\ blocks' = blocks \ {b}
    /\ UNCHANGED <<frame, number, bg, input, temp, pc, signals>>

BlurBlock ==
    /\ pc = "blur"
    /\ \E b \in blocks :
         /\ output' = [i \in Cells |-> IF i \in IndicesOf(b)
                                       THEN Blurred(temp, PixelAt(i)) ELSE output[i]]
         /\ blocks' = blocks \ {b}
    /\ UNCHANGED <<frame, number, bg, input, temp, pc, signals>>

(* cudaMemcpy() from the device, which waits, and the spots.               *)
Extract ==
    /\ pc = "blur" /\ blocks = {} /\ pc' = "pop"
    /\ signals' = Append(signals, [frame |-> frame,
                     means |-> [s \in Spots |-> RoiMean(output, s)]])
    /\ UNCHANGED <<frame, number, bg, input, temp, output, blocks>>

PopFrame ==
    /\ pc = "pop" /\ number < Frames
    /\ frame' \in NextFrames /\ number' = number + 1 /\ pc' = "estimate"
    /\ UNCHANGED <<bg, input, temp, output, blocks, signals>>

Next == EstimateBackground \/ Upload \/ PreprocessBlock \/ Synchronize
        \/ BlurBlock \/ Extract \/ PopFrame

Spec == Init /\ [][Next]_vars

-----------------------------------------------------------------------------
Values == 0 .. MaxValue + Frames

TypeOK ==
    /\ frame \in [FramePixels -> Values] /\ number \in 1 .. Frames /\ bg \in Values
    /\ input \in [Cells -> Values \cup {-1}] /\ temp \in [Cells -> Values \cup {-1}]
    /\ output \in [Cells -> {-1} \cup 0 .. 16 * (MaxValue + Frames)]
    /\ pc \in {"estimate", "upload", "preprocess", "blur", "pop"}
    /\ blocks \subseteq Grid
    /\ Len(signals) <= Frames
    /\ \A n \in DOMAIN signals :
         signals[n].means \in [Spots -> [sum : Int, count : Nat]]

(* What is left of a frame once the background is gone, straight from its  *)
(* pixels, and its blur as an average of neighbours.                       *)
Clean(f, p) == Ramp(f[p] - Background(f))
Around(p) == {q \in Pixels : q[1] - p[1] \in -1 .. 1 /\ q[2] - p[2] \in -1 .. 1}
Smooth(f, p) ==
    IF ~Inner(p) THEN 16 * Clean(f, p)
    ELSE SumFunction([q \in Around(p) |->
           LET dx == q[1] - p[1] dy == q[2] - p[2]
           IN  (2 - dx * dx) * (2 - dy * dy) * Clean(f, q)])

(* The signal of a spot is that of its own frame: the mean over its circle *)
(* of the smoothed frame, whatever order the blocks ran in and whatever an *)
(* earlier frame left in the device buffers (main.cpp:169-184,             *)
(* cuda_kernels.cu:57-78).                                                 *)
SignalsOfOwnFrame ==
    \A n \in DOMAIN signals : \A s \in Spots :
        signals[n].means[s].sum =
            SumFunction([p \in Roi(s) |-> Smooth(signals[n].frame, p)])

(* Brightness that is added to a whole frame does not show in its signals  *)
(* (estimateBorderBackground(), reconstruction_core.cpp:5-18).             *)
BrightnessCancels ==
    \A m, n \in DOMAIN signals :
        (\E c \in Values : \A p \in FramePixels :
             signals[n].frame[p] = signals[m].frame[p] + c)
        => signals[n].means = signals[m].means

(* A mean lies between the smallest and the greatest value of the frame    *)
(* above its background, also for a spot at the edge of the image          *)
(* (reconstruction_core.cpp:70-83).                                        *)
MeansWithinFrame ==
    \A n \in DOMAIN signals : \A s \in Spots :
        LET mean == signals[n].means[s]
            clean == {16 * Clean(signals[n].frame, p) : p \in Pixels}
        IN  /\ mean.count > 0
            /\ mean.count * Min(clean) <= mean.sum
            /\ mean.sum <= mean.count * Max(clean)

(* The signals of the spots are those of their frames, without its        *)
(* brightness and within its values (main.cpp:150-189).                   *)
SignalsCorrect ==
    TypeOK /\ SignalsOfOwnFrame /\ BrightnessCancels /\ MeansWithinFrame
=============================================================================
