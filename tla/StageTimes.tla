----------------------------- MODULE StageTimes -----------------------------
(***************************************************************************)
(* The times that the reconstruction reports.  ResourceMonitor (io_utils.h)*)
(* takes the wall time between marks and adds up the time of each stage;   *)
(* main() of reconstruct_serial.cpp marks and times its own stages, and    *)
(* between them runs the threads of the pipeline, which measure themselves *)
(* and add what they measured to totals of type atomic<double>.  main.cpp  *)
(* measures its threads in the same way.                                   *)
(*                                                                         *)
(* x = x + y on an atomic<double> is a load and a store.  Only the worker  *)
(* threads share a total, so that only theirs are two steps.  Time is a    *)
(* clock that may advance before any step.  The queues are counts of what  *)
(* is in them: ReconstructPipeline has their behaviour.  CPU usage and     *)
(* memory are read from the kernel and go into the same records.           *)
(***************************************************************************)
EXTENDS Naturals, Sequences, FiniteSets, Functions

CONSTANTS Workers,
          Frames,    \* positions.size()
          MaxClock   \* bound on the clock

TimesAssumption ==
    /\ IsFiniteSet(Workers) /\ Workers # {}
    /\ Frames \in Nat /\ MaxClock \in Nat

(* What main() does: marks, timed stages, and the pipeline.                *)
Script ==
    <<"mark", "load_metadata", "mark", "mark", "pipeline", "mark",
      "normalize_reconstruction", "mark", "save_images", "mark",
      "hole_filling", "mark", "save_images", "mark",
      "gaussian_filter", "mark", "save_images", "mark",
      "psf_generation", "mark", "deconvolution", "mark", "save_images", "mark",
      "save_csv", "mark", "finish">>

ThreadStages == {"frame_io", "preprocess", "roi_extraction", "accumulation"}
MainStages == {Script[i] : i \in DOMAIN Script} \ {"mark", "pipeline", "finish"}
AlgorithmStages ==
    {"preprocess", "roi_extraction", "accumulation", "normalize_reconstruction",
     "hole_filling", "gaussian_filter", "psf_generation", "deconvolution"}

VARIABLES
    clock,
    lastWall, stageTimes,           \* of the monitor; startWall_ is 0
    logged,                         \* the last record of records_, and the sum
                                    \* of the stage times of all of them
    summary,                        \* what writeSummary() reports
    at, inside, timerStart,         \* main()'s place in Script, its ScopedTimer
    total,                          \* the four atomic<double> totals
    raw, signals,                   \* number of items in the two queues
    producer, accumulator,          \* [pc, since, count] of the two threads
    accumTime,                      \* localAccumTime
    worker                          \* [pc, since, pre, roi, loaded] of each

monitorVars == <<lastWall, logged, stageTimes, summary>>
mainVars == <<at, inside, timerStart>>
vars == <<clock, monitorVars, mainVars, total, raw, signals, producer,
          accumulator, accumTime, worker>>

Init ==
    /\ clock = 0 /\ lastWall = 0 /\ summary = <<>>
    /\ logged = [stageWalls |-> 0, totalWall |-> 0]
    /\ stageTimes = [s \in ThreadStages \cup MainStages |-> 0]
    /\ at = 1 /\ inside = FALSE /\ timerStart = 0
    /\ total = [s \in ThreadStages |-> 0]
    /\ raw = 0 /\ signals = 0 /\ accumTime = 0
    /\ producer = [pc |-> "ready", since |-> 0, count |-> 0]
    /\ accumulator = [pc |-> "pop", since |-> 0]
    /\ worker = [w \in Workers |-> [pc |-> "pop", since |-> 0, pre |-> 0,
                                    roi |-> 0, loaded |-> 0]]

Tick ==
    /\ clock < MaxClock /\ summary = <<>> /\ clock' = clock + 1
    /\ UNCHANGED <<monitorVars, mainVars, total, raw, signals, producer,
                   accumulator, accumTime, worker>>

-----------------------------------------------------------------------------
(* The monitor.                                                            *)

(* Mutant: the record is written and lastWall_ stays.                      *)
AddRecordOnly ==
    /\ logged' = [stageWalls |-> logged.stageWalls + clock - lastWall,
                  totalWall |-> clock]
    /\ UNCHANGED lastWall

(* A record with the wall time of the stage and the total.                 *)
AddRecord ==
    /\ logged' = [stageWalls |-> logged.stageWalls + clock - lastWall,
                  totalWall |-> clock]
    /\ lastWall' = clock

AddStageTime(stage, seconds) ==
    stageTimes' = [stageTimes EXCEPT ![stage] = @ + seconds]

(* writeSummary(): algorithmTime and the total of the last record.         *)
Summary ==
    [totalWall |-> clock,
     algorithm |-> SumFunctionOnSet(stageTimes, AlgorithmStages)]

-----------------------------------------------------------------------------
(* main().                                                                 *)

Mark ==
    /\ Script[at] = "mark" /\ AddRecord /\ at' = at + 1
    /\ UNCHANGED <<stageTimes, summary, inside, timerStart>>

(* Mutant: one timer for all stages, started once.                         *)
TimerKeepsStart ==
    /\ Script[at] \in MainStages /\ ~inside
    /\ inside' = TRUE /\ UNCHANGED timerStart
    /\ UNCHANGED <<monitorVars, at>>

TimerStarts ==
    /\ Script[at] \in MainStages /\ ~inside
    /\ inside' = TRUE /\ timerStart' = clock
    /\ UNCHANGED <<monitorVars, at>>

TimerEnds ==
    /\ Script[at] \in MainStages /\ inside
    /\ AddStageTime(Script[at], clock - timerStart)
    /\ inside' = FALSE /\ at' = at + 1
    /\ UNCHANGED <<lastWall, logged, summary, timerStart>>

(* The threads run while main() joins them; then it collects their times.  *)
WorkersJoined == \A w \in Workers : worker[w].pc = "done"
Running == Script[at] = "pipeline"

CollectTimes ==
    /\ Running /\ accumulator.pc = "done" /\ at' = at + 1
    /\ stageTimes' = [s \in DOMAIN stageTimes |->
                        stageTimes[s] + IF s \in ThreadStages THEN total[s] ELSE 0]
    /\ UNCHANGED <<lastWall, logged, summary, inside, timerStart>>

Finish ==
    /\ Script[at] = "finish" /\ summary = <<>>
    /\ AddRecord /\ summary' = Summary
    /\ UNCHANGED <<stageTimes, mainVars>>

MainStep ==
    /\ Mark \/ TimerStarts \/ TimerEnds \/ CollectTimes \/ Finish
    /\ UNCHANGED <<clock, total, raw, signals, producer, accumulator, accumTime,
                   worker>>

-----------------------------------------------------------------------------
(* The producer measures the reading of a frame, not its waits in push().  *)

ProducerReads ==
    /\ producer.pc = "ready" /\ producer.count < Frames
    /\ producer' = [producer EXCEPT !.pc = "read", !.since = clock]
    /\ UNCHANGED <<total, raw>>

ProducerPushes ==
    /\ producer.pc = "read"
    /\ total' = [total EXCEPT !["frame_io"] = @ + clock - producer.since]
    /\ raw' = raw + 1
    /\ producer' = [producer EXCEPT !.pc = "ready", !.count = @ + 1]

ProducerEnds ==
    /\ producer.pc = "ready" /\ producer.count = Frames
    /\ producer' = [producer EXCEPT !.pc = "done"] /\ UNCHANGED <<total, raw>>

ProducerStep ==
    /\ Running /\ (ProducerReads \/ ProducerPushes \/ ProducerEnds)
    /\ UNCHANGED <<clock, monitorVars, mainVars, signals, accumulator, accumTime,
                   worker>>

-----------------------------------------------------------------------------
(* A worker takes t1, t2 and t3 around its two stages, and adds its times  *)
(* to the totals when there is nothing more to pop.                        *)

WorkerPops(w) ==
    /\ worker[w].pc = "pop" /\ raw > 0 /\ raw' = raw - 1
    /\ worker' = [worker EXCEPT ![w].pc = "preprocess", ![w].since = clock]
    /\ UNCHANGED <<total, signals>>

(* Mutant: both stages are measured from t1.                               *)
WorkerKeepsStart(w) ==
    /\ worker[w].pc = "preprocess"
    /\ worker' = [worker EXCEPT ![w].pc = "roi",
                                ![w].pre = @ + clock - worker[w].since]
    /\ UNCHANGED <<total, raw, signals>>

(* Mutant: the time of each frame goes into the total, and is added again  *)
(* at the end.                                                             *)
WorkerCountsTwice(w) ==
    /\ worker[w].pc = "preprocess"
    /\ worker' = [worker EXCEPT ![w].pc = "roi", ![w].since = clock,
                                ![w].pre = @ + clock - worker[w].since]
    /\ total' = [total EXCEPT !["preprocess"] = @ + clock - worker[w].since]
    /\ UNCHANGED <<raw, signals>>

WorkerPreprocessed(w) ==
    /\ worker[w].pc = "preprocess"
    /\ worker' = [worker EXCEPT ![w].pc = "roi", ![w].since = clock,
                                ![w].pre = @ + clock - worker[w].since]
    /\ UNCHANGED <<total, raw, signals>>

WorkerExtracted(w) ==
    /\ worker[w].pc = "roi" /\ signals' = signals + 1
    /\ worker' = [worker EXCEPT ![w].pc = "pop",
                                ![w].roi = @ + clock - worker[w].since]
    /\ UNCHANGED <<total, raw>>

WorkerEnds(w) ==
    /\ worker[w].pc = "pop" /\ raw = 0 /\ producer.pc = "done"
    /\ worker' = [worker EXCEPT ![w].pc = "loadPre"]
    /\ UNCHANGED <<total, raw, signals>>

Load(w, from, stage, to) ==
    /\ worker[w].pc = from
    /\ worker' = [worker EXCEPT ![w].pc = to, ![w].loaded = total[stage]]
    /\ UNCHANGED <<total, raw, signals>>

Store(w, from, stage, seconds, to) ==
    /\ worker[w].pc = from
    /\ total' = [total EXCEPT ![stage] = worker[w].loaded + seconds]
    /\ worker' = [worker EXCEPT ![w].pc = to]
    /\ UNCHANGED <<raw, signals>>

WorkerStep ==
    /\ Running
    /\ \E w \in Workers :
         \/ WorkerPops(w) \/ WorkerPreprocessed(w) \/ WorkerExtracted(w)
         \/ WorkerEnds(w)
         \/ Load(w, "loadPre", "preprocess", "storePre")
         \/ Store(w, "storePre", "preprocess", worker[w].pre, "loadRoi")
         \/ Load(w, "loadRoi", "roi_extraction", "storeRoi")
         \/ Store(w, "storeRoi", "roi_extraction", worker[w].roi, "done")
    /\ UNCHANGED <<clock, monitorVars, mainVars, producer, accumulator, accumTime>>

-----------------------------------------------------------------------------
AccumulatorPops ==
    /\ accumulator.pc = "pop" /\ signals > 0 /\ signals' = signals - 1
    /\ accumulator' = [pc |-> "add", since |-> clock]
    /\ UNCHANGED <<total, accumTime>>

AccumulatorAdds ==
    /\ accumulator.pc = "add"
    /\ accumTime' = accumTime + clock - accumulator.since
    /\ accumulator' = [accumulator EXCEPT !.pc = "pop"]
    /\ UNCHANGED <<total, signals>>

AccumulatorEnds ==
    /\ accumulator.pc = "pop" /\ signals = 0 /\ WorkersJoined
    /\ total' = [total EXCEPT !["accumulation"] = @ + accumTime]
    /\ accumulator' = [accumulator EXCEPT !.pc = "done"]
    /\ UNCHANGED <<signals, accumTime>>

AccumulatorStep ==
    /\ Running /\ (AccumulatorPops \/ AccumulatorAdds \/ AccumulatorEnds)
    /\ UNCHANGED <<clock, monitorVars, mainVars, raw, producer, worker>>

Next == Tick \/ MainStep \/ ProducerStep \/ WorkerStep \/ AccumulatorStep

Spec == Init /\ [][Next]_vars

-----------------------------------------------------------------------------
Times == 0 .. MaxClock

TypeOK ==
    /\ clock \in Times /\ lastWall \in Times /\ timerStart \in Times
    /\ logged \in [stageWalls : Times, totalWall : Times]
    /\ stageTimes \in [ThreadStages \cup MainStages -> Nat]
    /\ at \in DOMAIN Script /\ inside \in BOOLEAN
    /\ total \in [ThreadStages -> Nat]
    /\ raw \in 0 .. Frames /\ signals \in 0 .. Frames /\ accumTime \in Times
    /\ producer \in [pc : {"ready", "read", "done"}, since : Times, count : 0 .. Frames]
    /\ accumulator \in [pc : {"pop", "add", "done"}, since : Times]
    /\ worker \in [Workers ->
         [pc : {"pop", "preprocess", "roi", "loadPre", "storePre", "loadRoi",
                "storeRoi", "done"},
          since : Times, pre : Times, roi : Times, loaded : Nat]]

(* The stages of the log add up: the stage times of all records so far are *)
(* together the total time of the last one (io_utils.h:77-78, 115).        *)
RecordsAddUp == logged.stageWalls = logged.totalWall

(* What one thread measures does not overlap: a worker's two stages fit    *)
(* into the time that has passed (reconstruct_serial.cpp:527-544).         *)
WorkerTimesFit == \A w \in Workers : worker[w].pre + worker[w].roi <= clock

LocalTimes(stage) ==
    [w \in Workers |-> IF stage = "preprocess" THEN worker[w].pre
                                               ELSE worker[w].roi]

(* A total may lose the times of workers but counts none of them twice: it *)
(* is the sum of the times of some workers, at least of one                *)
(* (reconstruct_serial.cpp:557-558).                                       *)
TotalsFromWorkers ==
    WorkersJoined =>
        \A s \in {"preprocess", "roi_extraction"} :
            \E S \in SUBSET Workers :
                S # {} /\ total[s] = SumFunctionOnSet(LocalTimes(s), S)

(* The times that single threads report fit into the total wall time: the  *)
(* stages of main() with those of the producer or of the accumulator, which*)
(* run beside each other (io_utils.h:55-59, reconstruct_serial.cpp:593).   *)
SequentialTimesFit ==
    \A s \in {"frame_io", "accumulation"} :
        stageTimes[s] + SumFunctionOnSet(stageTimes, MainStages) <= clock

(* No time is reported that was not spent: not by a record, by a thread or by*)
(* a total over threads (io_utils.h:73-141, reconstruct_serial.cpp:527-596).*)
TimesCorrect ==
    TypeOK /\ RecordsAddUp /\ WorkerTimesFit /\ TotalsFromWorkers
    /\ SequentialTimesFit
=============================================================================
