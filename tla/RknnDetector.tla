---------------------------- MODULE RknnDetector ----------------------------
(***************************************************************************)
(* RknnDetector (src/rknn_detector.cpp, built with HAVE_RKNN): main calls  *)
(* init(), each inference worker calls detect() with its worker id, and    *)
(* the destructor runs when main returns, after the workers were joined.   *)
(*                                                                         *)
(* The RKNN runtime is external: rknn_inputs_set keeps the input in the    *)
(* context, rknn_run computes the context's output from it, and            *)
(* rknn_outputs_get hands that output out until rknn_outputs_release.      *)
(* Each call may fail.  A frame is a number; preprocessing and             *)
(* postprocessing are left out.                                            *)
(***************************************************************************)
EXTENDS Naturals, FiniteSets

CONSTANTS
  NumWorkers,   \* runtime.num_workers
  UseAllCores,  \* runtime.use_all_cores
  MaxFrames     \* bound: detect() calls

ASSUME DetectorAssumption ==
  /\ NumWorkers \in Nat
  /\ UseAllCores \in BOOLEAN
  /\ MaxFrames \in Nat

\* std::max(1, std::min(num_workers, 3)), in init() and in the pipeline's start().
Clamped == IF NumWorkers < 1 THEN 1 ELSE IF NumWorkers > 3 THEN 3 ELSE NumWorkers

Workers == 0 .. Clamped - 1   \* the inference threads
Contexts == 0 .. Clamped - 1  \* indices of impl_->contexts

VARIABLES
  pc_main,    \* "reading", "contexts", "running", "joining", "destroying", "ended"
  opened,     \* init()'s loop: contexts dealt with so far
  available,  \* available_
  ctx,        \* per context: "null", "open" or "destroyed"
  cores,      \* per context: the NPU cores it is pinned to, {} if it is not
  input,      \* per context: the frame rknn_inputs_set stored, 0 at first
  output,     \* per context: the frame rknn_run computed, 0 at first
  lent,       \* per context: outputs handed out and not released
  pc,         \* detect(), per worker
  frame,      \* per worker: the frame it was called with
  got,        \* per worker: the frame its outputs describe
  calls       \* detect() calls so far

npu == <<ctx, cores, input, output, lent>>
detecting == <<pc, frame, got, calls>>
vars == <<pc_main, opened, available, npu, detecting>>

Init ==
  /\ pc_main = "reading" /\ opened = 0 /\ available = FALSE
  /\ ctx = [c \in Contexts |-> "null"]
  /\ cores = [c \in Contexts |-> {}]
  /\ input = [c \in Contexts |-> 0]
  /\ output = [c \in Contexts |-> 0]
  /\ lent = [c \in Contexts |-> 0]
  /\ pc = [w \in Workers |-> "idle"]
  /\ frame = [w \in Workers |-> 0]
  /\ got = [w \in Workers |-> 0]
  /\ calls = 0

-----------------------------------------------------------------------------
(* init()                                                                  *)

\* readBinary: without a model main ends, and the detector is destroyed.
ReadModel ==
  /\ pc_main = "reading"
  /\ \E next \in {"contexts", "destroying"} : pc_main' = next
  /\ UNCHANGED <<opened, available, npu, detecting>>

\* workerCoreMask, with the masks of config.yaml, as the set of the cores.
WorkerCores(c) == IF UseAllCores THEN {0, 1, 2} ELSE {c}

\* rknn_init fails: init() returns false and leaves what it has opened.
InitFails ==
  /\ pc_main = "contexts"
  /\ pc_main' = "destroying"
  /\ UNCHANGED <<opened, available, npu, detecting>>

\* rknn_init opens the context, pinning it may fail, and the query of its
\* tensors may fail, which ends init().
InitContext ==
  /\ pc_main = "contexts"
  /\ ctx' = [ctx EXCEPT ![opened] = "open"]
  /\ \E pinned \in {{}, WorkerCores(opened)} : cores' = [cores EXCEPT ![opened] = pinned]
  /\ \/ /\ opened' = opened + 1
        /\ available' = (opened' = Clamped)
        /\ pc_main' = IF available' THEN "running" ELSE "contexts"
     \/ /\ pc_main' = "destroying"
        /\ UNCHANGED <<opened, available>>
  /\ UNCHANGED <<input, output, lent, detecting>>

-----------------------------------------------------------------------------
(* detect(frame, w)                                                        *)

\* Every worker uses the first context.
OneContext(w) == 0

\* worker_id % contexts.size().
ContextOf(w) == w % Clamped

Detect(w) ==
  /\ pc_main = "running" /\ available
  /\ pc[w] = "idle"
  /\ calls < MaxFrames
  /\ calls' = calls + 1
  /\ frame' = [frame EXCEPT ![w] = calls + 1]
  /\ got' = [got EXCEPT ![w] = 0]
  /\ pc' = [pc EXCEPT ![w] = "set"]
  /\ UNCHANGED <<pc_main, opened, available, npu>>

\* One of the three calls fails: detect() returns no detections.
CallFails(w) ==
  /\ pc[w] \in {"set", "run", "get"}
  /\ pc' = [pc EXCEPT ![w] = "idle"]
  /\ UNCHANGED <<pc_main, opened, available, npu, frame, got, calls>>

\* rknn_inputs_set
SetInputs(w) ==
  /\ pc[w] = "set"
  /\ input' = [input EXCEPT ![ContextOf(w)] = frame[w]]
  /\ pc' = [pc EXCEPT ![w] = "run"]
  /\ UNCHANGED <<pc_main, opened, available, ctx, cores, output, lent, frame, got, calls>>

\* rknn_run
Run(w) ==
  /\ pc[w] = "run"
  /\ output' = [output EXCEPT ![ContextOf(w)] = input[ContextOf(w)]]
  /\ pc' = [pc EXCEPT ![w] = "get"]
  /\ UNCHANGED <<pc_main, opened, available, ctx, cores, input, lent, frame, got, calls>>

\* rknn_outputs_get
GetOutputs(w) ==
  /\ pc[w] = "get"
  /\ got' = [got EXCEPT ![w] = output[ContextOf(w)]]
  /\ lent' = [lent EXCEPT ![ContextOf(w)] = @ + 1]
  /\ pc' = [pc EXCEPT ![w] = "decode"]
  /\ UNCHANGED <<pc_main, opened, available, ctx, cores, input, output, frame, calls>>

\* Returns the detections without giving the outputs back.
ReleaseForgotten(w) ==
  /\ pc[w] = "decode"
  /\ pc' = [pc EXCEPT ![w] = "idle"]
  /\ UNCHANGED <<pc_main, opened, available, npu, frame, got, calls>>

\* postprocessYoloViews reads the outputs, then rknn_outputs_release.
Release(w) ==
  /\ pc[w] = "decode"
  /\ lent' = [lent EXCEPT ![ContextOf(w)] = @ - 1]
  /\ pc' = [pc EXCEPT ![w] = "idle"]
  /\ UNCHANGED <<pc_main, opened, available, ctx, cores, input, output, frame, got, calls>>

-----------------------------------------------------------------------------
(* The end of main                                                         *)

\* pipeline.stop(): no new detect(), and the calls in progress are waited for.
Stop ==
  /\ pc_main = "running"
  /\ pc_main' = "joining"
  /\ UNCHANGED <<opened, available, npu, detecting>>

\* Returns without waiting for the workers.
LeaveWorkers ==
  /\ pc_main = "joining"
  /\ pc_main' = "destroying"
  /\ UNCHANGED <<opened, available, npu, detecting>>

JoinWorkers ==
  /\ pc_main = "joining"
  /\ \A w \in Workers : pc[w] = "idle"
  /\ pc_main' = "destroying"
  /\ UNCHANGED <<opened, available, npu, detecting>>

\* A destructor that trusts available_.
DestroyIfAvailable ==
  /\ pc_main = "destroying"
  /\ ctx' = [c \in Contexts |-> IF available THEN "destroyed" ELSE ctx[c]]
  /\ pc_main' = "ended"
  /\ UNCHANGED <<opened, available, cores, input, output, lent, detecting>>

\* ~RknnDetector: rknn_destroy for every context that was opened.
Destroy ==
  /\ pc_main = "destroying"
  /\ ctx' = [c \in Contexts |-> IF ctx[c] = "open" THEN "destroyed" ELSE ctx[c]]
  /\ pc_main' = "ended"
  /\ UNCHANGED <<opened, available, cores, input, output, lent, detecting>>

-----------------------------------------------------------------------------
Main == ReadModel \/ InitFails \/ InitContext \/ Stop \/ JoinWorkers \/ Destroy

DetectStep(w) ==
  Detect(w) \/ CallFails(w) \/ SetInputs(w) \/ Run(w) \/ GetOutputs(w) \/ Release(w)

Next == Main \/ \E w \in Workers : DetectStep(w)

Spec == Init /\ [][Next]_vars

-----------------------------------------------------------------------------
\* Workers that have handed something to context c and are not done with it.
Users(c) == {w \in Workers : pc[w] \in {"run", "get", "decode"} /\ ContextOf(w) = c}

\* "Each RKNN inference worker owns its own rknn_context" (README.md): no two
\* workers are in the middle of a call on one context, so the detections a
\* worker decodes are those of its own frame and not of another worker's.
OwnResult ==
  /\ \A c \in Contexts : Cardinality(Users(c)) <= 1
  /\ \A w \in Workers : pc[w] = "decode" => got[w] = frame[w]

\* Outputs are released on every path: what a context has lent is exactly
\* what its workers are decoding, whichever call failed before.
OutputsReleased ==
  \A c \in Contexts :
    lent[c] = Cardinality({w \in Workers : pc[w] = "decode" /\ ContextOf(w) = c})

\* A worker never uses a context that is not open: detect() comes after a
\* complete init(), and the destructor after every call has returned.
NoUseAfterDestroy ==
  \A w \in Workers : pc[w] # "idle" => ctx[ContextOf(w)] = "open"

\* When main has ended no context is left open, also when init() stopped half
\* way through its contexts.
ContextsFreed == pc_main = "ended" => \A c \in Contexts : ctx[c] # "open"
=============================================================================
