------------------------ MODULE RknnDetectorProofs ------------------------
(***************************************************************************)
(* What holds of RknnDetector for every number of workers and calls.       *)
(***************************************************************************)
EXTENDS RknnDetector, FiniteSetTheorems, TLAPS

\* The clamp leaves one, two or three contexts.
LEMMA ClampedRange == Clamped \in 1 .. 3
  BY DetectorAssumption DEF Clamped

\* There are as many contexts as workers, so each worker has its own.
LEMMA OwnContext == \A w \in Workers : ContextOf(w) = w /\ w \in Contexts
<1>. SUFFICES ASSUME NEW w \in Workers PROVE ContextOf(w) = w /\ w \in Contexts
  OBVIOUS
<1>1. Clamped \in 1 .. 3 /\ w \in 0 .. Clamped - 1
  BY ClampedRange DEF Workers
<1>2. w % Clamped = w
  BY <1>1
<1>. QED
  BY <1>1, <1>2 DEF ContextOf, Contexts

-----------------------------------------------------------------------------
(* The inductive invariant.                                                *)

Types ==
  /\ pc_main \in {"reading", "contexts", "running", "joining", "destroying", "ended"}
  /\ opened \in 0 .. Clamped
  /\ available \in BOOLEAN
  /\ ctx \in [Contexts -> {"null", "open", "destroyed"}]
  /\ input \in [Contexts -> Nat]
  /\ output \in [Contexts -> Nat]
  /\ lent \in [Contexts -> Nat]
  /\ pc \in [Workers -> {"idle", "set", "run", "get", "decode"}]
  /\ frame \in [Workers -> Nat]
  /\ got \in [Workers -> Nat]
  /\ calls \in Nat

\* init() opens the contexts in order and main goes on only when all are open;
\* only between that and the join is a worker in a call.
Opened ==
  /\ pc_main \in {"reading", "contexts"} => opened < Clamped
  /\ pc_main \in {"running", "joining"} => opened = Clamped
  /\ pc_main # "ended" => \A c \in Contexts : c < opened => ctx[c] = "open"
  /\ pc_main = "ended" => \A c \in Contexts : ctx[c] # "open"
  /\ pc_main \notin {"running", "joining"} => \A w \in Workers : pc[w] = "idle"

\* A worker's frame is where its call has taken it, and its context lends
\* outputs exactly while it decodes.
Carried ==
  \A w \in Workers :
    /\ pc[w] = "run" => input[w] = frame[w]
    /\ pc[w] = "get" => output[w] = frame[w]
    /\ pc[w] = "decode" => got[w] = frame[w]
    /\ lent[w] = IF pc[w] = "decode" THEN 1 ELSE 0

DetectorInv == Types /\ Opened /\ Carried

LEMMA InitHolds == Init => DetectorInv
<1>. SUFFICES ASSUME Init PROVE DetectorInv
  OBVIOUS
<1>. USE DEF Init
<1>1. opened \in 0 .. Clamped /\ opened < Clamped
  BY ClampedRange
<1>2. Types
  BY <1>1 DEF Types
<1>3. Opened
  BY <1>1 DEF Opened, Contexts
<1>4. Carried
  BY OwnContext DEF Carried
<1>. QED
  BY <1>2, <1>3, <1>4 DEF DetectorInv

\* main's steps: no worker is in a call, or the calls are left alone.
LEMMA MainPreserves == DetectorInv /\ Main => DetectorInv'
<1>. SUFFICES ASSUME DetectorInv, Main PROVE DetectorInv'
  OBVIOUS
<1>. USE ClampedRange, OwnContext DEF DetectorInv, Types, Opened, Carried, npu, detecting, Contexts
<1>1. CASE ReadModel
  BY <1>1 DEF ReadModel
<1>2. CASE InitFails
  BY <1>2 DEF InitFails
<1>3. CASE InitContext
  <2>1. /\ pc_main = "contexts"
        /\ ctx' = [ctx EXCEPT ![opened] = "open"]
        /\ \/ opened' = opened + 1 /\ available' = (opened' = Clamped)
              /\ pc_main' = IF available' THEN "running" ELSE "contexts"
           \/ pc_main' = "destroying" /\ UNCHANGED <<opened, available>>
        /\ UNCHANGED <<input, output, lent, pc, frame, got, calls>>
    BY <1>3 DEF InitContext
  <2>2. opened \in Contexts
    BY <2>1
  <2>3. Types'
    <3>1. CASE opened' = opened + 1 /\ available' = (opened' = Clamped)
               /\ pc_main' = IF available' THEN "running" ELSE "contexts"
      <4>1. available' \in BOOLEAN
        BY <3>1
      <4>2. pc_main' \in {"running", "contexts"}
        BY <3>1
      <4>3. opened' \in 0 .. Clamped
        BY <3>1, <2>1
      <4>. QED
        BY <4>1, <4>2, <4>3, <2>1, <2>2
    <3>2. CASE pc_main' = "destroying" /\ UNCHANGED <<opened, available>>
      BY <3>2, <2>1, <2>2
    <3>. QED
      BY <3>1, <3>2, <2>1
  <2>4. \A c \in Contexts : c < opened + 1 => ctx'[c] = "open"
    BY <2>1, <2>2
  <2>5. Opened'
    <3>1. CASE opened' = opened + 1 /\ available' = (opened' = Clamped)
               /\ pc_main' = IF available' THEN "running" ELSE "contexts"
      <4>1. \/ pc_main' = "running" /\ opened' = Clamped
            \/ pc_main' = "contexts" /\ opened' # Clamped
        BY <3>1
      <4>2. opened' < Clamped \/ opened' = Clamped
        BY <3>1, <2>1
      <4>. QED
        BY <4>1, <4>2, <3>1, <2>1, <2>4
    <3>2. CASE pc_main' = "destroying" /\ UNCHANGED <<opened, available>>
      BY <3>2, <2>1, <2>4
    <3>. QED
      BY <3>1, <3>2, <2>1
  <2>6. Carried'
    BY <2>1
  <2>. QED
    BY <2>3, <2>5, <2>6
<1>4. CASE Stop
  BY <1>4 DEF Stop
<1>5. CASE JoinWorkers
  BY <1>5 DEF JoinWorkers
<1>6. CASE Destroy
  BY <1>6 DEF Destroy
<1>. QED
  BY <1>1, <1>2, <1>3, <1>4, <1>5, <1>6 DEF Main

\* A step of detect() touches the worker's own context only.
LEMMA DetectPreserves ==
  ASSUME NEW w \in Workers, DetectorInv, DetectStep(w)
  PROVE  DetectorInv'
<1>. USE OwnContext DEF DetectorInv, Types, Opened, Carried, npu, detecting
<1>1. CASE Detect(w)
  BY <1>1 DEF Detect
<1>2. CASE CallFails(w)
  BY <1>2 DEF CallFails
<1>3. CASE SetInputs(w)
  BY <1>3 DEF SetInputs
<1>4. CASE Run(w)
  BY <1>4 DEF Run
<1>5. CASE GetOutputs(w)
  BY <1>5 DEF GetOutputs
<1>6. CASE Release(w)
  BY <1>6 DEF Release
<1>. QED
  BY <1>1, <1>2, <1>3, <1>4, <1>5, <1>6 DEF DetectStep

LEMMA InvariantHolds == Spec => []DetectorInv
<1>1. DetectorInv /\ [Next]_vars => DetectorInv'
  <2>. SUFFICES ASSUME DetectorInv, [Next]_vars PROVE DetectorInv'
    OBVIOUS
  <2>1. CASE Main
    BY <2>1, MainPreserves
  <2>2. ASSUME NEW w \in Workers, DetectStep(w) PROVE DetectorInv'
    BY <2>2, DetectPreserves
  <2>3. CASE UNCHANGED vars
    BY <2>3 DEF vars, npu, detecting, DetectorInv, Types, Opened, Carried
  <2>. QED
    BY <2>1, <2>2, <2>3 DEF Next
<1>. QED
  BY InitHolds, <1>1, PTL DEF Spec

-----------------------------------------------------------------------------
\* "Each RKNN inference worker owns its own rknn_context": no two workers use
\* one, and what a worker decodes describes the frame it was called with.
THEOREM ResultIsOwn == Spec => []OwnResult
<1>1. DetectorInv => OwnResult
  <2>. SUFFICES ASSUME DetectorInv PROVE OwnResult
    OBVIOUS
  <2>1. ASSUME NEW c \in Contexts PROVE Cardinality(Users(c)) <= 1
    <3>1. Users(c) \subseteq {c}
      BY OwnContext DEF Users
    <3>2. Users(c) = {} \/ Users(c) = {c}
      BY <3>1
    <3>. QED
      BY <3>2, FS_EmptySet, FS_Singleton
  <2>2. \A w \in Workers : pc[w] = "decode" => got[w] = frame[w]
    BY DEF DetectorInv, Carried
  <2>. QED
    BY <2>1, <2>2 DEF OwnResult
<1>. QED
  BY InvariantHolds, <1>1, PTL

\* Outputs are released whichever call failed: a context has lent what its
\* worker is decoding, and nothing else.
THEOREM NothingLentForgotten == Spec => []OutputsReleased
<1>1. DetectorInv => OutputsReleased
  <2>. SUFFICES ASSUME DetectorInv, NEW c \in Contexts
       PROVE lent[c] = Cardinality({w \in Workers : pc[w] = "decode" /\ ContextOf(w) = c})
    BY DEF OutputsReleased
  <2>. DEFINE S == {w \in Workers : pc[w] = "decode" /\ ContextOf(w) = c}
  <2>1. c \in Workers /\ S \subseteq {c} /\ (c \in S <=> pc[c] = "decode")
    BY OwnContext DEF Workers, Contexts
  <2>2. lent[c] = IF pc[c] = "decode" THEN 1 ELSE 0
    BY <2>1 DEF DetectorInv, Carried
  <2>3. CASE pc[c] = "decode"
    <3>1. S = {c}
      BY <2>1, <2>3
    <3>. QED
      BY <3>1, <2>2, <2>3, FS_Singleton
  <2>4. CASE pc[c] # "decode"
    <3>1. S = {}
      BY <2>1, <2>4
    <3>. QED
      BY <3>1, <2>2, <2>4, FS_EmptySet
  <2>. QED
    BY <2>3, <2>4
<1>. QED
  BY InvariantHolds, <1>1, PTL

\* A worker uses only contexts that are open: a call begins after the whole of
\* init() and ends before the destructor.
THEOREM CallsFindContextsOpen == Spec => []NoUseAfterDestroy
<1>1. DetectorInv => NoUseAfterDestroy
  <2>. SUFFICES ASSUME DetectorInv, NEW w \in Workers, pc[w] # "idle"
       PROVE ctx[ContextOf(w)] = "open"
    BY DEF NoUseAfterDestroy
  <2>1. pc_main \in {"running", "joining"} /\ opened = Clamped
    BY DEF DetectorInv, Opened
  <2>2. w < Clamped
    BY ClampedRange DEF Workers
  <2>. QED
    BY <2>1, <2>2, OwnContext DEF DetectorInv, Opened
<1>. QED
  BY InvariantHolds, <1>1, PTL

\* When main has ended every context that was opened has been destroyed, also
\* those of an init() that failed half way.
THEOREM NothingLeftOpen == Spec => []ContextsFreed
<1>1. DetectorInv => ContextsFreed
  BY DEF DetectorInv, Opened, ContextsFreed
<1>. QED
  BY InvariantHolds, <1>1, PTL
=============================================================================
