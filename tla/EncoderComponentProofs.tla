----------------------- MODULE EncoderComponentProofs -----------------------
(***************************************************************************)
(* Proofs about the whole component for every value of the constants: its *)
(* type invariant, and that closeEgl never releases an EGL or GL object    *)
(* twice.                                                                  *)
(***************************************************************************)
EXTENDS EncoderComponent, EncoderPortsProofs

-----------------------------------------------------------------------------
(* Type correctness. *)

\* Every record extractGraphicBuffer leaves in extracted is well typed.
LEMMA OutcomeTyped ==
  ASSUME NEW result \in {"none", "null", "frame"},
         NEW path \in {"none", "cpu", "gpu"},
         NEW format, NEW pad, NEW done \in BOOLEAN
  PROVE  Outcome(result, path, format, pad, done) \in Extracts
  BY DEF Outcome, Extracts, ScratchFits, StrideFits, StrideScaled

\* A step of the GPU side leaves the negotiation typed: it changes at most
\* mShmData, and only to NULL.
LEMMA PortsTypedAcrossGpu ==
  ASSUME TypeOK, UNCHANGED portVars,
         mShmData' = mShmData \/ mShmData' = NoShm
  PROVE  TypeOK'
  BY DEF TypeOK, portVars, cfgVars

\* The component's own variables after extractGraphicBuffer.
LEMMA ExtractTyped ==
  ASSUME ComponentTypeOK, ExtractGraphicBuffer
  PROVE  /\ meta' \in Metas
         /\ extracted' \in Extracts
         /\ locks' \in 0..MaxLockLeaks
  <1> USE DEF ComponentTypeOK
  <1>1. PICK srcOk, dstOk, lockOk, inTime \in BOOLEAN :
          LET anw == meta.type = "ANWBuffer"
              format == IF anw THEN meta.format ELSE "RGBA"
              pad == IF anw THEN meta.pad ELSE 0
              waits == anw /\ meta.fenceFd
              ready == ~waits \/ meta.signalled \/ inTime
              signalled == meta.signalled \/ (waits /\ inTime)
          IN
          \/ /\ meta.type = "Other" \/ ~srcOk
             /\ extracted' = Outcome("null", "none", format, pad, signalled)
             /\ UNCHANGED <<meta, locks>>
          \/ /\ meta.type # "Other" /\ srcOk
             /\ meta' = IF waits
                        THEN [meta EXCEPT !.fenceFd = FALSE, !.signalled = signalled]
                        ELSE meta
             /\ IF ready /\ dstOk /\ lockOk
                THEN ConvertLocked(format, pad, signalled)
                ELSE /\ extracted' = Outcome("null", "none", format, pad, signalled)
                     /\ UNCHANGED locks
    BY DEF ExtractGraphicBuffer
  <1>2. locks < MaxLockLeaks
    BY DEF ExtractGraphicBuffer
  <1>3. meta' \in Metas
    BY <1>1 DEF Metas
  <1>4. extracted' \in Extracts
    BY <1>1, OutcomeTyped DEF ConvertLocked
  <1>5. locks' \in 0..MaxLockLeaks
    BY <1>1, <1>2, ComponentAssumption DEF ConvertLocked
  <1>6. QED
    BY <1>3, <1>4, <1>5

(***************************************************************************)
(* Every variable of the component keeps its type: the negotiation's by   *)
(* TypeStep, the EGL handles, the lock count (bounded by the guard of      *)
(* extractGraphicBuffer), the client's metadata and the extraction record. *)
(***************************************************************************)
THEOREM ComponentTypeCorrect == ComponentSpec => []ComponentTypeOK
  <1>1. ComponentInit => ComponentTypeOK
    <2> SUFFICES ASSUME ComponentInit PROVE ComponentTypeOK
      OBVIOUS
    <2>1. TypeOK
      BY InitTyped DEF ComponentInit
    <2>2. NoExtract \in Extracts
      BY DEF NoExtract, Extracts
    <2>3. meta \in Metas
      BY DEF ComponentInit, Queueable
    <2>4. locks \in 0..MaxLockLeaks
      BY ComponentAssumption DEF ComponentInit
    <2>5. QED
      BY <2>1, <2>2, <2>3, <2>4, Zenon
      DEF ComponentInit, ComponentTypeOK, Handles, Programs
  <1>2. ComponentTypeOK /\ [ComponentNext]_allVars => ComponentTypeOK'
    <2> SUFFICES ASSUME ComponentTypeOK, [ComponentNext]_allVars
                 PROVE  ComponentTypeOK'
      OBVIOUS
    <2>0. TypeOK
      BY DEF ComponentTypeOK
    <2>1. CASE Next /\ UNCHANGED gpuVars
      <3>1. TypeOK'
        BY <2>0, <2>1, TypeStep
      <3>2. QED
        BY <2>1, <3>1 DEF ComponentTypeOK, gpuVars
    <2>2. CASE QueueMetadata
      <3>1. TypeOK'
        BY <2>0, <2>2, PortsTypedAcrossGpu DEF QueueMetadata, vars, portVars
      <3>2. QED
        BY <2>2, <3>1 DEF QueueMetadata, ComponentTypeOK, eglVars, Queueable
    <2>3. CASE SignalFence
      <3>1. TypeOK'
        BY <2>0, <2>3, PortsTypedAcrossGpu DEF SignalFence, vars, portVars
      <3>2. QED
        BY <2>3, <3>1 DEF SignalFence, ComponentTypeOK, eglVars, Metas
    <2>4. CASE InitEgl
      <3>1. TypeOK'
        BY <2>0, <2>4, PortsTypedAcrossGpu DEF InitEgl, vars, portVars
      <3>2. QED
        BY <2>4, <3>1 DEF InitEgl, ComponentTypeOK, Handles, Programs
    <2>5. CASE CloseEgl
      <3>1. TypeOK'
        BY <2>0, <2>5, PortsTypedAcrossGpu DEF CloseEgl
      <3>2. CASE mEglDisplay = "none"
        BY <2>5, <3>1, <3>2 DEF CloseEgl, ComponentTypeOK, eglVars
      <3>3. CASE mEglDisplay # "none"
        BY <2>5, <3>1, <3>3
        DEF CloseEgl, EglTeardown, ComponentTypeOK, Handles, Programs
      <3>4. QED
        BY <3>2, <3>3
    <2>6. CASE ExtractGraphicBuffer
      <3>1. TypeOK'
        BY <2>0, <2>6, PortsTypedAcrossGpu DEF ExtractGraphicBuffer, vars, portVars
      <3>2. QED
        BY <2>6, <3>1, ExtractTyped
        DEF ExtractGraphicBuffer, ComponentTypeOK, eglVars
    <2>7. CASE UNCHANGED allVars
      BY <2>7 DEF allVars, vars, cfgVars, gpuVars, ComponentTypeOK, TypeOK
    <2>8. QED
      BY <2>1, <2>2, <2>3, <2>4, <2>5, <2>6, <2>7 DEF ComponentNext, GpuNext
  <1>3. QED
    BY <1>1, <1>2, PTL DEF ComponentSpec

-----------------------------------------------------------------------------
(* EGL teardown. *)

\* No EGL handle or program is held after the object it names was freed,
\* and no object has been released twice.
EglInv ==
    /\ mEglDisplay # "dead" /\ mEglContext # "dead"
    /\ mEglSurface # "dead" /\ mProgram # "dead"
    /\ NoDoubleRelease

(***************************************************************************)
(* closeEgl never releases an EGL or GL object that is already gone,       *)
(* however initEgl, closeEgl, extraction and the negotiation interleave.   *)
(* NoDoubleRelease alone is not inductive: it needs that no handle is      *)
(* held for a freed object, which closeEgl keeps by resetting all three    *)
(* EGL handles and mProgram.                                               *)
(***************************************************************************)
THEOREM ReleasedOnce == ComponentSpec => []NoDoubleRelease
  <1>1. ComponentInit => EglInv
    BY DEF ComponentInit, EglInv, NoDoubleRelease
  <1>2. EglInv /\ [ComponentNext]_allVars => EglInv'
    <2> SUFFICES ASSUME EglInv, [ComponentNext]_allVars PROVE EglInv'
      OBVIOUS
    <2>1. CASE Next /\ UNCHANGED gpuVars
      BY <2>1 DEF gpuVars, EglInv, NoDoubleRelease
    <2>2. CASE QueueMetadata \/ SignalFence \/ ExtractGraphicBuffer
      <3>1. UNCHANGED eglVars
        BY <2>2 DEF QueueMetadata, SignalFence, ExtractGraphicBuffer
      <3>2. QED
        BY <3>1 DEF eglVars, EglInv, NoDoubleRelease
    <2>3. CASE InitEgl
      BY <2>3 DEF InitEgl, EglInv, NoDoubleRelease
    <2>4. CASE CloseEgl
      <3>1. CASE mEglDisplay = "none"
        BY <2>4, <3>1 DEF CloseEgl, eglVars, EglInv, NoDoubleRelease
      <3>2. CASE mEglDisplay # "none"
        <4>1. ~Released(<<mProgram, mEglSurface, mEglContext, mEglDisplay>>)
          BY DEF Released, EglInv
        <4>2. ~badRelease' /\ EglTeardown
          BY <2>4, <3>2, <4>1 DEF CloseEgl, EglInv, NoDoubleRelease
        <4>3. QED
          BY <4>2 DEF EglTeardown, EglInv, NoDoubleRelease
      <3>3. QED
        BY <3>1, <3>2
    <2>5. CASE UNCHANGED allVars
      BY <2>5 DEF allVars, gpuVars, EglInv, NoDoubleRelease
    <2>6. QED
      BY <2>1, <2>2, <2>3, <2>4, <2>5 DEF ComponentNext, GpuNext
  <1>3. EglInv => NoDoubleRelease
    BY DEF EglInv
  <1>4. QED
    BY <1>1, <1>2, <1>3, PTL DEF ComponentSpec

-----------------------------------------------------------------------------
(* EGL objects and the display. *)

\* initEgl creates a context, a surface or a program only with a display.
LEMMA InitEglNeedsDisplay ==
  ASSUME InitEgl
  PROVE  NothingWithoutDisplay'
  <1> PICK display, current \in BOOLEAN, context, surface \in {"none", "live"} :
          /\ current => display /\ context = "live" /\ surface = "live"
          /\ mEglDisplay' = IF display THEN "live" ELSE "none"
          /\ mEglContext' = IF display THEN context ELSE "none"
          /\ mEglSurface' = IF display THEN surface ELSE "none"
          /\ mProgram' =
               IF ~current THEN "none"
               ELSE IF meta.type = "ANWBuffer" /\ meta.format \notin RgbFormats
                    THEN "yuv" ELSE "rgb"
    BY DEF InitEgl
  <1>1. CASE display
    BY <1>1 DEF NothingWithoutDisplay
  <1>2. CASE ~display
    BY <1>2 DEF NothingWithoutDisplay
  <1>3. QED
    BY <1>1, <1>2

(***************************************************************************)
(* For every value of the constants, no EGL context, surface or GL program *)
(* is held without a display, so closeEgl's early return on               *)
(* EGL_NO_DISPLAY leaks none of them.  The invariant is inductive: initEgl *)
(* creates them only on a display it got, and closeEgl resets all four    *)
(* handles together.                                                       *)
(***************************************************************************)
THEOREM OwnedByDisplay == ComponentSpec => []NothingWithoutDisplay
  <1>1. ComponentInit => NothingWithoutDisplay
    BY DEF ComponentInit, NothingWithoutDisplay
  <1>2. NothingWithoutDisplay /\ [ComponentNext]_allVars => NothingWithoutDisplay'
    <2> SUFFICES ASSUME NothingWithoutDisplay, [ComponentNext]_allVars
                 PROVE  NothingWithoutDisplay'
      OBVIOUS
    <2>1. CASE Next /\ UNCHANGED gpuVars
      BY <2>1 DEF gpuVars, NothingWithoutDisplay
    <2>2. CASE QueueMetadata \/ SignalFence \/ ExtractGraphicBuffer
      <3>1. UNCHANGED eglVars
        BY <2>2 DEF QueueMetadata, SignalFence, ExtractGraphicBuffer
      <3>2. QED
        BY <3>1 DEF eglVars, NothingWithoutDisplay
    <2>3. CASE InitEgl
      BY <2>3, InitEglNeedsDisplay
    <2>4. CASE CloseEgl
      <3>1. CASE mEglDisplay = "none"
        BY <2>4, <3>1 DEF CloseEgl, eglVars, NothingWithoutDisplay
      <3>2. CASE mEglDisplay # "none"
        BY <2>4, <3>2 DEF CloseEgl, EglTeardown, NothingWithoutDisplay
      <3>3. QED
        BY <3>1, <3>2
    <2>5. CASE UNCHANGED allVars
      BY <2>5 DEF allVars, gpuVars, NothingWithoutDisplay
    <2>6. QED
      BY <2>1, <2>2, <2>3, <2>4, <2>5 DEF ComponentNext, GpuNext
  <1>3. QED
    BY <1>1, <1>2, PTL DEF ComponentSpec

-----------------------------------------------------------------------------
(* The EGL session. *)

\* extractGraphicBuffer takes the GPU path only with a display (L892).
LEMMA ExtractGpuNeedsDisplay ==
  ASSUME ExtractGraphicBuffer
  PROVE  extracted'.path = "gpu" => mEglDisplay # "none"
  <1>1. PICK srcOk, dstOk, lockOk, inTime \in BOOLEAN :
          LET anw == meta.type = "ANWBuffer"
              format == IF anw THEN meta.format ELSE "RGBA"
              pad == IF anw THEN meta.pad ELSE 0
              waits == anw /\ meta.fenceFd
              ready == ~waits \/ meta.signalled \/ inTime
              signalled == meta.signalled \/ (waits /\ inTime)
          IN
          \/ /\ meta.type = "Other" \/ ~srcOk
             /\ extracted' = Outcome("null", "none", format, pad, signalled)
          \/ /\ IF ready /\ dstOk /\ lockOk
                THEN ConvertLocked(format, pad, signalled)
                ELSE extracted' = Outcome("null", "none", format, pad, signalled)
    BY DEF ExtractGraphicBuffer
  <1>2. QED
    BY <1>1 DEF ConvertLocked, Outcome

\* Steps that touch neither the EGL handles nor extracted are stutters of
\* the session.
LEMMA SessionStutter ==
  ASSUME UNCHANGED <<mEglDisplay, mEglContext, mEglSurface, mProgram, extracted>>
  PROVE  UNCHANGED Session!sessionVars
  BY DEF Session!sessionVars, SessionState, SessionHeld

(***************************************************************************)
(* For every value of the constants, the component implements EglSession   *)
(* under the mapping SessionState, SessionHeld, extracted.path: initEgl    *)
(* with a display opens the session, and without one leaves every handle   *)
(* reset, which is a stutter only because nothing is held without a       *)
(* display (OwnedByDisplay); closeEgl with a display closes it, releasing  *)
(* all; extractGraphicBuffer takes the GPU path only while it is open.     *)
(***************************************************************************)
THEOREM ImplementsEglSession == ComponentSpec => EglSessionRefined
  <1>1. ComponentInit => Session!SessionInit
    BY DEF ComponentInit, NoExtract, Session!SessionInit, SessionState,
           SessionHeld
  <1>2. ComponentTypeOK /\ NothingWithoutDisplay /\ [ComponentNext]_allVars
          => [Session!SessionNext]_Session!sessionVars
    <2> SUFFICES ASSUME ComponentTypeOK, NothingWithoutDisplay,
                        [ComponentNext]_allVars
                 PROVE  [Session!SessionNext]_Session!sessionVars
      OBVIOUS
    <2>1. CASE (Next /\ UNCHANGED gpuVars) \/ QueueMetadata \/ SignalFence
                 \/ UNCHANGED allVars
      <3>1. UNCHANGED <<mEglDisplay, mEglContext, mEglSurface, mProgram, extracted>>
        BY <2>1 DEF gpuVars, allVars, QueueMetadata, SignalFence, eglVars
      <3>2. QED
        BY <3>1, SessionStutter
    <2>2. CASE InitEgl
      <3>1. PICK display, current \in BOOLEAN,
                 context, surface \in {"none", "live"} :
              /\ current => display /\ context = "live" /\ surface = "live"
              /\ mEglDisplay' = IF display THEN "live" ELSE "none"
              /\ mEglContext' = IF display THEN context ELSE "none"
              /\ mEglSurface' = IF display THEN surface ELSE "none"
              /\ mProgram' \in IF ~current THEN {"none"} ELSE {"yuv", "rgb"}
        BY <2>2 DEF InitEgl
      <3>2. mEglDisplay = "none" /\ UNCHANGED extracted
        BY <2>2 DEF InitEgl
      <3>3. CASE display
        <4>1. SessionState = "closed" /\ SessionState' = "open"
          BY <3>1, <3>2, <3>3 DEF SessionState
        <4>2. SessionHeld' \in SUBSET Session!Objects
          BY DEF SessionHeld, Session!Objects
        <4>3. "program" \in SessionHeld' =>
                {"context", "surface"} \subseteq SessionHeld'
          BY <3>1 DEF SessionHeld
        <4>4. QED
          BY <3>2, <4>1, <4>2, <4>3 DEF Session!SessionNext, Session!Open
      <3>4. CASE ~display
        <4>1. UNCHANGED <<mEglDisplay, mEglContext, mEglSurface, mProgram>>
          BY <3>1, <3>2, <3>4 DEF NothingWithoutDisplay
        <4>2. QED
          BY <3>2, <4>1, SessionStutter
      <3>5. QED
        BY <3>3, <3>4
    <2>3. CASE CloseEgl
      <3>1. UNCHANGED extracted
        BY <2>3 DEF CloseEgl
      <3>2. CASE mEglDisplay = "none"
        BY <2>3, <3>1, <3>2, SessionStutter DEF CloseEgl, eglVars
      <3>3. CASE mEglDisplay # "none"
        <4>1. EglTeardown
          BY <2>3, <3>3 DEF CloseEgl
        <4>2. SessionState = "open" /\ SessionState' = "closed"
          BY <3>3, <4>1 DEF SessionState, EglTeardown
        <4>3. SessionHeld' = {}
          BY <4>1 DEF SessionHeld, EglTeardown
        <4>4. QED
          BY <3>1, <4>2, <4>3 DEF Session!SessionNext, Session!Close
      <3>4. QED
        BY <3>2, <3>3
    <2>4. CASE ExtractGraphicBuffer
      <3>1. UNCHANGED <<mEglDisplay, mEglContext, mEglSurface, mProgram>>
        BY <2>4 DEF ExtractGraphicBuffer, eglVars
      <3>2. extracted'.path \in {"none", "cpu", "gpu"}
        BY <2>4, ExtractTyped DEF Extracts
      <3>3. extracted'.path = "gpu" => SessionState = "open"
        BY <2>4, ExtractGpuNeedsDisplay DEF SessionState
      <3>4. UNCHANGED <<SessionState, SessionHeld>>
        BY <3>1 DEF SessionState, SessionHeld
      <3>5. QED
        BY <3>2, <3>3, <3>4 DEF Session!SessionNext, Session!Extract
    <2>5. QED
      BY <2>1, <2>2, <2>3, <2>4 DEF ComponentNext, GpuNext
  <1>3. QED
    BY <1>1, <1>2, ComponentTypeCorrect, OwnedByDisplay, PTL
    DEF ComponentSpec, EglSessionRefined, Session!SessionSpec

-----------------------------------------------------------------------------
(* The port contract across the GPU side. *)

(***************************************************************************)
(* The whole component still implements PortContract: initEgl, closeEgl    *)
(* (which frees mShmData), extractGraphicBuffer and the client's metadata  *)
(* buffers never touch the published port definitions, so every step of   *)
(* the component keeps both ports or republishes both from one            *)
(* configuration.                                                          *)
(***************************************************************************)
THEOREM ComponentImplementsContract == ComponentSpec => PortsImplementContract
  <1>1. ComponentInit => Contract!ContractInit
    BY ContractInitHolds DEF ComponentInit
  <1>2. ComponentTypeOK /\ [ComponentNext]_allVars
          => [Contract!Republish]_Contract!portVars
    <2> SUFFICES ASSUME ComponentTypeOK, [ComponentNext]_allVars
                 PROVE  [Contract!Republish]_Contract!portVars
      OBVIOUS
    <2>1. CASE Next /\ UNCHANGED gpuVars
      BY <2>1, ContractStep DEF ComponentTypeOK
    <2>2. CASE GpuNext \/ UNCHANGED allVars
      <3>1. UNCHANGED <<inDef, outDef>>
        BY <2>2 DEF GpuNext, QueueMetadata, SignalFence, InitEgl, CloseEgl,
                    ExtractGraphicBuffer, allVars, vars, portVars
      <3>2. QED
        BY <3>1 DEF Contract!portVars
    <2>3. QED
      BY <2>1, <2>2 DEF ComponentNext
  <1>3. QED
    BY <1>1, <1>2, ComponentTypeCorrect, PTL
    DEF ComponentSpec, PortsImplementContract, Contract!ContractSpec

====
