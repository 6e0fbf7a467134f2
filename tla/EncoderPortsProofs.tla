------------------------- MODULE EncoderPortsProofs -------------------------
(***************************************************************************)
(* Proofs about the format negotiation of SoftVideoEncoderOMXComponent for *)
(* every value of the constants: the type invariant, and that the input    *)
(* port always advertises the color format the component reads frames in. *)
(***************************************************************************)
EXTENDS EncoderPorts, TLAPS

-----------------------------------------------------------------------------
(* Lemmas on the fixed-width arithmetic. *)

LEMMA WordPositive == Word \in Nat \ {0}
  BY WordAssumption DEF Word

\* Any integer reduced to a uint32_t is a natural number.
LEMMA U32Nat ==
  ASSUME NEW x \in Int
  PROVE  U32(x) \in Nat
  BY WordPositive DEF U32

\* updatePortParams' rawBufferSize is a natural number.
LEMMA RawBufferSizeNat ==
  ASSUME NEW s \in Int, NEW t \in Int
  PROVE  RawBufferSize(s, t) \in Nat
  <1>1. U32(s * t * 3) \in Nat
    BY U32Nat
  <1>2. QED
    BY <1>1 DEF RawBufferSize

\* The port definitions updatePortParams derives are well typed.
LEMMA DerivedDefsTyped ==
  ASSUME NEW w \in Widths, NEW h \in Heights, NEW fr \in Framerates,
         NEW c \in ColorFormats, NEW br \in Bitrates
  PROVE  /\ InDefOf(w, h, fr, c) \in InDefs
         /\ OutDefOf(w, h, br) \in OutDefs
  <1>1. RawBufferSize(w, h) \in Nat
    BY RawBufferSizeNat, DimsAssumption
  <1>2. RawBufferSize(w, h) \div MinCompressionRatio \in Nat
    BY <1>1, PolicyAssumption
  <1>3. MaxOf(MinOutputBufferSize, RawBufferSize(w, h) \div MinCompressionRatio)
          \in Nat
    BY <1>2, PolicyAssumption DEF MaxOf
  <1>4. QED
    BY <1>1, <1>3, PolicyAssumption DEF InDefOf, OutDefOf, InDefs, OutDefs

\* getParameter(PortDefinition) reports a natural nBufferSize.
LEMMA ReportedSizeNat ==
  ASSUME NEW w \in Widths, NEW h \in Heights
  PROVE  U32(IntFrameSize(w, h)) \in Nat
  <1>1. I32(w * h * 3) \in Int
    BY DimsAssumption, WordPositive DEF I32
  <1>2. IntFrameSize(w, h) \in Int
    BY <1>1 DEF IntFrameSize, CDiv2
  <1>3. QED
    BY <1>2, U32Nat

-----------------------------------------------------------------------------
(* Type correctness. *)

LEMMA UpdateTyped ==
  ASSUME TypeOK, UpdatePortParams,
         mWidth' \in Widths, mHeight' \in Heights,
         mFramerate' \in Framerates, mColorFormat' \in ColorFormats,
         mBitrate' \in Bitrates
  PROVE  /\ inDef' \in InDefs
         /\ outDef' \in OutDefs
         /\ aborted' \in BOOLEAN
  <1>1. CASE IntOverflowTraps /\ UOverflows(mWidth' * mHeight' * 3)
    BY <1>1 DEF UpdatePortParams, TypeOK
  <1>2. CASE ~(IntOverflowTraps /\ UOverflows(mWidth' * mHeight' * 3))
    <2>1. /\ inDef' = InDefOf(mWidth', mHeight', mFramerate', mColorFormat')
          /\ outDef' = OutDefOf(mWidth', mHeight', mBitrate')
          /\ aborted' = FALSE
      BY <1>2 DEF UpdatePortParams
    <2>2. QED
      BY <2>1, DerivedDefsTyped
  <1>3. QED
    BY <1>1, <1>2

\* Every step of the negotiation preserves the types.
LEMMA TypeStep == TypeOK /\ [Next]_vars => TypeOK'
  <1> SUFFICES ASSUME TypeOK, [Next]_vars PROVE TypeOK'
    OBVIOUS
  <1>1. ASSUME NEW op \in Ops, NEW r \in Results, Reject(op, r)
        PROVE  TypeOK'
    BY <1>1 DEF Reject, TypeOK, cfgVars
  <1>2. CASE SetInputPortParams
    <2> PICK w \in Widths, h \in Heights, fr \in Framerates,
             comp \in CodingTypes, color \in ColorFormats, baseOk \in BOOLEAN :
             /\ mWidth' = w /\ mHeight' = h /\ mFramerate' = fr
             /\ mShmData' = IF mIsPowervr /\ mShmData = NoShm
                            THEN [width |-> w, height |-> h] ELSE mShmData
             /\ UNCHANGED <<mInputDataIsMeta, mBitrate, reported>>
             /\ lastOp' = "setPortDefinition"
             /\ IF comp # CodingUnused \/ ~InputColorAccepted(color)
                THEN /\ ret' = "UnsupportedSetting"
                     /\ UNCHANGED <<mColorFormat, inDef, outDef, aborted>>
                ELSE /\ mColorFormat' = color
                     /\ UpdatePortParams
                     /\ ret' = IF baseOk THEN "None" ELSE "BadParameter"
      BY <1>2 DEF SetInputPortParams
    <2>1. mShmData' \in {NoShm} \cup [width : Widths, height : Heights]
      BY DEF TypeOK
    <2>2. CASE comp # CodingUnused \/ ~InputColorAccepted(color)
      BY <2>1, <2>2 DEF TypeOK, Ops, Results
    <2>3. CASE ~(comp # CodingUnused \/ ~InputColorAccepted(color))
      <3>1. /\ inDef' \in InDefs /\ outDef' \in OutDefs /\ aborted' \in BOOLEAN
        BY <2>3, UpdateTyped DEF TypeOK, InputColorAccepted,
                                 SupportedColorFormats, ColorFormats
      <3>2. QED
        BY <2>1, <2>3, <3>1 DEF TypeOK, InputColorAccepted, Ops, Results
    <2>4. QED
      BY <2>2, <2>3
  <1>3. CASE SetOutputPortParams
    <2> PICK br \in Bitrates, comp \in CodingTypes, color \in ColorFormats,
             baseOk \in BOOLEAN :
             \/ /\ comp # mCodingType \/ color # ColorUnused
                /\ Reject("setPortDefinition", "UnsupportedSetting")
             \/ /\ comp = mCodingType /\ color = ColorUnused
                /\ mBitrate' = br
                /\ UNCHANGED <<mInputDataIsMeta, mWidth, mHeight, mFramerate,
                               mColorFormat, mShmData, reported>>
                /\ UpdatePortParams
                /\ lastOp' = "setPortDefinition"
                /\ ret' = IF baseOk THEN "None" ELSE "BadParameter"
      BY <1>3 DEF SetOutputPortParams
    <2>1. CASE Reject("setPortDefinition", "UnsupportedSetting")
      BY <2>1, <1>1 DEF Ops, Results
    <2>2. CASE /\ mBitrate' = br
               /\ UNCHANGED <<mInputDataIsMeta, mWidth, mHeight, mFramerate,
                              mColorFormat, mShmData, reported>>
               /\ UpdatePortParams
               /\ lastOp' = "setPortDefinition"
               /\ ret' = IF baseOk THEN "None" ELSE "BadParameter"
      <3>1. /\ inDef' \in InDefs /\ outDef' \in OutDefs /\ aborted' \in BOOLEAN
        BY <2>2, UpdateTyped DEF TypeOK, SupportedColorFormats, ColorFormats
      <3>2. QED
        BY <2>2, <3>1 DEF TypeOK, Ops, Results
    <2>3. QED
      BY <2>1, <2>2
  <1>4. CASE SetPortDefinition
    BY <1>1, <1>2, <1>3, <1>4 DEF SetPortDefinition, Ops, Results
  <1>5. CASE SetPortFormat
    <2>1. ASSUME NEW color \in ColorFormats, InputColorAccepted(color),
                 mColorFormat' = color,
                 UNCHANGED <<mInputDataIsMeta, mWidth, mHeight, mBitrate,
                             mFramerate, mShmData, reported>>,
                 UpdatePortParams,
                 lastOp' = "setPortFormat", ret' = "None"
          PROVE  TypeOK'
      <3>1. /\ inDef' \in InDefs /\ outDef' \in OutDefs /\ aborted' \in BOOLEAN
        BY <2>1, UpdateTyped DEF TypeOK, InputColorAccepted,
                                 SupportedColorFormats, ColorFormats
      <3>2. QED
        BY <2>1, <3>1 DEF TypeOK, InputColorAccepted, Ops, Results
    <2>2. QED
      BY <1>5, <2>1, <1>1 DEF SetPortFormat, Ops, Results
  <1>6. CASE StoreMetaData
    <2>1. ASSUME NEW store \in BOOLEAN, StoreMetaDataInput(store)
          PROVE  TypeOK'
      <3>1. mColorFormat' \in SupportedColorFormats
        BY <2>1 DEF StoreMetaDataInput, MetaModeColor, TypeOK,
                    SupportedColorFormats
      <3>2. /\ inDef' \in InDefs /\ outDef' \in OutDefs /\ aborted' \in BOOLEAN
        BY <2>1, <3>1, UpdateTyped DEF StoreMetaDataInput, TypeOK,
                                       SupportedColorFormats, ColorFormats
      <3>3. QED
        BY <2>1, <3>1, <3>2 DEF StoreMetaDataInput, TypeOK, Ops, Results
    <2>2. QED
      BY <1>6, <2>1, <1>1 DEF StoreMetaData, Ops, Results
  <1>7. CASE GetPortDefinition
    <2>1. U32(IntFrameSize(mWidth, mHeight)) \in Nat
      BY ReportedSizeNat DEF TypeOK
    <2> PICK port \in PortIndices :
             \/ /\ port > 1
                /\ Reject("getPortDefinition", "Undefined")
             \/ /\ port <= 1
                /\ Platform = "default"
                /\ mColorFormat \notin {Planar, SemiPlanar}
                /\ aborted' = TRUE
                /\ UNCHANGED <<cfgVars, inDef, outDef, mShmData, reported,
                               lastOp, ret>>
             \/ /\ port <= 1
                /\ Platform # "default" \/ mColorFormat \in {Planar, SemiPlanar}
                /\ IF IntOverflowTraps /\ SOverflows(mWidth * mHeight * 3)
                   THEN /\ aborted' = TRUE
                        /\ UNCHANGED <<reported, lastOp, ret>>
                   ELSE /\ aborted' = FALSE
                        /\ reported' =
                             [port |-> port, width |-> mWidth, height |-> mHeight,
                              bufferSize |-> U32(IntFrameSize(mWidth, mHeight))]
                        /\ lastOp' = "getPortDefinition" /\ ret' = "None"
                /\ UNCHANGED <<cfgVars, inDef, outDef, mShmData>>
      BY <1>7 DEF GetPortDefinition
    <2>2. CASE port > 1
      <3>1. Reject("getPortDefinition", "Undefined")
        BY <2>2 DEF PortIndices, kInputPortIndex, kOutputPortIndex
      <3>2. QED
        BY <3>1, <1>1 DEF Ops, Results
    <2>3. CASE port <= 1 /\ Platform = "default"
               /\ mColorFormat \notin {Planar, SemiPlanar}
      <3>1. /\ aborted' = TRUE
            /\ UNCHANGED <<cfgVars, inDef, outDef, mShmData, reported, lastOp, ret>>
        BY <2>3 DEF PortIndices, kInputPortIndex, kOutputPortIndex
      <3>2. QED
        BY <3>1 DEF TypeOK, cfgVars
    <2>4. CASE port <= 1 /\ ~(Platform = "default"
                              /\ mColorFormat \notin {Planar, SemiPlanar})
               /\ IntOverflowTraps /\ SOverflows(mWidth * mHeight * 3)
      <3>1. /\ aborted' = TRUE
            /\ UNCHANGED <<cfgVars, inDef, outDef, mShmData, reported, lastOp, ret>>
        BY <2>4 DEF PortIndices, kInputPortIndex, kOutputPortIndex
      <3>2. QED
        BY <3>1 DEF TypeOK, cfgVars
    <2>5. CASE port <= 1 /\ ~(Platform = "default"
                              /\ mColorFormat \notin {Planar, SemiPlanar})
               /\ ~(IntOverflowTraps /\ SOverflows(mWidth * mHeight * 3))
      <3>1. port \in {kInputPortIndex, kOutputPortIndex}
        BY <2>5 DEF PortIndices, kInputPortIndex, kOutputPortIndex
      <3>2. /\ reported' =
                 [port |-> port, width |-> mWidth, height |-> mHeight,
                  bufferSize |-> U32(IntFrameSize(mWidth, mHeight))]
            /\ lastOp' = "getPortDefinition" /\ ret' = "None"
            /\ aborted' = FALSE
            /\ UNCHANGED <<cfgVars, inDef, outDef, mShmData>>
        BY <2>5 DEF PortIndices, kInputPortIndex, kOutputPortIndex
      <3>3. QED
        BY <3>1, <3>2, <2>1 DEF TypeOK, Ops, Results, cfgVars
    <2>6. QED
      BY <2>2, <2>3, <2>4, <2>5 DEF PortIndices, kInputPortIndex, kOutputPortIndex
  <1>8. CASE ValidateInputBuffer
    BY <1>8 DEF ValidateInputBuffer, TypeOK, Ops, Results, cfgVars
  <1>9. CASE UNCHANGED vars
    BY <1>9 DEF vars, cfgVars, TypeOK
  <1>10. QED
    BY <1>4, <1>5, <1>6, <1>7, <1>8, <1>9 DEF Next

\* The constructor and initPorts leave a well-typed state.
LEMMA InitTyped == Init => TypeOK
  <1> SUFFICES ASSUME Init PROVE TypeOK
    OBVIOUS
  <1>1. /\ InDefOf(InitWidth, InitHeight, DefaultFramerate, Planar) \in InDefs
        /\ OutDefOf(InitWidth, InitHeight, DefaultBitrate) \in OutDefs
    BY DerivedDefsTyped, DimsAssumption, RateAssumption DEF ColorFormats
  <1>2. QED
    BY <1>1, DimsAssumption, RateAssumption
    DEF Init, TypeOK, SupportedColorFormats, Ops, Results, NoShm, NoReport

THEOREM TypeCorrect == Spec => []TypeOK
  <1>1. Init => TypeOK
    BY InitTyped
  <1>2. TypeOK /\ [Next]_vars => TypeOK'
    BY TypeStep
  <1>3. QED
    BY <1>1, <1>2, PTL DEF Spec

-----------------------------------------------------------------------------
(* The published input color format. *)

\* updatePortParams publishes mColorFormat unless it traps.
LEMMA UpdatePublishesColor ==
  ASSUME UpdatePortParams
  PROVE  ~aborted' => inDef'.color = mColorFormat'
  BY DEF UpdatePortParams, InDefOf

\* A handler that rejects leaves both sides of the invariant as they were.
LEMMA RejectKeepsColor ==
  ASSUME NEW op, NEW r, Reject(op, r), ColorFormatPublished
  PROVE  ColorFormatPublished'
  BY DEF Reject, ColorFormatPublished, cfgVars

\* A step that aborts, or leaves the format and the input port alone.
LEMMA FrameKeepsColor ==
  ASSUME ColorFormatPublished, ~aborted,
         aborted' = TRUE \/ (mColorFormat' = mColorFormat /\ inDef' = inDef)
  PROVE  ColorFormatPublished'
  BY DEF ColorFormatPublished

(***************************************************************************)
(* The input port always advertises the color format the component reads  *)
(* frames in.  ColorFormatPublished is inductive by itself: every write to *)
(* mColorFormat is followed by updatePortParams, and inDef is written by   *)
(* nothing else.                                                           *)
(***************************************************************************)
THEOREM ColorPublished == Spec => []ColorFormatPublished
  <1>1. Init => ColorFormatPublished
    BY DEF Init, ColorFormatPublished, InDefOf
  <1>2. ColorFormatPublished /\ [Next]_vars => ColorFormatPublished'
    <2> SUFFICES ASSUME ColorFormatPublished, [Next]_vars
                 PROVE  ColorFormatPublished'
      OBVIOUS
    <2>1. CASE UNCHANGED vars
      BY <2>1 DEF vars, cfgVars, ColorFormatPublished
    <2>2. CASE Next
      <3>0. ~aborted
        BY <2>2 DEF Next
      <3>1. CASE SetInputPortParams
        <4> PICK w \in Widths, h \in Heights, fr \in Framerates,
                 comp \in CodingTypes, color \in ColorFormats, baseOk \in BOOLEAN :
                 /\ mWidth' = w /\ mHeight' = h /\ mFramerate' = fr
                 /\ IF comp # CodingUnused \/ ~InputColorAccepted(color)
                    THEN /\ ret' = "UnsupportedSetting"
                         /\ UNCHANGED <<mColorFormat, inDef, outDef, aborted>>
                    ELSE /\ mColorFormat' = color
                         /\ UpdatePortParams
                         /\ ret' = IF baseOk THEN "None" ELSE "BadParameter"
          BY <3>1 DEF SetInputPortParams
        <4>1. CASE comp # CodingUnused \/ ~InputColorAccepted(color)
          BY <4>1 DEF ColorFormatPublished
        <4>2. CASE ~(comp # CodingUnused \/ ~InputColorAccepted(color))
          BY <4>2, UpdatePublishesColor DEF ColorFormatPublished
        <4>3. QED
          BY <4>1, <4>2
      <3>2. CASE SetOutputPortParams
        <4>1. ASSUME UNCHANGED mColorFormat, UpdatePortParams
              PROVE  ColorFormatPublished'
          BY <4>1, UpdatePublishesColor DEF ColorFormatPublished
        <4>2. QED
          BY <3>2, <4>1, RejectKeepsColor DEF SetOutputPortParams
      <3>3. CASE SetPortDefinition
        BY <3>1, <3>2, <3>3, RejectKeepsColor DEF SetPortDefinition
      <3>4. CASE SetPortFormat
        <4>1. ASSUME UpdatePortParams PROVE ColorFormatPublished'
          BY <4>1, UpdatePublishesColor DEF ColorFormatPublished
        <4>2. QED
          BY <3>4, <4>1, RejectKeepsColor DEF SetPortFormat
      <3>5. CASE StoreMetaData
        <4>1. ASSUME UpdatePortParams PROVE ColorFormatPublished'
          BY <4>1, UpdatePublishesColor DEF ColorFormatPublished
        <4>2. QED
          BY <3>5, <4>1, RejectKeepsColor DEF StoreMetaData, StoreMetaDataInput
      <3>6. CASE GetPortDefinition
        <4>1. aborted' = TRUE \/ (mColorFormat' = mColorFormat /\ inDef' = inDef)
          BY <3>6 DEF GetPortDefinition, Reject, cfgVars
        <4>2. QED
          BY <3>0, <4>1, FrameKeepsColor
      <3>7. CASE ValidateInputBuffer
        <4>1. mColorFormat' = mColorFormat /\ inDef' = inDef
          BY <3>7 DEF ValidateInputBuffer, cfgVars
        <4>2. QED
          BY <3>0, <4>1, FrameKeepsColor
      <3>8. QED
        BY <2>2, <3>3, <3>4, <3>5, <3>6, <3>7 DEF Next
    <2>3. QED
      BY <2>1, <2>2
  <1>3. QED
    BY <1>1, <1>2, PTL DEF Spec

-----------------------------------------------------------------------------
(* Refinement of the port contract. *)

\* The ports a step leaves: the same, or those of the new configuration.
PortsKeptOrDerived ==
    \/ UNCHANGED <<inDef, outDef>>
    \/ /\ inDef' = InDefOf(mWidth', mHeight', mFramerate', mColorFormat')
       /\ outDef' = OutDefOf(mWidth', mHeight', mBitrate')

\* updatePortParams either traps and keeps both ports or derives both.
LEMMA UpdateKeepsOrDerives ==
  ASSUME UpdatePortParams
  PROVE  PortsKeptOrDerived
  BY DEF UpdatePortParams, PortsKeptOrDerived

\* A rejecting handler keeps both ports.
LEMMA RejectKeepsPorts ==
  ASSUME NEW op, NEW r, Reject(op, r)
  PROVE  PortsKeptOrDerived
  BY DEF Reject, PortsKeptOrDerived

\* No handler writes a port definition other than through updatePortParams.
LEMMA PortsStep ==
  ASSUME [Next]_vars
  PROVE  PortsKeptOrDerived
  <1>1. CASE SetInputPortParams
    <2> PICK w \in Widths, h \in Heights, fr \in Framerates,
             comp \in CodingTypes, color \in ColorFormats, baseOk \in BOOLEAN :
             IF comp # CodingUnused \/ ~InputColorAccepted(color)
             THEN UNCHANGED <<mColorFormat, inDef, outDef, aborted>>
             ELSE UpdatePortParams
      BY <1>1 DEF SetInputPortParams
    <2>1. CASE comp # CodingUnused \/ ~InputColorAccepted(color)
      BY <2>1 DEF PortsKeptOrDerived
    <2>2. CASE ~(comp # CodingUnused \/ ~InputColorAccepted(color))
      BY <2>2, UpdateKeepsOrDerives
    <2>3. QED
      BY <2>1, <2>2
  <1>2. CASE SetOutputPortParams
    BY <1>2, UpdateKeepsOrDerives, RejectKeepsPorts DEF SetOutputPortParams
  <1>3. CASE SetPortFormat
    BY <1>3, UpdateKeepsOrDerives, RejectKeepsPorts DEF SetPortFormat
  <1>4. CASE StoreMetaData
    BY <1>4, UpdateKeepsOrDerives, RejectKeepsPorts
    DEF StoreMetaData, StoreMetaDataInput
  <1>5. CASE GetPortDefinition
    BY <1>5, RejectKeepsPorts DEF GetPortDefinition, PortsKeptOrDerived
  <1>6. CASE ValidateInputBuffer
    BY <1>6 DEF ValidateInputBuffer, PortsKeptOrDerived
  <1>7. CASE UNCHANGED vars
    BY <1>7 DEF vars, PortsKeptOrDerived
  <1>8. QED
    BY <1>1, <1>2, <1>3, <1>4, <1>5, <1>6, <1>7, RejectKeepsPorts
    DEF Next, SetPortDefinition

(***************************************************************************)
(* The component implements the port contract for every value of the      *)
(* constants: inDef and outDef always describe one configuration with a   *)
(* supported input color, and every step either keeps both or moves both  *)
(* to the definitions of the configuration it leaves.  The new            *)
(* configuration is a legal one because TypeOK holds after the step.      *)
(***************************************************************************)
\* The initial port definitions describe the default configuration.
LEMMA ContractInitHolds ==
  ASSUME Init
  PROVE  Contract!ContractInit
  <1>1. Contract!Describes(inDef, outDef, InitWidth, InitHeight,
                           DefaultFramerate, DefaultBitrate, Planar)
    BY DEF Init, Contract!Describes
  <1>2. QED
    BY <1>1, DimsAssumption, RateAssumption
    DEF Contract!ContractInit, SupportedColorFormats

\* Every step of the negotiation keeps both ports or republishes both.
LEMMA ContractStep ==
  ASSUME TypeOK, [Next]_vars
  PROVE  [Contract!Republish]_Contract!portVars
  <1>1. TypeOK'
    BY TypeStep
  <1>2. CASE UNCHANGED <<inDef, outDef>>
    BY <1>2 DEF Contract!portVars
  <1>3. CASE /\ inDef' = InDefOf(mWidth', mHeight', mFramerate', mColorFormat')
             /\ outDef' = OutDefOf(mWidth', mHeight', mBitrate')
    <2>1. Contract!Describes(inDef', outDef', mWidth', mHeight', mFramerate',
                             mBitrate', mColorFormat')
      BY <1>3 DEF Contract!Describes
    <2>2. QED
      BY <1>1, <2>1 DEF TypeOK, Contract!Republish
  <1>4. QED
    BY <1>2, <1>3, PortsStep DEF PortsKeptOrDerived

THEOREM ImplementsContract == Spec => PortsImplementContract
  <1>1. Init => Contract!ContractInit
    BY ContractInitHolds
  <1>2. TypeOK /\ [Next]_vars => [Contract!Republish]_Contract!portVars
    BY ContractStep
  <1>3. QED
    BY <1>1, <1>2, TypeCorrect, PTL
    DEF Spec, PortsImplementContract, Contract!ContractSpec

-----------------------------------------------------------------------------
(* Action properties. *)

\* The step RecomputeOnChange forbids: an accepted call that changed the
\* configuration without republishing both ports from it.
RecomputeAct ==
    (ret' = "None" /\ ~aborted' /\ cfgVars' # cfgVars) =>
        /\ inDef' = InDefOf(mWidth', mHeight', mFramerate', mColorFormat')
        /\ outDef' = OutDefOf(mWidth', mHeight', mBitrate')

\* updatePortParams traps or republishes both ports from the new
\* configuration.
LEMMA UpdateRecomputes ==
  ASSUME UpdatePortParams
  PROVE  RecomputeAct
  BY DEF UpdatePortParams, RecomputeAct

\* A rejecting handler changes no configuration.
LEMMA RejectRecomputes ==
  ASSUME NEW op, NEW r, Reject(op, r)
  PROVE  RecomputeAct
  BY DEF Reject, RecomputeAct

(***************************************************************************)
(* Every step of every handler satisfies RecomputeAct.  The only handler  *)
(* that changes the configuration and does not call updatePortParams is   *)
(* the input branch of internalSetPortParams when it rejects the format;   *)
(* it returns UnsupportedSetting, so the step is not an accepted one.      *)
(***************************************************************************)
LEMMA RecomputeStep ==
  ASSUME [Next]_vars
  PROVE  [RecomputeAct]_vars
  <1>1. CASE SetInputPortParams
    <2> PICK w \in Widths, h \in Heights, fr \in Framerates,
             comp \in CodingTypes, color \in ColorFormats, baseOk \in BOOLEAN :
             IF comp # CodingUnused \/ ~InputColorAccepted(color)
             THEN ret' = "UnsupportedSetting"
             ELSE UpdatePortParams
      BY <1>1 DEF SetInputPortParams
    <2>1. CASE comp # CodingUnused \/ ~InputColorAccepted(color)
      BY <2>1 DEF RecomputeAct
    <2>2. CASE ~(comp # CodingUnused \/ ~InputColorAccepted(color))
      BY <2>2, UpdateRecomputes
    <2>3. QED
      BY <2>1, <2>2
  <1>2. CASE SetOutputPortParams
    BY <1>2, UpdateRecomputes, RejectRecomputes DEF SetOutputPortParams
  <1>3. CASE SetPortFormat
    BY <1>3, UpdateRecomputes, RejectRecomputes DEF SetPortFormat
  <1>4. CASE StoreMetaData
    BY <1>4, UpdateRecomputes, RejectRecomputes
    DEF StoreMetaData, StoreMetaDataInput
  <1>5. CASE GetPortDefinition
    BY <1>5, RejectRecomputes DEF GetPortDefinition, RecomputeAct
  <1>6. CASE ValidateInputBuffer
    BY <1>6 DEF ValidateInputBuffer, RecomputeAct
  <1>7. CASE UNCHANGED vars
    BY <1>7
  <1>8. QED
    BY <1>1, <1>2, <1>3, <1>4, <1>5, <1>6, <1>7, RejectRecomputes
    DEF Next, SetPortDefinition

(***************************************************************************)
(* RecomputeOnChange for every value of the constants: a call that returns *)
(* OMX_ErrorNone without aborting and changes the configuration leaves     *)
(* both port definitions recomputed from it.  No invariant is needed: it   *)
(* is a property of each handler on its own.                               *)
(***************************************************************************)
THEOREM RecomputeProved == Spec => RecomputeOnChange
  <1>1. [Next]_vars => [RecomputeAct]_vars
    BY RecomputeStep
  <1>2. QED
    BY <1>1, PTL DEF Spec, RecomputeOnChange, RecomputeAct

====
