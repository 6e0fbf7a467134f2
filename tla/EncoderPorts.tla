---------------------------- MODULE EncoderPorts ----------------------------
(***************************************************************************)
(* Format negotiation of SoftVideoEncoderOMXComponent: the component's     *)
(* authoritative configuration (mWidth, mHeight, mFramerate, mBitrate,     *)
(* mColorFormat, mInputDataIsMeta), the two port definitions it publishes  *)
(* (inDef, outDef, the mDef of SimpleSoftOMXComponent's PortInfo) and the  *)
(* GPU readback scratch buffer mShmData that internalSetPortParams sizes.  *)
(* Every handler runs to completion on the caller's thread, so each is one *)
(* atomic action.  Integer arithmetic keeps its width: uint32_t/OMX_U32    *)
(* wraps mod 2^WordBits, int32_t wraps (or traps, on a build with the      *)
(* integer-overflow sanitizer) and size_t is twice as wide.               *)
(***************************************************************************)
EXTENDS Integers

CONSTANTS
    Widths, Heights,        \* frame sizes a client may propose
    InitWidth, InitHeight,  \* the subclass constructor's width, height
    Framerates,             \* xFramerate values (Q16) a client may propose
    Bitrates,               \* nBitrate values a client may propose
    DefaultFramerate,       \* mFramerate(30 << 16)
    DefaultBitrate,         \* mBitrate(192000)
    MinOutputBufferSize,    \* initPorts' outputBufferSize
    MinCompressionRatio,    \* initPorts' minCompressionRatio
    MetaSize,               \* max(sizeof(VideoNativeMetadata), sizeof(VideoGrallocMetadata))
    WordBits,               \* width of uint32_t / int32_t (32)
    Platform,               \* value of the ro.hardware.egl property
    IntOverflowTraps        \* built with the signed/unsigned overflow sanitizer

ASSUME DimsAssumption ==
    /\ Widths \subseteq Nat \ {0} /\ Heights \subseteq Nat \ {0}
    /\ InitWidth \in Widths /\ InitHeight \in Heights
ASSUME RateAssumption ==
    /\ DefaultFramerate \in Framerates /\ DefaultBitrate \in Bitrates
    /\ Framerates \subseteq Nat /\ Bitrates \subseteq Nat
ASSUME PolicyAssumption ==
    /\ MinOutputBufferSize \in Nat
    /\ MinCompressionRatio \in Nat \ {0}
    /\ MetaSize \in Nat
\* 2^WordBits is stated positive for the provers, which cannot prove it by
\* induction; TLC checks it.
ASSUME WordAssumption ==
    /\ WordBits \in Nat \ {0}
    /\ 2 ^ WordBits \in Nat \ {0}
ASSUME PlatformAssumption ==
    /\ Platform \in {"mesa", "powervr", "emulation", "default"}
    /\ IntOverflowTraps \in BOOLEAN

\* OMX port indices: kInputPortIndex, kOutputPortIndex and one that is neither.
kInputPortIndex == 0
kOutputPortIndex == 1
PortIndices == {kInputPortIndex, kOutputPortIndex, 2}

\* OMX_COLOR_FORMATTYPE values.  OMX_COLOR_FormatUnused also stands for every
\* other format: no handler tells two unsupported input formats apart.
Planar == "YUV420Planar"
SemiPlanar == "YUV420SemiPlanar"
Opaque == "AndroidOpaque"
ColorUnused == "Unused"
ColorFormats == {Planar, SemiPlanar, Opaque, ColorUnused}

\* kSupportedColorFormats
SupportedColorFormats == {Planar, SemiPlanar, Opaque}

\* Mutant of InputColorAccepted: the format check dropped.
InputColorAcceptedAny(c) == c \in ColorFormats

\* The input-port color check of internalSetPortParams and of
\* setParameter(OMX_IndexParamVideoPortFormat).
InputColorAccepted(c) == c \in SupportedColorFormats

\* OMX_VIDEO_CODINGTYPE values: OMX_VIDEO_CodingUnused and the instance's
\* mCodingType; every other coding is rejected wherever mCodingType is.
CodingUnused == "CodingUnused"
mCodingType == "Coding"
CodingTypes == {CodingUnused, mCodingType}

\* OMX_ERRORTYPE results of a handler.
Results == {"None", "BadParameter", "UnsupportedSetting", "BadPortIndex",
            "Undefined"}

\* The handlers, as recorded in lastOp.
Ops == {"initPorts", "setPortDefinition", "setPortFormat", "storeMetaData",
        "getPortDefinition", "validateInputBuffer"}
SetOps == {"initPorts", "setPortDefinition", "setPortFormat", "storeMetaData"}

\* mIsPowervr, read from ro.hardware.egl in the constructor.
mIsPowervr == Platform = "powervr"

NoShm == [width |-> 0, height |-> 0]   \* mShmData == NULL

\* No getPortDefinition has returned yet.
NoReport == [port |-> 2, width |-> 0, height |-> 0, bufferSize |-> 0]

-----------------------------------------------------------------------------
(* Fixed-width arithmetic. *)
Word == 2 ^ WordBits
U32(x) == x % Word
I32(x) == IF (x % Word) >= Word \div 2 THEN (x % Word) - Word ELSE x % Word
SizeT(x) == x % (Word * Word)
\* C division by 2 truncates toward zero.
CDiv2(v) == IF v >= 0 THEN v \div 2 ELSE -((-v) \div 2)
MaxOf(a, b) == IF a >= b THEN a ELSE b
\* An unsigned or signed operation whose exact result is out of range.
UOverflows(x) == x >= Word
SOverflows(x) == x >= Word \div 2

\* uint32_t rawBufferSize = nStride * nSliceHeight * 3 / 2 (updatePortParams)
RawBufferSize(stride, slice) == U32(stride * slice * 3) \div 2

\* mWidth * mHeight * 3 / 2 evaluated in int (internalGetParameter,
\* validateInputBuffer).
IntFrameSize(w, h) == CDiv2(I32(w * h * 3))

-----------------------------------------------------------------------------
VARIABLES
    mInputDataIsMeta, mWidth, mHeight, mBitrate, mFramerate, mColorFormat,
    inDef,      \* input port definition: geometry, framerate, format, size
    outDef,     \* output port definition: geometry, bitrate, size
    mShmData,   \* geometry mShmData was allocated for, or NoShm
    reported,   \* the port definition the last getPortDefinition returned
    lastOp,     \* the last handler called
    ret,        \* its OMX_ERRORTYPE
    aborted     \* the process died on a CHECK or a sanitizer trap

cfgVars == <<mInputDataIsMeta, mWidth, mHeight, mBitrate, mFramerate,
             mColorFormat>>
vars == <<cfgVars, inDef, outDef, mShmData, reported, lastOp, ret, aborted>>

InDefs == [width : Widths, height : Heights, stride : Widths,
           sliceHeight : Heights, framerate : Framerates,
           color : ColorFormats, bufferSize : Nat]
OutDefs == [width : Widths, height : Heights, bitrate : Bitrates,
            bufferSize : Nat]

\* The port definitions updatePortParams derives from a configuration.
InDefOf(w, h, fr, color) ==
    [width |-> w, height |-> h, stride |-> w, sliceHeight |-> h,
     framerate |-> fr, color |-> color,
     bufferSize |-> IF color = Opaque THEN MetaSize
                    ELSE RawBufferSize(w, h)]
OutDefOf(w, h, br) ==
    [width |-> w, height |-> h, bitrate |-> br,
     bufferSize |-> MaxOf(MinOutputBufferSize,
                          RawBufferSize(w, h) \div MinCompressionRatio)]

\* Mutant of UpdatePortParams: the output port computed from the geometry
\* as it was before the handler.
UpdatePortParamsStaleOut ==
    IF IntOverflowTraps /\ UOverflows(mWidth' * mHeight' * 3)
    THEN /\ aborted' = TRUE
         /\ UNCHANGED <<inDef, outDef>>
    ELSE /\ aborted' = FALSE
         /\ inDef' = InDefOf(mWidth', mHeight', mFramerate', mColorFormat')
         /\ outDef' = OutDefOf(mWidth, mHeight, mBitrate')

(***************************************************************************)
(* updatePortParams(), applied to the configuration the handler leaves in  *)
(* the primed m* variables.  On a sanitized build an overflowing           *)
(* nStride * nSliceHeight * 3 traps.                                       *)
(***************************************************************************)
UpdatePortParams ==
    IF IntOverflowTraps /\ UOverflows(mWidth' * mHeight' * 3)
    THEN /\ aborted' = TRUE
         /\ UNCHANGED <<inDef, outDef>>
    ELSE /\ aborted' = FALSE
         /\ inDef' = InDefOf(mWidth', mHeight', mFramerate', mColorFormat')
         /\ outDef' = OutDefOf(mWidth', mHeight', mBitrate')

\* A handler that returns r before changing anything.
Reject(op, r) ==
    /\ lastOp' = op /\ ret' = r
    /\ UNCHANGED <<cfgVars, inDef, outDef, mShmData, reported, aborted>>

-----------------------------------------------------------------------------
(* Constructor followed by the subclass's initPorts(). *)
Init ==
    /\ mInputDataIsMeta = FALSE
    /\ mWidth = InitWidth /\ mHeight = InitHeight
    /\ mBitrate = DefaultBitrate /\ mFramerate = DefaultFramerate
    /\ mColorFormat = Planar
    /\ inDef = InDefOf(InitWidth, InitHeight, DefaultFramerate, Planar)
    /\ outDef = OutDefOf(InitWidth, InitHeight, DefaultBitrate)
    /\ mShmData = NoShm
    /\ reported = NoReport
    /\ lastOp = "initPorts" /\ ret = "None"
    /\ aborted = FALSE

(***************************************************************************)
(* internalSetParameter(OMX_IndexParamPortDefinition): internalSetPortParams *)
(* and then SimpleSoftOMXComponent::internalSetParameter, whose checks on  *)
(* the buffer counts the client controls (baseOk).  The input branch       *)
(* stores the geometry and framerate, and sizes mShmData, before it checks *)
(* the formats.                                                            *)
(***************************************************************************)
SetInputPortParams ==
    \E w \in Widths, h \in Heights, fr \in Framerates, comp \in CodingTypes,
       color \in ColorFormats, baseOk \in BOOLEAN :
      /\ mWidth' = w /\ mHeight' = h /\ mFramerate' = fr
      /\ mShmData' = IF mIsPowervr /\ mShmData = NoShm
                     THEN [width |-> w, height |-> h] ELSE mShmData
      /\ UNCHANGED <<mInputDataIsMeta, mBitrate, reported>>
      /\ lastOp' = "setPortDefinition"
      /\ IF comp # CodingUnused \/ ~InputColorAccepted(color)
         THEN /\ ret' = "UnsupportedSetting"
              /\ UNCHANGED <<mColorFormat, inDef, outDef, aborted>>
         ELSE /\ mColorFormat' = color
              /\ UpdatePortParams
              /\ ret' = IF baseOk THEN "None" ELSE "BadParameter"

SetOutputPortParams ==
    \E br \in Bitrates, comp \in CodingTypes, color \in ColorFormats,
       baseOk \in BOOLEAN :
      \/ /\ comp # mCodingType \/ color # ColorUnused
         /\ Reject("setPortDefinition", "UnsupportedSetting")
      \/ /\ comp = mCodingType /\ color = ColorUnused
         /\ mBitrate' = br
         /\ UNCHANGED <<mInputDataIsMeta, mWidth, mHeight, mFramerate,
                        mColorFormat, mShmData, reported>>
         /\ UpdatePortParams
         /\ lastOp' = "setPortDefinition"
         /\ ret' = IF baseOk THEN "None" ELSE "BadParameter"

\* The three branches of internalSetPortParams after isValidOMXParam.
SetPortDefinition ==
    \/ Reject("setPortDefinition", "BadParameter")
    \/ SetInputPortParams
    \/ SetOutputPortParams
    \/ Reject("setPortDefinition", "BadPortIndex")

(***************************************************************************)
(* internalSetParameter(OMX_IndexParamVideoPortFormat).  Its disjuncts, in *)
(* order: isValidOMXParam fails; input port with a supported format, with  *)
(* an unsupported one; output port; another port.                          *)
(***************************************************************************)
SetPortFormat ==
    \/ Reject("setPortFormat", "BadParameter")
    \/ \E color \in ColorFormats :
         /\ InputColorAccepted(color)
         /\ mColorFormat' = color
         /\ UNCHANGED <<mInputDataIsMeta, mWidth, mHeight, mBitrate,
                        mFramerate, mShmData, reported>>
         /\ UpdatePortParams
         /\ lastOp' = "setPortFormat" /\ ret' = "None"
    \/ \E color \in ColorFormats :
         /\ ~InputColorAccepted(color)
         /\ Reject("setPortFormat", "UnsupportedSetting")
    \/ \E comp \in CodingTypes :
         Reject("setPortFormat", IF comp = mCodingType THEN "None"
                                 ELSE "UnsupportedSetting")
    \/ Reject("setPortFormat", "BadPortIndex")

(***************************************************************************)
(* internalSetParameter(kStoreMetaDataExtensionIndex): storeMetaDataInBuffers. *)
(* Entering metadata mode forces AndroidOpaque; leaving it turns           *)
(* AndroidOpaque back into YUV420Planar.  Disjuncts: isValidOMXParam      *)
(* fails; output port; another port; input port.                           *)
(***************************************************************************)
\* The color format storeMetaDataInBuffers(store) leaves on the input.
MetaModeColor(store) ==
    IF store THEN Opaque
    ELSE IF mColorFormat = Opaque THEN Planar
    ELSE mColorFormat

\* Mutant of StoreMetaDataInput: the trailing updatePortParams() dropped.
StoreMetaDataInputNoUpdate(store) ==
    /\ mInputDataIsMeta' = store
    /\ mColorFormat' = MetaModeColor(store)
    /\ UNCHANGED <<mWidth, mHeight, mBitrate, mFramerate, mShmData, reported,
                   inDef, outDef, aborted>>
    /\ lastOp' = "storeMetaData" /\ ret' = "None"

\* The input-port branch: switch mode, fix the color format, update ports.
StoreMetaDataInput(store) ==
    /\ mInputDataIsMeta' = store
    /\ mColorFormat' = MetaModeColor(store)
    /\ UNCHANGED <<mWidth, mHeight, mBitrate, mFramerate, mShmData, reported>>
    /\ UpdatePortParams
    /\ lastOp' = "storeMetaData" /\ ret' = "None"

StoreMetaData ==
    \/ Reject("storeMetaData", "BadParameter")
    \/ \E store \in BOOLEAN :
         Reject("storeMetaData", IF store THEN "UnsupportedSetting" ELSE "None")
    \/ Reject("storeMetaData", "BadPortIndex")
    \/ \E store \in BOOLEAN : StoreMetaDataInput(store)

(***************************************************************************)
(* internalGetParameter(OMX_IndexParamPortDefinition): the base class      *)
(* copies the port's mDef, then the geometry and nBufferSize are           *)
(* overwritten from mWidth and mHeight, after a CHECK on mColorFormat on   *)
(* platforms other than mesa, powervr and emulation.                       *)
(***************************************************************************)
GetPortDefinition ==
    \E port \in PortIndices :
      \/ /\ port > 1
         /\ Reject("getPortDefinition", "Undefined")
      \/ /\ port <= 1
         /\ Platform = "default"
         /\ mColorFormat \notin {Planar, SemiPlanar}
         /\ aborted' = TRUE
         /\ UNCHANGED <<cfgVars, inDef, outDef, mShmData, reported, lastOp, ret>>
      \/ /\ port <= 1
         /\ Platform # "default" \/ mColorFormat \in {Planar, SemiPlanar}
         /\ IF IntOverflowTraps /\ SOverflows(mWidth * mHeight * 3)
            THEN /\ aborted' = TRUE
                 /\ UNCHANGED <<reported, lastOp, ret>>
            ELSE /\ aborted' = FALSE
                 /\ reported' =
                      [port |-> port, width |-> mWidth, height |-> mHeight,
                       bufferSize |-> U32(IntFrameSize(mWidth, mHeight))]
                 /\ lastOp' = "getPortDefinition" /\ ret' = "None"
         /\ UNCHANGED <<cfgVars, inDef, outDef, mShmData>>

(***************************************************************************)
(* validateInputBuffer for a header filled to the input buffer size the    *)
(* port advertises (the client allocates buffers of inDef.nBufferSize).    *)
(***************************************************************************)
FrameSize ==
    IF mInputDataIsMeta THEN MetaSize ELSE SizeT(IntFrameSize(mWidth, mHeight))

ValidateInputBuffer ==
    LET len == inDef.bufferSize IN
      /\ IF IntOverflowTraps /\ ~mInputDataIsMeta
               /\ SOverflows(mWidth * mHeight * 3)
         THEN /\ aborted' = TRUE
              /\ UNCHANGED <<lastOp, ret>>
         ELSE /\ aborted' = FALSE
              /\ lastOp' = "validateInputBuffer"
              /\ ret' = IF len < FrameSize THEN "Undefined" ELSE "None"
      /\ UNCHANGED <<cfgVars, inDef, outDef, mShmData, reported>>

Next ==
    /\ ~aborted
    /\ \/ SetPortDefinition
       \/ SetPortFormat
       \/ StoreMetaData
       \/ GetPortDefinition
       \/ ValidateInputBuffer

Spec == Init /\ [][Next]_vars

-----------------------------------------------------------------------------
(* Properties. *)

TypeOK ==
    /\ mInputDataIsMeta \in BOOLEAN
    /\ mWidth \in Widths /\ mHeight \in Heights
    /\ mBitrate \in Bitrates /\ mFramerate \in Framerates
    /\ mColorFormat \in SupportedColorFormats
    /\ inDef \in InDefs
    /\ outDef \in OutDefs
    /\ mShmData \in {NoShm} \cup [width : Widths, height : Heights]
    /\ reported \in {NoReport} \cup [port : {kInputPortIndex, kOutputPortIndex},
                     width : Widths, height : Heights, bufferSize : Nat]
    /\ lastOp \in Ops /\ ret \in Results
    /\ aborted \in BOOLEAN

(***************************************************************************)
(* Every successful call that changes the configuration recomputes both   *)
(* port definitions from it in full (updatePortParams), so the published   *)
(* sizes follow max(minOutputSize, rawInputSize / minCompressionRatio) and *)
(* the metadata-record size rule for the new configuration.                *)
(***************************************************************************)
RecomputeOnChange ==
    [][(ret' = "None" /\ ~aborted' /\ cfgVars' # cfgVars) =>
          /\ inDef' = InDefOf(mWidth', mHeight', mFramerate', mColorFormat')
          /\ outDef' = OutDefOf(mWidth', mHeight', mBitrate')]_vars

(***************************************************************************)
(* The input port always advertises the color format the encoder will     *)
(* read frames in: mColorFormat is only written on paths that go on to    *)
(* updatePortParams, in all three setParameter handlers.                   *)
(***************************************************************************)
ColorFormatPublished ==
    ~aborted => inDef.color = mColorFormat

\* The port contract, whose ports are the definitions the component publishes.
Contract == INSTANCE PortContract
                WITH inPort <- inDef, outPort <- outDef, Colors <- SupportedColorFormats

(***************************************************************************)
(* The component implements the port contract: however handlers, rejected *)
(* sets, the base class's late rejection and getParameter interleave, the  *)
(* input and output definitions describe one configuration with a          *)
(* supported color format, and updatePortParams replaces both at once.     *)
(***************************************************************************)
PortsImplementContract == Contract!ContractSpec

(***************************************************************************)
(* Spec 3: AndroidOpaque is legal on the input port only while metadata   *)
(* mode is on.  setParameter(OMX_IndexParamVideoPortFormat) and            *)
(* setParameter(OMX_IndexParamPortDefinition) accept it regardless.        *)
(***************************************************************************)
OpaqueOnlyInMetaMode ==
    mColorFormat = Opaque => mInputDataIsMeta

(***************************************************************************)
(* Spec 7, 8: a rejected setParameter leaves the configuration as it was. *)
(* internalSetPortParams stores the input geometry and framerate before    *)
(* its format check, and the base class may reject after it returned OK.   *)
(***************************************************************************)
RejectedSetIsAtomic ==
    [][ret' # "None" => UNCHANGED cfgVars]_vars

(***************************************************************************)
(* Spec 4.4: a frame that fills the input buffer the port advertises       *)
(* passes validateInputBuffer.  validateInputBuffer recomputes the size    *)
(* from mWidth, mHeight and mInputDataIsMeta in int arithmetic, the port   *)
(* from its own definition in uint32_t.                                    *)
(***************************************************************************)
AdvertisedFrameAccepted ==
    [][(lastOp' = "validateInputBuffer" /\ ~aborted') => ret' = "None"]_vars

(***************************************************************************)
(* Spec 4.1: queryConfig never fails; no call aborts the process.  On a    *)
(* build without the overflow sanitizer the only abort is getParameter     *)
(* (PortDefinition)'s CHECK that mColorFormat is planar or semiplanar, on  *)
(* platforms other than mesa, powervr and emulation (L606-608), which      *)
(* storeMetaDataInBuffers(true) defeats by setting AndroidOpaque.          *)
(***************************************************************************)
NeverAborts ==
    ~aborted

====
