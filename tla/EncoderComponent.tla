-------------------------- MODULE EncoderComponent --------------------------
(***************************************************************************)
(* The whole SoftVideoEncoderOMXComponent: the format negotiation of       *)
(* EncoderPorts together with the EGL context of the powervr readback path *)
(* (initEgl, closeEgl) and extractGraphicBuffer, which turns the metadata  *)
(* buffer a client queued into a planar frame.  The two share mShmData,    *)
(* sized by internalSetPortParams and freed by closeEgl, and the geometry  *)
(* mWidth x mHeight the encoder extracts frames with.                      *)
(* The client's metadata buffer is state of its own: extractGraphicBuffer  *)
(* writes nFenceFd = -1 into it, and the producer signals its fence.       *)
(***************************************************************************)
EXTENDS EncoderPorts

CONSTANTS
    StridePads,       \* ANativeWindowBuffer stride minus width, in pixels
    MaxLockLeaks      \* bound on mapper locks left behind

ASSUME ComponentAssumption ==
    /\ StridePads \subseteq Nat /\ 0 \in StridePads
    /\ MaxLockLeaks \in Nat

\* MetadataBufferType: kMetadataBufferTypeANWBuffer, ...GrallocSource, another.
MetaTypes == {"ANWBuffer", "GrallocSource", "Other"}

\* HAL pixel formats; RGBA stands for RGBX_8888, RGBA_8888 and BGRA_8888.
PixelFormats == {"YV12", "YCrCb_420_SP", "YCbCr_420_888", "RGBA", "Other"}
RgbFormats == {"RGBA"}
\* The formats whose srcStride stays in pixels off powervr (L787-789).
YuvFormats == {"YV12", "YCrCb_420_SP", "YCbCr_420_888"}

\* An EGL or GL object handle: EGL_NO_* / 0, a live object, or a freed one
\* whose handle is still held.
Handles == {"none", "live", "dead"}

\* mProgram: 0, or linked from the YUV (external image) or the RGBA shaders.
Programs == {"none", "yuv", "rgb", "dead"}

NoExtract == [result |-> "none", path |-> "none", scratchOk |-> TRUE,
              strideOk |-> TRUE, fenced |-> TRUE]

VARIABLES
    mEglDisplay, mEglContext, mEglSurface, mProgram,
    badRelease,   \* an EGL or GL object was released that was not live
    locks,        \* GraphicBufferMapper locks not unlocked
    meta,         \* the client's metadata buffer
    extracted     \* what the last extractGraphicBuffer did

gpuVars == <<mEglDisplay, mEglContext, mEglSurface, mProgram, badRelease,
             locks, meta, extracted>>
allVars == <<vars, gpuVars>>
\* Everything of EncoderPorts but mShmData, which closeEgl frees.
portVars == <<cfgVars, inDef, outDef, reported, lastOp, ret, aborted>>
eglVars == <<mEglDisplay, mEglContext, mEglSurface, mProgram, badRelease>>

Metas == [type : MetaTypes, format : PixelFormats, pad : StridePads,
          fenceFd : BOOLEAN, signalled : BOOLEAN]
\* What a client can queue: only ANW metadata carries a buffer with a format,
\* a stride and a fence; the fence of a fresh buffer has not signalled.
Queueable ==
    {m \in Metas : /\ m.signalled = ~m.fenceFd
                   /\ m.type # "ANWBuffer" =>
                        m.format = "RGBA" /\ m.pad = 0 /\ ~m.fenceFd}
Extracts == [result : {"none", "null", "frame"}, path : {"none", "cpu", "gpu"},
             scratchOk : BOOLEAN, strideOk : BOOLEAN, fenced : BOOLEAN]

-----------------------------------------------------------------------------
ComponentInit ==
    /\ Init
    /\ mEglDisplay = "none" /\ mEglContext = "none" /\ mEglSurface = "none"
    /\ mProgram = "none"
    /\ badRelease = FALSE
    /\ locks = 0
    /\ meta \in Queueable
    /\ extracted = NoExtract

(***************************************************************************)
(* The client queues a new metadata buffer: a fresh producer buffer whose  *)
(* fence, if it has one, has not signalled yet.                            *)
(***************************************************************************)
QueueMetadata ==
    /\ meta' \in Queueable
    /\ UNCHANGED <<vars, eglVars, locks, extracted>>

\* The producer finishes writing the buffer and its fence signals.
SignalFence ==
    /\ ~meta.signalled
    /\ meta' = [meta EXCEPT !.signalled = TRUE]
    /\ UNCHANGED <<vars, eglVars, locks, extracted>>

(***************************************************************************)
(* initEgl(width, height, src).  Only on powervr, only while mEglDisplay   *)
(* is EGL_NO_DISPLAY, and only for ANW or gralloc metadata.  The shader    *)
(* program is chosen by the format of this buffer.  No EGL or GL error is  *)
(* acted on: unless eglGetDisplay itself fails, the display is kept, with  *)
(* whatever context and surface were created, and never set up again.      *)
(* eglCreateContext and eglCreatePbufferSurface on EGL_NO_DISPLAY return   *)
(* EGL_NO_CONTEXT and EGL_NO_SURFACE; glCreateProgram returns 0 unless     *)
(* eglMakeCurrent made a context current (current).                        *)
(***************************************************************************)
InitEgl ==
    /\ mIsPowervr
    /\ mEglDisplay = "none"
    /\ meta.type \in {"ANWBuffer", "GrallocSource"}
    /\ \E display, current \in BOOLEAN, context, surface \in {"none", "live"} :
         /\ current => display /\ context = "live" /\ surface = "live"
         /\ mEglDisplay' = IF display THEN "live" ELSE "none"
         /\ mEglContext' = IF display THEN context ELSE "none"
         /\ mEglSurface' = IF display THEN surface ELSE "none"
         /\ mProgram' =
              IF ~current THEN "none"
              ELSE IF meta.type = "ANWBuffer" /\ meta.format \notin RgbFormats
                   THEN "yuv" ELSE "rgb"
    /\ UNCHANGED <<vars, badRelease, locks, meta, extracted>>

(***************************************************************************)
(* closeEgl().  On powervr: free mShmData; then, if there is a display,    *)
(* delete the program if there is one, destroy the surface and the context *)
(* if there are, terminate the display, and reset the three EGL handles.   *)
(***************************************************************************)
Release(h) == IF h = "none" THEN "none" ELSE "dead"
Released(hs) == \E i \in DOMAIN hs : hs[i] = "dead"

\* Mutant of EglTeardown: the handles are destroyed but not reset.
EglTeardownNoReset ==
    /\ mProgram' = "none"
    /\ mEglDisplay' = Release(mEglDisplay)
    /\ mEglSurface' = Release(mEglSurface)
    /\ mEglContext' = Release(mEglContext)

\* Mutant of EglTeardown: mEglSurface is not reset (L331 dropped).
EglTeardownKeepSurface ==
    /\ mProgram' = "none"
    /\ mEglDisplay' = "none"
    /\ mEglSurface' = Release(mEglSurface)
    /\ mEglContext' = "none"

\* glDeleteProgram, eglDestroySurface/Context, eglTerminate and the resets.
EglTeardown ==
    /\ mProgram' = "none"
    /\ mEglDisplay' = "none"
    /\ mEglSurface' = "none"
    /\ mEglContext' = "none"

CloseEgl ==
    /\ mIsPowervr
    /\ mShmData' = NoShm
    /\ IF mEglDisplay = "none"
       THEN UNCHANGED eglVars
       ELSE /\ badRelease' = (badRelease \/
                  Released(<<mProgram, mEglSurface, mEglContext, mEglDisplay>>))
            /\ EglTeardown
    /\ UNCHANGED <<portVars, locks, meta, extracted>>

(***************************************************************************)
(* extractGraphicBuffer(dst, dstSize, src, srcSize, mWidth, mHeight).      *)
(* Inputs the model leaves free: whether srcSize and dstSize pass their    *)
(* checks, whether the mapper locks the buffer, and whether a pending      *)
(* fence signals within kFenceTimeoutMs.                                   *)
(***************************************************************************)
\* srcStride in pixels: the buffer's stride for ANW, width for gralloc;
\* off powervr it is scaled to bytes only for RGB formats, on powervr always.
StrideScaled(format) == mIsPowervr \/ format \notin YuvFormats

\* The GPU readback writes width*height*4 bytes into mShmData, and
\* ConvertRGB32ToPlanar reads height rows of srcStride bytes from it.
ScratchFits(pad) ==
    /\ mShmData # NoShm
    /\ mShmData.width * mShmData.height >= mWidth * mHeight
    /\ mShmData.width * mShmData.height >= (mHeight - 1) * (mWidth + pad) + mWidth

\* The stride each converter reads with matches the layout of its source:
\* bytes of a packed width*4 readback on the GPU path, the buffer's own
\* luma stride (YUV) or stride*4 (RGB) on the CPU path.
StrideFits(path, format, pad) ==
    IF path = "gpu" THEN pad = 0
    ELSE StrideScaled(format) = (format \notin YuvFormats)

\* The record of one call: result, the path taken and what it relied on.
Outcome(result, path, format, pad, done) ==
    [result |-> result, path |-> path,
     scratchOk |-> path # "gpu" \/ ScratchFits(pad),
     strideOk |-> path = "none" \/ StrideFits(path, format, pad),
     fenced |-> path = "none" \/ done]

\* After the mapper locked the buffer: the switch on the pixel format.
ConvertLocked(format, pad, done) ==
    LET gpu == mIsPowervr /\ format \in {"YCbCr_420_888"} \cup RgbFormats
    IN \/ /\ format = "Other"
          /\ extracted' = Outcome("null", "none", format, pad, done)
          /\ UNCHANGED locks
       \/ /\ format # "Other" /\ ~gpu
          /\ extracted' = Outcome("frame", "cpu", format, pad, done)
          /\ UNCHANGED locks
       \/ /\ gpu /\ mEglDisplay # "none"
          /\ extracted' = Outcome("frame", "gpu", format, pad, done)
          /\ UNCHANGED locks
       \/ /\ gpu /\ mEglDisplay = "none"
          /\ extracted' = Outcome("null", "none", format, pad, done)
          /\ locks' = locks + 1

ExtractGraphicBuffer ==
    /\ locks < MaxLockLeaks
    /\ \E srcOk, dstOk, lockOk, inTime \in BOOLEAN :
       LET anw == meta.type = "ANWBuffer"
           format == IF anw THEN meta.format ELSE "RGBA"
           pad == IF anw THEN meta.pad ELSE 0
           waits == anw /\ meta.fenceFd
           \* the fence wait returns OK: no fd, or it signals within the timeout
           ready == ~waits \/ meta.signalled \/ inTime
           \* the producer has finished with the pixels when they are read
           signalled == meta.signalled \/ (waits /\ inTime)
       IN
       \/ /\ meta.type = "Other" \/ ~srcOk
          /\ extracted' = Outcome("null", "none", format, pad, signalled)
          /\ UNCHANGED <<meta, locks>>
       \/ /\ meta.type # "Other" /\ srcOk
          /\ meta' = IF waits
                     THEN [meta EXCEPT !.fenceFd = FALSE, !.signalled = signalled]
                     ELSE meta
          /\ IF ready /\ dstOk /\ lockOk
             THEN ConvertLocked(format, pad, signalled)
             ELSE /\ extracted' = Outcome("null", "none", format, pad, signalled)
                  /\ UNCHANGED locks
    /\ UNCHANGED <<vars, eglVars>>

GpuNext ==
    \/ QueueMetadata
    \/ SignalFence
    \/ InitEgl
    \/ CloseEgl
    \/ ExtractGraphicBuffer

ComponentNext ==
    /\ ~aborted
    /\ \/ Next /\ UNCHANGED gpuVars
       \/ GpuNext

ComponentSpec == ComponentInit /\ [][ComponentNext]_allVars

\* lastOp, ret and reported are never read by a guard: states that differ
\* only in them have the same futures.
ComponentView == <<cfgVars, inDef, outDef, mShmData, aborted, gpuVars>>

-----------------------------------------------------------------------------
(* Properties. *)

\* Every variable of the component keeps its type.
ComponentTypeOK ==
    /\ TypeOK
    /\ mEglDisplay \in Handles /\ mEglContext \in Handles
    /\ mEglSurface \in Handles /\ mProgram \in Programs
    /\ badRelease \in BOOLEAN
    /\ locks \in 0..MaxLockLeaks
    /\ meta \in Metas
    /\ extracted \in Extracts

(***************************************************************************)
(* closeEgl never deletes, destroys or terminates an EGL or GL object that *)
(* is already gone, however initEgl, closeEgl and the port settings that   *)
(* reallocate mShmData interleave: its handles are reset to EGL_NO_* / 0.  *)
(***************************************************************************)
NoDoubleRelease == ~badRelease

(***************************************************************************)
(* No EGL context, surface or GL program is held without a display: the    *)
(* early return of closeEgl when mEglDisplay is EGL_NO_DISPLAY (L313)      *)
(* therefore never skips destroying one, whatever initEgl's failures and   *)
(* the closeEgl calls between them were.                                   *)
(***************************************************************************)
NothingWithoutDisplay ==
    mEglDisplay = "none" =>
        mEglContext = "none" /\ mEglSurface = "none" /\ mProgram = "none"

(***************************************************************************)
(* Every mapper lock extractGraphicBuffer takes is released before it      *)
(* returns (spec: "the mapper lock is released on every path").            *)
(***************************************************************************)
LockBalanced == locks = 0

(***************************************************************************)
(* Each converter reads its source with the stride of that source's        *)
(* layout, so a returned frame is the picture the client queued.           *)
(***************************************************************************)
StrideMatchesLayout == extracted.result = "frame" => extracted.strideOk

(***************************************************************************)
(* A frame is read only once the producer's fence has signalled (spec:     *)
(* wait on the fence before touching the pixels).                          *)
(***************************************************************************)
FenceHonoured == extracted.result = "frame" => extracted.fenced

(***************************************************************************)
(* A frame produced on the GPU path is read back into an mShmData that     *)
(* holds it: glReadPixels' width*height*4 bytes (L883) and the reads of    *)
(* ConvertRGB32ToPlanar at srcStride (L919-924) stay inside the buffer     *)
(* internalSetPortParams allocated, which closeEgl frees.                  *)
(***************************************************************************)
ReadbackFitsScratch ==
    extracted.path = "gpu" => extracted.scratchOk

(***************************************************************************)
(* The EGL readback path implements EglSession: the session is open while  *)
(* mEglDisplay is a display, it holds the context, surface and program     *)
(* whose handles are not reset, and the last frame took extracted.path.    *)
(* initEgl opens it, closeEgl closes it, extractGraphicBuffer extracts.    *)
(***************************************************************************)
SessionState == IF mEglDisplay = "none" THEN "closed" ELSE "open"
SessionHeld ==
    LET h == [context |-> mEglContext, surface |-> mEglSurface,
              program |-> mProgram]
    IN {o \in DOMAIN h : h[o] # "none"}

Session == INSTANCE EglSession
    WITH session <- SessionState, held <- SessionHeld,
         lastFrame <- extracted.path

(***************************************************************************)
(* initEgl, closeEgl and extractGraphicBuffer, however they interleave     *)
(* with the port settings, only ever open a session with what its setup    *)
(* created, close it releasing all of it, and render on the GPU while it   *)
(* is open: no object outlives closeEgl or appears outside initEgl.        *)
(***************************************************************************)
EglSessionRefined == Session!SessionSpec

====
