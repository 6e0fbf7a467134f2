# TLA+ models of SoftVideoEncoderOMXComponent

This directory holds the verification development for
`src/media/libstagefright/omx/SoftVideoEncoderOMXComponent.cpp` and its
header. That class is the base of the software video encoders in the OMX
plugin. It does the following:

- negotiates the two ports, input (raw frames) and output (bitstream);
- validates input buffers;
- turns metadata input buffers (a handle to a graphic buffer) into planar
  YUV420.

On `ro.hardware.egl=powervr` builds it does this by importing the buffer into
an EGL context, rendering it, and reading the result back into the scratch
buffer `mShmData`.

## Inventory

| Part | Code | State | Operations |
|---|---|---|---|
| PortNegotiator | `internalSetPortParams` L360-401, `internalSetParameter` L403-504, `updatePortParams` L336-358, constructor L72-101, `initPorts` L103-167 | `mInputDataIsMeta`, `mWidth`, `mHeight`, `mBitrate`, `mFramerate`, `mColorFormat`, the two port definitions (`mDef` of the base class) | set PortDefinition (input or output), set VideoPortFormat, storeMetaDataInBuffers |
| ConfigQuery | `internalGetParameter` L506-618 | reads the above | get PortDefinition (overwrites size and geometry; CHECK per platform) |
| BufferValidator | `validateInputBuffer` L1000-1011 | reads the above | validate |
| GpuBufferExtractor | `initEgl` L169-240, `closeEgl` L305-334, `extractGraphicBuffer` L756-950 | `mEglDisplay`, `mEglContext`, `mEglSurface`, `mProgram`, `mShmData`; the mapper lock; the caller's metadata (`nFenceFd`) | initEgl, closeEgl, extract |
| PlanarConverter | `ConvertFlexYUVToPlanar` L622-661, `ConvertYUV420SemiPlanarToYUV420Planar` L665-692, `ConvertRGB32ToPlanar` L696-754 | none (pure) | convert |
| GL helpers | `createProgram` L242-282, `eglStrError` L284-303, `drawQuad` L952-988 | GL objects | — |

How the parts interact:

- The geometry the negotiator stores is the geometry the validator checks
  against.
- The encoder subclasses pass that same geometry to `extractGraphicBuffer`.
- `mShmData` is allocated by `internalSetPortParams` (the first input set on
  powervr, sized `mWidth*mHeight*4`) and freed by `closeEgl`.
- `extractGraphicBuffer` reads back into `mShmData` at the current geometry.

The class is single-threaded: all calls come from the OMX component's thread
and run to completion. The hard behaviours are therefore sequences of calls,
not thread interleavings:

- a rejected call that has already changed state;
- uint32 and int arithmetic on client geometry;
- a timed-out fence wait that consumes the caller's fence;
- EGL setup errors that are ignored;
- early returns that skip the unlock;
- a scratch buffer whose size is fixed at the first geometry.

## Modules

- **EncoderPorts.tla** models the PortNegotiator, ConfigQuery and
  BufferValidator.
  - Each handler is one action, or one disjunct per early return, in the
    code's order: `SetPortDefinition` (with `SetInputPortParams` and
    `SetOutputPortParams`), `SetPortFormat`, `StoreMetaData`,
    `GetPortDefinition` and `ValidateInputBuffer`.
  - Every successful branch ends with `UpdatePortParams`, as in the code.
  - `inDef` and `outDef` are the two port definitions.
  - `reported` is what the last getParameter returned.
  - `lastOp` and `ret` are the last handler and its OMX error.
  - `aborted` records a CHECK failure or a sanitizer trap.
  - Arithmetic keeps its width: `U32` and `I32` wrap on a word of `WordBits`
    bits, `SizeT` wraps on two words, and `CDiv2` is C division.
  - `IntOverflowTraps` selects a build with the integer-overflow sanitizer.
  - `Platform` is the value of `ro.hardware.egl`.
  - The base class's own checks in `SimpleSoftOMXComponent::internalSetParameter`
    (buffer counts, which the client controls) are the free choice `baseOk`.
- **PortContract.tla** is the abstract promise of the negotiation: the two
  ports are always the definitions derived from one configuration (width,
  height, framerate, bitrate, color format), and a step either leaves them
  alone or republishes them from a configuration (`Republish`).
  EncoderPorts instantiates it with `inPort <- inDef, outPort <- outDef`
  and checks `PortsImplementContract == Contract!ContractSpec`.
- **EncoderComponent.tla** EXTENDS EncoderPorts and adds the
  GpuBufferExtractor.
  - Variables:
    - the EGL handles (`none`, `live`, or `dead` for freed but still held);
    - `badRelease`;
    - `locks`: mapper locks not released;
    - `meta`: the client's metadata buffer, with its type, format, stride
      padding, `nFenceFd` and whether the producer's fence has signalled;
    - `extracted`: the path the last extraction took and what it relied on.
  - `QueueMetadata` and `SignalFence` are the client's and the producer's
    steps.
  - `InitEgl` chooses which of its ignored EGL calls succeed. With no
    display, no context or surface is created. Without `eglMakeCurrent`,
    `glCreateProgram` returns 0.
  - `ExtractGraphicBuffer` takes the checks in code order: metadata type,
    srcSize, fence wait (which consumes the fd), neededSize, mapper lock. It
    then calls `ConvertLocked`, the switch on the pixel format: CPU
    converters, GPU readback, or return NULL.
  - Pixel values are abstracted here: a conversion is recorded by its path,
    stride and scratch use. PlanarConvert models the pixels.
  - `Session == INSTANCE EglSession` maps the EGL state onto the abstract
    session: open while `mEglDisplay` is a display (`SessionState`),
    holding the context, surface and program whose handles are not reset
    (`SessionHeld`), with `extracted.path` as the last frame's path.
    `EglSessionRefined == Session!SessionSpec`.
- **EglSession.tla** is the abstract promise of the EGL readback path. A
  session is opened once, from closed, with the objects its setup created;
  a program is only linked in a context with a surface. `Close` releases
  all it holds at once, and `Extract` renders on the GPU only while it is
  open. Nothing is created or released between these steps.
- **PlanarConvert.tla** models the PlanarConverter and the CPU paths of
  `extractGraphicBuffer` that call it.
  - A conversion is the sequence of stores it performs, each
    `<<dst offset, value>>`. A copied byte's value is its source offset;
    an RGB-derived byte's value is `<<"Y"|"U"|"V", r, g, b offsets>>`.
    `Memory` keeps the last store per address, as the dst buffer would.
  - `FlexWrites` follows `ConvertFlexYUVToPlanar`: luma rows, then the
    planar branch (`cstride == ystride >> 1 && chroma_step == 1`) or the
    per-pixel branch with `chroma_step` (`ChromaSrc`).
  - `SemiPlanarWrites` follows the 32-bit word loop of
    `ConvertYUV420SemiPlanarToYUV420Planar`: `width >> 2` words per row,
    even bytes to Cb, odd bytes to Cr (little-endian).
  - `RgbWrites` follows `ConvertRGB32ToPlanar`, with the channel offsets
    from `bgr` (flipped by the `SURFACE_IS_BGR32` build flag, the constant
    `SurfaceIsBgr32`) and `Luma`, `ChromaU`, `ChromaV`, the code's integer
    formulas. The unsigned wrap of `-red * 38 ...` before `>> 8` and the
    store into a byte equal `floor(x / 256) mod 256`, because 256 divides
    2^32.
  - Actions are the calls: `ExtractYuv` (YV12 and NV21 with the descriptor
    of L850-866, YCbCr_420_888 with any of the I420, NV12 and NV21 layouts
    `lockYCbCr` may return), `ExtractRgb` (a CHECK failure on odd geometry
    sets `aborted`) and `SemiPlanarToPlanar`. The destination is sized by
    `NeededSize`, computed in `size_t` (`SizeT`, 16 bits in the run).
- **EncoderPortsProofs.tla**, **EncoderComponentProofs.tla** and
  **PlanarConvertProofs.tla** hold the TLAPS proofs.
- **MCEncoderPorts.tla**, **MCEncoderComponent.tla** and
  **MCPlanarConvert.tla** hold the small instances for TLC.

## Runs and what they show

### EncoderPorts runs

All EncoderPorts runs (`MCEncoderPorts*.cfg`) use:

- widths {4, 24} and height 4;
- two framerates and two bitrates;
- an 8-bit word;
- MetaSize 24.

A 24x4 frame overflows `nStride*nSliceHeight*3` in 8 bits, as a 37000x37000
frame does in 32 bits. A 4x4 raw frame is exactly MetaSize. These bounds make
overflow, stale geometry and the metadata and raw size rules all reachable.
Only width varies, because width and height enter every formula as a product.

- `ports_negotiation` (pass; powervr, no sanitizer) checks:
  - `TypeOK`;
  - `ColorFormatPublished`: the input port advertises `mColorFormat`;
  - `RecomputeOnChange`: a successful step that changes the configuration
    recomputes both ports from it;
  - `PortsImplementContract`: the negotiation implements PortContract.
- Violations, each a finding in PROJECT.json:
  - `ports_opaque`: AndroidOpaque is accepted without metadata mode.
  - `ports_atomic`: a rejected set has already changed the geometry
    (L368), or the base class rejected after the update (L440).
  - `ports_frame`: `validateInputBuffer` refuses a buffer of the size the
    port advertises, after a uint32 wrap or a rejected set.
  - `ports_abort` (`NeverAborts`, default platform, no sanitizer): a legal
    call sequence aborts the process. TLC's trace sets the input color to
    AndroidOpaque through a setParameter the base class then rejects, and
    the next getParameter fails its CHECK (L607). The trap of a
    sanitizer build on client geometry (L344) is modelled
    (`IntOverflowTraps`) and listed as a hazard; no run enables it.

### EncoderComponent runs

The EncoderComponent runs (`MCEncoderComponent*.cfg`, powervr) use:

- a 12-bit word, so these frames never overflow;
- stride pads {0, 4};
- widths {4, 8}, so a frame can outgrow `mShmData`;
- `MaxLockLeaks = 1`: one leaked lock is enough to see a leak.

The passing run `component` uses one width and no padding to stay small.
Its `VIEW` leaves out `lastOp`, `ret` and `reported`. No guard reads them, so
two states that differ only in them have the same futures.

- `component` (pass) checks `NoDoubleRelease`, `NothingWithoutDisplay`
  and `EglSessionRefined`. However `initEgl`,
  `closeEgl`, extraction and the port settings that reallocate `mShmData`
  interleave:
  - no EGL or GL object is released twice;
  - no context, surface or program is held without a display, so
    `closeEgl`'s early return (L313) leaks nothing;
  - the EGL path implements EglSession: every step is an `Open`, a `Close`,
    an `Extract` or a stutter of the session.
- Violations:
  - `component_lock`: the lock is leaked at L892 and L930.
  - `component_stride`: on powervr, YV12 and NV21 are read with stride*4
    (L791).
  - `component_fence`: a retry after a fence timeout reads an unsignalled
    buffer (L796).
  - `component_gpu_frame` (`ReadbackFitsScratch`): a GPU frame read back
    into a NULL or undersized `mShmData` (L883, L372). TLC's trace calls
    initEgl and extracts before any input PortDefinition allocated it.
  - Three other hazards of the GPU path are listed without a property,
    because the model keeps that path to its control flow: the ignored EGL
    errors (L188), the program chosen from the first buffer's format
    (L215), and gralloc metadata read as VideoNativeMetadata (L905).

### PlanarConvert runs

`MCPlanarConvert.cfg` uses widths {2, 4, 5, 6, 8}, heights {1, 2, 3, 4},
stride pads {0, 2}, a 16-bit `size_t` and channel values
{0, 64, 128, 192, 255}. Odd widths and heights, height 1 (where
`(h >> 1) - 1` wraps in `neededSize`), widths that are even but not
multiples of 4 (6), padded strides and both chroma branches all occur.

- `planar_convert` (pass) checks:
  - `ConversionInBounds`: every store is inside the `neededSize` dst and
    every read inside the source, for all geometries;
  - `ConvertedMatchesPlanar`: for even geometry (width a multiple of 4 for
    the semiplanar routine, its FIXME precondition) the dst holds exactly
    the planar YUV420 frame of the source format.
  Without the width%4 precondition the property fails at width 6: that is
  the L677 hazard. CHECK_DEADLOCK is off because a CHECK failure
  (`aborted`) stops the process.
- `planar_bt601` (violation, `Bt601WithinOne`): the luma formula is up to
  1.30 away from BT.601 over the checked channel values, where spec
  section 8 promises +-1: (255, 255, 64) gives 215 against 216.30, and
  (255, 192, 255) 202 against 203.24. The chroma formulas stay within
  0.88.

### Mutants

Every property of a passing run has a mutant in PROJECT.json: a plausible
fault of the mapped code that TLC shows breaks it. The mutants are:

- the color check dropped;
- the trailing `updatePortParams` dropped from `storeMetaDataInBuffers`;
- the output port recomputed from the old geometry;
- the EGL handles not reset in `closeEgl`, or only the surface not reset
  (which also breaks `EglSessionRefined`: the closed session still holds
  the surface);
- `neededSize` without its `(width >> 1)` term;
- the per-pixel chroma source advanced by 1 instead of `chroma_step`.

### Fairness and liveness

No fairness is assumed and no liveness is checked. Every call of this class
comes from the OMX component thread and runs to completion. Its only wait,
on the fence, is bounded by `kFenceTimeoutMs` and is modelled as either
outcome. The code guarantees no progress that a fairness condition could
express: whether a client ever calls again is up to the client.

## Proofs

`EncoderPortsProofs.tla` proves, for every value of the constants that meets
the named ASSUMEs:

- `TypeCorrect`: `Spec => []TypeOK`;
- `ColorPublished`: `Spec => []ColorFormatPublished`;
- `ImplementsContract`: `Spec => PortsImplementContract`, the refinement of
  PortContract;
- `RecomputeProved`: `Spec => RecomputeOnChange`.

The ASSUMEs are:

- `DimsAssumption`: positive widths and heights;
- `PolicyAssumption`: naturals, and a positive compression ratio;
- `WordAssumption`: a positive word width with `2^WordBits` positive;
- `PlatformAssumption`.

`TypeOK` is inductive (`InitTyped`, `TypeStep`). Its lemmas state that the
wrapped sizes are naturals (`U32Nat`, `RawBufferSizeNat`, `ReportedSizeNat`)
and that `UpdatePortParams` yields typed ports whether or not it traps
(`UpdateTyped`).

`ColorFormatPublished` is proved with `TypeOK` as the strengthening. There is
one step per action. Three lemmas carry it:

- `UpdatePublishesColor`: updatePortParams copies `mColorFormat'`, or the
  step aborts.
- `RejectKeepsColor`: a rejected call changes neither the format nor the
  port.
- `FrameKeepsColor`: getParameter and validate either abort or keep both.

The `~aborted` conjunct of `Next` is what makes the invariant inductive after
a trap.

The action property needs no invariant: it holds of every step on its own.

- `RecomputeStep` has one case per handler. Only the input branch of
  `internalSetPortParams` changes the configuration without calling
  `updatePortParams`, and that branch returns `UnsupportedSetting`.

The refinement proof shows that the initial ports are the definitions of the
initial configuration (`ContractInitHolds`), and that every step keeps or
derives both ports (`ContractStep`, from `PortsStep`, one case per action, from `UpdateKeepsOrDerives` and
`RejectKeepsPorts`). A derived pair is a `Republish` step, witnessed by the
new configuration, whose members `TypeStep` shows are in range.

`EncoderComponentProofs.tla` proves:

- `ComponentTypeCorrect`: `ComponentSpec => []ComponentTypeOK`, the type
  invariant the other proofs use (no run checks it separately). The
  negotiation's part reuses `TypeStep`; `ExtractTyped` and `OutcomeTyped`
  type the extraction, and the guard `locks < MaxLockLeaks` bounds the lock
  count. It also assumes `ComponentAssumption`.
- `ReleasedOnce`: `ComponentSpec => []NoDoubleRelease`. `NoDoubleRelease`
  alone is not inductive: a state with a `dead` handle would release it
  again. The strengthening `EglInv` adds that no handle or program is
  `dead`; closeEgl keeps it because it resets all four.
- `OwnedByDisplay`: `ComponentSpec => []NothingWithoutDisplay`. The
  invariant is inductive as it stands: `InitEglNeedsDisplay` shows initEgl
  creates objects only on a display it got.
- `ImplementsEglSession`: `ComponentSpec => EglSessionRefined`, the
  refinement of EglSession, step by step:
  - the initial state maps to the closed, empty session;
  - initEgl with a display is an `Open`. Its program is linked only when
    `eglMakeCurrent` made a context with a surface current.
  - initEgl without a display leaves every handle reset. That is a stutter
    only because nothing is held without a display, so the proof uses
    `OwnedByDisplay` and `ComponentTypeCorrect` as invariants.
  - closeEgl with a display is a `Close` (`EglTeardown` resets all four
    handles); without one, a stutter.
  - extractGraphicBuffer is an `Extract`: `ExtractGpuNeedsDisplay` shows the
    GPU path is taken only with a display. Every other step is a stutter
    (`SessionStutter`).
- `ComponentImplementsContract`: `ComponentSpec => PortsImplementContract`.
  The whole component, GPU side included, implements PortContract. Port
  steps reuse `ContractStep` of EncoderPortsProofs; GPU steps leave both
  port definitions alone. TLC checks `PortsImplementContract` on the
  negotiation alone (`ports_negotiation`). The component run has a single
  geometry, where a stale output port cannot be told apart, so there the
  property is proved but not model-checked.

`PlanarConvertProofs.tla` proves the index arithmetic of the converters for
every frame size:

- `NeededSizeValue`: when 2*w*h fits in `size_t`, `NeededSize(w, h)` is
  `w*h + 2*(w>>1)*(h>>1)`. This holds for height 1 too, where the code's
  `(h>>1) - 1` is -1.
- `PlanesWithinNeededSize`: every luma, U and V offset the flex and RGB
  converters store to lies below `NeededSize`, in three disjoint planes
  (`DstU`, `DstV`).
- `SemiPlanarWithinFrame`: for any width, a multiple of 4 or not, the
  semiplanar routine's word reads and its Cb and Cr stores stay inside the
  w*h*3/2-byte frames.

- `FlexReadsWithinSource`: for every frame, stride pad and YV12, NV21 or
  YCbCr_420_888 layout, ConvertFlexYUVToPlanar's luma reads and both
  chroma walks (step 1 from separate planes, step 2 from interleaved rows)
  stay inside `LayoutSize`.
- `RgbWithinBounds`: for every even frame that fits and every stride pad,
  ConvertRGB32ToPlanar's Y, U and V stores stay in their planes, and its
  channel reads stay in the `srcStride * h` source.

These rest on `HalfFacts`, `QuarterFacts`, `MulMono`, `ChromaArea` and
`RowMajorIndex` (row y, column x of a row-major array lies inside it).
Together they prove, store by store, every bound `ConversionInBounds`
states.
`ConvertAssumption` states `2^SizeBits` positive, as `WordAssumption` does
for the word, because the provers cannot evaluate a power of a parameter.

Only model-checked:

- `ConversionInBounds` and `ConvertedMatchesPlanar` of PlanarConvert. Each
  offset they are built from is proved in bounds above. The properties themselves
  are about the sequences `FlattenSeq` assembles row by row, through its
  recursive function. What that contains for every frame size needs
  induction over the rows, which the installed provers cannot instantiate.

Liveness and ENABLED are beyond TLAPS; none is stated here.

getParameter's `nBufferSize = mWidth*mHeight*3/2` for both ports (L610) is
modelled in `GetPortDefinition` and listed as a hazard; no run spends a
property on that one-line divergence.

## Not modelled

- **GL helpers**: `createProgram`, `drawQuad` and `eglStrError` issue GL
  calls or map codes to strings. They are reduced to `mProgram`.
- **The GPU readback pixels**: what glReadPixels returns depends on the
  driver. Hence the BGRA channel hazard at L919 has no property.
- **`getExtensionIndex`**: a string lookup that changes no state.
- The format and profile enumerations of `internalGetParameter`: they only
  read constants.
