--------------------------- MODULE PlanarConvert ---------------------------
(***************************************************************************)
(* The PlanarConverter: ConvertFlexYUVToPlanar, ConvertRGB32ToPlanar and   *)
(* ConvertYUV420SemiPlanarToYUV420Planar, as they are called from the CPU  *)
(* path of extractGraphicBuffer (dstStride = width, dstVStride = height,   *)
(* no powervr stride scaling) and, for the semiplanar routine, by an       *)
(* encoder subclass.                                                       *)
(*                                                                         *)
(* Memory is abstracted to addresses: the source byte at offset a holds    *)
(* the label <<a>>, so a destination byte records which source byte it was *)
(* copied from.  An RGB output byte records the channel it is and the      *)
(* three source offsets (red, green, blue) it was computed from.  A call   *)
(* is the sequence of its stores <<dst offset, value>>, in program order.  *)
(***************************************************************************)
EXTENDS Integers, Sequences, SequencesExt

CONSTANTS
    Widths,          \* width passed by the caller (mWidth)
    Heights,         \* height passed by the caller (mHeight)
    Pads,            \* stride padding of the client's buffer, in pixels
    SizeBits,        \* width of size_t
    Channel,         \* sample of 8-bit channel values for the BT.601 check
    SurfaceIsBgr32   \* the SURFACE_IS_BGR32 build flag

\* 2^SizeBits is stated positive for the provers, which cannot prove it by
\* induction; TLC checks it.
ASSUME ConvertAssumption ==
    /\ Widths \subseteq Nat \ {0} /\ Heights \subseteq Nat \ {0}
    /\ Pads \subseteq Nat /\ SizeBits \in Nat \ {0}
    /\ 2 ^ SizeBits \in Nat \ {0}
    /\ Channel \subseteq 0..255 /\ SurfaceIsBgr32 \in BOOLEAN

\* x >> 1 and x >> 2 on the unsigned and non-negative operands of the code.
Half(n) == n \div 2
Quarter(n) == n \div 4

SizeT(n) == n % (2 ^ SizeBits)

\* A neededSize that leaves out the (width >> 1) term.
NeededSizeShort(w, h) ==
    SizeT(w * h + Half(w) * (Half(h) + Half(h) - 1))

\* neededSize of extractGraphicBuffer, in size_t: with height 1 the
\* term (height >> 1) - 1 wraps.
NeededSize(w, h) ==
    SizeT(w * h + Half(w) + Half(w) * (Half(h) + Half(h) - 1))

\* Rows(n, m, F): the stores of a loop over n rows of m columns, row-major.
Rows(n, m, F(_, _)) ==
    FlattenSeq([r \in 1..n |-> FlattenSeq([c \in 1..m |-> F(r - 1, c - 1)])])

\* The final content of each stored offset: the last store to it wins.
Memory(ws) ==
    [a \in {ws[k][1] : k \in DOMAIN ws} |->
        ws[CHOOSE k \in DOMAIN ws :
              /\ ws[k][1] = a
              /\ \A j \in DOMAIN ws : ws[j][1] = a => j <= k][2]]

\* The U and V plane bases both converters compute from dst, dstStride and
\* dstVStride.
DstU(dstStride, dstVStride) == dstVStride * dstStride
DstV(dstStride, dstVStride) ==
    DstU(dstStride, dstVStride) + Half(dstVStride) * Half(dstStride)

-----------------------------------------------------------------------------
(* ConvertFlexYUVToPlanar(dst, dstStride, dstVStride, ycbcr, w, h). *)

\* An android_ycbcr: offsets of the planes in the locked buffer, strides
\* and the chroma step, as extractGraphicBuffer's switch fills it for a
\* buffer of stride s (bytes) and vstride vs rows.
YcbcrOf(format, s, vs) ==
    CASE format = "YV12" ->
            [y |-> 0, cr |-> s * vs, cb |-> s * vs + Half(s) * Half(vs),
             step |-> 1, cstride |-> Half(s), ystride |-> s]
      [] format = "YCrCb_420_SP" ->
            [y |-> 0, cr |-> s * vs, cb |-> s * vs + 1,
             step |-> 2, cstride |-> s, ystride |-> s]

\* The layouts gralloc's lockYCbCr may describe for YCbCr_420_888.
Ycbcr888(s, vs) ==
    { [y |-> 0, cb |-> s * vs, cr |-> s * vs + Half(s) * Half(vs),
       step |-> 1, cstride |-> Half(s), ystride |-> s],
      [y |-> 0, cb |-> s * vs, cr |-> s * vs + 1,
       step |-> 2, cstride |-> s, ystride |-> s],
      [y |-> 0, cr |-> s * vs, cb |-> s * vs + 1,
       step |-> 2, cstride |-> s, ystride |-> s] }

\* A faulty source walk that steps one byte whatever chroma_step says.
ChromaSrcStepOne(d, base, y, x) == base + y * d.cstride + x

\* The source chroma byte of row y, column x: srcU and srcV advance by
\* chroma_step per byte and by cstride per row.
ChromaSrc(d, base, y, x) == base + y * d.cstride + x * d.step

\* The two chroma loops: whole rows by memcpy when the source chroma
\* planes are separate with step 1, else one U and one V byte at a time.
\* The row ends add (dstStride >> 1) - (w >> 1) and cstride - (w >> 1) *
\* step to the pointers; the wrap of that size_t difference cancels, so a
\* store lands at the row's base plus its column.
FlexChromaWrites(dstStride, dstVStride, d, w, h) ==
    LET dstU == DstU(dstStride, dstVStride)
        dstV == DstV(dstStride, dstVStride)
        U(y, x) == <<dstU + y * Half(dstStride) + x, <<ChromaSrc(d, d.cb, y, x)>> >>
        V(y, x) == <<dstV + y * Half(dstStride) + x, <<ChromaSrc(d, d.cr, y, x)>> >>
    IN IF d.cstride = Half(d.ystride) /\ d.step = 1
       THEN FlattenSeq([r \in 1..Half(h) |->
                [x \in 1..Half(w) |-> U(r - 1, x - 1)] \o
                [x \in 1..Half(w) |-> V(r - 1, x - 1)]])
       ELSE Rows(Half(h), Half(w), LAMBDA y, x : <<U(y, x), V(y, x)>>)

\* The luma rows by memcpy, then the chroma loops.
FlexWrites(dstStride, dstVStride, d, w, h) ==
    Rows(h, w, LAMBDA y, x : << <<y * dstStride + x, <<d.y + y * d.ystride + x>> >> >>)
        \o FlexChromaWrites(dstStride, dstVStride, d, w, h)

-----------------------------------------------------------------------------
(* ConvertRGB32ToPlanar(dstY, dstStride, dstVStride, src, w, h, srcStride, *)
(* bgr). *)

\* The integer BT.601 formulas on unsigned operands: the sum wraps modulo
\* 2^32 when negative, >> 8 then gives 2^24 + floor(sum / 256), and the
\* store to a uint8_t keeps the low byte, where 2^24 vanishes.
Luma(r, g, b) == (((r * 65 + g * 129 + b * 25 + 128) \div 256) + 16) % 256
ChromaU(r, g, b) == (((-r * 38 - g * 74 + b * 112 + 128) \div 256) + 128) % 256
ChromaV(r, g, b) == (((r * 112 - g * 94 - b * 18 + 128) \div 256) + 128) % 256

\* Stores of the pixel loop: a Y byte for every pixel, a U and a V byte at
\* even x of even rows; dstU and dstV advance after every even row.
RgbWrites(dstStride, dstVStride, srcStride, w, h, bgr) ==
    LET swap == bgr # SurfaceIsBgr32
        redOffset == IF swap THEN 2 ELSE 0
        blueOffset == IF swap THEN 0 ELSE 2
        dstU == DstU(dstStride, dstVStride)
        dstV == DstV(dstStride, dstVStride)
        Px(y, x) == LET s == y * srcStride + 4 * x
                    IN <<s + redOffset, s + 1, s + blueOffset>>
        Pixel(y, x) ==
            << <<y * dstStride + x, <<"Y">> \o Px(y, x)>> >>
            \o IF x % 2 = 0 /\ y % 2 = 0
               THEN << <<dstU + Half(y) * Half(dstStride) + Half(x), <<"U">> \o Px(y, x)>>,
                       <<dstV + Half(y) * Half(dstStride) + Half(x), <<"V">> \o Px(y, x)>> >>
               ELSE <<>>
    IN Rows(h, w, Pixel)

-----------------------------------------------------------------------------
(* ConvertYUV420SemiPlanarToYUV420Planar(inYVU, outYUV, w, h). *)

\* Luma by memcpy; then (h >> 1) * (w >> 2) consecutive little-endian
\* uint32 loads of chroma bytes b0..b3, storing the uint16 b0 | b2 << 8 to
\* outCb and b1 | b3 << 8 to outCr.  No stride, and no per-row step.
SemiPlanarWrites(w, h) ==
    LET ysize == w * h
        outCb == ysize
        outCr == ysize + Quarter(ysize)
        Word(i, j) ==
            LET n == i * Quarter(w) + j
                b == ysize + 4 * n
            IN << <<outCb + 2 * n, <<b>> >>, <<outCb + 2 * n + 1, <<b + 2>> >>,
                  <<outCr + 2 * n, <<b + 1>> >>, <<outCr + 2 * n + 1, <<b + 3>> >> >>
    IN [k \in 1..ysize |-> <<k - 1, <<k - 1>> >>] \o Rows(Half(h), Quarter(w), Word)

-----------------------------------------------------------------------------
(* References: the planar YUV420 frame the encoder expects, and the        *)
(* source layouts as the pixel formats define them.                        *)

\* A planar w x h frame: Y plane, then the (w/2) x (h/2) U plane, then V.
PlanarFrame(w, h, YAt(_, _), UAt(_, _), VAt(_, _)) ==
    LET cw == Half(w)
        ch == Half(h)
    IN [a \in 0..(w * h + 2 * cw * ch - 1) |->
          IF a < w * h THEN YAt(a % w, a \div w)
          ELSE IF a < w * h + cw * ch
               THEN UAt((a - w * h) % cw, (a - w * h) \div cw)
               ELSE VAt((a - w * h - cw * ch) % cw, (a - w * h - cw * ch) \div cw)]

\* YUV source of stride s, rows vs: sample offsets by format.
YuvFrame(d, w, h) ==
    PlanarFrame(w, h, LAMBDA x, y : <<d.y + y * d.ystride + x>>,
                      LAMBDA x, y : <<d.cb + y * d.cstride + x * d.step>>,
                      LAMBDA x, y : <<d.cr + y * d.cstride + x * d.step>>)

\* YV12 is Y, then Cr, then Cb, chroma stride s/2; NV21 is Y, then rows of
\* interleaved Cr, Cb.
FormatLayout(format, s, vs) ==
    CASE format = "YV12" ->
            [y |-> 0, ystride |-> s, cstride |-> Half(s), step |-> 1,
             cr |-> s * vs, cb |-> s * vs + Half(s) * Half(vs)]
      [] format = "YCrCb_420_SP" ->
            [y |-> 0, ystride |-> s, cstride |-> s, step |-> 2,
             cr |-> s * vs, cb |-> s * vs + 1]

\* RGBA/RGBX hold red at byte 0, BGRA at byte 2; chroma is taken from the
\* top-left pixel of each 2x2 block.
RgbFrame(srcStride, w, h, bgra) ==
    LET Px(x, y) == LET s == y * srcStride + 4 * x
                    IN IF bgra THEN <<s + 2, s + 1, s>> ELSE <<s, s + 1, s + 2>>
    IN PlanarFrame(w, h, LAMBDA x, y : <<"Y">> \o Px(x, y),
                         LAMBDA x, y : <<"U">> \o Px(2 * x, 2 * y),
                         LAMBDA x, y : <<"V">> \o Px(2 * x, 2 * y))

\* OMX_COLOR_FormatYUV420SemiPlanar: Y, then rows of interleaved Cb, Cr.
SemiPlanarFrame(w, h) ==
    PlanarFrame(w, h, LAMBDA x, y : <<y * w + x>>,
                      LAMBDA x, y : <<w * h + y * w + 2 * x>>,
                      LAMBDA x, y : <<w * h + y * w + 2 * x + 1>>)

-----------------------------------------------------------------------------
(* Calls.  call is the last conversion asked for, writes its stores, and  *)
(* aborted a failed CHECK.                                                 *)

VARIABLES call, writes, aborted

convVars == <<call, writes, aborted>>

NoCall == [fn |-> "none", format |-> "none", w |-> 0, h |-> 0,
           srcStride |-> 0, layout |-> "none", srcSize |-> 0, dstSize |-> 0]

\* Bytes a source layout spans: the Y plane, then two chroma planes of
\* h >> 1 rows (step 1) or one interleaved plane (step 2).
LayoutSize(d, h) ==
    d.ystride * h + (IF d.step = 1 THEN 2 ELSE 1) * d.cstride * Half(h)

ConvertInit ==
    /\ call = NoCall
    /\ writes = <<>>
    /\ aborted = FALSE

\* extractGraphicBuffer off powervr, YV12, NV21 or YCbCr_420_888: the
\* buffer's stride is left in pixels, the descriptor is filled by the
\* switch or by lockYCbCr, and ConvertFlexYUVToPlanar writes into a dst of
\* exactly neededSize bytes.
ExtractYuv ==
    \E w \in Widths, h \in Heights, pad \in Pads,
       format \in {"YV12", "YCrCb_420_SP", "YCbCr_420_888"} :
        LET s == w + pad
        IN \E d \in IF format = "YCbCr_420_888" THEN Ycbcr888(s, h)
                                              ELSE {YcbcrOf(format, s, h)} :
            /\ call' = [fn |-> "flex", format |-> format, w |-> w, h |-> h,
                         srcStride |-> s, layout |-> d,
                         srcSize |-> LayoutSize(d, h), dstSize |-> NeededSize(w, h)]
            /\ writes' = FlexWrites(w, h, d, w, h)
            /\ UNCHANGED aborted

\* extractGraphicBuffer off powervr, RGBA or BGRA: srcStride is the
\* stride * 4 (gralloc metadata gives width * 4, the pad-0 case), and
\* ConvertRGB32ToPlanar CHECKs that width and height are even.
ExtractRgb ==
    \E w \in Widths, h \in Heights, pad \in Pads, format \in {"RGBA", "BGRA"} :
        LET srcStride == (w + pad) * 4
        IN /\ call' = [fn |-> "rgb", format |-> format, w |-> w, h |-> h,
                       srcStride |-> srcStride, layout |-> "none",
                       srcSize |-> srcStride * h, dstSize |-> NeededSize(w, h)]
           /\ IF w % 2 = 0 /\ h % 2 = 0
              THEN /\ writes' = RgbWrites(w, h, srcStride, w, h, format = "BGRA")
                   /\ UNCHANGED aborted
              ELSE /\ writes' = <<>>
                   /\ aborted' = TRUE

\* An encoder converts a w x h YUV420SemiPlanar input into a planar frame
\* of w * h * 3 / 2 bytes.
SemiPlanarToPlanar ==
    \E w \in Widths, h \in Heights :
        /\ call' = [fn |-> "semiplanar", format |-> "YUV420SemiPlanar", w |-> w, h |-> h,
                     srcStride |-> w, layout |-> "none",
                     srcSize |-> (w * h * 3) \div 2, dstSize |-> (w * h * 3) \div 2]
        /\ writes' = SemiPlanarWrites(w, h)
        /\ UNCHANGED aborted

ConvertNext ==
    /\ ~aborted
    /\ \/ ExtractYuv
       \/ ExtractRgb
       \/ SemiPlanarToPlanar

ConvertSpec == ConvertInit /\ [][ConvertNext]_convVars

-----------------------------------------------------------------------------
(* Properties. *)

\* The source offsets a stored value was computed from.
Reads(v) == {v[i] : i \in IF Len(v) = 4 THEN 2..4 ELSE 1..1}

(***************************************************************************)
(* Every store of a conversion lands inside the destination the caller    *)
(* sized (neededSize for extractGraphicBuffer, the planar frame for the   *)
(* semiplanar routine) and every byte it reads lies inside the source     *)
(* buffer, for every geometry, odd ones and height 1 included.            *)
(***************************************************************************)
ConversionInBounds ==
    \A k \in DOMAIN writes :
        /\ writes[k][1] \in 0..(call.dstSize - 1)
        /\ Reads(writes[k][2]) \subseteq 0..(call.srcSize - 1)

\* The planar frame a call should produce, from the definition of its
\* source format (for YCbCr_420_888, the layout lockYCbCr described).
Expected(c) ==
    CASE c.fn = "flex" ->
            YuvFrame(IF c.format = "YCbCr_420_888" THEN c.layout
                     ELSE FormatLayout(c.format, c.srcStride, c.h), c.w, c.h)
      [] c.fn = "rgb" -> RgbFrame(c.srcStride, c.w, c.h, c.format = "BGRA")
      [] c.fn = "semiplanar" -> SemiPlanarFrame(c.w, c.h)

(***************************************************************************)
(* For even geometry (and width a multiple of 4 for the semiplanar        *)
(* routine, its documented precondition) a conversion writes exactly the  *)
(* planar YUV420 frame: every Y, U and V byte, from the right source      *)
(* sample and channel order, and nothing else.                            *)
(***************************************************************************)
ConvertedMatchesPlanar ==
    /\ call.fn # "none"
    /\ call.w % 2 = 0 /\ call.h % 2 = 0
    /\ call.fn = "semiplanar" => call.w % 4 = 0
    => Memory(writes) = Expected(call)

Abs(n) == IF n < 0 THEN -n ELSE n

(***************************************************************************)
(* Spec: a frame ConvertRGB32ToPlanar converted holds, for whatever pixel *)
(* the source had, luma and chroma within +-1 of the BT.601 conversion    *)
(* Y = 16 + 219 Ey', Cb = 128 + 224 ECb', Cr = 128 + 224 ECr' (scaled to  *)
(* integers: 0.299 is 299 / 1000, ...).                                   *)
(***************************************************************************)
Bt601WithinOne ==
    call.fn = "rgb" /\ ~aborted =>
    \A r, g, b \in Channel :
        /\ Abs((Luma(r, g, b) - 16) * 255000 - 219 * (299 * r + 587 * g + 114 * b)) <= 255000
        /\ Abs((ChromaU(r, g, b) - 128) * 451860 - 224 * (886 * b - 299 * r - 587 * g)) <= 451860
        /\ Abs((ChromaV(r, g, b) - 128) * 357510 - 224 * (701 * r - 587 * g - 114 * b)) <= 357510

====
