------------------------ MODULE PlanarConvertProofs ------------------------
(***************************************************************************)
(* The index arithmetic of the converters, for every frame size: the       *)
(* neededSize extractGraphicBuffer demands (L820-822) holds every store    *)
(* ConvertFlexYUVToPlanar and ConvertRGB32ToPlanar make, and their Y, U    *)
(* and V planes do not overlap.  What the sequences of stores built from   *)
(* these offsets contain is checked by TLC (ConversionInBounds): it is     *)
(* induction over the rows of a frame.                                     *)
(***************************************************************************)
EXTENDS PlanarConvert, TLAPS

\* Frame sizes for which size_t does not wrap: 2 * w * h bytes fit.
Fits(w, h) == w * h + w * h < 2 ^ SizeBits

\* x >> 1 of a natural: a natural, at most half of it, rounded down.
LEMMA HalfFacts ==
  ASSUME NEW n \in Nat
  PROVE  /\ Half(n) \in Nat
         /\ 2 * Half(n) <= n
         /\ n <= 2 * Half(n) + 1
  BY DEF Half

\* A product of naturals grows with each factor.
LEMMA MulMono ==
  ASSUME NEW a \in Nat, NEW b \in Nat, NEW c \in Nat, NEW d \in Nat,
         a <= c, b <= d
  PROVE  a * b <= c * d
  <1>1. a * b <= c * b
    OBVIOUS
  <1>2. c * b <= c * d
    OBVIOUS
  <1>3. QED
    BY <1>1, <1>2

\* The chroma planes of a 4:2:0 frame together hold at most half as many
\* bytes as its luma plane.
LEMMA ChromaArea ==
  ASSUME NEW w \in Nat, NEW h \in Nat
  PROVE  /\ Half(w) * Half(h) \in Nat
         /\ 4 * (Half(w) * Half(h)) <= w * h
  <1>1. /\ Half(w) \in Nat /\ 2 * Half(w) <= w
        /\ Half(h) \in Nat /\ 2 * Half(h) <= h
    BY HalfFacts
  <1>2. (2 * Half(w)) * (2 * Half(h)) <= w * h
    BY <1>1, MulMono
  <1>3. QED
    BY <1>1, <1>2

(***************************************************************************)
(* neededSize does not wrap for a frame that fits, even for height 1 where *)
(* its (height >> 1) - 1 term is -1: it is the luma plane plus the two     *)
(* chroma planes, (w >> 1) * (h >> 1) bytes each.                          *)
(***************************************************************************)
LEMMA NeededSizeValue ==
  ASSUME NEW w \in Nat \ {0}, NEW h \in Nat \ {0}, Fits(w, h)
  PROVE  NeededSize(w, h) = w * h + 2 * (Half(w) * Half(h))
  <1> DEFINE a == Half(w)
             b == Half(h)
             total == w * h + 2 * (a * b)
  <1>1. a \in Nat /\ b \in Nat /\ a * b \in Nat /\ 4 * (a * b) <= w * h
    BY HalfFacts, ChromaArea
  <1>2. w * h + a + a * (b + b - 1) = total
    BY <1>1
  <1>3. total \in 0..(2 ^ SizeBits - 1)
    BY <1>1, ConvertAssumption DEF Fits
  <1>4. total % (2 ^ SizeBits) = total
    BY <1>3, ConvertAssumption
  <1>5. QED
    BY <1>2, <1>4 DEF NeededSize, SizeT

(***************************************************************************)
(* The destinations ConvertFlexYUVToPlanar and ConvertRGB32ToPlanar store  *)
(* to, with dstStride = width and dstVStride = height: luma at             *)
(* y * w + x, U at DstU + y * (w >> 1) + x and V at DstV + y * (w >> 1) + x *)
(* for the (h >> 1) x (w >> 1) chroma samples.  Every store lies inside    *)
(* the neededSize extractGraphicBuffer checks dstSize against, and the     *)
(* three planes are disjoint, so no store overwrites another plane.        *)
(***************************************************************************)
THEOREM PlanesWithinNeededSize ==
  ASSUME NEW w \in Nat \ {0}, NEW h \in Nat \ {0}, Fits(w, h)
  PROVE  LET dstU == DstU(w, h)
             dstV == DstV(w, h)
         IN  /\ \A y \in 0..(h - 1), x \in 0..(w - 1) :
                   y * w + x \in 0..(dstU - 1)
             /\ \A y \in 0..(Half(h) - 1), x \in 0..(Half(w) - 1) :
                   /\ dstU + y * Half(w) + x \in dstU..(dstV - 1)
                   /\ dstV + y * Half(w) + x \in dstV..(NeededSize(w, h) - 1)
  <1> DEFINE a == Half(w)
             b == Half(h)
  <1>1. a \in Nat /\ b \in Nat /\ a * b \in Nat
    BY HalfFacts, ChromaArea
  <1>2. NeededSize(w, h) = h * w + a * b + a * b
    <2>1. NeededSize(w, h) = w * h + 2 * (Half(w) * Half(h))
      BY NeededSizeValue, Zenon
    <2>2. QED
      BY <1>1, <2>1
  <1>3. ASSUME NEW y \in 0..(h - 1), NEW x \in 0..(w - 1)
        PROVE  y * w + x \in 0..(h * w - 1)
    <2>1. y * w <= (h - 1) * w
      BY MulMono
    <2>2. QED
      BY <2>1
  <1>4. ASSUME NEW y \in 0..(b - 1), NEW x \in 0..(a - 1)
        PROVE  y * a + x \in 0..(a * b - 1)
    <2>1. y * a <= (b - 1) * a
      BY <1>1, MulMono
    <2>2. QED
      BY <1>1, <2>1
  <1>5. DstU(w, h) = h * w /\ DstV(w, h) = h * w + b * a
    BY DEF DstU, DstV
  <1>6. QED
    BY <1>1, <1>2, <1>3, <1>4, <1>5

\* ConvertRGB32ToPlanar stores chroma for the even rows y and columns x at
\* row y >> 1, column x >> 1; when height and width are even (its CHECKs)
\* these are chroma sample indices, so the stores fall in the planes above.
LEMMA EvenIndexHalves ==
  ASSUME NEW n \in Nat, n % 2 = 0, NEW i \in 0..(n - 1)
  PROVE  Half(i) \in 0..(Half(n) - 1)
  BY DEF Half

\* x >> 2 of a natural: a natural, at most a quarter of it.
LEMMA QuarterFacts ==
  ASSUME NEW n \in Nat
  PROVE  /\ Quarter(n) \in Nat
         /\ 4 * Quarter(n) <= n
         /\ 2 * Quarter(n) <= Half(n)
  BY DEF Quarter, Half

(***************************************************************************)
(* ConvertYUV420SemiPlanarToYUV420Planar reads its (h >> 1) * (w >> 2)     *)
(* chroma words n at w * h + 4 * n .. + 3 and stores their bytes at outCb  *)
(* + 2 * n .. + 1 and outCr + 2 * n .. + 1 (outCb = w * h, outCr = outCb + *)
(* (w * h >> 2)).  For every width, a multiple of 4 or not (the FIXME at  *)
(* L677), all of these stay inside the w * h * 3 / 2 bytes of both        *)
(* frames, and the Cb stores stay below outCr: a width that is not a      *)
(* multiple of 4 garbles chroma but never writes out of bounds.           *)
(***************************************************************************)
THEOREM SemiPlanarWithinFrame ==
  ASSUME NEW w \in Nat \ {0}, NEW h \in Nat \ {0},
         NEW n \in 0..(Half(h) * Quarter(w) - 1)
  PROVE  LET ysize == w * h
             outCr == ysize + Quarter(ysize)
         IN  /\ ysize + 4 * n + 3 \in 0..((w * h * 3) \div 2 - 1)
             /\ ysize + 2 * n + 1 \in ysize..(outCr - 1)
             /\ outCr + 2 * n + 1 \in outCr..((w * h * 3) \div 2 - 1)
  <1> DEFINE ys == w * h
             hh == Half(h)
             qw == Quarter(w)
             m == hh * qw
             cr == ys + Quarter(ys)
             frame == (w * h * 3) \div 2
  <1>1. hh \in Nat /\ 2 * hh <= h /\ qw \in Nat /\ 4 * qw <= w
    BY HalfFacts, QuarterFacts
  <1>2. (2 * hh) * (4 * qw) <= ys
    BY <1>1, MulMono
  <1>3. m \in Nat /\ 8 * m <= ys
    BY <1>1, <1>2
  <1>4. ys \in Nat /\ frame = ys + Half(ys)
    BY DEF Half
  <1>5. 4 * m <= Half(ys) /\ 2 * m <= Quarter(ys)
    BY <1>3, <1>4 DEF Half, Quarter
  <1>6. 2 * Quarter(ys) <= Half(ys) /\ Quarter(ys) \in Nat /\ Half(ys) \in Nat
    BY <1>4, QuarterFacts, HalfFacts
  <1>7. n \in Nat /\ n + 1 <= m
    BY <1>3
  <1>8. 4 * n + 4 <= Half(ys) /\ 2 * n + 2 <= Quarter(ys)
    BY <1>1, <1>3, <1>5, <1>6, <1>7
  <1>9. ys + 4 * n + 3 \in 0..(frame - 1)
    BY <1>4, <1>6, <1>7, <1>8
  <1>10. ys + 2 * n + 1 \in ys..(cr - 1)
    BY <1>4, <1>6, <1>7, <1>8
  <1>11. cr + 2 * n + 1 \in cr..(frame - 1)
    BY <1>4, <1>6, <1>7, <1>8
  <1>12. QED
    BY <1>9, <1>10, <1>11

-----------------------------------------------------------------------------
(* Source reads and the RGB converter. *)

\* Row y, column x of a row-major array of n rows of stride s, when the
\* row holds at most s elements, is inside its n * s elements.
LEMMA RowMajorIndex ==
  ASSUME NEW s \in Nat, NEW n \in Nat, NEW w \in Nat, w <= s,
         NEW y \in 0..(n - 1), NEW x \in 0..(w - 1)
  PROVE  y * s + x \in 0..(n * s - 1)
  <1>1. y * s <= (n - 1) * s
    BY MulMono
  <1>2. QED
    BY <1>1

(***************************************************************************)
(* ConvertFlexYUVToPlanar reads luma at ycbcr.y + y * ystride + x and      *)
(* chroma at cb (cr) + y * cstride + x * chroma_step.  For every layout     *)
(* extractGraphicBuffer's switch (YV12, NV21) or lockYCbCr                 *)
(* (YCbCr_420_888) gives for a buffer of stride w + pad and h rows, all of *)
(* these reads stay inside the bytes the layout spans: the padding of the  *)
(* stride only adds bytes the loops skip, and the interleaved chroma of    *)
(* NV21, read at step 2 from cr or cr + 1, ends before the last row does.  *)
(***************************************************************************)
THEOREM FlexReadsWithinSource ==
  ASSUME NEW w \in Nat \ {0}, NEW h \in Nat \ {0}, NEW pad \in Nat,
         NEW format \in {"YV12", "YCrCb_420_SP", "YCbCr_420_888"},
         NEW d \in IF format = "YCbCr_420_888" THEN Ycbcr888(w + pad, h)
                   ELSE {YcbcrOf(format, w + pad, h)}
  PROVE  /\ \A y \in 0..(h - 1), x \in 0..(w - 1) :
               d.y + y * d.ystride + x \in 0..(LayoutSize(d, h) - 1)
         /\ \A y \in 0..(Half(h) - 1), x \in 0..(Half(w) - 1) :
               /\ ChromaSrc(d, d.cb, y, x) \in 0..(LayoutSize(d, h) - 1)
               /\ ChromaSrc(d, d.cr, y, x) \in 0..(LayoutSize(d, h) - 1)
  <1> DEFINE s == w + pad
             a == Half(s)
             b == Half(h)
  <1>1. /\ s \in Nat /\ w <= s
        /\ a \in Nat /\ b \in Nat /\ Half(w) \in Nat /\ Half(w) <= a
        /\ 2 * Half(w) <= w /\ a * b \in Nat /\ s * b \in Nat
    BY HalfFacts DEF Half
  <1>2. /\ d.y = 0 /\ d.ystride = s
        /\ \/ /\ d.step = 1 /\ d.cstride = a
              /\ {d.cb, d.cr} = {s * h, s * h + a * b}
           \/ /\ d.step = 2 /\ d.cstride = s
              /\ {d.cb, d.cr} = {s * h, s * h + 1}
    <2>1. CASE format = "YCbCr_420_888"
      BY <2>1 DEF Ycbcr888
    <2>2. CASE format = "YV12"
      BY <2>2 DEF YcbcrOf
    <2>3. CASE format = "YCrCb_420_SP"
      BY <2>3 DEF YcbcrOf
    <2>4. QED
      BY <2>1, <2>2, <2>3
  <1>3. ASSUME NEW y \in 0..(h - 1), NEW x \in 0..(w - 1)
        PROVE  d.y + y * d.ystride + x \in 0..(LayoutSize(d, h) - 1)
    <2>1. y * s + x \in 0..(h * s - 1)
      BY <1>1, RowMajorIndex
    <2>2. LayoutSize(d, h) \in Nat /\ h * s <= LayoutSize(d, h)
      BY <1>1, <1>2 DEF LayoutSize
    <2>3. QED
      BY <1>2, <2>1, <2>2
  <1>4. ASSUME NEW y \in 0..(b - 1), NEW x \in 0..(Half(w) - 1),
               NEW base \in {d.cb, d.cr}
        PROVE  base + y * d.cstride + x * d.step \in 0..(LayoutSize(d, h) - 1)
    <2>1. CASE d.step = 1
      <3>1. d.cstride = a /\ base \in {s * h, s * h + a * b}
        BY <1>2, <2>1
      <3>2. LayoutSize(d, h) = s * h + 2 * (a * b)
        BY <1>1, <1>2, <2>1, <3>1 DEF LayoutSize
      <3>3. y * a + x \in 0..(b * a - 1)
        BY <1>1, RowMajorIndex
      <3>4. QED
        BY <1>1, <2>1, <3>1, <3>2, <3>3
    <2>2. CASE d.step = 2
      <3>1. d.cstride = s /\ base \in {s * h, s * h + 1}
        BY <1>2, <2>2
      <3>2. LayoutSize(d, h) = s * h + s * b
        BY <1>1, <1>2, <2>2, <3>1 DEF LayoutSize
      <3>3. 2 * x + 1 \in 0..(w - 1)
        BY <1>1
      <3>4. y * s + (2 * x + 1) \in 0..(b * s - 1)
        BY <1>1, <3>3, RowMajorIndex
      <3>5. QED
        BY <1>1, <2>2, <3>1, <3>2, <3>4
    <2>3. QED
      BY <1>2, <2>1, <2>2
  <1>5. QED
    BY <1>3, <1>4 DEF ChromaSrc

(***************************************************************************)
(* ConvertRGB32ToPlanar, after its CHECKs that width and height are even,  *)
(* stores the Y byte of pixel (x, y) at y * w + x and, at even x and y, U  *)
(* and V at DstU (DstV) + (y >> 1) * (w >> 1) + (x >> 1), and reads the    *)
(* three channels at y * srcStride + 4 * x + 0..2.  For every even frame   *)
(* that fits in size_t and every stride pad of the client's buffer, the    *)
(* stores stay in their planes of the neededSize destination and the reads *)
(* in the srcStride * h bytes of the source.                               *)
(***************************************************************************)
THEOREM RgbWithinBounds ==
  ASSUME NEW w \in Nat \ {0}, NEW h \in Nat \ {0}, w % 2 = 0, h % 2 = 0,
         NEW pad \in Nat, Fits(w, h),
         NEW y \in 0..(h - 1), NEW x \in 0..(w - 1)
  PROVE  LET srcStride == (w + pad) * 4
             dstU == DstU(w, h)
             dstV == DstV(w, h)
             cu == Half(y) * Half(w) + Half(x)
         IN  /\ y * w + x \in 0..(dstU - 1)
             /\ dstU + cu \in dstU..(dstV - 1)
             /\ dstV + cu \in dstV..(NeededSize(w, h) - 1)
             /\ \A off \in 0..2 :
                  y * srcStride + 4 * x + off \in 0..(srcStride * h - 1)
  <1> DEFINE srcStride == (w + pad) * 4
  <1>1. Half(y) \in 0..(Half(h) - 1) /\ Half(x) \in 0..(Half(w) - 1)
    BY EvenIndexHalves
  <1>2. /\ y * w + x \in 0..(DstU(w, h) - 1)
        /\ DstU(w, h) + Half(y) * Half(w) + Half(x) \in DstU(w, h)..(DstV(w, h) - 1)
        /\ DstV(w, h) + Half(y) * Half(w) + Half(x) \in DstV(w, h)..(NeededSize(w, h) - 1)
    BY <1>1, PlanesWithinNeededSize
  <1>3. ASSUME NEW off \in 0..2
        PROVE  y * srcStride + (4 * x + off) \in 0..(h * srcStride - 1)
    <2>1. srcStride \in Nat /\ 4 * w <= srcStride /\ 4 * x + off \in 0..(4 * w - 1)
      OBVIOUS
    <2>2. QED
      BY <2>1, RowMajorIndex
  <1>4. /\ Half(y) \in Nat /\ Half(w) \in Nat /\ Half(x) \in Nat
        /\ Half(h) \in Nat /\ srcStride \in Nat
    BY DEF Half
  <1>5. DstU(w, h) \in Nat /\ DstV(w, h) \in Nat
    BY <1>4 DEF DstU, DstV
  <1>6. NeededSize(w, h) \in Int
    BY <1>4, ConvertAssumption DEF NeededSize, SizeT
  <1>7. QED
    BY <1>2, <1>3, <1>4, <1>5, <1>6

====
