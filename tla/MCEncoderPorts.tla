--------------------------- MODULE MCEncoderPorts ---------------------------
(***************************************************************************)
(* EncoderPorts on a small instance.  The word is 8 bits wide instead of   *)
(* 32 so that a 24x4 frame already overflows nStride * nSliceHeight * 3,   *)
(* as a 37000x37000 frame does on the device; a 4x4 raw frame is exactly   *)
(* as large as a metadata record (24 bytes on LP64).  Geometry changes in  *)
(* width only: width and height enter every formula as a product.          *)
(***************************************************************************)
EXTENDS EncoderPorts

MCWidths == {4, 24}
MCHeights == {4}
MCFramerates == {15, 30}
MCBitrates == {64, 192}
====
