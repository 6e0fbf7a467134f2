--------------------------- MODULE MCPlanarConvert ---------------------------
(* Small frames for the converters: widths 2, 4 and 6 (6 breaks the        *)
(* width % 4 precondition of the semiplanar routine), 5 and heights 1 and  *)
(* 3 for odd geometry and the neededSize wrap, and a stride pad of 2.      *)
EXTENDS PlanarConvert

MCConvWidths == {2, 4, 5, 6, 8}
MCConvHeights == {1, 2, 3, 4}
MCConvPads == {0, 2}
MCChannel == {0, 64, 128, 192, 255}
====
