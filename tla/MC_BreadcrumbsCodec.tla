------------------------- MODULE MC_BreadcrumbsCodec -------------------------
(* Positions 0 and 1 are the outputs the header code carries; 2 and 9 the  *)
(* first and last slot of mask byte 0; 10 the first of mask byte 1; 18     *)
(* the first of mask byte 2, so a record with 18 and nothing in 10..17     *)
(* has a zero mask byte before a non-zero one.                             *)
EXTENDS BreadcrumbsCodec

MCPositions == {0, 1, 2, 9, 10, 18}
MCHeights == {1, 2}
MCVersions == {1}
================================================================================
