--------------------------- MODULE MCRegionEditor ---------------------------
(* Two columns and one row of pixels, up to two regions of three points.   *)
EXTENDS RegionEditor
=============================================================================
