---------------------------- MODULE MCGeoReplay ----------------------------
(* Lists of two packets, in one window or in two, in either order. *)
EXTENDS GeoReplay
=============================================================================
