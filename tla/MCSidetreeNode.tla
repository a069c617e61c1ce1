--------------------------- MODULE MCSidetreeNode ---------------------------
(***************************************************************************)
(* Instances of SidetreeNode: two DIDs, three operation requests, one or  *)
(* two readers.                                                           *)
(***************************************************************************)
EXTENDS SidetreeNode

CONSTANTS s1, s2, i1, i2, i3, r1, r2

MCSuffixes == {s1, s2}
MCIds == {i1, i2, i3}
OneReader == {r1}
=============================================================================
