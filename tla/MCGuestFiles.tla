----------------------------- MODULE MCGuestFiles -----------------------------
(* Two files of setup data and an entry without source, ks.cfg and one other *)
(* file, to check GuestFiles with.                                           *)
EXTENDS GuestFiles

CONSTANTS i1, i2, bad, ks, vm

OneOfEach == {i2, vm}
SameNames == {i1, i2, vm}
May == BOOLEAN
===============================================================================
