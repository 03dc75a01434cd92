----------------------------- MODULE MCLivePlayer -----------------------------
(***************************************************************************)
(* Three requests on one player, with and without preroll: five samples in *)
(* writes of one or two reach a startup buffer of two or four exactly, or  *)
(* pass it, and go on after it; a shorter request ends while its samples   *)
(* are still held.  A second rate makes the device be closed and opened    *)
(* again.                                                                  *)
(***************************************************************************)
EXTENDS LivePlayer

TwoRates == {1, 2}
UpToTwo == 0 .. 2
OneOrTwo == {1, 2}
===============================================================================
