--------------------------- MODULE RouterMirrorMC ---------------------------
(* Two devices and two addresses, one of them the Deco's. *)
EXTENDS RouterMirror

CONSTANTS m1, m2, i1, i2, none, nothing

=============================================================================
