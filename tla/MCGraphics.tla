----------------------------- MODULE MCGraphics -----------------------------
(* An instance of Graphics for TLC: lines of up to six pixels in every       *)
(* direction, on both sides of the origin.                                   *)
EXTENDS Graphics

MCLow == -1

=============================================================================
