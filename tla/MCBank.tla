------------------------------- MODULE MCBank -------------------------------
(* Two users whose names hash to the same bin, and a PIN and an INT_MAX     *)
(* small enough to enumerate every balance.                                 *)
EXTENDS Bank

OneBin(u) == 0

=============================================================================
