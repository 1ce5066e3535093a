------------------------------- MODULE MCWaydark -------------------------------
EXTENDS Waydark

(* Two screens of their own name; the second resizes.                      *)
MCNameOf == [o \in Outputs |-> IF o = 1 THEN "DP-1" ELSE "DP-2"]

(* Two screens of one model, named after it by a compositor without        *)
(* wl_output version 4.                                                    *)
SameNameOf == [o \in Outputs |-> "model"]

=============================================================================
