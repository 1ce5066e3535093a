------------------------------- MODULE MCSystem -------------------------------
EXTENDS System

OneNameOf == [o \in Outputs |-> "DP-1"]

=============================================================================
