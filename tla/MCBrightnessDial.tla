--------------------------- MODULE MCBrightnessDial ---------------------------
EXTENDS BrightnessDial

Of(ops, digits) ==
    [op : ops, digits : digits, numeric : {TRUE}, percent : {TRUE}]

AllMins == 1 .. 99

(* One-point deltas reach every percentage under every minimum; saturating *)
(* deltas and factors on both sides of 100%, the identity included, round  *)
(* and clamp; what the parser must refuse is typed too.                    *)
MCTexts ==
    Of({""}, {0, 100, 101, 256}) \cup Of({"+"}, {0, 1, 5, 32768}) \cup Of({"-"}, {1, 60, 32769})
        \cup Of({"*"}, {0, 99, 100, 101, 150, 20000}) \cup Of({"/"}, {0, 1, 99, 101, 150})
        \cup {[op |-> "", digits |-> 50, numeric |-> TRUE, percent |-> FALSE],
              [op |-> "+", digits |-> 5, numeric |-> FALSE, percent |-> TRUE]}

(* The extremes of the minimum and the middle.                             *)
SomeMins == {1, 2, 33, 50, 98, 99}

(* Deltas at the edge of i16: 32767 is the largest the parser accepts.     *)
EdgeTexts == Of({"+", "-"}, {0, 5, 60, 32667, 32767, 32768})

=============================================================================
