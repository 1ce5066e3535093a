------------------------------ MODULE Brightness ------------------------------
(***************************************************************************)
(* The arithmetic of waybright/src/brightness.rs and the percent <-> raw   *)
(* conversion of waydim/src/lib.rs: pure operators, no state.              *)
(*                                                                         *)
(* A virtual percentage p in 0..100 is one scale over two controls.  Below *)
(* hardware_min the backlight stays at 0 and an overlay dims in software;  *)
(* from hardware_min on the overlay is transparent (100) and the backlight *)
(* covers the rest.                                                        *)
(*                                                                         *)
(* Integers keep the code's widths where they can matter: the i16 sum of   *)
(* a delta wraps (release profile, no overflow checks); the u32 products   *)
(* of percent_to_value and percent_of are exact for every device whose     *)
(* maximum, taken 100 times, is below 2^32.                                *)
(***************************************************************************)
EXTENDS Integers

Percents == 0 .. 100

(* io::Result / Option: "no value" is kept apart from every number.        *)
CONSTANT None
ASSUME NoneAssumption == None \notin Int

I16 == -32768 .. 32767

WrapI16(x) == ((x + 32768) % 65536) - 32768

(* Here and in the other modules a definition named f_Mistake is f as a    *)
(* plausible bug would have it; no specification uses it.  README.md says  *)
(* which property each one breaks.                                         *)
Clamp_NoFloor(x) == IF x > 100 THEN 100 ELSE x

Clamp(x) == IF x < 0 THEN 0 ELSE IF x > 100 THEN 100 ELSE x

-----------------------------------------------------------------------------
(* The requested change of a percentage.                                   *)

PercentChange ==
    [kind : {"Absolute"}, amount : Percents]
        \cup [kind : {"Delta"}, amount : I16]
        \cup [kind : {"Multiply", "Divide"}, amount : Nat \ {0}]

(***************************************************************************)
(* A change as it is written on the command line: an operator character    *)
(* (or none), the integer after it, whether those digits parse at all and  *)
(* whether a '%' ends the text.                                            *)
(***************************************************************************)
ChangeText ==
    [op : {"+", "-", "*", "/", ""}, digits : Nat, numeric : BOOLEAN,
     percent : BOOLEAN]

parse_percent_change_NoRange(text) ==
    LET signed == IF text.op = "-" THEN -text.digits ELSE text.digits
    IN  IF ~text.percent \/ ~text.numeric THEN None ELSE
        CASE text.op \in {"+", "-"} ->
                IF signed \in I16 THEN [kind |-> "Delta", amount |-> signed] ELSE None
          [] text.op = "*" ->
                IF text.digits # 0 THEN [kind |-> "Multiply", amount |-> text.digits] ELSE None
          [] text.op = "/" ->
                IF text.digits # 0 THEN [kind |-> "Divide", amount |-> text.digits] ELSE None
          [] OTHER ->
                IF text.digits < 256
                THEN [kind |-> "Absolute", amount |-> text.digits] ELSE None

(* (A factor is a u32 in the code; one that does not fit is taken here.)   *)
parse_percent_change(text) ==
    LET signed == IF text.op = "-" THEN -text.digits ELSE text.digits
    IN  IF ~text.percent \/ ~text.numeric THEN None ELSE
        CASE text.op \in {"+", "-"} ->
                IF signed \in I16 THEN [kind |-> "Delta", amount |-> signed] ELSE None
          [] text.op = "*" ->
                IF text.digits # 0 THEN [kind |-> "Multiply", amount |-> text.digits] ELSE None
          [] text.op = "/" ->
                IF text.digits # 0 THEN [kind |-> "Divide", amount |-> text.digits] ELSE None
          [] OTHER ->
                IF text.digits \in Percents
                THEN [kind |-> "Absolute", amount |-> text.digits] ELSE None

rounded_scaled_NoNudge(current, numerator, denominator) ==
    Clamp((current * numerator + denominator \div 2) \div denominator)

(* current * numerator / denominator to the nearest integer; a factor that *)
(* would round back to current still moves one point in its direction.     *)
rounded_scaled(current, numerator, denominator) ==
    LET result == Clamp((current * numerator + denominator \div 2) \div denominator)
    IN  CASE result = current /\ numerator > denominator /\ current < 100 -> result + 1
          [] result = current /\ numerator < denominator /\ current > 0   -> result - 1
          [] OTHER -> result

apply_percent_change(current, change) ==
    CASE change.kind = "Absolute" -> change.amount
      [] change.kind = "Delta"    -> Clamp(WrapI16(current + change.amount))
      [] change.kind = "Multiply" -> rounded_scaled(current, change.amount, 100)
      [] change.kind = "Divide"   -> rounded_scaled(current, 100, change.amount)

-----------------------------------------------------------------------------
(* The virtual scale.                                                      *)

validate_hardware_min(hardware_min) == hardware_min \in 1 .. 99

effective_brightness_NoFloor(hardware, software, hardware_min) ==
    IF software < 100
    THEN Clamp((software * hardware_min + 50) \div 100)
    ELSE Clamp((Clamp(hardware) * (100 - hardware_min) + 50) \div 100)

effective_brightness(hardware, software, hardware_min) ==
    IF software < 100
    THEN Clamp((software * hardware_min + 50) \div 100)
    ELSE Clamp(hardware_min + (Clamp(hardware) * (100 - hardware_min) + 50) \div 100)

Nearest_Truncates(part, whole) == (part * 100) \div whole

Nearest_InU8(part, whole) == (((part * 100) % 256) + whole \div 2) \div whole

(* part of whole in percent, to the nearest integer.                       *)
Nearest(part, whole) == (part * 100 + whole \div 2) \div whole

split_brightness_Unscaled(percent, hardware_min) ==
    IF percent >= hardware_min
    THEN [hardware |-> percent, software |-> 100]
    ELSE [hardware |-> 0, software |-> Clamp(Nearest(percent, hardware_min))]

split_brightness(percent, hardware_min) ==
    IF percent >= hardware_min
    THEN [hardware |-> Clamp(Nearest(percent - hardware_min, 100 - hardware_min)),
          software |-> 100]
    ELSE [hardware |-> 0, software |-> Clamp(Nearest(percent, hardware_min))]

(* What get, list and set report of an output with these two controls; an  *)
(* output with neither is unknown.                                         *)
combined_brightness(hardware, software, hardware_min) ==
    CASE hardware # None /\ software # None ->
            effective_brightness(hardware, software, hardware_min)
      [] hardware # None /\ software = None -> Clamp(hardware)
      [] hardware = None /\ software # None -> software
      [] OTHER -> None

-----------------------------------------------------------------------------
(* A device register of 0..max against a percentage.                       *)

percent_to_value_RoundsDown(percent, max) == (percent * max) \div 100

(* Rounded up: the least value that reads as the percentage or more.       *)
percent_to_value(percent, max) == (percent * max + 99) \div 100

percent_of(current, max) == IF max = 0 THEN 0 ELSE (current * 100) \div max

=============================================================================
