---------------------------- MODULE BrightnessDial ----------------------------
(***************************************************************************)
(* One output with a backlight and an overlay, and a user who turns it by  *)
(* any sequence of typed percent changes.  Every Turn is the arithmetic of *)
(* DaemonState::set_one with both controls present and no failure: parse   *)
(* the change, read the combined brightness, apply the change, split the   *)
(* target.                                                                 *)
(***************************************************************************)
EXTENDS Brightness

CONSTANTS
    HardwareMins,   (* hardware minima the daemon may be started with      *)
    Texts           (* what the user may type                              *)

ASSUME HardwareMinsAssumption ==
    \A m \in HardwareMins : m \in Int /\ validate_hardware_min(m)
ASSUME TextsAssumption == Texts \subseteq ChangeText

(* What is typed and accepted.                                             *)
Changes == {parse_percent_change(t) : t \in Texts} \ {None}

VARIABLES
    hardware_min,   (* Config::hardware_min, fixed for a run               *)
    hardware,       (* cached backlight percentage                         *)
    software,       (* overlay brightness                                  *)
    before,         (* history: the percentage reported before the Turn    *)
    change          (* history: the change of the last Turn, None at first *)

vars == <<hardware_min, hardware, software, before, change>>

reported == effective_brightness(hardware, software, hardware_min)

(* The backlight may stand anywhere; a new overlay is transparent.         *)
Init ==
    /\ hardware_min \in HardwareMins
    /\ hardware \in Percents
    /\ software = 100
    /\ before = reported
    /\ change = None

Turn(c) ==
    LET split == split_brightness(apply_percent_change(reported, c), hardware_min)
    IN  /\ before' = reported
        /\ change' = c
        /\ hardware' = split.hardware
        /\ software' = split.software
        /\ UNCHANGED hardware_min

Next == \E c \in Changes : Turn(c)

Spec == Init /\ [][Next]_vars

-----------------------------------------------------------------------------
TypeOK ==
    /\ hardware_min \in HardwareMins
    /\ hardware \in Percents
    /\ software \in Percents
    /\ before \in Percents
    /\ change \in PercentChange \cup {None}

(***************************************************************************)
(* What the user asked for is what get answers next, for every hardware    *)
(* minimum: splitting the target over the two controls and combining them  *)
(* again loses nothing to rounding (split_brightness then                  *)
(* effective_brightness; the unit test tries the minimum 50 alone).        *)
(***************************************************************************)
ReportsWhatWasAsked ==
    change # None => reported = apply_percent_change(before, change)

(***************************************************************************)
(* No change is swallowed by rounding: away from the ends of the scale a   *)
(* factor other than 100% moves the reported brightness, in its direction  *)
(* (rounded_scaled's one-point nudge, through split and effective).        *)
(***************************************************************************)
FactorsMove ==
    change # None /\ change.kind \in {"Multiply", "Divide"} =>
        LET raises == IF change.kind = "Multiply" THEN change.amount > 100
                                                  ELSE change.amount < 100
        IN  \/ change.amount = 100 /\ reported = before
            \/ change.amount # 100 /\ raises  /\ (reported > before \/ before = 100)
            \/ change.amount # 100 /\ ~raises /\ (reported < before \/ before = 0)

(***************************************************************************)
(* A higher percentage never lowers either control, at any point of the    *)
(* scale: against every split q above the one reported now.                *)
(***************************************************************************)
SplitIsMonotone ==
    change # None =>
        \A q \in reported .. 100 :
            LET split == split_brightness(q, hardware_min)
            IN  split.hardware >= hardware /\ split.software >= software

(***************************************************************************)
(* "+N%" never darkens and "-N%" never brightens (the unit test's "+5%"    *)
(* raises, "-60%" stops at 0).  The i16 sum of apply_percent_change is     *)
(* computed before it is clamped.                                          *)
(***************************************************************************)
DeltasKeepTheirDirection ==
    change # None /\ change.kind = "Delta" =>
        IF change.amount >= 0 THEN reported >= before ELSE reported <= before

=============================================================================
