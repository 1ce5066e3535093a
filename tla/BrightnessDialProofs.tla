------------------------- MODULE BrightnessDialProofs -------------------------
(***************************************************************************)
(* The properties of BrightnessDial.tla for every hardware minimum and     *)
(* every text a user may type, with their proofs.                          *)
(***************************************************************************)
EXTENDS BrightnessDial, BrightnessProofs

(* The two controls stand where the last change put them.                  *)
Split ==
    change # None =>
        LET parts == split_brightness(apply_percent_change(before, change), hardware_min)
        IN  hardware = parts.hardware /\ software = parts.software

Inv == TypeOK /\ Split

-----------------------------------------------------------------------------
(* Arithmetic                                                              *)

(* A bound on the dividend bounds the quotient.                            *)
LEMMA QuotientBetween ==
    ASSUME NEW d \in Nat \ {0}, NEW x \in Int, NEW low \in Int, NEW high \in Int,
           d * low <= x, x < d * high
    PROVE  x \div d \in Int /\ low <= x \div d /\ x \div d < high
<1> DEFINE p == x \div d
<1>1. p \in Int /\ d * p <= x /\ x < d * p + d
  OBVIOUS
<1> HIDE DEF p
<1>2. d * (p + 1) = d * p + d /\ d * p \in Int /\ d * low \in Int /\ d * high \in Int
  BY <1>1
<1>3. low <= p
  <2> SUFFICES ASSUME p + 1 <= low PROVE FALSE
    BY <1>1
  <2>1. d * (p + 1) <= d * low
    BY <1>1, ProductIsMonotone
  <2> QED
    BY <1>1, <1>2, <2>1
<1>4. p < high
  <2> SUFFICES ASSUME high <= p PROVE FALSE
    BY <1>1
  <2>1. d * high <= d * p
    BY <1>1, ProductIsMonotone
  <2> QED
    BY <1>1, <1>2, <2>1
<1> QED
  BY <1>1, <1>3, <1>4 DEF p

(* rounded_scaled moves a percentage in the direction of its factor, and   *)
(* not at all when the factor is one.                                      *)
LEMMA ScalingMoves ==
    ASSUME NEW b \in Percents, NEW n \in Nat \ {0}, NEW d \in Nat \ {0}
    PROVE  LET r == rounded_scaled(b, n, d)
           IN  /\ n > d => r > b \/ b = 100
               /\ n = d => r = b
               /\ n < d => r < b \/ b = 0
<1> DEFINE half == d \div 2
           sum == b * n + half
           raw == sum \div d
           result == Clamp(raw)
<1>1. b \in Nat /\ b <= 100
  BY DEF Percents
<1>2. half \in Nat /\ 2 * half <= d /\ half < d
  OBVIOUS
<1>3. b * n \in Nat /\ b * n = n * b /\ d * b \in Nat /\ d * (b + 1) = d * b + d
  BY <1>1
<1>4. sum \in Nat
  BY <1>2, <1>3
<1>5. rounded_scaled(b, n, d) =
        CASE result = b /\ n > d /\ b < 100 -> result + 1
          [] result = b /\ n < d /\ b > 0   -> result - 1
          [] OTHER -> result
  BY DEF rounded_scaled
<1> HIDE DEF half
<1>6. raw \in Int
  BY <1>4
<1>7. result \in Percents /\ (raw >= b => result >= b) /\ (raw <= b => result <= b)
  <2> HIDE DEF raw
  <2> QED
    BY <1>1, <1>6, ClampIsPercent DEF Clamp, Percents
<1>8. n >= d => raw >= b
  <2> SUFFICES ASSUME n >= d PROVE raw >= b
    OBVIOUS
  <2>1. b * d <= b * n
    BY <1>1, ProductIsMonotone
  <2>2. b * d = d * b
    BY <1>1
  <2>3. d * b <= sum
    BY <1>2, <1>3, <2>1, <2>2
  <2>4. (d * b) \div d <= sum \div d
    BY <1>3, <1>4, <2>3, QuotientIsMonotone
  <2>5. (d * b) \div d \in Int /\ b <= (d * b) \div d
    BY <1>1, <1>3, QuotientBetween
  <2> QED
    BY <1>1, <1>6, <2>4, <2>5
<1>9. n <= d => raw <= b
  <2> SUFFICES ASSUME n <= d PROVE raw <= b
    OBVIOUS
  <2>1. b * n <= b * d
    BY <1>1, ProductIsMonotone
  <2>2. b * d = d * b
    BY <1>1
  <2>3. sum < d * (b + 1)
    BY <1>2, <1>3, <2>1, <2>2
  <2>4. d * 0 <= sum
    BY <1>4
  <2> HIDE DEF sum
  <2>5. sum \div d < b + 1
    BY <1>1, <1>4, <2>3, <2>4, QuotientBetween
  <2> QED
    BY <1>1, <1>6, <2>5
<1> HIDE DEF result
<1> QED
  BY <1>1, <1>5, <1>7, <1>8, <1>9 DEF Percents

-----------------------------------------------------------------------------
(* Brightness                                                              *)

(* What the parser accepts is a change.                                    *)
LEMMA ParsedIsChange ==
    ASSUME NEW text \in ChangeText
    PROVE  parse_percent_change(text) \in PercentChange \cup {None}
<1>1. /\ text.op \in {"+", "-", "*", "/", ""} /\ text.digits \in Nat
      /\ text.numeric \in BOOLEAN /\ text.percent \in BOOLEAN
  BY DEF ChangeText
<1> DEFINE signed == IF text.op = "-" THEN -text.digits ELSE text.digits
<1>2. CASE ~text.percent \/ ~text.numeric
  BY <1>2 DEF parse_percent_change
<1>3. CASE text.percent /\ text.numeric /\ text.op \in {"+", "-"}
  <2>1. parse_percent_change(text) =
          IF signed \in I16 THEN [kind |-> "Delta", amount |-> signed] ELSE None
    BY <1>1, <1>3 DEF parse_percent_change
  <2> HIDE DEF signed
  <2> QED
    BY <2>1 DEF PercentChange
<1>4. CASE text.percent /\ text.numeric /\ text.op = "*"
  <2>1. parse_percent_change(text) =
          IF text.digits # 0 THEN [kind |-> "Multiply", amount |-> text.digits] ELSE None
    BY <1>1, <1>4 DEF parse_percent_change
  <2>2. text.digits # 0 =>
          [kind |-> "Multiply", amount |-> text.digits]
            \in [kind : {"Multiply", "Divide"}, amount : Nat \ {0}]
    BY <1>1
  <2> QED
    BY <2>1, <2>2 DEF PercentChange
<1>5. CASE text.percent /\ text.numeric /\ text.op = "/"
  <2>1. parse_percent_change(text) =
          IF text.digits # 0 THEN [kind |-> "Divide", amount |-> text.digits] ELSE None
    BY <1>1, <1>5 DEF parse_percent_change
  <2>2. text.digits # 0 =>
          [kind |-> "Divide", amount |-> text.digits]
            \in [kind : {"Multiply", "Divide"}, amount : Nat \ {0}]
    BY <1>1
  <2> QED
    BY <2>1, <2>2 DEF PercentChange
<1>6. CASE text.percent /\ text.numeric /\ text.op = ""
  <2>1. parse_percent_change(text) =
          IF text.digits \in Percents
          THEN [kind |-> "Absolute", amount |-> text.digits] ELSE None
    BY <1>1, <1>6 DEF parse_percent_change
  <2> QED
    BY <2>1 DEF PercentChange
<1> QED
  BY <1>1, <1>2, <1>3, <1>4, <1>5, <1>6

(* Every hardware minimum the daemon starts with is one that               *)
(* validate_hardware_min accepts, and what is accepted is a change.        *)
LEMMA InputTypes ==
    /\ HardwareMins \subseteq 1 .. 99
    /\ Changes \subseteq PercentChange
<1>1. HardwareMins \subseteq 1 .. 99
  BY HardwareMinsAssumption DEF validate_hardware_min
<1>2. Changes \subseteq PercentChange
  BY TextsAssumption, ParsedIsChange DEF Changes
<1> QED
  BY <1>1, <1>2

(* A greater part of a whole is no smaller percentage of it.               *)
LEMMA NearestIsMonotone ==
    ASSUME NEW d \in 1 .. 99, NEW a \in 0 .. d, NEW b \in 0 .. d, a <= b
    PROVE  Nearest(a, d) <= Nearest(b, d)
<1> DEFINE half == d \div 2
           x == a * 100 + half
           y == b * 100 + half
<1>1. half \in Nat
  OBVIOUS
<1> HIDE DEF half
<1>2. x \in Int /\ y \in Int /\ x <= y
  BY <1>1
<1> HIDE DEF x, y
<1>3. x \div d <= y \div d
  BY <1>2, QuotientIsMonotone
<1> QED
  BY <1>3 DEF Nearest, x, y, half

(* A higher target lowers neither control.                                 *)
LEMMA SplitGrows ==
    ASSUME NEW m \in 1 .. 99, NEW p \in Percents, NEW q \in Percents, p <= q
    PROVE  LET low  == split_brightness(p, m)
               high == split_brightness(q, m)
           IN  low.hardware <= high.hardware /\ low.software <= high.software
<1> DEFINE low  == split_brightness(p, m)
           high == split_brightness(q, m)
<1>1. /\ \A x \in Percents : Clamp(x) = x /\ 0 <= x /\ x <= 100 /\ x \in Int
      /\ 0 \in Percents /\ 100 \in Percents
  BY DEF Clamp, Percents
<1>2. CASE p >= m
  <2>1. /\ p - m \in Nat /\ q - m \in Nat /\ 100 - m \in 1 .. 99
        /\ p - m <= 100 - m /\ q - m <= 100 - m /\ p - m <= q - m /\ q >= m
    BY <1>2 DEF Percents
  <2>2. Nearest(p - m, 100 - m) \in Percents /\ Nearest(q - m, 100 - m) \in Percents
    BY <2>1, RoundingInverts
  <2>3. Nearest(p - m, 100 - m) <= Nearest(q - m, 100 - m)
    <3>1. p - m \in 0 .. 100 - m /\ q - m \in 0 .. 100 - m
      BY <2>1
    <3> QED
      BY <2>1, <3>1, NearestIsMonotone
  <2>4. low.hardware = Nearest(p - m, 100 - m) /\ low.software = 100
    BY <1>1, <1>2, <2>2 DEF split_brightness
  <2>5. high.hardware = Nearest(q - m, 100 - m) /\ high.software = 100
    BY <1>1, <2>1, <2>2 DEF split_brightness
  <2> QED
    BY <2>3, <2>4, <2>5
<1>3. CASE ~(p >= m)
  <2>1. p \in Nat /\ p <= m /\ q \in Nat
    BY <1>3 DEF Percents
  <2>2. Nearest(p, m) \in Percents
    BY <2>1, RoundingInverts
  <2>3. low.hardware = 0 /\ low.software = Nearest(p, m)
    BY <1>1, <1>3, <2>2 DEF split_brightness
  <2>4. CASE q >= m
    <3>1. high.software = 100
      BY <2>4 DEF split_brightness
    <3>2. high.hardware \in Percents
      BY SplitRoundTrips DEF validate_hardware_min
    <3>3. low.hardware <= high.hardware
      BY <1>1, <2>3, <3>2
    <3>4. low.software <= high.software
      BY <1>1, <2>2, <2>3, <3>1
    <3> QED
      BY <3>3, <3>4
  <2>5. CASE ~(q >= m)
    <3>1. q <= m
      BY <2>1, <2>5
    <3>2. Nearest(q, m) \in Percents
      BY <2>1, <3>1, RoundingInverts
    <3>3. high.hardware = 0 /\ high.software = Nearest(q, m)
      BY <1>1, <2>5, <3>2 DEF split_brightness
    <3>4. m \in 1 .. 99 /\ p \in 0 .. m /\ q \in 0 .. m
      BY <2>1, <3>1
    <3>5. Nearest(p, m) <= Nearest(q, m)
      BY <3>4, NearestIsMonotone
    <3> QED
      BY <2>3, <3>3, <3>5
  <2> QED
    BY <2>4, <2>5
<1> QED
  BY <1>2, <1>3

-----------------------------------------------------------------------------
(* The dial                                                                *)

(* The reported brightness is a percentage, and after a change it is the   *)
(* one the change makes of the one before.                                 *)
LEMMA ReportedIs ==
    ASSUME Inv
    PROVE  /\ reported \in Percents
           /\ change # None =>
                 /\ change \in PercentChange
                 /\ apply_percent_change(before, change) \in Percents
                 /\ reported = apply_percent_change(before, change)
<1>1. hardware_min \in 1 .. 99 /\ hardware \in Percents /\ software \in Percents
  BY InputTypes DEF Inv, TypeOK
<1>2. reported \in Percents
  BY <1>1, EffectiveIsPercent DEF reported
<1>3. ASSUME change # None
      PROVE  /\ change \in PercentChange
             /\ apply_percent_change(before, change) \in Percents
             /\ reported = apply_percent_change(before, change)
  <2> DEFINE goal == apply_percent_change(before, change)
             parts == split_brightness(goal, hardware_min)
  <2>1. change \in PercentChange /\ before \in Percents
    BY <1>3 DEF Inv, TypeOK
  <2>2. goal \in Percents
    BY <2>1, ChangedIsPercent
  <2>3. hardware = parts.hardware /\ software = parts.software
    BY <1>3 DEF Inv, Split
  <2>4. effective_brightness(parts.hardware, parts.software, hardware_min) = goal
    BY <1>1, <2>2, SplitRoundTrips DEF validate_hardware_min
  <2> QED
    BY <2>1, <2>2, <2>3, <2>4 DEF reported
<1> QED
  BY <1>2, <1>3

(* Every Turn leaves two percentages, split as its target asks.            *)
LEMMA TurnKeepsInv ==
    ASSUME Inv, NEW c \in Changes, Turn(c)
    PROVE  Inv'
<1> DEFINE goal == apply_percent_change(reported, c)
           parts == split_brightness(goal, hardware_min)
<1>1. /\ before' = reported /\ change' = c /\ hardware_min' = hardware_min
      /\ hardware' = parts.hardware /\ software' = parts.software
  BY DEF Turn
<1>2. reported \in Percents /\ c \in PercentChange
  BY ReportedIs, InputTypes
<1>3. goal \in Percents
  BY <1>2, ChangedIsPercent
<1>4. hardware_min \in HardwareMins /\ hardware_min \in 1 .. 99
  BY InputTypes DEF Inv, TypeOK
<1>5. parts.hardware \in Percents /\ parts.software \in Percents
  BY <1>3, <1>4, SplitRoundTrips DEF validate_hardware_min
<1>6. TypeOK'
  BY <1>1, <1>2, <1>4, <1>5 DEF TypeOK
<1>7. Split'
  BY <1>1 DEF Split
<1> QED
  BY <1>6, <1>7 DEF Inv

(***************************************************************************)
(* The invariant of the dial holds whatever is typed, in whatever order.   *)
(***************************************************************************)
THEOREM Invariance == Spec => []Inv
<1>1. Init => Inv
  <2> SUFFICES ASSUME Init PROVE Inv
    OBVIOUS
  <2>1. hardware_min \in HardwareMins /\ hardware_min \in 1 .. 99 /\ hardware \in Percents
    BY InputTypes DEF Init
  <2>2. software = 100 /\ software \in Percents /\ change = None
    BY DEF Init, Percents
  <2>3. before \in Percents
    BY <2>1, <2>2, EffectiveIsPercent DEF Init, reported
  <2> QED
    BY <2>1, <2>2, <2>3 DEF Inv, TypeOK, Split
<1>2. Inv /\ [Next]_vars => Inv'
  <2> SUFFICES ASSUME Inv, [Next]_vars PROVE Inv'
    OBVIOUS
  <2>1. CASE Next
    BY <2>1, TurnKeepsInv DEF Next
  <2>2. CASE UNCHANGED vars
    BY <2>2 DEF vars, Inv, TypeOK, Split
  <2> QED
    BY <2>1, <2>2
<1> QED
  BY <1>1, <1>2, PTL DEF Spec

(***************************************************************************)
(* TypeOK: no text makes a control leave 0..100 (the casts to u8 of        *)
(* brightness.rs lose nothing).                                            *)
(***************************************************************************)
THEOREM DialTypes == Spec => []TypeOK
<1>1. Inv => TypeOK
  BY DEF Inv
<1> QED
  BY <1>1, Invariance, PTL

(***************************************************************************)
(* ReportsWhatWasAsked, for every text and every hardware minimum.         *)
(***************************************************************************)
THEOREM AskedIsReported == Spec => []ReportsWhatWasAsked
<1>1. Inv => ReportsWhatWasAsked
  BY ReportedIs DEF ReportsWhatWasAsked
<1> QED
  BY <1>1, Invariance, PTL

(***************************************************************************)
(* FactorsMove: no factor, however near to one or far from it, is          *)
(* swallowed by rounding (rounded_scaled of brightness.rs).                *)
(***************************************************************************)
THEOREM FactorsAlwaysMove == Spec => []FactorsMove
<1>1. Inv => FactorsMove
  <2> SUFFICES ASSUME Inv, change # None, change.kind \in {"Multiply", "Divide"}
               PROVE  LET raises == IF change.kind = "Multiply" THEN change.amount > 100
                                                                ELSE change.amount < 100
                      IN  \/ change.amount = 100 /\ reported = before
                          \/ change.amount # 100 /\ raises
                                /\ (reported > before \/ before = 100)
                          \/ change.amount # 100 /\ ~raises
                                /\ (reported < before \/ before = 0)
    BY DEF FactorsMove
  <2> DEFINE amount == change.amount
  <2>1. before \in Percents /\ reported = apply_percent_change(before, change)
    BY ReportedIs DEF Inv, TypeOK
  <2>2. amount \in Nat \ {0}
    BY ReportedIs DEF PercentChange
  <2> HIDE DEF amount
  <2>3. CASE change.kind = "Multiply"
    <3>1. reported = rounded_scaled(before, amount, 100)
      BY <2>1, <2>3 DEF apply_percent_change, amount
    <3>2. /\ amount > 100 => reported > before \/ before = 100
          /\ amount = 100 => reported = before
          /\ amount < 100 => reported < before \/ before = 0
      BY <2>1, <2>2, <3>1, ScalingMoves
    <3> QED
      BY <2>2, <2>3, <3>2 DEF amount
  <2>4. CASE change.kind = "Divide"
    <3>1. reported = rounded_scaled(before, 100, amount)
      BY <2>1, <2>4 DEF apply_percent_change, amount
    <3>2. /\ 100 > amount => reported > before \/ before = 100
          /\ 100 = amount => reported = before
          /\ 100 < amount => reported < before \/ before = 0
      BY <2>1, <2>2, <3>1, ScalingMoves
    <3> QED
      BY <2>2, <2>4, <3>2 DEF amount
  <2> QED
    BY <2>3, <2>4
<1> QED
  BY <1>1, Invariance, PTL

(***************************************************************************)
(* SplitIsMonotone: turning the dial up lowers neither control, for every  *)
(* hardware minimum and every pair of percentages.                         *)
(***************************************************************************)
THEOREM TurningUpLowersNothing == Spec => []SplitIsMonotone
<1>1. Inv => SplitIsMonotone
  <2> SUFFICES ASSUME Inv, change # None, NEW q \in reported .. 100
               PROVE  LET split == split_brightness(q, hardware_min)
                      IN  split.hardware >= hardware /\ split.software >= software
    BY DEF SplitIsMonotone
  <2> DEFINE low == split_brightness(reported, hardware_min)
             high == split_brightness(q, hardware_min)
  <2>1. reported \in Percents /\ hardware = low.hardware /\ software = low.software
    BY ReportedIs DEF Inv, Split
  <2>2. q \in Percents /\ reported <= q
    BY <2>1 DEF Percents
  <2>3. hardware_min \in 1 .. 99
    BY InputTypes DEF Inv, TypeOK
  <2>4. low.hardware <= high.hardware /\ low.software <= high.software
    BY <2>1, <2>2, <2>3, SplitGrows
  <2>5. /\ low.hardware \in Percents /\ low.software \in Percents
        /\ high.hardware \in Percents /\ high.software \in Percents
    BY <2>1, <2>2, <2>3, SplitRoundTrips DEF validate_hardware_min
  <2> HIDE DEF low, high
  <2>6. high.hardware >= hardware /\ high.software >= software
    BY <2>1, <2>4, <2>5 DEF Percents
  <2> QED
    BY <2>6 DEF high
<1> QED
  BY <1>1, Invariance, PTL

=============================================================================
