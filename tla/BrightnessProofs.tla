--------------------------- MODULE BrightnessProofs ---------------------------
(***************************************************************************)
(* Facts about the operators of Brightness.tla, for every hardware_min and *)
(* every device, with their proofs.                                        *)
(***************************************************************************)
EXTENDS Brightness, TLAPS

(* Whatever is clamped is a percentage (the clamp(0, 100) as u8 of         *)
(* brightness.rs).                                                         *)
LEMMA ClampIsPercent ==
    ASSUME NEW x \in Int
    PROVE  Clamp(x) \in Percents
BY DEF Clamp, Percents

(* A scaled percentage is a percentage; the nudge stays in range.          *)
LEMMA ScaledIsPercent ==
    ASSUME NEW current \in Percents, NEW numerator \in Nat, NEW denominator \in Nat \ {0}
    PROVE  rounded_scaled(current, numerator, denominator) \in Percents
<1> DEFINE raw == (current * numerator + denominator \div 2) \div denominator
           result == Clamp(raw)
<1>1. raw \in Int
  <2>1. current * numerator \in Int
    BY DEF Percents
  <2>2. denominator \div 2 \in Int
    OBVIOUS
  <2> DEFINE sum == current * numerator + denominator \div 2
  <2>3. sum \in Int
    BY <2>1, <2>2
  <2> HIDE DEF sum
  <2>4. sum \div denominator \in Int
    BY <2>3
  <2> QED
    BY <2>4 DEF sum
<1> HIDE DEF raw
<1>2. result \in Percents
  BY <1>1, ClampIsPercent
<1>3. rounded_scaled(current, numerator, denominator) =
        CASE result = current /\ numerator > denominator /\ current < 100 -> result + 1
          [] result = current /\ numerator < denominator /\ current > 0   -> result - 1
          [] OTHER -> result
  BY DEF rounded_scaled, raw
<1> HIDE DEF result
<1> QED
  BY <1>2, <1>3 DEF Percents

(* Every change of a percentage, wrapped or not, is a percentage.          *)
LEMMA ChangedIsPercent ==
    ASSUME NEW current \in Percents, NEW change \in PercentChange
    PROVE  apply_percent_change(current, change) \in Percents
<1>1. CASE change \in [kind : {"Absolute"}, amount : Percents]
  BY <1>1 DEF apply_percent_change
<1>2. CASE change \in [kind : {"Delta"}, amount : I16]
  <2> DEFINE sum == current + change.amount
  <2>1. sum \in Int
    <3>1. change.amount \in I16
      BY <1>2
    <3>2. \A x \in I16 : x \in Int
      BY DEF I16
    <3> QED
      BY <3>1, <3>2 DEF Percents
  <2> HIDE DEF sum
  <2>2. WrapI16(sum) \in Int
    BY <2>1 DEF WrapI16
  <2> QED
    BY <1>2, <2>2, ClampIsPercent DEF apply_percent_change, sum
<1>3. CASE change \in [kind : {"Multiply", "Divide"}, amount : Nat \ {0}]
  <2>1. rounded_scaled(current, change.amount, 100) \in Percents
    BY <1>3, ScaledIsPercent
  <2>2. rounded_scaled(current, 100, change.amount) \in Percents
    BY <1>3, ScaledIsPercent
  <2> QED
    BY <1>3, <2>1, <2>2 DEF apply_percent_change
<1> QED
  BY <1>1, <1>2, <1>3 DEF PercentChange

(* A percentage of a register's range is a value of the register           *)
(* (percent_to_value of waydim).                                           *)
LEMMA ValueIsRegister ==
    ASSUME NEW percent \in Percents, NEW max \in Nat
    PROVE  percent_to_value(percent, max) \in 0 .. max
<1> DEFINE product == percent * max
<1>1. product \in Nat
  BY DEF Percents
<1>2. product <= 100 * max
  BY DEF Percents
<1>3. percent_to_value(percent, max) = (product + 99) \div 100
  BY DEF percent_to_value
<1> HIDE DEF product
<1> QED
  BY <1>1, <1>2, <1>3

(* A register's value is a percentage of its range.                        *)
LEMMA RegisterIsPercent ==
    ASSUME NEW max \in Nat, NEW current \in 0 .. max
    PROVE  percent_of(current, max) \in Percents
<1>1. CASE max = 0
  BY <1>1 DEF percent_of, Percents
<1>2. CASE max # 0
  <2> DEFINE q == (current * 100) \div max
  <2>1. q \in Int /\ max * q <= current * 100 /\ current * 100 < max * q + max
    BY <1>2
  <2>2. percent_of(current, max) = q
    BY <1>2 DEF percent_of
  <2> HIDE DEF q
  <2>3. q >= 0
    BY <1>2, <2>1
  <2>4. q <= 100
    BY <1>2, <2>1
  <2> QED
    BY <2>1, <2>2, <2>3, <2>4 DEF Percents
<1> QED
  BY <1>1, <1>2

(* What is reported of two levels is a percentage; nothing is reported of  *)
(* none (combined_brightness of daemon.rs).                                *)
LEMMA EffectiveIsPercent ==
    ASSUME NEW h \in Percents, NEW s \in Percents, NEW m \in 1 .. 99
    PROVE  effective_brightness(h, s, m) \in Percents
<1>1. (s * m + 50) \div 100 \in Int
  BY DEF Percents
<1>2. Clamp(h) \in Int
  BY ClampIsPercent DEF Percents
<1>3. m + (Clamp(h) * (100 - m) + 50) \div 100 \in Int
  BY <1>2
<1> QED
  BY <1>1, <1>3, ClampIsPercent DEF effective_brightness

(* What an output reports is a percentage if it has a control at all.      *)
LEMMA CombinedIsLevel ==
    ASSUME NEW h \in Percents \cup {None}, NEW s \in Percents \cup {None}, NEW m \in 1 .. 99
    PROVE  /\ combined_brightness(h, s, m) \in Percents \cup {None}
           /\ h # None \/ s # None => combined_brightness(h, s, m) \in Percents
<1>1. CASE h # None /\ s # None
  <2>1. combined_brightness(h, s, m) = effective_brightness(h, s, m)
    BY <1>1 DEF combined_brightness
  <2> QED
    BY <1>1, <2>1, EffectiveIsPercent
<1>2. CASE h # None /\ s = None
  <2>1. combined_brightness(h, s, m) = Clamp(h)
    BY <1>2 DEF combined_brightness
  <2>2. h \in Int
    BY <1>2 DEF Percents
  <2> QED
    BY <2>1, <2>2, ClampIsPercent
<1>3. CASE h = None /\ s # None
  <2>1. combined_brightness(h, s, m) = s
    BY <1>3 DEF combined_brightness
  <2> QED
    BY <1>3, <2>1
<1>4. CASE h = None /\ s = None
  <2>1. combined_brightness(h, s, m) = None
    BY <1>4 DEF combined_brightness
  <2> QED
    BY <1>4, <2>1
<1> QED
  BY <1>1, <1>2, <1>3, <1>4

-----------------------------------------------------------------------------
(* Dividing by d to the nearest integer and scaling back over 100 gives    *)
(* the start again, because d is below 100: the error of the first         *)
(* rounding, at most d/2, is less than half of 100.                        *)
LEMMA RoundingInverts ==
    ASSUME NEW a \in Nat, NEW d \in 1 .. 99, a <= d
    PROVE  /\ Nearest(a, d) \in Percents
           /\ (Nearest(a, d) * d + 50) \div 100 = a
           /\ a < d => Nearest(a, d) < 100
<1> DEFINE q == (a * 100 + d \div 2) \div d
           product == d * q
           half == d \div 2
<1>1. half \in Nat /\ 2 * half <= d /\ d <= 2 * half + 1
  OBVIOUS
<1>2. a * 100 + half \in Nat
  BY <1>1
<1>3. q \in Int /\ product <= a * 100 + half /\ a * 100 + half < product + d
  BY <1>2
<1>4. product \in Int /\ q * d = product
  BY <1>3
<1>5. Nearest(a, d) = q
  BY DEF Nearest
<1> HIDE DEF q
<1>6. q >= 0 /\ q <= 100 /\ (a < d => q < 100)
  BY <1>1, <1>3
<1> HIDE DEF product, half
<1>7. a * 100 + 1 <= product + 50 /\ product + 50 <= a * 100 + 99
  BY <1>1, <1>3, <1>4
<1>8. (product + 50) \div 100 = a
  BY <1>4, <1>7
<1> QED
  BY <1>3, <1>4, <1>5, <1>6, <1>8 DEF Percents

(***************************************************************************)
(* The two controls of an output are a faithful pair of hands: split over  *)
(* them, every virtual percentage is read back as itself, for every        *)
(* hardware minimum the daemon accepts (the test in brightness.rs tries    *)
(* one, 50).                                                               *)
(***************************************************************************)
THEOREM SplitRoundTrips ==
    ASSUME NEW m, validate_hardware_min(m), NEW p \in Percents
    PROVE  LET parts == split_brightness(p, m)
           IN  /\ parts.hardware \in Percents /\ parts.software \in Percents
               /\ effective_brightness(parts.hardware, parts.software, m) = p
<1> DEFINE parts == split_brightness(p, m)
<1>1. m \in 1 .. 99
  BY DEF validate_hardware_min
<1>2. \A x \in Percents : Clamp(x) = x
  BY DEF Clamp, Percents
<1>3. CASE p >= m
  <2> DEFINE a == p - m
             d == 100 - m
             q == Nearest(a, d)
  <2>1. a \in Nat /\ d \in 1 .. 99 /\ a <= d
    BY <1>1, <1>3 DEF Percents
  <2>2. q \in Percents /\ (q * d + 50) \div 100 = a
    BY <2>1, RoundingInverts
  <2>3. parts.hardware = q /\ parts.software = 100
    BY <1>2, <1>3, <2>2 DEF split_brightness
  <2>4. effective_brightness(q, 100, m) = Clamp(m + (q * d + 50) \div 100)
    BY <1>2, <2>2 DEF effective_brightness
  <2>5. m + a = p
    BY <1>1 DEF Percents
  <2>6. effective_brightness(q, 100, m) = p
    BY <1>2, <2>2, <2>4, <2>5
  <2> QED
    BY <2>2, <2>3, <2>6 DEF Percents
<1>4. CASE ~(p >= m)
  <2> DEFINE q == Nearest(p, m)
  <2>1. p \in Nat /\ p < m /\ p <= m
    BY <1>1, <1>4 DEF Percents
  <2>2. q \in Percents /\ (q * m + 50) \div 100 = p /\ q < 100
    BY <1>1, <2>1, RoundingInverts
  <2>3. parts.hardware = 0 /\ parts.software = q
    BY <1>2, <1>4, <2>2 DEF split_brightness
  <2>4. effective_brightness(0, q, m) = p
    BY <1>2, <2>2 DEF effective_brightness
  <2> QED
    BY <2>2, <2>3, <2>4 DEF Percents
<1> QED
  BY <1>3, <1>4

-----------------------------------------------------------------------------
(* Registers                                                               *)

(* Multiplying by what is not negative keeps the order.                    *)
LEMMA ProductIsMonotone ==
    ASSUME NEW d \in Nat, NEW x \in Int, NEW y \in Int, x <= y
    PROVE  d * x <= d * y
<1> DEFINE gap == y - x
<1>1. gap \in Nat /\ y = x + gap
  OBVIOUS
<1>2. d * gap \in Nat
  BY <1>1
<1>3. d * (x + gap) = d * x + d * gap
  BY <1>1
<1> HIDE DEF gap
<1>4. d * x \in Int
  OBVIOUS
<1> QED
  BY <1>1, <1>2, <1>3, <1>4

(* Dividing keeps the order, and says what the quotient is.                *)
LEMMA QuotientIsMonotone ==
    ASSUME NEW d \in Nat \ {0}, NEW x \in Int, NEW y \in Int, x <= y
    PROVE  x \div d <= y \div d
<1> DEFINE p == x \div d
           q == y \div d
<1>1. p \in Int /\ d * p <= x
  OBVIOUS
<1>2. q \in Int /\ y < d * q + d
  OBVIOUS
<1> HIDE DEF p, q
<1> SUFFICES ASSUME ~(p <= q) PROVE FALSE
  BY DEF p, q
<1>3. q + 1 <= p
  BY <1>1, <1>2
<1>4. d * (q + 1) <= d * p
  BY <1>1, <1>2, <1>3, ProductIsMonotone
<1>5. d * (q + 1) = d * q + d
  BY <1>2
<1>6. d * q \in Int /\ d * p \in Int
  BY <1>1, <1>2
<1> QED
  BY <1>1, <1>2, <1>4, <1>5, <1>6

(* The products of waydim are no larger than a hundred times the maximum:  *)
(* if that fits in 32 bits, so do they.                                    *)
LEMMA ProductsFit ==
    ASSUME NEW max \in Nat, NEW p \in Percents, NEW current \in 0 .. max
    PROVE  p * max \in 0 .. 100 * max /\ current * 100 \in 0 .. 100 * max
<1>1. p \in Nat /\ p <= 100 /\ p * max = max * p
  BY DEF Percents
<1>2. max * p <= max * 100 /\ max * 0 <= max * p
  BY <1>1, ProductIsMonotone
<1>3. max * p \in Int
  BY <1>1
<1> QED
  BY <1>1, <1>2, <1>3

(* percent_to_value is the least value that reads as the percentage or     *)
(* more.                                                                   *)
LEMMA LeastRegister ==
    ASSUME NEW max \in Nat \ {0}, NEW p \in Percents, NEW v \in 0 .. max
    PROVE  percent_to_value(p, max) <= v <=> p <= percent_of(v, max)
<1> DEFINE product == p * max
           x == (product + 99) \div 100
           q == (v * 100) \div max
<1>1. p \in Nat /\ v \in Nat /\ product \in Nat /\ product = max * p
  BY DEF Percents
<1>2. x \in Int /\ 100 * x <= product + 99 /\ product + 99 < 100 * x + 100
  BY <1>1
<1>3. q \in Int /\ max * q <= v * 100 /\ v * 100 < max * q + max
  BY <1>1
<1>4. percent_to_value(p, max) = x /\ percent_of(v, max) = q
  BY DEF percent_to_value, percent_of
<1> HIDE DEF x, q, product
<1>5. max * q \in Int /\ max * (q + 1) = max * q + max
  BY <1>3
<1>6. ASSUME x <= v PROVE p <= q
  <2> SUFFICES ASSUME q + 1 <= p PROVE FALSE
    BY <1>1, <1>3
  <2>1. max * (q + 1) <= max * p
    BY <1>1, <1>3, ProductIsMonotone
  <2> QED
    BY <1>1, <1>2, <1>3, <1>5, <1>6, <2>1
<1>7. ASSUME p <= q PROVE x <= v
  <2>1. max * p <= max * q
    BY <1>1, <1>3, <1>7, ProductIsMonotone
  <2> QED
    BY <1>1, <1>2, <1>3, <1>5, <2>1
<1> QED
  BY <1>4, <1>6, <1>7

(***************************************************************************)
(* What the daemon wrote to a device is what it reads there again: never   *)
(* less, the same if the device has a hundred positions, and in any case a *)
(* level that leads back to the position it was read from, so that a       *)
(* REFRESH and a SET of what it reports move nothing (percent_to_value and *)
(* the two percent() of waydim, for every maximum).                        *)
(***************************************************************************)
THEOREM WrittenIsReadBack ==
    ASSUME NEW max \in Nat, NEW p \in Percents
    PROVE  LET written == percent_to_value(p, max)
               read == percent_of(written, max)
           IN  /\ max # 0 => p <= read
               /\ max >= 100 => read = p
               /\ percent_to_value(read, max) = written
<1> DEFINE written == percent_to_value(p, max)
           read == percent_of(written, max)
           again == percent_to_value(read, max)
<1>1. written \in 0 .. max
  BY ValueIsRegister
<1>2. read \in Percents
  BY <1>1, RegisterIsPercent
<1>3. again \in 0 .. max
  BY <1>2, ValueIsRegister
<1>4. CASE max = 0
  BY <1>1, <1>3, <1>4
<1>5. CASE max # 0
  <2>1. max \in Nat \ {0}
    BY <1>5
  <2>2. p <= read
    BY <1>1, <2>1, LeastRegister
  <2>3. again <= written
    <3>1. read \in Int /\ read <= read
      BY <1>2 DEF Percents
    <3> QED
      BY <1>1, <1>2, <2>1, <3>1, LeastRegister
  <2>4. written <= again
    <3>1. read <= percent_of(again, max)
      BY <1>2, <1>3, <2>1, LeastRegister
    <3>2. percent_of(again, max) \in Percents
      BY <1>3, RegisterIsPercent
    <3>3. p <= percent_of(again, max)
      BY <1>2, <2>2, <3>1, <3>2 DEF Percents
    <3> QED
      BY <1>3, <2>1, <3>3, LeastRegister
  <2>5. ASSUME max >= 100 PROVE read = p
    <3> SUFFICES ASSUME p + 1 <= read PROVE FALSE
      BY <1>2, <2>2 DEF Percents
    <3>1. max * (p + 1) <= max * read
      BY <1>2, ProductIsMonotone DEF Percents
    <3>2. max * read <= written * 100
      BY <1>1, <2>1 DEF percent_of
    <3>3. written * 100 <= p * max + 99
      BY DEF percent_to_value, Percents
    <3>4. max * (p + 1) = p * max + max
      BY DEF Percents
    <3>5. p * max \in Int /\ max * read \in Int
      BY <1>2 DEF Percents
    <3> QED
      BY <1>1, <2>5, <3>1, <3>2, <3>3, <3>4, <3>5
  <2> QED
    BY <1>1, <1>3, <2>2, <2>3, <2>4, <2>5
<1> QED
  BY <1>4, <1>5

-----------------------------------------------------------------------------
(* A brighter device reports more, whatever the overlay does.              *)
LEMMA CombinedGrows ==
    ASSUME NEW m, validate_hardware_min(m), NEW h \in Percents, NEW k \in Percents, h <= k,
           NEW s \in Percents \cup {None}
    PROVE  combined_brightness(h, s, m) <= combined_brightness(k, s, m)
<1>1. m \in 1 .. 99 /\ Clamp(h) = h /\ Clamp(k) = k /\ None \notin Percents
  BY NoneAssumption DEF validate_hardware_min, Clamp, Percents
<1>2. CASE s = None
  BY <1>1, <1>2 DEF combined_brightness, Percents
<1>3. CASE s # None
  <2>1. /\ combined_brightness(h, s, m) = effective_brightness(h, s, m)
        /\ combined_brightness(k, s, m) = effective_brightness(k, s, m)
    BY <1>1, <1>3, Zenon DEF combined_brightness
  <2>2. CASE s < 100
    <3>1. effective_brightness(h, s, m) = effective_brightness(k, s, m)
      BY <2>2 DEF effective_brightness
    <3>2. effective_brightness(h, s, m) \in Percents
      BY <1>1, <1>3, EffectiveIsPercent
    <3> QED
      BY <2>1, <3>1, <3>2 DEF Percents
  <2>3. CASE ~(s < 100)
    <3> DEFINE low == h * (100 - m)
               high == k * (100 - m)
    <3>1. 100 - m \in Nat /\ (100 - m) * h = low /\ (100 - m) * k = high
      BY <1>1 DEF Percents
    <3>2. low \in Int /\ high \in Int /\ low <= high
      BY <3>1, ProductIsMonotone DEF Percents
    <3>3. /\ effective_brightness(h, s, m) = Clamp(m + (low + 50) \div 100)
          /\ effective_brightness(k, s, m) = Clamp(m + (high + 50) \div 100)
      BY <1>1, <2>3 DEF effective_brightness
    <3> HIDE DEF low, high
    <3>4. (low + 50) \div 100 <= (high + 50) \div 100
          /\ (low + 50) \div 100 \in Int /\ (high + 50) \div 100 \in Int
      BY <3>2
    <3> QED
      BY <1>1, <2>1, <3>3, <3>4 DEF Clamp
  <2> QED
    BY <2>2, <2>3
<1> QED
  BY <1>2, <1>3

=============================================================================
