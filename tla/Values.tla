-------------------------------- MODULE Values --------------------------------
(***************************************************************************)
(* Conversions between the percentages of a panel and what Home Assistant  *)
(* holds (values.py), on exact quotients: no quotient of these integers is *)
(* near enough to a half for Python's floats to round it another way.      *)
(***************************************************************************)
EXTENDS Integers

Percent == 0 .. 100
MaxBrightness == 255  \* HA_BRIGHTNESS_MAX

\* Mutant: conversions that truncate.
Round_Down(n, d) == n \div d

\* Python's round(n / d): to the nearest integer, a half to the even one.
Round(n, d) ==
    LET q == n \div d
        twice == 2 * (n % d)
    IN  IF twice < d \/ (twice = d /\ q % 2 = 0) THEN q ELSE q + 1

\* clamp_percent(n / d)
ClampPercent(n, d) ==
    LET r == Round(n, d) IN IF r < 0 THEN 0 ELSE IF r > 100 THEN 100 ELSE r

BrightnessToPercent(b) == ClampPercent(b * 100, MaxBrightness)

PercentToBrightness(p) ==
    IF p >= 100 THEN MaxBrightness ELSE Round(p * MaxBrightness, 100)

\* Of a light's own range.
KelvinToPercent(k, low, high) ==
    IF high <= low THEN 0 ELSE ClampPercent((k - low) * 100, high - low)

PercentToKelvin(p, low, high) ==
    IF high <= low THEN low ELSE Round(low * 100 + (high - low) * p, 100)
=============================================================================
