-------------------------------- MODULE Units --------------------------------
(***************************************************************************)
(* units.cpp, over a unit of length fine enough for integers; a fraction   *)
(* is a numerator over a denominator the caller knows.  None stands for    *)
(* std::nullopt.                                                           *)
(***************************************************************************)
EXTENDS Integers

None == -1

Clamp(x, low, high) == IF x < low THEN low ELSE IF x > high THEN high ELSE x

(* roundedRegister(): lround() of num / den, both positive.                *)
Rounded(num, den) == (2 * num + den) \div (2 * den)

OpeningRange(p) == p.maxOpening - p.minOpening
RegisterRange(p) == p.closedPosition - p.openPosition
Usable(p) == OpeningRange(p) > 0 /\ RegisterRange(p) > 0

(* Mutant of OpeningToRegister: cut off, as a cast would, not rounded.     *)
OpeningCutOff(opening, p) ==
  IF ~Usable(p) THEN None
  ELSE LET closed == OpeningRange(p) - Clamp(opening - p.minOpening, 0, OpeningRange(p)) IN
         (p.openPosition * OpeningRange(p) + closed * RegisterRange(p)) \div OpeningRange(p)

OpeningToRegister(opening, p) ==
  IF ~Usable(p) THEN None
  ELSE LET closed == OpeningRange(p) - Clamp(opening - p.minOpening, 0, OpeningRange(p)) IN
         Rounded(p.openPosition * OpeningRange(p) + closed * RegisterRange(p), OpeningRange(p))

(* The opening, times RegisterRange(p).                                    *)
OpeningFromRegister(register, p) ==
  IF ~Usable(p) THEN None
  ELSE LET closed == Clamp(register - p.openPosition, 0, RegisterRange(p)) IN
         p.minOpening * RegisterRange(p) + (RegisterRange(p) - closed) * OpeningRange(p)

RegisterFromSpan(value, low, high) ==
  IF value < 0 \/ high <= low THEN None
  ELSE Rounded(Clamp(value - low, 0, high - low) * 255, high - low)

SpeedToRegister(speed, p) == RegisterFromSpan(speed, p.minSpeed, p.maxSpeed)

(* Efforts and normalised positions in parts of 1000.                      *)
EffortToRegister(effort) == RegisterFromSpan(effort, 0, 1000)
NormalizedToRegister(value) == Rounded(Clamp(value, 0, 1000) * 255, 1000)

(* Times 255.                                                              *)
NormalizedFromRegister(register) == register * 1000

(* frequency.hpp and exchange_period.hpp, in mHz and us; 0 is free-run.    *)
ClampFrequency(f) == IF f = 0 THEN 0 ELSE Clamp(f, 100, 1000000)
ExchangePeriod(f) ==
  IF ClampFrequency(f) = 0 THEN 0 ELSE Rounded(1000000000, ClampFrequency(f))
=============================================================================
