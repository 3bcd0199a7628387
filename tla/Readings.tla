------------------------------ MODULE Readings ------------------------------
(***************************************************************************)
(* Indicator readings and how scores are blended from them.  A score is in *)
(* thousandths of [-1, 1], cut towards zero.                               *)
(***************************************************************************)
EXTENDS Integers, SequencesExt

CONSTANT NoReading     \* an indicator the history is too short for

Has(x) == x # NoReading
Absolute(x) == IF x < 0 THEN -x ELSE x
SignOf(x) == IF x > 0 THEN 1 ELSE IF x < 0 THEN -1 ELSE 0
Clamp(x, low, high) == IF x \in low..high THEN x ELSE IF x < low THEN low ELSE high
\* Division that cuts towards zero, so that x and -x give opposite results.
Over(x, y) == SignOf(x) * (Absolute(x) \div y)

\* A reading as a share of the size that counts as full.
Scaled(x, full) == Clamp(Over(1000 * x, full), -1000, 1000)
Centred(x, middle) == IF Has(x) THEN x - middle ELSE x

(***************************************************************************)
(* The weighted mean of what is known: parts are [value, full, weight].    *)
(***************************************************************************)
Part(value, full, weight) == [value |-> value, full |-> full, weight |-> weight]

Blend(parts) ==
  LET known  == SelectSeq(parts, LAMBDA p : Has(p.value))
      weight == FoldLeft(LAMBDA w, p : w + p.weight, 0, known)
      score  == FoldLeft(LAMBDA s, p : s + p.weight * Scaled(p.value, p.full), 0, known)
  IN IF weight = 0 THEN 0 ELSE Clamp(Over(score, weight), -1000, 1000)

\* What a formation is worth after a number of candles: it halves every
\* halfLife candles, as 1 / (1 + age/halfLife).
Decayed(strength, age, halfLife) == (strength * halfLife) \div (halfLife + age)
Signed(direction, strength) ==
  IF direction = "bullish" THEN strength ELSE IF direction = "bearish" THEN -strength ELSE 0
=============================================================================
