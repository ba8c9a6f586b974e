--------------------------- MODULE Distributions ---------------------------
(***************************************************************************)
(* DistributionSystem: how long it takes until something happens next, for *)
(* a random fraction of 0 .. Whole.                                        *)
(*                                                                         *)
(* A fixed or uniform distribution and a table of quantiles are computed.  *)
(* The quantiles of a normal and of a Weibull distribution are formulas of *)
(* a library: such a distribution carries its rounded quantile for each    *)
(* fraction, any numbers, also negative ones.                              *)
(***************************************************************************)
EXTENDS Integers, Sequences, FiniteSetsExt

CONSTANT Whole   \* the fraction that stands for 1

Fraction == 0 .. Whole

Rounded(num, den) == (2 * num + den) \div (2 * den)

-----------------------------------------------------------------------------
(* What add_uniform, add_quantile_table and add_weibull refuse with an     *)
(* exception.  ensure_always_increasing compares every entry with the first*)
(* one only.                                                               *)
AlwaysIncreasing(xs) == \A i \in 2 .. Len(xs) : xs[i] > xs[1]

ValidQuantileTable(xs, times) ==
  /\ Len(xs) = Len(times)
  /\ Len(xs) >= 2
  /\ AlwaysIncreasing(xs) /\ AlwaysIncreasing(times)
  /\ xs[1] = 0 /\ xs[Len(xs)] = Whole

ValidDistribution(d) ==
  CASE d.type = "Uniform"       -> d.lower <= d.upper
    [] d.type = "QuantileTable" -> ValidQuantileTable(d.variates, d.times)
    [] d.type = "Weibull"       -> d.shape > 0 /\ d.scale > 0
    [] OTHER                    -> TRUE

IsDistribution(d) ==
  /\ ValidDistribution(d)
  /\ \/ d.type = "Fixed" /\ d.value \in Int
     \/ d.type = "Uniform" /\ d.lower \in Int /\ d.upper \in Int
     \/ d.type = "QuantileTable" /\ d.variates \in Seq(Int) /\ d.times \in Seq(Int)
     \/ d.type \in {"Normal", "Weibull"} /\ d.quantile \in [Fraction -> Int]

-----------------------------------------------------------------------------
(* next_time_advance                                                       *)

(* The search through a table goes on after an interval that contains the  *)
(* fraction, and ends early only where the fraction is a variate.          *)
Containing(d, fraction) ==
  {i \in 1 .. Len(d.variates) - 1 :
     d.variates[i] <= fraction /\ fraction < d.variates[i + 1]}

InTable(d, fraction) ==
  LET found == Containing(d, fraction)
      exact == {i \in found : d.variates[i] = fraction}
      i     == IF exact # {} THEN Min(exact) ELSE Max(found)
  IN  IF fraction >= Whole THEN d.times[Len(d.times)]
      ELSE IF found = {} THEN 0
      ELSE Rounded((d.variates[i + 1] - fraction) * d.times[i]
                     + (fraction - d.variates[i]) * d.times[i + 1],
                   d.variates[i + 1] - d.variates[i])

Advance(d, fraction) ==
  CASE d.type = "Fixed"         -> d.value
    [] d.type = "Uniform"       -> d.lower + (fraction * (d.upper - d.lower)) \div Whole
    [] d.type = "QuantileTable" -> InTable(d, fraction)
    [] OTHER                    -> d.quantile[fraction]

NextTimeAdvanceUnbounded(d, fraction) == Advance(d, fraction)   \* a slip

NextTimeAdvance(d, fraction) == Max({0, Advance(d, fraction)})

(* All the times a distribution can give.                                  *)
Advances(d) == {NextTimeAdvance(d, fraction) : fraction \in Fraction}

=============================================================================
