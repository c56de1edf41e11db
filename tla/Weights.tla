------------------------------- MODULE Weights -------------------------------
(***************************************************************************)
(* The arithmetic of SourceGroupManager (source/manager.py): from the      *)
(* shares the endpoints claim to the weights nginx gets.  A share is a     *)
(* number of 1/Unit; a factor is a fraction <<numerator, denominator>>, so *)
(* the arithmetic is exact where the code computes with floats.            *)
(***************************************************************************)
EXTENDS Integers

CONSTANTS
  Unit,         \* the whole share of an endpoint
  ThresholdPct  \* _overflow_threshold_pct, 0 if there is none

ASSUME WeightsAssumption == Unit \in Nat \ {0} /\ ThresholdPct \in 0 .. 100

SIGNIFICANCE == 10000

\* Mutant: sum and count are divided as integers.
EpsFactorCut(claimed, count) ==
  IF count = 0 THEN <<1, 1>> ELSE <<claimed \div (Unit * count), 1>>

\* The part of their shares the primary endpoints claim, 1 if there are none.
EpsFactor(claimed, count) ==
  IF count = 0 THEN <<1, 1>> ELSE <<claimed, Unit * count>>

\* They claim less than the threshold.
PastThreshold(claimed, count) ==
  LET f == EpsFactor(claimed, count)
  IN ThresholdPct > 0 /\ 100 * f[1] < ThresholdPct * f[2]

\* Overflow is off if there are primary endpoints, unless they claim too little.
OepsFactor(claimed, count) ==
  LET f == EpsFactor(claimed, count)
  IN IF PastThreshold(claimed, count) THEN <<(100 - ThresholdPct) * f[1], 100 * f[2]>>
     ELSE IF count = 0 THEN <<1, 1>> ELSE <<0, 1>>

\* int(share * factor * SIGNIFICANCE)
Weight(share, factor) == (share * factor[1] * SIGNIFICANCE) \div (Unit * factor[2])
=============================================================================
