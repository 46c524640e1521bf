------------------------------ MODULE FilterSpec ------------------------------
(***************************************************************************)
(* What the estimator promises to the allocation of one core's budget: an  *)
(* adaptive linear filter over the past consumption, on two channels that  *)
(* share their passes.  Estimator implements it with two rings under one   *)
(* index, a normalised update and estimates saved for the next pass.  How  *)
(* far an update moves the coefficients is left open here, not which way.  *)
(***************************************************************************)
EXTENDS Integers

CONSTANTS Bias,   \* what is added to every weighted sum
          Unit,   \* the coefficient 1, in the unit coefficients have first
          First,  \* the coefficients at first
          Half,   \* an estimate less its bias is in -Half .. Half - 1
          Width   \* a sample is in 0 .. Width - 1

Channels == {"read", "write"}
Taps     == 0..4

VARIABLES
  phase,  \* where the pass is; between passes "idle"
  now,    \* now[k]: the sample of this pass
  line,   \* line[k][i]: the sample learned i passes before this one
  coef,   \* coef[k]: the coefficient 0 is for now[k], the others for line[k]
  unit,   \* unit[k]: the coefficient 1, in the unit of coef[k]
  est,    \* est[k]: the last estimate made
  budget, \* budget[k]: the estimate the core was last granted
  base    \* base[k]: while learning, the one it had been granted before

coefs == <<coef, unit>>
vars == <<phase, now, line, coefs, est, budget, base>>

Zero == [k \in Channels |-> 0]

Init ==
  /\ phase = "idle"
  /\ now = Zero
  /\ line = [k \in Channels |-> [i \in Taps \ {0} |-> 0]]
  /\ coef = [k \in Channels |-> [i \in Taps |-> First]]
  /\ unit = [k \in Channels |-> Unit]
  /\ est = Zero /\ budget = Zero /\ base = Zero
-----------------------------------------------------------------------------
(* What the filter makes of the samples with the coefficients c.           *)
Filtered(k, c) == c[0] * now[k] + c[1] * line[k][1] + c[2] * line[k][2]
                                + c[3] * line[k][3] + c[4] * line[k][4]

(* n is x in units of one, its fraction dropped.                           *)
IsWhole(n, x, one) == IF x >= 0 THEN n * one <= x /\ x < n * one + one
                                ELSE x <= n * one /\ n * one - one < x

(* The whole of the sum and the bias; the least number for a sum that is   *)
(* too long either way.                                                    *)
IsEstimate(e, x, one) ==
  IF -((Half + 1) * one) < x /\ x < Half * one THEN IsWhole(e - Bias, x, one)
                                               ELSE e - Bias = -Half

(* The sample less the estimate, in two's complement.                      *)
Error(k) == ((now[k] - base[k] + Width \div 2) % Width) - Width \div 2
-----------------------------------------------------------------------------
Observe ==
  /\ phase = "idle" /\ phase' = "read"
  /\ now' \in [Channels -> 0 .. Width - 1]
  /\ UNCHANGED <<line, coefs, est, budget, base>>

Estimates(k) ==
  /\ phase = k
  /\ est' = [est EXCEPT ![k] = est'[k]]
  /\ IsEstimate(est'[k], Filtered(k, coef[k]), unit[k])
  /\ UNCHANGED <<now, line, coef, budget, base>>

Predict(k) ==
  /\ Estimates(k)
  /\ est'[k] >= 0
  /\ phase' = IF k = "read" THEN "write" ELSE "grant"
  /\ UNCHANGED unit

(* A negative estimate makes the coefficients worth half and ends the pass:*)
(* there is no new budget, and the sample does not enter the line.         *)
Skip(k) ==
  /\ Estimates(k)
  /\ est'[k] < 0
  /\ phase' = "idle"
  /\ unit' = [unit EXCEPT ![k] = 2 * unit[k]]

Grant ==
  /\ phase = "grant" /\ phase' = "learn"
  /\ base' = budget
  /\ budget' = est
  /\ UNCHANGED <<now, line, coefs, est>>

(* With its new coefficients the filter would have erred no further in the *)
(* way it erred; without an error it keeps them.                           *)
Follows(k) ==
  /\ Error(k) < 0 => Filtered(k, coef'[k]) <= Filtered(k, coef[k])
  /\ Error(k) > 0 => Filtered(k, coef'[k]) >= Filtered(k, coef[k])
  /\ Error(k) = 0 => coef'[k] = coef[k]

Learn ==
  /\ phase = "learn" /\ phase' = "idle"
  /\ \A k \in Channels : Follows(k)
  /\ line' = [k \in Channels |->
                [i \in Taps \ {0} |-> IF i = 1 THEN now[k] ELSE line[k][i - 1]]]
  /\ base' = Zero
  /\ UNCHANGED <<now, unit, est, budget>>

(* A start of regulation, even in the middle of a pass, forgets the        *)
(* estimates and keeps the samples and the coefficients.                   *)
Reset ==
  /\ est' = Zero /\ budget' = Zero /\ base' = Zero
  /\ UNCHANGED <<phase, now, line, coefs>>

Next == \/ Observe \/ Grant \/ Learn \/ Reset
        \/ \E k \in Channels : Predict(k) \/ Skip(k)

Spec == Init /\ [][Next]_vars
=============================================================================
