------------------------------- MODULE Scales -------------------------------
(***************************************************************************)
(* How the quantized layers round their weights: Int4Linear group by       *)
(* group (model/quantization/int4.rs) and Int8Linear as a whole            *)
(* (model/quantization/int8.rs), in exact arithmetic.  Weights are         *)
(* integers, so many units-th parts of 1; a scale is the fraction of       *)
(* d over n of these parts.  The rounding of F32 and F16 is left out.      *)
(***************************************************************************)
EXTENDS Integers, FiniteSetsExt

Magnitude(v) == IF v < 0 THEN -v ELSE v
Clamp(v, low, high) == IF v < low THEN low ELSE IF v > high THEN high ELSE v

\* f32::round of a / d: halves go away from 0.
Round(a, d) == IF a < 0 THEN -((d - 2 * a) \div (2 * d)) ELSE (2 * a + d) \div (2 * d)

Parts(weights) == {weights[i] : i \in DOMAIN weights}

-----------------------------------------------------------------------------
(* Int4Linear                                                              *)

\* The range in 15 steps, or steps of 1 if there is none.
Int4Scale(weights, units) ==
  LET range == Max(Parts(weights)) - Min(Parts(weights))
  IN IF range > 0 THEN [n |-> 15, d |-> range] ELSE [n |-> 1, d |-> units]

\* A slip, or the repair: the zero point may lie outside of what four bits hold.
ZeroPointUnclamped(weights, scale) == Round(-Min(Parts(weights)) * scale.n, scale.d)
ZeroPoint(weights, scale) == Clamp(Round(-Min(Parts(weights)) * scale.n, scale.d), 0, 15)

\* One group of Int4Linear::quantize.
Int4Group(weights, units) ==
  LET scale == Int4Scale(weights, units)
      zero == ZeroPoint(weights, scale)
  IN [scale |-> scale, zero |-> zero,
      q |-> [i \in DOMAIN weights |->
               Clamp(Round(weights[i] * scale.n + zero * scale.d, scale.d), 0, 15)]]

-----------------------------------------------------------------------------
(* Int8Linear                                                              *)

\* Int8Linear::quantize
Int8Layer(weights, units) ==
  LET abs_max == Max({Magnitude(v) : v \in Parts(weights)})
      scale == IF abs_max > 0 THEN [n |-> 127, d |-> abs_max] ELSE [n |-> 1, d |-> units]
  IN [scale |-> scale, zero |-> 128,
      q |-> [i \in DOMAIN weights |->
               Clamp(Round(weights[i] * scale.n + 128 * scale.d, scale.d), 0, 255)]]

-----------------------------------------------------------------------------

\* What unpack_weights makes of a value, in n-th parts.
Restored(layer, i) == (layer.q[i] - layer.zero) * layer.scale.d

\* The weight comes back within half a step.
Kept(layer, weights, i) ==
  2 * Magnitude(weights[i] * layer.scale.n - Restored(layer, i)) <= layer.scale.d
=============================================================================
