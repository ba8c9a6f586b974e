--------------------------- MODULE FlowArithmetic ---------------------------
(***************************************************************************)
(* The arithmetic of power flows.  A flow is an unsigned 64-bit number of  *)
(* watts (flow_t); MaxFlow stands for max_flow_W, the largest of them.     *)
(* Efficiencies and coefficients of performance are doubles in the code    *)
(* and exact ratios [num, den] here.                                       *)
(***************************************************************************)
EXTENDS Integers, Sequences

CONSTANTS
  MaxFlow,      \* max_flow_W
  CastOverflow  \* what the build makes of a double too large for flow_t

Flow == 0 .. MaxFlow

ASSUME FlowAssumption ==
  /\ MaxFlow \in Nat
  /\ CastOverflow \in Flow

(* A ratio the code keeps in a double: an efficiency or a COP.             *)
Ratio == [num : Nat \ {0}, den : Nat \ {0}]

AtMost(v, limit) == IF v > limit THEN limit ELSE v

(* Unsigned subtraction as the code guards it: a > b ? a - b : 0.          *)
Monus(a, b) == IF a > b THEN a - b ELSE 0

(* Saturating addition.                                                    *)
UtilSafeAdd(a, b) == IF b > MaxFlow - a THEN MaxFlow ELSE a + b

(* Plain unsigned addition, which wraps.                                   *)
WrapAdd(a, b) == (a + b) % (MaxFlow + 1)

FinalizeFlowValue(requested, available) ==
  IF available >= requested THEN requested ELSE available

(* static_cast<flow_t> of a double: undefined when it does not fit.        *)
ToFlow(x) == IF x \in Flow THEN x ELSE CastOverflow

(* A slip: the request rounded down like the flow.                         *)
FloorDiv(v, r) == ToFlow((v * r.den) \div r.num)

(* ceil(v / r) and floor(r * v).                                           *)
CeilDiv(v, r) == ToFlow((v * r.den + r.num - 1) \div r.num)
FloorMul(v, r) == ToFlow((v * r.num) \div r.den)

-----------------------------------------------------------------------------
(* Lookup tables: xs strictly increasing, the i-th value is ys[i] / den.   *)

LookupInterp(table, x) ==
  LET last == Len(table.xs)
      Value(y) == [num |-> y, den |-> table.den]
  IN  IF x <= table.xs[1] THEN Value(table.ys[1])
      ELSE IF x >= table.xs[last] THEN Value(table.ys[last])
      ELSE LET i  == CHOOSE j \in 2 .. last :
                       table.xs[j - 1] <= x /\ x < table.xs[j]
               dx == table.xs[i] - table.xs[i - 1]
               dy == table.ys[i] - table.ys[i - 1]
           IN  [num |-> table.ys[i - 1] * dx + (x - table.xs[i - 1]) * dy,
                den |-> table.den * dx]

(* A table of one row has the same value everywhere: the form a constant   *)
(* efficiency takes, so that both kinds of converter share one definition. *)
Constant(num, den) == [xs |-> <<0>>, ys |-> <<num>>, den |-> den]

-----------------------------------------------------------------------------
(* The sum of the first n of a sequence of flows, and of all of them with  *)
(* the saturation of UtilSafeAdd: adding one flow at a time or all at once *)
(* reaches the ceiling alike.                                              *)
Prefix(flows, n) ==
  LET sum[i \in 0 .. n] == IF i = 0 THEN 0 ELSE sum[i - 1] + flows[i]
  IN  sum[n]

SafeTotal(flows, n) == AtMost(Prefix(flows, n), MaxFlow)

(* Slips: a subtraction nobody guards, a claim met without regard to the   *)
(* earlier ones.                                                           *)
LeftAfterUnguarded(claims, total, n) == total - Prefix(claims, n)
GivenAlone(claims, total, n) == AtMost(claims[n], total)

(* A total is shared out in order, each claim taking what it can.  What    *)
(* the first n claims leave, and what the n-th is given.                   *)
LeftAfter(claims, total, n) == Monus(total, Prefix(claims, n))

Given(claims, total, n) == AtMost(claims[n], LeftAfter(claims, total, n - 1))

=============================================================================
