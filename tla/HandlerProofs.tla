---------------------------- MODULE HandlerProofs ----------------------------
(***************************************************************************)
(* The arithmetic of flows never leaves the range of flow_t, and sharing a *)
(* total out in order never hands out more than there is.                  *)
(*                                                                         *)
(* Every handler of a component leads from one simulation state to another *)
(* and changes only flows and worklists: what stores hold and where the    *)
(* schedules stand are left to the event loop.                             *)
(***************************************************************************)
EXTENDS Failures, WellFoundedInduction, TLAPS

(* Induction over the natural numbers, for a set rather than a predicate.  *)
LEMMA SetInduction ==
  ASSUME NEW S, S \subseteq Nat, 0 \in S, \A n \in S : n + 1 \in S
  PROVE  S = Nat
<1>1. SUFFICES ASSUME Nat \ S # {} PROVE FALSE
  OBVIOUS
<1> DEFINE T == Nat \ S
<1>2. PICK x \in T : \A y \in T : ~ (<<y, x>> \in OpToRel(<, Nat))
  <2>1. T \subseteq Nat /\ T # {}
    BY <1>1
  <2> HIDE DEF T
  <2> QED
    BY <2>1, WFMin, NatLessThanWellFounded
<1>3. \A y \in T : ~ (y < x)
  BY <1>2 DEF OpToRel
<1>4. x - 1 \in Nat
  OBVIOUS
<1>5. x - 1 \in S
  BY <1>3, <1>4
<1>6. x = (x - 1) + 1
  OBVIOUS
<1> QED
  BY <1>5, <1>6

-----------------------------------------------------------------------------
(* Running totals.  The function Prefix recurses with exists and is unique. *)
Summed(f, flows, n) ==
  f = [i \in 0 .. n |-> IF i = 0 THEN 0 ELSE f[i - 1] + flows[i]]

LEMMA SumExists ==
  ASSUME NEW n \in Nat, NEW flows
  PROVE  \E f : Summed(f, flows, n)
<1> DEFINE S == {m \in Nat : \E f : Summed(f, flows, m)}
<1>1. 0 \in S
  <2>1. Summed([i \in 0 .. 0 |-> 0], flows, 0)
    BY DEF Summed
  <2> QED
    BY <2>1
<1>2. ASSUME NEW m \in S PROVE m + 1 \in S
  <2>1. PICK f : Summed(f, flows, m)
    OBVIOUS
  <2> DEFINE g == [i \in 0 .. m + 1 |-> IF i = m + 1 THEN f[m] + flows[i] ELSE f[i]]
  <2>2. \A i \in 0 .. m : g[i] = f[i]
    OBVIOUS
  <2>3. g[m + 1] = f[m] + flows[m + 1]
    OBVIOUS
  <2>4. ASSUME NEW i \in 0 .. m + 1
        PROVE  g[i] = IF i = 0 THEN 0 ELSE g[i - 1] + flows[i]
    <3> HIDE DEF g
    <3>1. CASE i = m + 1
      <4>1. i # 0 /\ i - 1 = m /\ m \in 0 .. m
        BY <3>1
      <4>2. g[i - 1] = f[m]
        BY <2>2, <4>1
      <4> QED
        BY <2>3, <3>1, <4>1, <4>2
    <3>2. CASE i \in 0 .. m
      <4>1. f[i] = IF i = 0 THEN 0 ELSE f[i - 1] + flows[i]
        BY <2>1, <3>2 DEF Summed
      <4>2. i # 0 => g[i - 1] = f[i - 1]
        BY <2>2, <3>2
      <4> QED
        BY <2>2, <3>2, <4>1, <4>2
    <3> QED
      BY <3>1, <3>2
  <2>5. Summed(g, flows, m + 1)
    <3>1. g = [i \in 0 .. m + 1 |-> g[i]]
      OBVIOUS
    <3> HIDE DEF g
    <3> QED
      BY <2>4, <3>1 DEF Summed
  <2> HIDE DEF g
  <2> QED
    BY <2>5
<1>3. S = Nat
  <2>1. S \subseteq Nat
    OBVIOUS
  <2> HIDE DEF S
  <2> QED
    BY <1>1, <1>2, <2>1, SetInduction
<1> QED
  BY <1>3

LEMMA SumUnique ==
  ASSUME NEW n \in Nat, NEW m \in 0 .. n, NEW flows,
         NEW f, Summed(f, flows, m), NEW g, Summed(g, flows, n)
  PROVE  \A i \in 0 .. m : f[i] = g[i]
<1> DEFINE S == {i \in Nat : i <= m => f[i] = g[i]}
<1>1. 0 \in S
  BY DEF Summed
<1>2. ASSUME NEW i \in S PROVE i + 1 \in S
  <2>1. SUFFICES ASSUME i + 1 <= m PROVE f[i + 1] = g[i + 1]
    OBVIOUS
  <2>2. f[i + 1] = f[i] + flows[i + 1]
    BY <2>1 DEF Summed
  <2>3. g[i + 1] = g[i] + flows[i + 1]
    BY <2>1 DEF Summed
  <2> QED
    BY <2>1, <2>2, <2>3
<1>3. S = Nat
  <2>1. S \subseteq Nat
    OBVIOUS
  <2> HIDE DEF S
  <2> QED
    BY <1>1, <1>2, <2>1, SetInduction
<1> QED
  BY <1>3

(* What the first n flows amount to.                                       *)
LEMMA PrefixIsSum ==
  ASSUME NEW n \in Nat, NEW flows, NEW f, Summed(f, flows, n)
  PROVE  \A m \in 0 .. n : Prefix(flows, m) = f[m]
<1> TAKE m \in 0 .. n
<1> DEFINE sum == CHOOSE h : Summed(h, flows, m)
<1>1. PICK h : Summed(h, flows, m)
  BY SumExists
<1>2. Summed(sum, flows, m)
  BY <1>1
<1>3. Prefix(flows, m) = sum[m]
  BY DEF Prefix, Summed
<1> HIDE DEF sum
<1>4. sum[m] = f[m]
  BY <1>2, SumUnique
<1> QED
  BY <1>3, <1>4

LEMMA PrefixStep ==
  ASSUME NEW n \in Nat, NEW flows
  PROVE  /\ Prefix(flows, 0) = 0
         /\ \A m \in 0 .. n - 1 :
              Prefix(flows, m + 1) = Prefix(flows, m) + flows[m + 1]
<1>1. PICK f : Summed(f, flows, n)
  BY SumExists
<1>2. \A m \in 0 .. n : Prefix(flows, m) = f[m]
  BY <1>1, PrefixIsSum
<1>3. f[0] = 0 /\ \A m \in 0 .. n - 1 : f[m + 1] = f[m] + flows[m + 1]
  BY <1>1 DEF Summed
<1> QED
  BY <1>2, <1>3

(* A sum of numbers of a kind that has 0 and is closed under addition.     *)
LEMMA PrefixWithin ==
  ASSUME NEW S, 0 \in S, \A a, b \in S : a + b \in S,
         NEW n \in Nat, NEW flows, \A i \in 1 .. n : flows[i] \in S
  PROVE  Prefix(flows, n) \in S
<1> DEFINE T == {m \in Nat : m <= n => Prefix(flows, m) \in S}
<1>1. 0 \in T
  BY PrefixStep
<1>2. ASSUME NEW m \in T PROVE m + 1 \in T
  <2>1. SUFFICES ASSUME m + 1 <= n PROVE Prefix(flows, m + 1) \in S
    OBVIOUS
  <2>2. m \in 0 .. n - 1 /\ m + 1 \in 1 .. n
    BY <2>1
  <2>3. Prefix(flows, m + 1) = Prefix(flows, m) + flows[m + 1]
    BY <2>2, PrefixStep
  <2>4. Prefix(flows, m) \in S /\ flows[m + 1] \in S
    BY <2>2
  <2> QED
    BY <2>3, <2>4
<1>3. T = Nat
  <2>1. T \subseteq Nat
    OBVIOUS
  <2> HIDE DEF T
  <2> QED
    BY <1>1, <1>2, <2>1, SetInduction
<1> QED
  BY <1>3

LEMMA PrefixType ==
  ASSUME NEW n \in Nat, NEW flows, \A i \in 1 .. n : flows[i] \in Nat
  PROVE  Prefix(flows, n) \in Nat
<1>1. 0 \in Nat /\ \A a, b \in Nat : a + b \in Nat
  OBVIOUS
<1> QED
  BY <1>1, PrefixWithin

(* Only the terms that are added up matter.                                *)
LEMMA PrefixAgrees ==
  ASSUME NEW n \in Nat, NEW f, NEW g, \A i \in 1 .. n : f[i] = g[i]
  PROVE  Prefix(f, n) = Prefix(g, n)
<1> DEFINE T == {m \in Nat : m <= n => Prefix(f, m) = Prefix(g, m)}
<1>1. 0 \in T
  BY PrefixStep
<1>2. ASSUME NEW m \in T PROVE m + 1 \in T
  <2>1. SUFFICES ASSUME m + 1 <= n PROVE Prefix(f, m + 1) = Prefix(g, m + 1)
    OBVIOUS
  <2>2. m \in 0 .. n - 1 /\ m + 1 \in 1 .. n
    BY <2>1
  <2>3. /\ Prefix(f, m + 1) = Prefix(f, m) + f[m + 1]
        /\ Prefix(g, m + 1) = Prefix(g, m) + g[m + 1]
    BY <2>2, PrefixStep
  <2> QED
    BY <2>2, <2>3
<1>3. T = Nat
  <2>1. T \subseteq Nat
    OBVIOUS
  <2> HIDE DEF T
  <2> QED
    BY <1>1, <1>2, <2>1, SetInduction
<1> QED
  BY <1>3

-----------------------------------------------------------------------------
(* Sharing out in order.                                                   *)

LEMMA LeftAfterType ==
  ASSUME NEW n \in Nat, NEW claims, \A i \in 1 .. n : claims[i] \in Nat,
         NEW total \in Nat
  PROVE  LeftAfter(claims, total, n) \in 0 .. total
<1>1. Prefix(claims, n) \in Nat
  BY PrefixType
<1> QED
  BY <1>1 DEF LeftAfter, Monus

LEMMA GivenType ==
  ASSUME NEW n \in Nat \ {0}, NEW claims, \A i \in 1 .. n : claims[i] \in Nat,
         NEW total \in Nat
  PROVE  Given(claims, total, n) \in 0 .. claims[n]
<1>1. LeftAfter(claims, total, n - 1) \in Nat
  BY LeftAfterType
<1> QED
  BY <1>1 DEF Given, AtMost

(* A share leaves what was left before it less the share: the step         *)
(* RunMuxForward relies on when it subtracts from an unsigned total.       *)
LEMMA SharesAreTakenFromWhatIsLeft ==
  ASSUME NEW n \in Nat \ {0}, NEW claims, \A i \in 1 .. n : claims[i] \in Nat,
         NEW total \in Nat
  PROVE  LeftAfter(claims, total, n - 1) =
           LeftAfter(claims, total, n) + Given(claims, total, n)
<1>1. Prefix(claims, n) = Prefix(claims, n - 1) + claims[n]
  <2>1. n - 1 \in 0 .. n - 1 /\ (n - 1) + 1 = n
    OBVIOUS
  <2> QED
    BY <2>1, PrefixStep
<1>2. Prefix(claims, n - 1) \in Nat
  BY PrefixType
<1> QED
  BY <1>1, <1>2 DEF Given, LeftAfter, AtMost, Monus

(* What is given to n claims and what is then left make up the total:      *)
(* RunMuxForward and Mux_RequestInflowsIntelligently hand nothing out      *)
(* twice and lose nothing, whatever the number of ports and the claims.    *)
THEOREM SharesAddUp ==
  ASSUME NEW n \in Nat, NEW claims, \A i \in 1 .. n : claims[i] \in Nat,
         NEW total \in Nat
  PROVE  Prefix([i \in 1 .. n |-> Given(claims, total, i)], n)
           + LeftAfter(claims, total, n) = total
<1> DEFINE shares == [i \in 1 .. n |-> Given(claims, total, i)]
           S == {m \in Nat : m <= n =>
                   Prefix(shares, m) + LeftAfter(claims, total, m) = total}
<1>1. \A i \in 1 .. n : shares[i] = Given(claims, total, i)
  OBVIOUS
<1>2. \A i \in 1 .. n : shares[i] \in Nat
  <2> TAKE i \in 1 .. n
  <2>1. Given(claims, total, i) \in 0 .. claims[i]
    BY GivenType
  <2> QED
    BY <1>1, <2>1
<1> HIDE DEF shares
<1>3. 0 \in S
  <2>1. Prefix(shares, 0) = 0 /\ Prefix(claims, 0) = 0
    BY <1>2, PrefixStep
  <2> QED
    BY <2>1 DEF LeftAfter, Monus
<1>4. ASSUME NEW m \in S PROVE m + 1 \in S
  <2>1. SUFFICES ASSUME m + 1 <= n
        PROVE Prefix(shares, m + 1) + LeftAfter(claims, total, m + 1) = total
    OBVIOUS
  <2>2. m \in 0 .. n - 1
    BY <2>1
  <2>3. Prefix(shares, m + 1) = Prefix(shares, m) + Given(claims, total, m + 1)
    BY <1>1, <1>2, <2>2, PrefixStep
  <2>4. LeftAfter(claims, total, m) =
          LeftAfter(claims, total, m + 1) + Given(claims, total, m + 1)
    <3>1. m + 1 \in Nat \ {0} /\ (m + 1) - 1 = m
      BY <2>2
    <3>2. \A i \in 1 .. m + 1 : claims[i] \in Nat
      BY <2>2
    <3> QED
      BY <3>1, <3>2, SharesAreTakenFromWhatIsLeft
  <2>5. Prefix(shares, m) + LeftAfter(claims, total, m) = total
    BY <2>1
  <2>6. Prefix(shares, m) \in Nat
    BY <1>2, <2>2, PrefixType
  <2>7. LeftAfter(claims, total, m + 1) \in Nat
    BY <2>2, LeftAfterType
  <2>8. Given(claims, total, m + 1) \in Nat
    BY <1>1, <1>2, <2>2
  <2> QED
    BY <2>3, <2>4, <2>5, <2>6, <2>7, <2>8
<1>5. S = Nat
  <2>1. S \subseteq Nat
    OBVIOUS
  <2> HIDE DEF S
  <2> QED
    BY <1>3, <1>4, <2>1, SetInduction
<1>6. Prefix(shares, n) + LeftAfter(claims, total, n) = total
  BY <1>5
<1> QED
  BY <1>6 DEF shares

-----------------------------------------------------------------------------
(* The ranges of the operations on flows.                                  *)

LEMMA FlowIsNat == Flow \subseteq Nat /\ 0 \in Flow
  BY FlowAssumption DEF Flow

LEMMA AtMostFlow ==
  ASSUME NEW v \in Nat, NEW limit \in Flow
  PROVE  AtMost(v, limit) \in Flow
  BY FlowAssumption DEF AtMost, Flow

LEMMA AtMostSmaller ==
  ASSUME NEW v \in Flow, NEW limit \in Nat
  PROVE  AtMost(v, limit) \in Flow
  BY FlowAssumption DEF AtMost, Flow

LEMMA MonusFlow ==
  ASSUME NEW a \in Flow, NEW b \in Nat
  PROVE  Monus(a, b) \in Flow
  BY FlowAssumption DEF Monus, Flow

LEMMA UtilSafeAddFlow ==
  ASSUME NEW a \in Flow, NEW b \in Flow
  PROVE  UtilSafeAdd(a, b) \in Flow
  BY FlowAssumption DEF UtilSafeAdd, Flow

LEMMA WrapAddFlow ==
  ASSUME NEW a \in Flow, NEW b \in Flow
  PROVE  WrapAdd(a, b) \in Flow
  BY FlowAssumption DEF WrapAdd, Flow

LEMMA FinalizeFlowValueFlow ==
  ASSUME NEW a \in Flow, NEW b \in Flow
  PROVE  FinalizeFlowValue(a, b) \in Flow
  BY DEF FinalizeFlowValue

LEMMA ConversionFlow ==
  ASSUME NEW v, NEW r
  PROVE  CeilDiv(v, r) \in Flow /\ FloorMul(v, r) \in Flow
  BY FlowAssumption DEF CeilDiv, FloorMul, ToFlow

LEMMA SafeTotalFlow ==
  ASSUME NEW n \in Nat, NEW flows, \A i \in 1 .. n : flows[i] \in Nat
  PROVE  SafeTotal(flows, n) \in Flow
<1>1. Prefix(flows, n) \in Nat
  BY PrefixType
<1>2. MaxFlow \in Flow
  BY FlowAssumption DEF Flow
<1> QED
  BY <1>1, <1>2, AtMostFlow DEF SafeTotal

LEMMA DivNat ==
  ASSUME NEW a \in Nat, NEW b \in Nat \ {0}
  PROVE  a \div b \in Nat
  OBVIOUS


-----------------------------------------------------------------------------
(* A claim that is not met in full takes all that is left: the later ones  *)
(* find nothing.                                                           *)

LEMMA PrefixGrows ==
  ASSUME NEW n \in Nat, NEW flows, \A i \in 1 .. n : flows[i] \in Nat,
         NEW j \in 0 .. n
  PROVE  \A m \in j .. n : Prefix(flows, j) <= Prefix(flows, m)
<1> DEFINE S == {d \in Nat : j + d <= n => Prefix(flows, j) <= Prefix(flows, j + d)}
<1>1. \A m \in 0 .. n : Prefix(flows, m) \in Nat
  <2> TAKE m \in 0 .. n
  <2>1. m \in Nat /\ \A i \in 1 .. m : flows[i] \in Nat
    OBVIOUS
  <2> QED
    BY <2>1, PrefixType
<1>2. 0 \in S
  BY <1>1
<1>3. ASSUME NEW d \in S PROVE d + 1 \in S
  <2>1. SUFFICES ASSUME j + (d + 1) <= n
        PROVE Prefix(flows, j) <= Prefix(flows, j + (d + 1))
    OBVIOUS
  <2>2. j + d \in 0 .. n - 1 /\ (j + d) + 1 = j + (d + 1) /\ j + (d + 1) \in 1 .. n
    BY <2>1
  <2>3. Prefix(flows, j + (d + 1)) = Prefix(flows, j + d) + flows[j + (d + 1)]
    BY <2>2, PrefixStep
  <2>4. /\ Prefix(flows, j) <= Prefix(flows, j + d)
        /\ Prefix(flows, j) \in Nat /\ Prefix(flows, j + d) \in Nat
    BY <1>1, <2>2
  <2>5. flows[j + (d + 1)] \in Nat
    BY <2>2
  <2> QED
    BY <2>3, <2>4, <2>5
<1>4. S = Nat
  <2>1. S \subseteq Nat
    OBVIOUS
  <2> HIDE DEF S
  <2> QED
    BY <1>2, <1>3, <2>1, SetInduction
<1> TAKE m \in j .. n
<1>5. m - j \in Nat /\ j + (m - j) = m
  OBVIOUS
<1>6. m - j \in S
  BY <1>4, <1>5
<1> QED
  BY <1>5, <1>6

LEMMA UnmetClaimTakesAll ==
  ASSUME NEW n \in Nat, NEW claims, \A i \in 1 .. n : claims[i] \in Nat,
         NEW total \in Nat, NEW i \in 1 .. n,
         LeftAfter(claims, total, i - 1) < claims[i]
  PROVE  /\ total < Prefix(claims, n)
         /\ \A j \in i .. n : LeftAfter(claims, total, j) = 0
<1>1. \A m \in 0 .. n : Prefix(claims, m) \in Nat
  <2> TAKE m \in 0 .. n
  <2>1. m \in Nat /\ \A k \in 1 .. m : claims[k] \in Nat
    OBVIOUS
  <2> QED
    BY <2>1, PrefixType
<1>2. Prefix(claims, i) = Prefix(claims, i - 1) + claims[i]
  <2>1. i - 1 \in 0 .. n - 1 /\ (i - 1) + 1 = i
    OBVIOUS
  <2> QED
    BY <2>1, PrefixStep
<1>3. total < Prefix(claims, i)
  <2>1. Prefix(claims, i - 1) \in Nat /\ claims[i] \in Nat
    BY <1>1
  <2> QED
    BY <1>2, <2>1 DEF LeftAfter, Monus
<1>4. \A j \in i .. n : Prefix(claims, i) <= Prefix(claims, j)
  BY PrefixGrows
<1>5. Prefix(claims, i) \in Nat /\ \A j \in i .. n : Prefix(claims, j) \in Nat
  BY <1>1
<1>6. \A j \in i .. n : total < Prefix(claims, j)
  BY <1>3, <1>4, <1>5
<1> QED
  BY <1>5, <1>6 DEF LeftAfter, Monus


-----------------------------------------------------------------------------
(* Division, rounded to the nearest.                                       *)

LEMMA DivisionBounds ==
  ASSUME NEW n \in Nat, NEW d \in Nat \ {0}
  PROVE  /\ n \div d \in Nat
         /\ d * (n \div d) <= n /\ n < d * (n \div d) + d
  OBVIOUS

LEMMA QuotientIs ==
  ASSUME NEW d \in Nat \ {0}, NEW x \in Nat, NEW r \in 0 .. d - 1
  PROVE  (d * x + r) \div d = x
<1> DEFINE n == d * x + r
           q == n \div d
<1>1. d * x \in Nat /\ n \in Nat
  OBVIOUS
<1>2. q \in Nat /\ d * q <= n /\ n < d * q + d
  BY <1>1, DivisionBounds
<1>3. d * q \in Nat
  BY <1>2
<1>4. n = d * x + r
  OBVIOUS
<1> HIDE DEF n, q
<1>5. ASSUME q >= x + 1 PROVE FALSE
  <2>1. d * (x + 1) <= d * q
    BY <1>2, <1>5
  <2>2. d * (x + 1) = d * x + d
    OBVIOUS
  <2> QED
    BY <1>1, <1>2, <1>3, <1>4, <2>1, <2>2
<1>6. ASSUME x >= q + 1 PROVE FALSE
  <2>1. d * (q + 1) <= d * x
    BY <1>2, <1>6
  <2>2. d * (q + 1) = d * q + d
    BY <1>2
  <2> QED
    BY <1>1, <1>2, <1>3, <1>4, <2>1, <2>2
<1>7. q = x
  BY <1>2, <1>5, <1>6
<1> QED
  BY <1>7 DEF q, n

-----------------------------------------------------------------------------
(* The states a failure or a repair may lead to from s ...                 *)
Kept(s) ==
  {r \in State : /\ r.amount = s.amount
                 /\ r.loadIdx = s.loadIdx
                 /\ r.srcIdx = s.srcIdx}

(* ... and those a handler may, which puts nobody out of service.          *)
Handled(s) ==
  {r \in State : /\ r.amount = s.amount
                 /\ r.loadIdx = s.loadIdx
                 /\ r.srcIdx = s.srcIdx
                 /\ r.down = s.down}

(* Where the schedules of sch stand.                                       *)
IndicesInRange(sch, s) ==
  /\ \A c \in OfKind("ScheduleBasedLoad") : s.loadIdx[c] \in 1 .. Len(sch.load[c])
  /\ \A c \in OfKind("ScheduleBasedSource") : s.srcIdx[c] \in 1 .. Len(sch.avail[c])

ScheduleOfFlows == Seq([time : Nat, amount : Flow])

SchedulesOfFlows(sch) ==
  /\ \A c \in OfKind("ScheduleBasedLoad") : sch.load[c] \in ScheduleOfFlows
  /\ \A c \in OfKind("ScheduleBasedSource") : sch.avail[c] \in ScheduleOfFlows

-----------------------------------------------------------------------------
(* The network.                                                            *)

LEMMA KnownKind ==
  ASSUME NEW c \in Comp
  PROVE  Part[c].kind \in Kinds /\ WellConnected(c)
  BY NetworkAssumption

LEMMA InflowType ==
  ASSUME NEW c \in Comp, NEW p, HasInflow(c, p)
  PROVE  /\ Inflow[c][p] \in Conn
         /\ Connection[Inflow[c][p]].to = c
         /\ Connection[Inflow[c][p]].toPort = p
<1>1. p \in {Connection[k].toPort : k \in Inflows(c)}
  BY DEF HasInflow, Inflow
<1>2. Inflow[c][p] = CHOOSE k \in Inflows(c) : Connection[k].toPort = p
  BY <1>1 DEF Inflow
<1>3. \E k \in Inflows(c) : Connection[k].toPort = p
  BY <1>1
<1> QED
  BY <1>2, <1>3 DEF Inflows

LEMMA OutflowType ==
  ASSUME NEW c \in Comp, NEW p, HasOutflow(c, p)
  PROVE  /\ Outflow[c][p] \in Conn
         /\ Connection[Outflow[c][p]].from = c
         /\ Connection[Outflow[c][p]].fromPort = p
<1>1. p \in {Connection[k].fromPort : k \in Outflows(c)}
  BY DEF HasOutflow, Outflow
<1>2. Outflow[c][p] = CHOOSE k \in Outflows(c) : Connection[k].fromPort = p
  BY <1>1 DEF Outflow
<1>3. \E k \in Outflows(c) : Connection[k].fromPort = p
  BY <1>1
<1> QED
  BY <1>2, <1>3 DEF Outflows

-----------------------------------------------------------------------------
(* The two idioms and their relatives.                                     *)

LEMMA HandledSelf ==
  ASSUME NEW s \in State
  PROVE  s \in Handled(s)
  BY DEF Handled

LEMMA HandledTwice ==
  ASSUME NEW s, NEW r \in Handled(s), NEW q \in Handled(r)
  PROVE  r \in State /\ q \in State /\ q \in Handled(s)
  BY DEF Handled

LEMMA RequestType ==
  ASSUME NEW s \in State, NEW k \in Conn, NEW v \in Flow
  PROVE  Request(s, k, v) \in Handled(s)
  BY DEF Request, Handled, State

LEMMA OfferType ==
  ASSUME NEW s \in State, NEW k \in Conn, NEW v \in Flow
  PROVE  Offer(s, k, v) \in Handled(s)
  BY DEF Offer, Handled, State

LEMMA SpillType ==
  ASSUME NEW s \in State, NEW k \in Conn, NEW v \in Flow
  PROVE  Spill(s, k, v) \in Handled(s)
  BY DEF Spill, Handled, State

LEMMA UpdateType ==
  ASSUME NEW s \in State, NEW req \in [Conn -> Flow], NEW avail \in [Conn -> Flow],
         NEW back \in SUBSET Conn, NEW front \in SUBSET Conn
  PROVE  [s EXCEPT !.req = req, !.avail = avail, !.back = back, !.front = front]
           \in Handled(s)
  BY DEF Handled, State

LEMMA ScheduleConnectionsType ==
  ASSUME NEW s \in State, NEW back \in SUBSET Conn, NEW front \in SUBSET Conn
  PROVE  [s EXCEPT !.front = front, !.back = back] \in Handled(s)
  BY DEF Handled, State

LEMMA RequestEachType ==
  ASSUME NEW s \in State, NEW f, DOMAIN f \subseteq Conn,
         \A k \in DOMAIN f : f[k] \in Flow
  PROVE  RequestEach(s, f) \in Handled(s)
  BY DEF RequestEach, Handled, State

LEMMA OfferEachType ==
  ASSUME NEW s \in State, NEW f, DOMAIN f \subseteq Conn,
         \A k \in DOMAIN f : f[k] \in Flow
  PROVE  OfferEach(s, f) \in Handled(s)
  BY DEF OfferEach, Handled, State

LEMMA ClearFlowsType ==
  ASSUME NEW s \in State, NEW conns
  PROVE  ClearFlows(s, conns) \in Handled(s)
  BY FlowIsNat DEF ClearFlows, Handled, State

LEMMA ZeroAtType ==
  ASSUME NEW conns, conns \subseteq Conn
  PROVE  /\ DOMAIN ZeroAt(conns) \subseteq Conn
         /\ \A k \in DOMAIN ZeroAt(conns) : ZeroAt(conns)[k] \in Flow
  BY FlowIsNat DEF ZeroAt

-----------------------------------------------------------------------------
(* The parameters of the components.                                       *)

LEMMA LoadAndSourceParts ==
  ASSUME NEW c \in Comp
  PROVE  /\ Part[c].kind = "ConstantLoad" => Part[c].load \in Flow
         /\ Part[c].kind = "ConstantSource" => Part[c].available \in Flow
         /\ Part[c].kind = "ScheduleBasedSource" => Part[c].maxOutflow \in Flow
         /\ Part[c].kind = "PassThrough" => Part[c].maxOutflow \in Flow
<1>1. Part[c] \in PartOfKind[Part[c].kind]
  BY NetworkAssumption
<1>2. CASE Part[c].kind = "ConstantLoad"
  BY <1>1, <1>2 DEF PartOfKind
<1>3. CASE Part[c].kind = "ConstantSource"
  BY <1>1, <1>3 DEF PartOfKind
<1>4. CASE Part[c].kind = "ScheduleBasedSource"
  BY <1>1, <1>4 DEF PartOfKind
<1>5. CASE Part[c].kind = "PassThrough"
  BY <1>1, <1>5 DEF PartOfKind
<1> QED
  BY <1>2, <1>3, <1>4, <1>5

LEMMA ConversionParts ==
  ASSUME NEW c \in Comp, Part[c].kind \in {"Converter", "Mover"}
  PROVE  Part[c].maxOutflow \in Flow /\ Part[c].maxLossflow \in Flow
<1>1. Part[c] \in PartOfKind[Part[c].kind]
  BY NetworkAssumption
<1>2. PartOfKind[Part[c].kind] = ConversionPart(Part[c].kind)
  BY DEF PartOfKind
<1> QED
  BY <1>1, <1>2 DEF ConversionPart

LEMMA StoreParts ==
  ASSUME NEW c \in Comp, Part[c].kind = "Store"
  PROVE  /\ Part[c].capacity \in Nat
         /\ Part[c].initial \in 0 .. Part[c].capacity
         /\ Part[c].chargeAmount \in 0 .. Part[c].capacity
         /\ Part[c].maxCharge \in Flow
         /\ Part[c].maxDischarge \in Flow
         /\ Part[c].maxOutflow \in Flow
         /\ Part[c].roundTrip \in Ratio
<1>1. Part[c] \in PartOfKind["Store"] /\ ValidStore(c)
  BY NetworkAssumption
<1> QED
  BY <1>1 DEF PartOfKind, ValidStore

LEMMA MuxParts ==
  ASSUME NEW c \in Comp, Part[c].kind = "Mux"
  PROVE  /\ Part[c].inports \in Nat \ {0}
         /\ Part[c].outports \in Nat \ {0}
         /\ \A i \in 1 .. Part[c].outports : Part[c].maxOutflows[i] \in Flow
         /\ \A p \in InPorts(c) : HasInflow(c, p)
         /\ \A p \in OutPorts(c) : HasOutflow(c, p)
<1>1. Part[c] \in PartOfKind["Mux"] /\ WellConnected(c)
  BY NetworkAssumption
<1>2. Len(Part[c].maxOutflows) = Part[c].outports
  BY <1>1 DEF WellConnected
<1>3. Part[c].maxOutflows \in Seq(Flow)
  BY <1>1 DEF PartOfKind
<1>4. \A i \in 1 .. Part[c].outports : Part[c].maxOutflows[i] \in Flow
  BY <1>2, <1>3
<1> QED
  BY <1>1, <1>4 DEF PartOfKind, WellConnected

-----------------------------------------------------------------------------
(* The handlers, one lemma each.                                           *)

LEMMA FlowsOfState ==
  ASSUME NEW s \in State, NEW k \in Conn
  PROVE  s.req[k] \in Flow /\ s.avail[k] \in Flow /\ s.actual[k] \in Flow
  BY DEF State

(* The actual flow a handler computes from the request on one side and the *)
(* limited availability on the other.                                      *)
LEMMA LimitedOutflow ==
  ASSUME NEW s \in State, NEW k \in Conn, NEW limit \in Flow
  PROVE  FinalizeFlowValue(s.req[k], AtMost(s.avail[k], limit)) \in Flow
<1>1. s.avail[k] \in Nat /\ s.req[k] \in Flow
  BY FlowsOfState, FlowIsNat
<1>2. AtMost(s.avail[k], limit) \in Flow
  BY <1>1, AtMostFlow
<1> QED
  BY <1>1, <1>2, FinalizeFlowValueFlow

LEMMA ConverterLossType ==
  ASSUME NEW s \in State, NEW c \in Comp, Part[c].kind = "Converter"
  PROVE  UpdateConverterLossflowAndWasteflow(s, c) \in Handled(s)
<1> DEFINE in      == Inflow[c][0]
           out     == Outflow[c][0]
           loss    == Outflow[c][LossPort(c)]
           waste   == Outflow[c][WastePort(c)]
           inflow  == FinalizeFlowValue(s.req[in], s.avail[in])
           outflow == FinalizeFlowValue(s.req[out],
                                        AtMost(s.avail[out], Part[c].maxOutflow))
           nonOut  == Monus(inflow, outflow)
           offered == Offer(s, loss, AtMost(nonOut, Part[c].maxLossflow))
           wasted  == Monus(nonOut, LossTaken(s, c, loss))
<1>1. HasInflow(c, 0) /\ HasOutflow(c, 0) /\ HasOutflow(c, WastePort(c))
  BY KnownKind DEF WellConnected
<1>2. in \in Conn /\ out \in Conn /\ waste \in Conn
  BY <1>1, InflowType, OutflowType
<1>3. Part[c].maxOutflow \in Flow /\ Part[c].maxLossflow \in Flow
  BY ConversionParts
<1>4. inflow \in Flow
  BY <1>2, FlowsOfState, FinalizeFlowValueFlow
<1>5. outflow \in Flow
  BY <1>2, <1>3, LimitedOutflow
<1>6. nonOut \in Flow
  BY <1>4, <1>5, MonusFlow, FlowIsNat
<1> HIDE DEF in, out, waste, inflow, outflow, nonOut
<1>7. CASE HasOutflow(c, LossPort(c))
  <2>1. loss \in Conn
    BY <1>7, OutflowType
  <2>2. offered \in Handled(s)
    <3>1. AtMost(nonOut, Part[c].maxLossflow) \in Flow
      BY <1>3, <1>6, AtMostFlow, FlowIsNat
    <3> QED
      BY <2>1, <3>1, OfferType
  <2>3. wasted \in Flow
    <3>1. LossTaken(s, c, loss) \in Nat
      BY <1>3, <2>1, FlowsOfState, AtMostFlow, FlowIsNat DEF LossTaken
    <3> QED
      BY <1>6, <3>1, MonusFlow
  <2>4. UpdateConverterLossflowAndWasteflow(s, c) = Spill(offered, waste, wasted)
    BY <1>7 DEF UpdateConverterLossflowAndWasteflow, in, out, waste, inflow,
                outflow, nonOut
  <2> HIDE DEF offered, wasted
  <2>5. offered \in State
    BY <2>2 DEF Handled
  <2>6. Spill(offered, waste, wasted) \in Handled(offered)
    BY <1>2, <2>3, <2>5, SpillType
  <2> QED
    BY <2>2, <2>4, <2>6, HandledTwice
<1>8. CASE ~ HasOutflow(c, LossPort(c))
  <2>1. UpdateConverterLossflowAndWasteflow(s, c) = Spill(s, waste, nonOut)
    BY <1>8 DEF UpdateConverterLossflowAndWasteflow, in, out, waste, inflow,
                outflow, nonOut
  <2> QED
    BY <1>2, <1>6, <2>1, SpillType
<1> QED
  BY <1>7, <1>8

LEMMA ConverterBackwardType ==
  ASSUME NEW s \in State, NEW c \in Comp, Part[c].kind = "Converter"
  PROVE  RunConverterBackward(s, c) \in Handled(s)
<1> DEFINE wanted == AtMost(s.req[Outflow[c][0]], Part[c].maxOutflow)
           needed == CeilDiv(wanted, LookupInterp(Part[c].byOutflow, wanted))
           asked  == Request(s, Inflow[c][0], needed)
<1>1. Inflow[c][0] \in Conn
  BY KnownKind, InflowType DEF WellConnected
<1>2. needed \in Flow
  BY ConversionFlow
<1>3. asked \in Handled(s)
  BY <1>1, <1>2, RequestType
<1>4. RunConverterBackward(s, c) = UpdateConverterLossflowAndWasteflow(asked, c)
  BY DEF RunConverterBackward, Then
<1> HIDE DEF asked
<1>5. UpdateConverterLossflowAndWasteflow(asked, c) \in Handled(asked)
  <2>1. asked \in State
    BY <1>3 DEF Handled
  <2> QED
    BY <2>1, ConverterLossType
<1> QED
  BY <1>3, <1>4, <1>5, HandledTwice

LEMMA ConverterForwardType ==
  ASSUME NEW s \in State, NEW c \in Comp, Part[c].kind = "Converter"
  PROVE  RunConverterForward(s, c) \in Handled(s)
<1> DEFINE given   == s.avail[Inflow[c][0]]
           made    == FloorMul(given, LookupInterp(Part[c].byInflow, given))
           offered == Offer(s, Outflow[c][0], AtMost(made, Part[c].maxOutflow))
<1>1. Outflow[c][0] \in Conn
  BY KnownKind, OutflowType DEF WellConnected
<1>2. AtMost(made, Part[c].maxOutflow) \in Flow
  BY ConversionFlow, ConversionParts, AtMostFlow, FlowIsNat
<1>3. offered \in Handled(s)
  BY <1>1, <1>2, OfferType
<1>4. RunConverterForward(s, c) = UpdateConverterLossflowAndWasteflow(offered, c)
  BY DEF RunConverterForward, Then
<1> HIDE DEF offered
<1>5. UpdateConverterLossflowAndWasteflow(offered, c) \in Handled(offered)
  <2>1. offered \in State
    BY <1>3 DEF Handled
  <2> QED
    BY <2>1, ConverterLossType
<1> QED
  BY <1>3, <1>4, <1>5, HandledTwice

LEMMA MoverEnvironmentType ==
  ASSUME NEW s \in State, NEW c \in Comp, Part[c].kind = "Mover"
  PROVE  UpdateEnvironmentFlowForAllMovers(s, c) \in Handled(s)
<1> DEFINE in      == Inflow[c][0]
           out     == Outflow[c][0]
           env     == Inflow[c][EnvironmentPort]
           waste   == Outflow[c][WastePort(c)]
           inflow  == FinalizeFlowValue(s.req[in], s.avail[in])
           outflow == FinalizeFlowValue(s.req[out],
                                        AtMost(s.avail[out], Part[c].maxOutflow))
           fromEnv == Monus(outflow, inflow)
           wasted  == Monus(inflow, outflow)
           taken   == Spill(s, env, fromEnv)
           spilled == Spill(taken, waste, wasted)
<1>1. in \in Conn /\ out \in Conn /\ env \in Conn /\ waste \in Conn
  BY KnownKind, InflowType, OutflowType DEF WellConnected
<1>2. inflow \in Flow
  BY <1>1, FlowsOfState, FinalizeFlowValueFlow
<1>3. outflow \in Flow
  BY <1>1, ConversionParts, LimitedOutflow
<1>4. fromEnv \in Flow /\ wasted \in Flow
  BY <1>2, <1>3, MonusFlow, FlowIsNat
<1>5. UpdateEnvironmentFlowForAllMovers(s, c) =
        [spilled EXCEPT !.actual[env] = fromEnv, !.actual[waste] = wasted]
  BY DEF UpdateEnvironmentFlowForAllMovers
<1> HIDE DEF in, out, env, waste, inflow, outflow, fromEnv, wasted
<1>6. taken \in Handled(s)
  BY <1>1, <1>4, SpillType
<1> HIDE DEF taken
<1>7. spilled \in Handled(taken)
  <2>1. taken \in State
    BY <1>6 DEF Handled
  <2> QED
    BY <1>1, <1>4, <2>1, SpillType
<1> HIDE DEF spilled
<1>8. spilled \in State /\ spilled \in Handled(s)
  BY <1>6, <1>7, HandledTwice
<1>9. [spilled EXCEPT !.actual[env] = fromEnv, !.actual[waste] = wasted]
        \in Handled(spilled)
  BY <1>1, <1>4, <1>8 DEF Handled, State
<1> QED
  BY <1>5, <1>8, <1>9, HandledTwice

LEMMA MoverBackwardType ==
  ASSUME NEW s \in State, NEW c \in Comp, Part[c].kind = "Mover"
  PROVE  RunMoverBackward(s, c) \in Handled(s)
<1> DEFINE wanted == AtMost(s.req[Outflow[c][0]], Part[c].maxOutflow)
           needed == CeilDiv(wanted, LookupInterp(Part[c].byOutflow, wanted))
           asked  == Request(s, Inflow[c][0], needed)
<1>1. Inflow[c][0] \in Conn
  BY KnownKind, InflowType DEF WellConnected
<1>2. asked \in Handled(s)
  BY <1>1, ConversionFlow, RequestType
<1>3. RunMoverBackward(s, c) = UpdateEnvironmentFlowForAllMovers(asked, c)
  BY DEF RunMoverBackward, Then
<1> HIDE DEF asked
<1>4. UpdateEnvironmentFlowForAllMovers(asked, c) \in Handled(asked)
  <2>1. asked \in State
    BY <1>2 DEF Handled
  <2> QED
    BY <2>1, MoverEnvironmentType
<1> QED
  BY <1>2, <1>3, <1>4, HandledTwice

LEMMA MoverForwardType ==
  ASSUME NEW s \in State, NEW c \in Comp, Part[c].kind = "Mover", NEW k
  PROVE  RunMoverForward(s, k, c) \in Handled(s)
<1> DEFINE given   == s.avail[k]
           moved   == FloorMul(given, LookupInterp(Part[c].byInflow, given))
           offered == Offer(s, Outflow[c][0], AtMost(moved, Part[c].maxOutflow))
<1>1. Outflow[c][0] \in Conn
  BY KnownKind, OutflowType DEF WellConnected
<1>2. AtMost(moved, Part[c].maxOutflow) \in Flow
  BY ConversionFlow, ConversionParts, AtMostFlow, FlowIsNat
<1>3. offered \in Handled(s)
  BY <1>1, <1>2, OfferType
<1>4. RunMoverForward(s, k, c) = UpdateEnvironmentFlowForAllMovers(offered, c)
  BY DEF RunMoverForward, Then
<1> HIDE DEF offered
<1>5. UpdateEnvironmentFlowForAllMovers(offered, c) \in Handled(offered)
  <2>1. offered \in State
    BY <1>3 DEF Handled
  <2> QED
    BY <2>1, MoverEnvironmentType
<1> QED
  BY <1>3, <1>4, <1>5, HandledTwice

LEMMA SwitchBackwardType ==
  ASSUME NEW s \in State, NEW c \in Comp, Part[c].kind = "Switch"
  PROVE  RunSwitchBackward(s, c) \in Handled(s)
<1> DEFINE in0   == Inflow[c][0]
           in1   == Inflow[c][1]
           want  == s.req[Outflow[c][0]]
           asked == Request(s, in0, want)
           freed == Request(s, in0, 0)
<1>1. in0 \in Conn /\ in1 \in Conn /\ Outflow[c][0] \in Conn
  BY KnownKind, InflowType, OutflowType DEF WellConnected
<1>2. want \in Flow
  BY <1>1, FlowsOfState
<1> HIDE DEF in0, in1, want
<1>3. CASE s.switch[c] = "Primary"
  <2>1. asked \in State /\ asked \in Handled(s)
    BY <1>1, <1>2, RequestType DEF Handled
  <2> DEFINE scheduled ==
               IF asked.req[in0] # 0 THEN asked.back \cup {in1} ELSE asked.back
  <2>2. RunSwitchBackward(s, c) =
          [asked EXCEPT !.req[in1] = 0, !.back = scheduled]
    BY <1>3 DEF RunSwitchBackward, in0, in1, want
  <2> HIDE DEF asked
  <2>3. scheduled \in SUBSET Conn
    BY <1>1, <2>1 DEF State
  <2> HIDE DEF scheduled
  <2>4. [asked EXCEPT !.req[in1] = 0, !.back = scheduled] \in Handled(asked)
    BY <1>1, <2>1, <2>3, FlowIsNat DEF Handled, State
  <2> QED
    BY <2>1, <2>2, <2>4, HandledTwice
<1>4. CASE s.switch[c] # "Primary"
  <2>1. freed \in State /\ freed \in Handled(s)
    BY <1>1, FlowIsNat, RequestType DEF Handled
  <2>2. RunSwitchBackward(s, c) = Request(freed, in1, want)
    BY <1>4 DEF RunSwitchBackward, in0, in1, want
  <2> HIDE DEF freed
  <2>3. Request(freed, in1, want) \in Handled(freed)
    BY <1>1, <1>2, <2>1, RequestType
  <2> QED
    BY <2>1, <2>2, <2>3, HandledTwice
<1> QED
  BY <1>3, <1>4

LEMMA SwitchForwardType ==
  ASSUME NEW s \in State, NEW c \in Comp, Part[c].kind = "Switch", NEW k \in Conn
  PROVE  RunSwitchForward(s, k, c) \in Handled(s)
<1>1. Outflow[c][0] \in Conn
  BY KnownKind, OutflowType DEF WellConnected
<1>2. Offer(s, Outflow[c][0], s.avail[k]) \in Handled(s)
  BY <1>1, FlowsOfState, OfferType
<1> QED
  BY <1>2, HandledSelf DEF RunSwitchForward

LEMMA MuxTerms ==
  ASSUME NEW s \in State, NEW c \in Comp, Part[c].kind = "Mux"
  PROVE  /\ \A i \in 1 .. Part[c].outports : MuxRequests(s, c)[i] \in Flow
         /\ \A i \in 1 .. Part[c].inports : MuxSupplies(s, c)[i] \in Flow
         /\ \A i \in 1 .. Part[c].outports :
              MuxRequests(s, c)[i] <= Part[c].maxOutflows[i]
<1>1. \A i \in 1 .. Part[c].outports :
        /\ MuxRequests(s, c)[i] \in Flow
        /\ MuxRequests(s, c)[i] <= Part[c].maxOutflows[i]
  <2> TAKE i \in 1 .. Part[c].outports
  <2>1. i - 1 \in OutPorts(c)
    BY MuxParts DEF OutPorts
  <2>2. Outflow[c][i - 1] \in Conn
    BY <2>1, MuxParts, OutflowType
  <2>3. s.req[Outflow[c][i - 1]] \in Nat
    BY <2>2, FlowsOfState, FlowIsNat
  <2>4. Part[c].maxOutflows[i] \in Flow
    BY MuxParts
  <2> QED
    BY <2>3, <2>4, AtMostFlow, FlowIsNat DEF MuxRequests, AtMost
<1>2. \A i \in 1 .. Part[c].inports : MuxSupplies(s, c)[i] \in Flow
  <2> TAKE i \in 1 .. Part[c].inports
  <2>1. i - 1 \in InPorts(c)
    BY MuxParts DEF InPorts
  <2>2. Inflow[c][i - 1] \in Conn
    BY <2>1, MuxParts, InflowType
  <2> QED
    BY <2>2, FlowsOfState DEF MuxSupplies
<1> QED
  BY <1>1, <1>2

LEMMA MuxDemandsType ==
  ASSUME NEW s \in State, NEW c \in Comp, Part[c].kind = "Mux"
  PROVE  /\ DOMAIN MuxDemands(s, c) \subseteq Conn
         /\ \A k \in DOMAIN MuxDemands(s, c) : MuxDemands(s, c)[k] \in Flow
<1> DEFINE conns    == {Inflow[c][p] : p \in InPorts(c)}
           supplies == MuxSupplies(s, c)
           total    == SafeTotal(MuxRequests(s, c), Part[c].outports)
           demands  == [k \in conns |->
                          LeftAfter(supplies, total, Connection[k].toPort)]
<1>1. total \in Flow
  BY MuxTerms, MuxParts, SafeTotalFlow, FlowIsNat
<1>2. MuxDemands(s, c) = demands
  BY DEF MuxDemands
<1>3. \A i \in 1 .. Part[c].inports : supplies[i] \in Nat
  BY MuxTerms, FlowIsNat
<1> HIDE DEF total, supplies
<1>4. conns \subseteq Conn
  BY MuxParts, InflowType
<1>5. ASSUME NEW k \in conns PROVE demands[k] \in Flow
  <2>1. PICK p \in InPorts(c) : k = Inflow[c][p]
    OBVIOUS
  <2>2. Connection[k].toPort = p
    BY <2>1, MuxParts, InflowType
  <2>3. p \in Nat /\ \A i \in 1 .. p : supplies[i] \in Nat
    BY <1>3, MuxParts DEF InPorts
  <2>4. LeftAfter(supplies, total, p) \in 0 .. total
    BY <1>1, <2>3, LeftAfterType, FlowIsNat
  <2> QED
    BY <1>1, <2>2, <2>4, FlowAssumption DEF Flow
<1> QED
  BY <1>2, <1>4, <1>5

LEMMA MuxOffersType ==
  ASSUME NEW s \in State, NEW c \in Comp, Part[c].kind = "Mux"
  PROVE  /\ DOMAIN MuxOffers(s, c) \subseteq Conn
         /\ \A k \in DOMAIN MuxOffers(s, c) :
              /\ MuxOffers(s, c)[k] \in Flow
              /\ MuxOffers(s, c)[k] <= Part[c].maxOutflows[Connection[k].fromPort + 1]
<1> DEFINE outports == Part[c].outports
           conns    == {Outflow[c][p] : p \in OutPorts(c)}
           limit    == Part[c].maxOutflows
           wanted   == MuxRequests(s, c)
           total    == SafeTotal(MuxSupplies(s, c), Part[c].inports)
           served   == [i \in 1 .. outports |-> Given(wanted, total, i)]
           room     == [i \in 1 .. outports |-> limit[i] - served[i]]
           left     == LeftAfter(wanted, total, outports)
           offer(n) == served[n] + Given(room, left, n)
           offers   == [k \in conns |-> offer(Connection[k].fromPort + 1)]
<1>1. total \in Nat
  BY MuxTerms, MuxParts, SafeTotalFlow, FlowIsNat
<1>2. MuxOffers(s, c) = offers
  BY DEF MuxOffers
<1>3. outports \in Nat /\ \A i \in 1 .. outports : limit[i] \in Flow
  BY MuxParts
<1>4. \A i \in 1 .. outports : limit[i] \in Nat
  BY <1>3, FlowIsNat
<1>5. \A i \in 1 .. outports : wanted[i] \in Nat /\ wanted[i] <= limit[i]
  BY MuxTerms, FlowIsNat
<1> HIDE DEF total, wanted, limit, outports
<1>6. \A i \in 1 .. outports : served[i] \in Nat /\ served[i] <= limit[i]
  <2> TAKE i \in 1 .. outports
  <2>1. i \in Nat \ {0} /\ \A j \in 1 .. i : wanted[j] \in Nat
    BY <1>3, <1>5
  <2>2. Given(wanted, total, i) \in 0 .. wanted[i]
    BY <1>1, <2>1, GivenType
  <2>3. served[i] \in 0 .. wanted[i]
    BY <2>2
  <2> HIDE DEF served
  <2>4. wanted[i] \in Nat /\ wanted[i] <= limit[i] /\ limit[i] \in Nat
    BY <1>5, <1>4
  <2> QED
    BY <2>3, <2>4
<1> HIDE DEF served
<1>7. \A i \in 1 .. outports : room[i] \in Nat /\ room[i] = limit[i] - served[i]
  BY <1>6, <1>4
<1>8. left \in Nat
  <2>1. left \in 0 .. total
    BY <1>1, <1>3, <1>5, LeftAfterType
  <2> QED
    BY <1>1, <2>1
<1> HIDE DEF room, left
<1>9. \A i \in 1 .. outports : offer(i) \in Flow /\ offer(i) <= limit[i]
  <2> TAKE i \in 1 .. outports
  <2>1. i \in Nat \ {0} /\ \A j \in 1 .. i : room[j] \in Nat
    BY <1>3, <1>7
  <2>2. Given(room, left, i) \in 0 .. room[i]
    BY <1>8, <2>1, GivenType
  <2>3. room[i] = limit[i] - served[i] /\ served[i] \in Nat /\ limit[i] \in Flow
    BY <1>3, <1>6, <1>7
  <2> QED
    BY <2>2, <2>3, FlowAssumption DEF Flow
<1> HIDE DEF offer
<1>10. conns \subseteq Conn
  BY MuxParts, OutflowType
<1>11. ASSUME NEW k \in conns
       PROVE  offers[k] \in Flow /\ offers[k] <= limit[Connection[k].fromPort + 1]
  <2>1. PICK p \in OutPorts(c) : k = Outflow[c][p]
    OBVIOUS
  <2>2. Connection[k].fromPort = p
    BY <2>1, MuxParts, OutflowType
  <2>3. p + 1 \in 1 .. outports
    BY <1>3 DEF OutPorts, outports
  <2> QED
    BY <1>9, <2>2, <2>3
<1> QED
  BY <1>2, <1>10, <1>11 DEF limit

LEMMA MuxType ==
  ASSUME NEW s \in State, NEW c \in Comp, Part[c].kind = "Mux"
  PROVE  /\ RunMuxBackward(s, c) \in Handled(s)
         /\ RunMuxForward(s, c) \in Handled(s)
         /\ RunMuxBothWays(s, c) \in Handled(s)
<1> DEFINE asked == RequestEach(s, MuxDemands(s, c))
<1>1. asked \in Handled(s)
  BY MuxDemandsType, RequestEachType
<1>2. OfferEach(s, MuxOffers(s, c)) \in Handled(s)
  BY MuxOffersType, OfferEachType
<1>3. RunMuxBothWays(s, c) = OfferEach(asked, MuxOffers(s, c))
  BY DEF RunMuxBothWays
<1>4. RunMuxBackward(s, c) = asked
  BY DEF RunMuxBackward
<1> HIDE DEF asked
<1>5. OfferEach(asked, MuxOffers(s, c)) \in Handled(asked)
  <2>1. asked \in State
    BY <1>1 DEF Handled
  <2> QED
    BY <2>1, MuxOffersType, OfferEachType
<1>6. RunMuxBothWays(s, c) \in Handled(s)
  BY <1>1, <1>3, <1>5, HandledTwice
<1> QED
  BY <1>1, <1>2, <1>4, <1>6 DEF RunMuxForward

LEMMA StoreAvailableType ==
  ASSUME NEW s \in State, NEW c \in Comp, Part[c].kind = "Store"
  PROVE  StoreAvailable(s, c) \in Flow
<1> DEFINE discharge == IF s.amount[c] > 0 THEN Part[c].maxDischarge ELSE 0
           inflow    == IF HasInflow(c, 0) THEN s.avail[Inflow[c][0]] ELSE 0
<1>1. discharge \in Flow
  BY StoreParts, FlowIsNat
<1>2. inflow \in Flow
  BY InflowType, FlowsOfState, FlowIsNat
<1>3. StoreAvailable(s, c) =
        AtMost(UtilSafeAdd(inflow, discharge), Part[c].maxOutflow)
  BY DEF StoreAvailable
<1> HIDE DEF discharge, inflow
<1>4. UtilSafeAdd(inflow, discharge) \in Nat
  BY <1>1, <1>2, UtilSafeAddFlow, FlowIsNat
<1> QED
  BY <1>3, <1>4, StoreParts, AtMostFlow

LEMMA StoreRequestType ==
  ASSUME NEW s \in State, NEW c \in Comp, Part[c].kind = "Store"
  PROVE  StoreRequest(s, c) \in Flow
<1> DEFINE out     == Outflow[c][0]
           request == AtMost(s.req[out], Part[c].maxOutflow)
           charge  == IF s.amount[c] <= Part[c].chargeAmount
                        THEN Part[c].maxCharge ELSE 0
<1>1. out \in Conn
  BY KnownKind, OutflowType DEF WellConnected
<1>2. s.req[out] \in Nat
  BY <1>1, FlowsOfState, FlowIsNat
<1>3. request \in Flow
  BY <1>2, StoreParts, AtMostFlow
<1>4. charge \in Flow
  BY StoreParts, FlowIsNat
<1>5. StoreRequest(s, c) = WrapAdd(request, charge)
  BY DEF StoreRequest
<1> HIDE DEF request, charge
<1> QED
  BY <1>3, <1>4, <1>5, WrapAddFlow

LEMMA StoreType ==
  ASSUME NEW s \in State, NEW c \in Comp, Part[c].kind = "Store"
  PROVE  RunStoreBackward(s, c) \in Handled(s) /\ RunStoreForward(s, c) \in Handled(s)
<1>1. RunStoreBackward(s, c) \in Handled(s)
  <2>1. HasInflow(c, 0) =>
          Request(s, Inflow[c][0], StoreRequest(s, c)) \in Handled(s)
    BY InflowType, StoreRequestType, RequestType
  <2> QED
    BY <2>1, HandledSelf DEF RunStoreBackward
<1>2. RunStoreForward(s, c) \in Handled(s)
  <2>1. Outflow[c][0] \in Conn
    BY KnownKind, OutflowType DEF WellConnected
  <2> QED
    BY <2>1, StoreAvailableType, OfferType DEF RunStoreForward
<1> QED
  BY <1>1, <1>2

LEMMA EntryType ==
  ASSUME NEW S, NEW seq \in Seq(S), NEW i \in 1 .. Len(seq)
  PROVE  seq[i] \in S
  OBVIOUS

(* What a schedule says at an index in its range is a flow.                *)
LEMMA ScheduledAmount ==
  ASSUME NEW schedule \in ScheduleOfFlows, NEW i \in 1 .. Len(schedule)
  PROVE  schedule[i].amount \in Flow /\ schedule[i].time \in Nat
<1> DEFINE Entry == [time : Nat, amount : Flow]
<1>1. schedule[i] \in Entry
  <2>1. schedule \in Seq(Entry)
    BY DEF ScheduleOfFlows
  <2> HIDE DEF Entry
  <2> QED
    BY <2>1, EntryType
<1> QED
  BY <1>1

(* The outflow and the waste of a schedule-based source, set together.     *)
LEMMA SupplyType ==
  ASSUME NEW s \in State, NEW c \in Comp, Part[c].kind = "ScheduleBasedSource",
         NEW available \in Flow
  PROVE  Spill(Offer(s, Outflow[c][0], available), Outflow[c][WastePort(c)],
               Monus(available, s.req[Outflow[c][0]])) \in Handled(s)
<1> DEFINE out     == Outflow[c][0]
           waste   == Outflow[c][WastePort(c)]
           offered == Offer(s, out, available)
<1>1. out \in Conn /\ waste \in Conn
  BY KnownKind, OutflowType DEF WellConnected
<1>2. Monus(available, s.req[out]) \in Flow
  BY <1>1, FlowsOfState, FlowIsNat, MonusFlow
<1>3. offered \in State /\ offered \in Handled(s)
  BY <1>1, OfferType DEF Handled
<1> HIDE DEF offered, out, waste
<1>4. Spill(offered, waste, Monus(available, s.req[out])) \in Handled(offered)
  BY <1>1, <1>2, <1>3, SpillType
<1>5. Spill(offered, waste, Monus(available, s.req[out])) \in Handled(s)
  BY <1>3, <1>4, HandledTwice
<1> QED
  BY <1>5 DEF offered, out, waste

LEMMA SourceBackwardType ==
  ASSUME NEW sch, SchedulesOfFlows(sch), NEW s \in State, IndicesInRange(sch, s),
         NEW c \in Comp, Part[c].kind = "ScheduleBasedSource"
  PROVE  RunScheduleBasedSourceBackward(sch, s, c) \in Handled(s)
<1> DEFINE available == AtMost(sch.avail[c][s.srcIdx[c]].amount, Part[c].maxOutflow)
<1>1. c \in OfKind("ScheduleBasedSource")
  BY DEF OfKind
<1>2. sch.avail[c] \in ScheduleOfFlows /\ s.srcIdx[c] \in 1 .. Len(sch.avail[c])
  BY <1>1 DEF SchedulesOfFlows, IndicesInRange
<1>3. sch.avail[c][s.srcIdx[c]].amount \in Nat
  BY <1>2, ScheduledAmount, FlowIsNat
<1>4. available \in Flow
  BY <1>3, LoadAndSourceParts, AtMostFlow
<1>5. RunScheduleBasedSourceBackward(sch, s, c) =
        Spill(Offer(s, Outflow[c][0], available), Outflow[c][WastePort(c)],
              Monus(available, s.req[Outflow[c][0]]))
  BY DEF RunScheduleBasedSourceBackward
<1> HIDE DEF available
<1> QED
  BY <1>4, <1>5, SupplyType

LEMMA PassthroughType ==
  ASSUME NEW s \in State, NEW c \in Comp, Part[c].kind = "PassThrough"
  PROVE  /\ RunPassthroughBackward(s, c) \in Handled(s)
         /\ RunPassthroughForward(s, c) \in Handled(s)
<1>1. Inflow[c][0] \in Conn /\ Outflow[c][0] \in Conn
  BY KnownKind, InflowType, OutflowType DEF WellConnected
<1>2. s.req[Outflow[c][0]] \in Nat /\ s.avail[Inflow[c][0]] \in Nat
  BY <1>1, FlowsOfState, FlowIsNat
<1>3. /\ AtMost(s.req[Outflow[c][0]], Part[c].maxOutflow) \in Flow
      /\ AtMost(s.avail[Inflow[c][0]], Part[c].maxOutflow) \in Flow
  BY <1>2, LoadAndSourceParts, AtMostFlow
<1> QED
  BY <1>1, <1>3, FlowIsNat, RequestType, OfferType
     DEF RunPassthroughBackward, RunPassthroughForward

-----------------------------------------------------------------------------
(* Whatever component a connection concerns, the step of the backward or   *)
(* forward pass is one of the handlers above.                              *)

LEMMA ConnectionEnds ==
  ASSUME NEW k \in Conn
  PROVE  Connection[k].from \in Comp /\ Connection[k].to \in Comp
  BY NetworkAssumption

LEMMA RunBackwardType ==
  ASSUME NEW sch, SchedulesOfFlows(sch), NEW s \in State, IndicesInRange(sch, s),
         NEW k \in Conn
  PROVE  RunBackward(sch, s, k) \in Handled(s)
<1> DEFINE c == Connection[k].from
<1>1. c \in Comp
  BY ConnectionEnds
<1> HIDE DEF c
<1>2. CASE Part[c].kind = "PassThrough"
  BY <1>1, <1>2, PassthroughType DEF RunBackward, c
<1>3. CASE Part[c].kind = "ScheduleBasedSource"
  BY <1>1, <1>3, SourceBackwardType DEF RunBackward, c
<1>4. CASE Part[c].kind = "Converter"
  BY <1>1, <1>4, ConverterBackwardType, ConverterLossType DEF RunBackward, c
<1>5. CASE Part[c].kind = "Mux"
  BY <1>1, <1>5, MuxType DEF RunBackward, c
<1>6. CASE Part[c].kind = "Store"
  BY <1>1, <1>6, StoreType DEF RunBackward, c
<1>7. CASE Part[c].kind = "Mover"
  BY <1>1, <1>7, MoverBackwardType, MoverEnvironmentType DEF RunBackward, c
<1>8. CASE Part[c].kind = "Switch"
  BY <1>1, <1>8, SwitchBackwardType DEF RunBackward, c
<1>9. CASE Part[c].kind \notin {"PassThrough", "ScheduleBasedSource", "Converter",
                               "Mux", "Store", "Mover", "Switch"}
  BY <1>9, HandledSelf DEF RunBackward, c
<1> QED
  BY <1>2, <1>3, <1>4, <1>5, <1>6, <1>7, <1>8, <1>9

LEMMA RunForwardType ==
  ASSUME NEW s \in State, NEW k \in Conn
  PROVE  RunForward(s, k) \in Handled(s)
<1> DEFINE c == Connection[k].to
<1>1. c \in Comp
  BY ConnectionEnds
<1> HIDE DEF c
<1>2. CASE Part[c].kind = "PassThrough"
  BY <1>1, <1>2, PassthroughType DEF RunForward, c
<1>3. CASE Part[c].kind = "Converter"
  BY <1>1, <1>3, ConverterForwardType DEF RunForward, c
<1>4. CASE Part[c].kind = "Mover"
  BY <1>1, <1>4, MoverForwardType DEF RunForward, c
<1>5. CASE Part[c].kind = "Mux"
  BY <1>1, <1>5, MuxType DEF RunForward, c
<1>6. CASE Part[c].kind = "Store"
  BY <1>1, <1>6, StoreType DEF RunForward, c
<1>7. CASE Part[c].kind = "Switch"
  BY <1>1, <1>7, SwitchForwardType DEF RunForward, c
<1>8. CASE Part[c].kind \notin {"PassThrough", "Converter", "Mover", "Mux",
                               "Store", "Switch"}
  BY <1>8, HandledSelf DEF RunForward, c
<1> QED
  BY <1>2, <1>3, <1>4, <1>5, <1>6, <1>7, <1>8

-----------------------------------------------------------------------------
(* Failures and repairs.                                                   *)

LEMMA MarkDownType ==
  ASSUME NEW s \in State, NEW c \in Comp
  PROVE  /\ [s EXCEPT !.down = @ \cup {c}] \in Kept(s)
         /\ [s EXCEPT !.down = @ \cup {c}].down = s.down \cup {c}
         /\ [s EXCEPT !.down = @ \ {c}] \in Kept(s)
         /\ [s EXCEPT !.down = @ \ {c}].down = s.down \ {c}
  BY DEF Kept, State

LEMMA HandledIsKept ==
  ASSUME NEW s, NEW r \in Handled(s)
  PROVE  r \in Kept(s)
  BY DEF Handled, Kept

(* What a failure or a repair did before a handler ran stays done.         *)
LEMMA HandledAfterKept ==
  ASSUME NEW s, NEW r \in Kept(s), NEW q \in Handled(r)
  PROVE  q \in Kept(s) /\ q.down = r.down
  BY DEF Handled, Kept

LEMMA EndsAreConnections ==
  ASSUME NEW c
  PROVE  Inflows(c) \subseteq Conn /\ Outflows(c) \subseteq Conn
  BY DEF Inflows, Outflows

(* Nothing is asked through some connections nor offered through others.   *)
LEMMA CutOffType ==
  ASSUME NEW s \in State, NEW ins, ins \subseteq Conn, NEW outs, outs \subseteq Conn
  PROVE  OfferEach(RequestEach(s, ZeroAt(ins)), ZeroAt(outs)) \in Handled(s)
<1> DEFINE asked == RequestEach(s, ZeroAt(ins))
<1>1. asked \in State /\ asked \in Handled(s)
  BY ZeroAtType, RequestEachType DEF Handled
<1> HIDE DEF asked
<1>2. OfferEach(asked, ZeroAt(outs)) \in Handled(asked)
  BY <1>1, ZeroAtType, OfferEachType
<1>3. OfferEach(asked, ZeroAt(outs)) \in Handled(s)
  BY <1>1, <1>2, HandledTwice
<1> QED
  BY <1>3 DEF asked

(* A failure puts one component out of service ...                         *)
LEMMA FailedType ==
  ASSUME NEW s \in State, NEW c \in Comp
  PROVE  /\ SetComponentToFailed(s, c) \in Kept(s)
         /\ SetComponentToFailed(s, c).down = s.down \cup {c}
<1> DEFINE f      == [s EXCEPT !.down = @ \cup {c}]
           ins    == Inflows(c)
           outs   == Outflows(c)
           waste  == {k \in outs : Connection[k].fromPort = WastePort(c)}
           others == outs \ waste
           result == SetComponentToFailed(s, c)
<1>1. f \in State /\ f \in Kept(s) /\ f.down = s.down \cup {c}
  BY MarkDownType DEF Kept
<1>2. ins \subseteq Conn /\ outs \subseteq Conn /\ others \subseteq Conn
  BY EndsAreConnections
<1> HIDE DEF f, ins, outs, waste, others
<1>3. result \in Handled(f)
  <2>1. CASE Part[c].kind \in {"ConstantLoad", "ScheduleBasedLoad",
                               "ConstantSource", "Mux", "PassThrough"}
    <3>1. result = OfferEach(RequestEach(f, ZeroAt(ins)), ZeroAt(outs))
      BY <2>1 DEF SetComponentToFailed, f, ins, outs
    <3> QED
      BY <1>1, <1>2, <3>1, CutOffType
  <2>2. CASE Part[c].kind = "Converter"
    <3> DEFINE asked   == Request(f, Inflow[c][0], 0)
               offered == OfferEach(asked, ZeroAt(others))
    <3>1. result = Spill(offered, Outflow[c][WastePort(c)], 0)
      BY <2>2 DEF SetComponentToFailed, f, outs, waste, others
    <3>2. Inflow[c][0] \in Conn /\ Outflow[c][WastePort(c)] \in Conn
      BY <2>2, KnownKind, InflowType, OutflowType DEF WellConnected
    <3>3. asked \in State /\ asked \in Handled(f)
      BY <1>1, <3>2, RequestType, FlowIsNat DEF Handled
    <3> HIDE DEF asked
    <3>4. offered \in Handled(asked)
      BY <1>2, <3>3, ZeroAtType, OfferEachType
    <3>5. offered \in State /\ offered \in Handled(f)
      BY <3>3, <3>4, HandledTwice
    <3> HIDE DEF offered
    <3>6. Spill(offered, Outflow[c][WastePort(c)], 0) \in Handled(offered)
      BY <3>2, <3>5, SpillType, FlowIsNat
    <3> QED
      BY <3>1, <3>5, <3>6, HandledTwice
  <2>3. CASE Part[c].kind = "Mover"
    BY <1>1, <2>3, ClearFlowsType DEF SetComponentToFailed, f
  <2>4. CASE Part[c].kind = "Store"
    <3> DEFINE cut == OfferEach(RequestEach(f, ZeroAt(ins)), ZeroAt(others))
    <3>1. result = ClearFlows(cut, waste)
      BY <2>4 DEF SetComponentToFailed, f, ins, outs, waste, others
    <3>2. cut \in State /\ cut \in Handled(f)
      BY <1>1, <1>2, CutOffType DEF Handled
    <3> HIDE DEF cut
    <3>3. ClearFlows(cut, waste) \in Handled(cut)
      BY <3>2, ClearFlowsType
    <3> QED
      BY <3>1, <3>2, <3>3, HandledTwice
  <2>5. CASE Part[c].kind \notin {"ConstantLoad", "ScheduleBasedLoad",
               "ConstantSource", "Mux", "PassThrough", "Converter", "Mover", "Store"}
    <3>1. result = f
      BY <2>5 DEF SetComponentToFailed, f
    <3> QED
      BY <1>1, <3>1, HandledSelf
  <2> QED
    BY <2>1, <2>2, <2>3, <2>4, <2>5
<1> QED
  BY <1>1, <1>3, HandledAfterKept

LEMMA RepairedLoadConnsType ==
  ASSUME NEW c \in Comp
  PROVE  RepairedLoadConns(c) \subseteq Conn
<1>1. \A d \in OfKind("ConstantLoad") : Inflow[d][0] \in Conn
  BY KnownKind, InflowType DEF OfKind, WellConnected
<1> QED
  BY <1>1 DEF RepairedLoadConns

(* ... and a repair puts it back.                                          *)
LEMMA RepairedType ==
  ASSUME NEW sch, SchedulesOfFlows(sch), NEW s \in State, IndicesInRange(sch, s),
         NEW c \in Comp, NEW k \in RepairedLoadConns(c)
  PROVE  /\ SetComponentToRepaired(sch, s, c, k) \in Kept(s)
         /\ SetComponentToRepaired(sch, s, c, k).down = s.down \ {c}
<1> DEFINE r      == [s EXCEPT !.down = @ \ {c}]
           result == SetComponentToRepaired(sch, s, c, k)
<1>1. r \in State /\ r \in Kept(s) /\ r.down = s.down \ {c}
  BY MarkDownType DEF Kept
<1>2. r.srcIdx = s.srcIdx /\ r.loadIdx = s.loadIdx
  BY <1>1 DEF Kept
<1> HIDE DEF r
<1>3. result \in Handled(r)
  <2>1. CASE Part[c].kind = "ConstantLoad"
    <3>1. Inflow[c][0] \in Conn
      BY <2>1, KnownKind, InflowType DEF WellConnected
    <3> QED
      BY <1>1, <2>1, <3>1, LoadAndSourceParts, RequestType
         DEF SetComponentToRepaired, r
  <2>2. CASE Part[c].kind = "ScheduleBasedLoad"
    <3>1. c \in OfKind("ScheduleBasedLoad") /\ k \in Conn
      BY <2>2, RepairedLoadConnsType DEF OfKind
    <3>2. sch.load[c] \in ScheduleOfFlows /\ s.loadIdx[c] \in 1 .. Len(sch.load[c])
      BY <3>1 DEF SchedulesOfFlows, IndicesInRange
    <3>3. sch.load[c][s.loadIdx[c]].amount \in Flow
      BY <3>2, ScheduledAmount
    <3> QED
      BY <1>1, <2>2, <3>1, <3>3, RequestType DEF SetComponentToRepaired, r
  <2>3. CASE Part[c].kind = "ConstantSource"
    <3>1. Outflow[c][0] \in Conn
      BY <2>3, KnownKind, OutflowType DEF WellConnected
    <3> QED
      BY <1>1, <2>3, <3>1, LoadAndSourceParts, OfferType
         DEF SetComponentToRepaired, r
  <2>4. CASE Part[c].kind = "ScheduleBasedSource"
    <3>1. c \in OfKind("ScheduleBasedSource") /\ Outflow[c][0] \in Conn
      BY <2>4, KnownKind, OutflowType DEF OfKind, WellConnected
    <3>2. sch.avail[c] \in ScheduleOfFlows /\ s.srcIdx[c] \in 1 .. Len(sch.avail[c])
      BY <3>1 DEF SchedulesOfFlows, IndicesInRange
    <3>3. sch.avail[c][s.srcIdx[c]].amount \in Flow
      BY <3>2, ScheduledAmount
    <3> QED
      BY <1>1, <2>4, <3>1, <3>3, OfferType DEF SetComponentToRepaired, r
  <2>5. CASE Part[c].kind = "Converter"
    <3> DEFINE b == RunConverterBackward(r, c)
    <3>1. result = RunConverterForward(b, c)
      BY <2>5 DEF SetComponentToRepaired, Then, r
    <3>2. b \in State /\ b \in Handled(r)
      BY <1>1, <2>5, ConverterBackwardType DEF Handled
    <3> HIDE DEF b
    <3>3. RunConverterForward(b, c) \in Handled(b)
      BY <2>5, <3>2, ConverterForwardType
    <3> QED
      BY <3>1, <3>2, <3>3, HandledTwice
  <2>6. CASE Part[c].kind = "Mover"
    <3> DEFINE b == RunMoverBackward(r, c)
    <3>1. result = RunMoverForward(b, Inflow[c][0], c)
      BY <2>6 DEF SetComponentToRepaired, Then, r
    <3>2. b \in State /\ b \in Handled(r)
      BY <1>1, <2>6, MoverBackwardType DEF Handled
    <3> HIDE DEF b
    <3>3. RunMoverForward(b, Inflow[c][0], c) \in Handled(b)
      BY <2>6, <3>2, MoverForwardType
    <3> QED
      BY <3>1, <3>2, <3>3, HandledTwice
  <2>7. CASE Part[c].kind = "Mux"
    <3> DEFINE ins  == {Inflow[c][p] : p \in InPorts(c)}
               outs == {Outflow[c][p] : p \in OutPorts(c)}
    <3>1. result = [r EXCEPT !.front = @ \cup ins, !.back = @ \cup outs]
      BY <2>7 DEF SetComponentToRepaired, r
    <3>2. ins \subseteq Conn /\ outs \subseteq Conn
      BY <2>7, MuxParts, InflowType, OutflowType
    <3> HIDE DEF ins, outs
    <3> DEFINE front == r.front \cup ins
               back  == r.back \cup outs
    <3>3. front \in SUBSET Conn /\ back \in SUBSET Conn
      BY <1>1, <3>2 DEF State
    <3>4. result = [r EXCEPT !.front = front, !.back = back]
      BY <3>1
    <3> HIDE DEF front, back, result
    <3>5. [r EXCEPT !.front = front, !.back = back] \in Handled(r)
      BY <1>1, <3>3, ScheduleConnectionsType
    <3> QED
      BY <3>4, <3>5
  <2>8. CASE Part[c].kind = "PassThrough"
    <3> DEFINE in    == Inflow[c][0]
               out   == Outflow[c][0]
               back  == IF s.req[out] # s.req[in] THEN r.back \cup {out} ELSE r.back
               front == IF s.avail[in] # s.avail[out] THEN r.front \cup {in}
                        ELSE r.front
    <3>1. result = [r EXCEPT !.req = [@ EXCEPT ![in] = s.req[out]],
                             !.avail = [@ EXCEPT ![out] = s.avail[in]],
                             !.back = back, !.front = front]
      BY <2>8 DEF SetComponentToRepaired, r
    <3>2. in \in Conn /\ out \in Conn
      BY <2>8, KnownKind, InflowType, OutflowType DEF WellConnected
    <3>3. s.req[out] \in Flow /\ s.avail[in] \in Flow
      BY <3>2, FlowsOfState
    <3>4. back \subseteq Conn /\ front \subseteq Conn
      BY <1>1, <3>2 DEF State
    <3> HIDE DEF in, out, back, front
    <3>5. /\ [r.req EXCEPT ![in] = s.req[out]] \in [Conn -> Flow]
          /\ [r.avail EXCEPT ![out] = s.avail[in]] \in [Conn -> Flow]
      BY <1>1, <3>2, <3>3 DEF State
    <3>6. [r EXCEPT !.req = [r.req EXCEPT ![in] = s.req[out]],
                    !.avail = [r.avail EXCEPT ![out] = s.avail[in]],
                    !.back = back, !.front = front] \in Handled(r)
      BY <1>1, <3>4, <3>5, UpdateType
    <3> QED
      BY <3>1, <3>6
  <2>9. CASE Part[c].kind \notin {"ConstantLoad", "ScheduleBasedLoad",
               "ConstantSource", "ScheduleBasedSource", "Converter", "Mover",
               "Mux", "PassThrough"}
    <3>1. result = r
      BY <2>9 DEF SetComponentToRepaired, r
    <3> QED
      BY <1>1, <3>1, HandledSelf
  <2> QED
    BY <2>1, <2>2, <2>3, <2>4, <2>5, <2>6, <2>7, <2>8, <2>9
<1> QED
  BY <1>1, <1>3, HandledAfterKept

=============================================================================
