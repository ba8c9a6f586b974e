---------------------------- MODULE MCScenarios -----------------------------
(***************************************************************************)
(* Small inputs for a run of scenarios.  In all of MCSims failures and     *)
(* repairs take time and an outage is shorter than its scenario; the other *)
(* inputs each leave one of these, or the order of the links.              *)
(***************************************************************************)
EXTENDS ScenarioProperties

Fixed(time)           == [type |-> "Fixed", value |-> time]
Uniform(lower, upper) == [type |-> "Uniform", lower |-> lower, upper |-> upper]
Table(variates, times) ==
  [type |-> "QuantileTable", variates |-> variates, times |-> times]
Quantiles(first, second, third) ==
  [type |-> "Normal", quantile |-> (0 :> first @@ 1 :> second @@ 2 :> third)]

Mode(failure, repair) == [failure |-> failure, repair |-> repair]
On(comp, mode)        == [comp |-> comp, mode |-> mode]

Linear(intensity, lower, upper) ==
  [type |-> "Linear", vulnerability |-> intensity, lower |-> lower, upper |-> upper]
Tabular(intensity, xs, ys) ==
  [type |-> "Tabular", vulnerability |-> intensity, xs |-> xs, ys |-> ys]

Occurs(tag, dist, max, offset, duration) ==
  [tag |-> tag, dist |-> dist, max |-> max, offset |-> offset, duration |-> duration]

Level(scenario, intensity, level) ==
  [scenario |-> scenario, intensity |-> intensity, level |-> level]

(* Two modes of one component and one of another; the component that is    *)
(* two ticks old at time 0 fails and is repaired before the scenario.      *)
TwoModes == [
  dists          |-> <<Uniform(1, 3), Fixed(2), Table(<<0, 1, 2>>, <<2, 4, 5>>), Fixed(1)>>,
  failureModes   |-> <<Mode(1, 2), Mode(3, 4), Mode(3, 2)>>,
  links          |-> <<On(1, 1), On(1, 2), On(2, 3)>>,
  age            |-> <<2, 0>>,
  intensities    |-> <<>>, curves |-> <<>>, fragilityModes |-> <<>>, fragilities |-> <<>>,
  scenarios      |-> <<Occurs(1, 4, {1}, 1, 3)>>,
  scheduled      |-> <<>>,
  maxTime        |-> 2]

(* Fragilities of three kinds, on a component that also fails and on one   *)
(* that does not; a scenario with an intensity no curve is vulnerable to.  *)
Fragilities == [
  dists          |-> <<Uniform(1, 2), Quantiles(-1, 1, 2), Fixed(1)>>,
  failureModes   |-> <<Mode(1, 3)>>,
  links          |-> <<On(1, 1)>>,
  age            |-> <<0, 1>>,
  intensities    |-> <<Level(1, 1, 5), Level(1, 2, 3), Level(2, 3, 9)>>,
  curves         |-> <<Linear(1, 4, 6), Tabular(2, <<0, 2, 4>>, <<0, 1, 2>>), Linear(1, 1, 5)>>,
  fragilityModes |-> <<[curve |-> 1, repair |-> {1}], [curve |-> 2, repair |-> {}],
                       [curve |-> 3, repair |-> {3}]>>,
  fragilities    |-> <<On(1, 1), On(2, 2), On(2, 3)>>,
  scenarios      |-> <<Occurs(2, 3, {1}, 0, 3), Occurs(1, 3, {1}, 0, 2)>>,
  scheduled      |-> <<>>,
  maxTime        |-> 3]

(* Scenarios that occur again, one of them as often as there is time for,  *)
(* with loads and a source of their own.                                   *)
Calendar == [
  dists          |-> <<Uniform(1, 3), Quantiles(-1, 0, 2), Fixed(1)>>,
  failureModes   |-> <<Mode(1, 3)>>,
  links          |-> <<On(1, 1)>>,
  age            |-> <<1>>,
  intensities    |-> <<>>, curves |-> <<>>, fragilityModes |-> <<>>, fragilities |-> <<>>,
  scenarios      |-> <<Occurs(3, 1, {}, 0, 1), Occurs(1, 2, {2}, 0, 1), Occurs(2, 3, {0}, 0, 1)>>,
  scheduled      |-> <<<<1, 2, 1>>, <<3, 1, 2>>>>,
  maxTime        |-> 4]

(* A source without a load for the scenario that comes second; and a       *)
(* failure mode that is not the first.                                     *)
Incomplete == [Calendar EXCEPT !.scheduled = <<<<1, 2, 1>>, (2 :> 1 @@ 3 :> 1)>>]

SecondMode == [Calendar EXCEPT !.failureModes = <<Mode(1, 3), Mode(3, 3)>>,
                               !.links = <<On(1, 2)>>]

MCSims == {TwoModes, Fragilities, Calendar, Incomplete, SecondMode}

ASSUME \A input \in MCSims : OutagesSuit(input) /\ FragilitiesFitScenarios(input)

(* The links of two components in another order than their modes.          *)
SwappedLinks == {[TwoModes EXCEPT !.dists = <<Uniform(1, 2), Fixed(2), Uniform(3, 4), Fixed(1)>>,
                                  !.links = <<On(1, 2), On(2, 1)>>,
                                  !.failureModes = <<Mode(1, 2), Mode(3, 4)>>]}

(* A repair that takes longer than the scenario.                           *)
LongRepair == {[TwoModes EXCEPT !.dists = <<Uniform(1, 3), Fixed(9), Fixed(4), Fixed(1)>>,
                                !.links = <<On(1, 1)>>]}

(* A fragility that takes up to two ticks to be repaired, in a scenario of *)
(* one.                                                                    *)
LateRepairs == {[Fragilities EXCEPT !.scenarios[1].duration = 1]}

MCCause == {"failure", "fragility"} \X (1 .. 3)

=============================================================================
