--------------------------- MODULE EventCalendar ---------------------------
(***************************************************************************)
(* What a simulation promises of time, whatever its components do: it      *)
(* records the time 0, then a later time and a later one, never steps over *)
(* an event, never takes back what it recorded and ends at its final time. *)
(***************************************************************************)
EXTENDS Naturals, Sequences

CONSTANT FinalTime

VARIABLES
  events,    \* the times at which an input of the run changes
  recorded   \* the times recorded so far

vars == <<events, recorded>>

Now == recorded[Len(recorded)]

Init == events \in SUBSET Nat /\ recorded = <<>>

Start == recorded = <<>> /\ recorded' = <<0>>

(* It may stop at other times too, as when a store becomes full.           *)
GoOn ==
  /\ recorded # <<>>
  /\ \E next \in Now + 1 .. FinalTime :
       /\ \A e \in events : e > Now => next <= e
       /\ recorded' = Append(recorded, next)

Next == (Start \/ GoOn) /\ UNCHANGED events

(* What it never does, and that it does go on.                             *)
Safety == Init /\ [][Next]_vars

Spec == Safety /\ WF_vars(Next)

=============================================================================
