--------------------------- MODULE TickerEscalation ---------------------------
(***************************************************************************)
(* The tick loop climbs the escalation ladder of Escalation and no other,  *)
(* also while the rules are edited under it.  The ladder counts the time   *)
(* since the notice and what the clock was set forward by meanwhile, not   *)
(* what a clock that was set back says of it.                              *)
(***************************************************************************)
EXTENDS Ticker

Ladder == INSTANCE Escalation WITH
  setting <- IF policy = None THEN "Lock" ELSE policy.onExhausted,
  grace <- IF policy = None THEN 0 ELSE policy.grace,
  stage <- phase,
  spent <- IF phase = "Grace" THEN notice ELSE 0

(***************************************************************************)
(* Each tick, and everything between ticks, is a step of the diagram in    *)
(* docs/architecture.md or leaves the user alone.                          *)
(***************************************************************************)
EscalationKept == Ladder!Spec
=============================================================================
