------------------------------- MODULE MCTicker -------------------------------
(***************************************************************************)
(* Small instances of Ticker: one or two desktops, a text console, and     *)
(* households that differ in what they do when time is up, in how they     *)
(* take blind tracking, and in whether they enforce at all.                *)
(***************************************************************************)
EXTENDS TickerEscalation, TLC

Rules(settings, graces, tampers, active) ==
  [enforcement : active, onExhausted : settings, grace : graces,
   onTamper : tampers]

(***************************************************************************)
(* An agent that is never silent makes them the lenient households.  An    *)
(* edit may shorten a grace period that is running, or lengthen it.        *)
(***************************************************************************)
SettingPolicies ==
  Rules({"Lock", "LockThenTerminate"}, {2}, {"LockImmediately"}, {TRUE})
    \cup Rules({"Terminate"}, {1}, {"LockImmediately"}, {TRUE})
    \cup {None}

ObservingPolicies ==
  Rules({"Lock"}, {2}, {"CountAndReport", "LockImmediately"}, {FALSE})
=============================================================================
