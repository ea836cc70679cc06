------------------------------- MODULE MCAccess -------------------------------
(***************************************************************************)
(* A small calendar for Access: weeks of three days of four hours that     *)
(* begin at one o'clock, and households whose rules differ by day.         *)
(***************************************************************************)
EXTENDS Access, TLC

Every(value) == [default |-> value, overrides |-> <<>>]
Except(value, day, other) ==
  [default |-> value, overrides |-> day :> other]

From(start, end) == [start |-> start, end |-> end]

Rules(daily, weekly, windows) ==
  [enforcement |-> TRUE, daily |-> daily, weekly |-> weekly,
   windows |-> windows]

\* Quotas only: a day off the computer, and a week that can run out.
QuotaPolicy == Rules(Except(1, 1, 0), 2, Every({}))

\* Windows that touch, one that passes midnight, and a shorter last day.
WindowPolicy ==
  Rules(Every(None), None,
        Except({From(1, 2), From(2, 3)}, 2, {From(3, 0)}))

\* A quota inside windows, and a week that can run out.
MixedPolicy == Rules(Every(1), 2, Every({From(2, 0)}))

\* Windows on the first day only.
FreePolicy ==
  Rules(Every(1), None, Except({}, 0, {From(2, 3)}))

\* Rules that only observe.
ObservePolicy == [MixedPolicy EXCEPT !.enforcement = FALSE]

\* Lines an administrator may write, one with a typo and one that says both.
Argued(key, value) == [key |-> key, value |-> value]

PamLines ==
  {<<>>,
   <<Argued("debug", "")>>,
   <<Argued("fallback", "alow")>>,
   <<Argued("fallback", "allow")>>,
   <<Argued("fallback", "allow"), Argued("fallback", "deny")>>}

\* The machine in the policy's zone, or up to a day east or west of it.
MachineZones == {-4, -1, 0, 1, 4}

Households == {QuotaPolicy, WindowPolicy, MixedPolicy, FreePolicy, ObservePolicy}
=============================================================================
