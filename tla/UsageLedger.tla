----------------------------- MODULE UsageLedger -----------------------------
(***************************************************************************)
(* What time accounting promises, with segments left out: how many seconds *)
(* are stored, how many are held in memory, and when somebody was last     *)
(* seen at work.  The documentation of crates/tb-core/src/usage.rs asks    *)
(* for exactly this: consecutive observations add up, a gap or a clock     *)
(* that ran backwards adds nothing but the one tick that was seen, and     *)
(* what can be lost is less than one segment.                              *)
(***************************************************************************)
EXTENDS Integers

CONSTANTS
  Instant,       \* the instants things are observed at
  None, TickInterval, MaxGap, MaxSegment

VARIABLES
  stored,   \* seconds charged for good
  held,     \* seconds charged but not stored yet
  present   \* the last instant somebody was seen at work, None when nobody is

Init ==
  /\ stored = 0
  /\ held = 0
  /\ present = None

(***************************************************************************)
(* The charge an observation at instant `at` brings: all the time since    *)
(* the last one when that is close, else nothing, except that being seen   *)
(* only once is not free.                                                  *)
(***************************************************************************)
Close(at) == at \in present + 1 .. present + MaxGap

Due(at) ==
  IF present = None THEN 0
  ELSE IF Close(at) THEN at - present
  ELSE IF held = 0 THEN TickInterval
  ELSE 0

Hold ==
  \E at \in Instant :
    /\ present # None /\ Close(at)
    /\ held + Due(at) < MaxSegment
    /\ held' = held + Due(at)
    /\ present' = at
    /\ UNCHANGED stored

Settle ==
  \E at \in Instant :
    /\ stored' = stored + held + Due(at)
    /\ held' = 0
    /\ present' \in {at, None}

(***************************************************************************)
(* A crash, a lost connection or a refused row: what was held is           *)
(* forgotten, what was stored is not.                                      *)
(***************************************************************************)
Lose ==
  /\ held' = 0
  /\ present' \in Instant \cup {None}
  /\ UNCHANGED stored

Next == Hold \/ Settle \/ Lose

Spec == Init /\ [][Next]_<<stored, held, present>>
=============================================================================
