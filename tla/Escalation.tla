------------------------------ MODULE Escalation ------------------------------
(***************************************************************************)
(* What enforcement promises a user, as docs/architecture.md draws it:     *)
(*                                                                         *)
(*     Running --time is up--> Grace --grace expired--> Enforced           *)
(*        ^                      |                         |               *)
(*        +---- bonus granted, new day, window opened -----+               *)
(*                                                                         *)
(* with the table under it that says which edges a setting has.  The       *)
(* setting decides when time is up; edited later, it changes only what is  *)
(* done about sessions unlocked again.  How long the grace period is, on   *)
(* the other hand, is asked when it may be over.  Nothing is said about who is       *)
(* logged in, what PAM answers or why time is up.                          *)
(***************************************************************************)
EXTENDS Integers

CONSTANTS
  Session,      \* what can be locked or ended
  LongestGrace  \* bound: how far the grace period is counted

VARIABLES
  setting,   \* Policy.on_exhausted
  grace,     \* Policy.grace_period: between the notice and the end
  stage,     \* where the user stands
  spent,     \* ticks of the grace period gone by
  did        \* what the last step did to the user: notice, locks, ends

rules == <<setting, grace>>
vars == <<rules, stage, spent, did>>

Setting == {"Lock", "Terminate", "LockThenTerminate"}

Quiet == [notice |-> FALSE, locks |-> {}, ends |-> {}]

Init ==
  /\ setting \in Setting
  /\ grace \in 0 .. LongestGrace
  /\ stage = "Running"
  /\ spent = 0
  /\ did = Quiet

(***************************************************************************)
(* Time is up: the user is told, and the screen is locked unless it is to  *)
(* stay usable.  A step that could not be put on record counts as not      *)
(* taken and is repeated.                                                  *)
(***************************************************************************)
Close ==
  /\ stage = "Running"
  /\ did' \in [notice : {TRUE}, locks : SUBSET Session, ends : {{}}]
  /\ setting = "Terminate" => did'.locks = {}
  /\ stage' \in {"Running", IF setting = "Lock" THEN "Enforced" ELSE "Grace"}
  /\ spent' = 0

Wait ==
  /\ stage = "Grace"
  /\ did' = Quiet
  /\ spent' \in spent .. LongestGrace
  /\ UNCHANGED stage

Expire ==
  /\ stage = "Grace"
  /\ spent + 1 >= grace
  /\ did' \in [notice : {FALSE}, locks : {{}}, ends : SUBSET Session]
  /\ stage' = "Enforced"
  /\ spent' = 0

(***************************************************************************)
(* A session that somehow becomes unlocked is locked again.                *)
(***************************************************************************)
LockAgain ==
  /\ stage = "Enforced" /\ setting # "Terminate"
  /\ did' \in [notice : {FALSE}, locks : SUBSET Session, ends : {{}}]
  /\ UNCHANGED <<stage, spent>>

(***************************************************************************)
(* Access came back, everybody logged out, or the daemon started over.     *)
(***************************************************************************)
Back ==
  /\ stage' = "Running"
  /\ spent' = 0
  /\ did' = Quiet

Rest ==
  /\ did' = Quiet
  /\ UNCHANGED <<stage, spent>>

Next ==
  \/ (Close \/ Wait \/ Expire \/ LockAgain \/ Back \/ Rest) /\ UNCHANGED rules
  \/ Rest /\ setting' \in Setting /\ grace' \in 0 .. LongestGrace

Spec == Init /\ [][Next]_vars
=============================================================================
