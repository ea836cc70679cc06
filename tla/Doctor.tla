--------------------------------- MODULE Doctor ---------------------------------
(***************************************************************************)
(* `tbctl doctor' (doctor.rs) and `tbctl pam status': what they say of an  *)
(* installation, beside what the PAM module will answer there for a child  *)
(* whose time is up.  Pure functions of the service files and of a World,  *)
(* everything else the checks look at.  One child is followed.             *)
(***************************************************************************)
EXTENDS PamFiles

CONSTANT None  \* no such file

World ==
  [flag : BOOLEAN,       \* /etc/timebandits/disable exists
   module : BOOLEAN,     \* pam_timebandits.so is in one of the directories
   daemon : {"absent", "deaf", "answers"},
   database : BOOLEAN,   \* the file exists
   policy : {"none", "unreadable", "invalid", "observing", "enforcing"},
   member : {"yes", "no", "unknown"}]  \* of the managed group

(***************************************************************************)
(* Files in /etc/pam.d override those of the same name in /usr/lib/pam.d.  *)
(***************************************************************************)
Effective(etc, vendor, s) == IF etc[s] # None THEN etc[s] ELSE vendor[s]

\* Mutant: the vendor directory is not looked at.
StatusOfEtc(etc, vendor, s) ==
  IF etc[s] = None THEN "absent"
  ELSE IF HasBlock(etc[s]) THEN "configured" ELSE "not configured"

Status(etc, vendor, s) ==
  LET file == Effective(etc, vendor, s)
  IN IF file = None THEN "absent"
     ELSE IF HasBlock(file) THEN "configured" ELSE "not configured"

-----------------------------------------------------------------------------
(* The checks and the worst of them. *)

CheckDisableFlag(w) == IF w.flag THEN "warn" ELSE "ok"

CheckModule(w) == IF w.module THEN "ok" ELSE "fail"

\* A socket to connect to is not enough: root is asked about.
CheckDaemon(w) == IF w.daemon = "answers" THEN "ok" ELSE "fail"

CheckDatabase(w) == IF w.database THEN "ok" ELSE "warn"

\* The check of the lock screen repeats a failure.
CheckPam(etc, vendor) ==
  {IF Status(etc, vendor, s) = "not configured" THEN "fail" ELSE "ok" :
     s \in DOMAIN StackOf}

\* A file that cannot be read is not among the policies that are checked.
CheckPolicies(w) ==
  CASE w.policy \in {"none", "unreadable"} -> "warn"
    [] w.policy = "invalid" -> "fail"
    [] w.policy = "observing" -> "warn"
    [] OTHER -> CASE w.member = "yes" -> "ok"
                  [] w.member = "no" -> "fail"
                  [] OTHER -> "warn"

\* pam is what CheckPam found.
Run(pam, w) ==
  pam \cup {CheckDisableFlag(w), CheckModule(w), CheckDaemon(w),
            CheckDatabase(w), CheckPolicies(w)}

Worst(checks) ==
  IF "fail" \in checks THEN "fail"
  ELSE IF "warn" \in checks THEN "warn" ELSE "ok"

\* A policy that does not parse must not vanish from the report.
DoctorCommand(pam, w) ==
  IF w.policy = "unreadable" THEN "fail" ELSE Worst(Run(pam, w))

-----------------------------------------------------------------------------
(***************************************************************************)
(* What the module answers for a child in no exempt group whose time is    *)
(* up: decide (decide.rs) and the daemon behind it (pamserver.rs), with    *)
(* the fallback the module has by default.                                 *)
(***************************************************************************)
Answers(w) ==
  IF ~w.module THEN "unknown"
  ELSE IF w.daemon # "answers"
       THEN IF w.member = "yes" THEN "refusal" ELSE "ignore"
  ELSE IF ~w.flag /\ w.policy = "enforcing" /\ w.member = "yes"
       THEN "refusal" ELSE "ignore"

\* A line that suffices comes before the rule.
Overtaken(file, stack) ==
  \E i, j \in DOMAIN file :
    /\ i < j
    /\ file[i].stack = stack /\ file[i].does = "suffice"
    /\ file[j].stack = stack /\ file[j].does = "veto"
=============================================================================
