-------------------------------- MODULE Access --------------------------------
(***************************************************************************)
(* One login or unlock through pam_timebandits.so: decide (decide.rs), the *)
(* throwaway thread that asks the daemon (client.rs) and the daemon's      *)
(* answer (pamserver.rs), while hours pass, time is used, parents edit     *)
(* rules and grant more time, the database or the daemon fails, and the    *)
(* deadline comes before or after the answer.                              *)
(*                                                                         *)
(* One account is followed.  Accounts share only the store's lock, which   *)
(* is never held across an await; every query has a connection and a       *)
(* channel of its own, so a query that was given up changes nothing any    *)
(* more: it, and the AccessDenied event of its answer, are left out.  The  *)
(* deadline is not a number but a race: it may come at any moment.         *)
(***************************************************************************)
EXTENDS Verdict

CONSTANTS
  Policies,    \* the rules parents may put in force
  Lines,       \* the arguments of our line in /etc/pam.d
  Zones,       \* hours the machine's zone may be ahead of the policy's
  Horizon,     \* bound on now
  MaxUsed,     \* bound on the hours used in a week
  MaxBonus     \* bound on the bonus granted for a day

Argument == [key : STRING, value : STRING]

ASSUME AccessAssumption ==
  /\ {Horizon, MaxUsed, MaxBonus} \subseteq Nat
  /\ Zones \subseteq Int
  /\ Horizon >= At(1 + WeekDays, DayStart)
  /\ None \notin Policies
  /\ \A p \in Policies :
       /\ p.enforcement \in BOOLEAN
       /\ IsSchedule(p.daily, {None} \cup Nat)
       /\ p.weekly \in {None} \cup Nat
       /\ IsSchedule(p.windows, SUBSET [start : Clock, end : Clock])
       /\ Valid(p)
  /\ \A line \in Lines : \A i \in DOMAIN line : line[i] \in Argument

Account == {"root", "parent", "adult", "child"}

\* The entry points that decide: pam_sm_authenticate asks for an unlock, where
\* a refusal has to look like a wrong password, pam_sm_acct_mgmt for a login.
Phase == {"auth", "account"}

Refusal(phase) == IF phase = "auth" THEN "auth_err" ELSE "perm_denied"

\* The brake is pulled or the database cannot be read; a thread panicked.
Health == {"healthy", "aside", "poisoned"}

Refusals == {"window", "daily", "weekly"}

VARIABLES
  who,     \* the account
  now,     \* the wall clock
  usage,   \* what Store::snapshot makes of the segments and the grants
  policy,  \* the account's file in policy.d, or None
  health,  \* why a running daemon would stand aside, if it would
  daemon,  \* the process: up, of another protocol version, or down
  thread,  \* the thread that asks
  call     \* the call into the module

vars == <<who, now, usage, policy, health, daemon, thread, call>>

-----------------------------------------------------------------------------
(* The daemon's side. *)

Ignore == [decision |-> "ignore", reason |-> "none"]
Allow == [decision |-> "allow", reason |-> "none"]

\* The Facts of the retry instant travel along; SentenceMeansRetry is about
\* them, and the module only shows them.
Deny(reason) == [decision |-> "deny", reason |-> reason]

\* What NSS says of an account and a group: the truth, or a plain no if
\* it is the group that cannot be looked up, or nothing.  The daemon
\* has a lookup of its own that does the same.
UserInGroup(member) == {IF member THEN "yes" ELSE "no", "no", "failed"}

IsMember(member) == UserInGroup(member)

\* Mutants: the daemon forgets whom it may refuse, or the bonus.
AnswerToAnyone(member) ==
  IF daemon = "other version" \/ health # "healthy" \/ policy = None
  THEN Ignore
  ELSE LET reason == Evaluate(policy, usage, now).reason
       IN IF reason = "none" THEN Allow ELSE Deny(reason)

AnswerWithoutBonus(member) ==
  IF \/ daemon = "other version" \/ health # "healthy"
     \/ policy = None \/ member # "yes"
  THEN Ignore
  ELSE LET reason == Evaluate(policy, [usage EXCEPT !.bonus = 0], now).reason
       IN IF reason = "none" THEN Allow ELSE Deny(reason)

\* member is what the daemon's NSS says of the managed group.
Answer(member) ==
  IF \/ daemon = "other version"
     \/ health # "healthy"
     \/ policy = None
     \/ member # "yes"
  THEN Ignore
  ELSE LET reason == Evaluate(policy, usage, now).reason
       IN IF reason = "none" THEN Allow ELSE Deny(reason)

-----------------------------------------------------------------------------
(* The module's side. *)

NoThread == [pc |-> "none", answer |-> Ignore]

\* Nobody is asking; code and reason are what the last call ended with.  As
\* history: whether its line asks for the lenient fallback, and whether some
\* lookup failed to find the account in the managed group.
Over(code, reason, lenient, unsure) ==
  [asking |-> FALSE, code |-> code, reason |-> reason, lenient |-> lenient,
   seen |-> {}, unsure |-> unsure]

NoCall == Over("ignore", "none", FALSE, FALSE)

\* Config::from_args: the last word counts, and a typo is no word for it.  The
\* timeout is part of the race, and both groups are what they should be.
Fallback(line) ==
  LET given == {i \in DOMAIN line : line[i].key = "fallback"}
  IN IF \E i \in given : line[i].value = "allow" /\ \A j \in given : j <= i
     THEN "allow" ELSE "deny"

Lenient(line) ==
  \E i \in DOMAIN line : line[i].key = "fallback" /\ line[i].value = "allow"

\* history: how the account stands with a daemon that is up and sees clearly
Standing ==
  IF \/ who # "child" \/ policy = None
     \/ health # "healthy" \/ daemon = "other version"
  THEN "aside" ELSE Reason(policy, usage, now)

Watched ==
  IF call.asking THEN [call EXCEPT !.seen = @ \cup {Standing'}] ELSE call

Returns(code, reason, lenient, unsure) ==
  /\ call' = Over(code, reason, lenient, call.unsure \/ unsure)
  /\ thread' = NoThread

Init ==
  /\ who \in Account
  /\ now \in At(1, DayStart) .. At(1 + WeekDays, DayStart)
  /\ usage = [day |-> 0, week |-> 0, bonus |-> 0]
  /\ policy \in Policies \cup {None}
  /\ health = "healthy"
  /\ daemon = "up"
  /\ thread = NoThread
  /\ call = NoCall

\* An account NSS does not know is not root.
IsRoot == {who = "root", FALSE}

\* root is not even looked up, and a failed lookup counts as exempt.
Exempt(root, parent) == root \/ parent # "no"

Enter ==
  /\ ~call.asking
  /\ \E root \in IsRoot, parent \in UserInGroup(who = "parent") :
       IF Exempt(root, parent)
       THEN /\ call' = Over("ignore", "none", FALSE, parent = "failed")
            /\ UNCHANGED thread
       ELSE /\ call' = [NoCall EXCEPT !.asking = TRUE, !.seen = {Standing}]
            /\ thread' = [NoThread EXCEPT !.pc = "connecting"]
  /\ UNCHANGED <<who, now, usage, policy, health, daemon>>

\* libpam cannot say who is logging in.
NoUser ==
  /\ ~call.asking
  /\ call' = Over("ignore", "none", FALSE, TRUE)
  /\ UNCHANGED <<who, now, usage, policy, health, daemon, thread>>

\* pam_sm_setcred, which every module with an auth stack has to offer.
SetCred ==
  /\ ~call.asking
  /\ call' = NoCall
  /\ UNCHANGED <<who, now, usage, policy, health, daemon, thread>>

\* A socket is bound, and somebody accepts.
Listening == daemon # "down"

Connect ==
  /\ thread.pc = "connecting"
  /\ thread' = [thread EXCEPT !.pc = IF Listening THEN "asked" ELSE "failed"]
  /\ UNCHANGED <<who, now, usage, policy, health, daemon, call>>

Serve ==
  /\ thread.pc = "asked"
  /\ Listening
  /\ \E member \in IsMember(who = "child") :
       /\ thread' = [pc |-> "answered", answer |-> Answer(member)]
       /\ call' = [call EXCEPT !.unsure = @ \/ member # "yes"]
  /\ UNCHANGED <<who, now, usage, policy, health, daemon>>

\* The read times out, the connection breaks, or the line is not an answer.
ExchangeFails ==
  /\ thread.pc = "asked"
  /\ thread' = [thread EXCEPT !.pc = "failed"]
  /\ UNCHANGED <<who, now, usage, policy, health, daemon, call>>

\* recv_timeout returns with the thread's answer ...
Take ==
  /\ call.asking
  /\ thread.pc = "answered"
  /\ IF thread.answer.decision = "deny"
     THEN \E phase \in Phase :
            Returns(Refusal(phase), thread.answer.reason, FALSE, FALSE)
     ELSE Returns("ignore", "none", FALSE, FALSE)
  /\ UNCHANGED <<who, now, usage, policy, health, daemon>>

\* Mutant: a daemon that is merely slow is not worth a fallback.
RefusesIfUnreachable(managed, fallback) ==
  managed = "yes" /\ fallback = "deny" /\ thread.pc = "failed"

Refuses(managed, fallback) == managed = "yes" /\ fallback = "deny"

\* ... or with an error, or because the deadline has passed.  The line is
\* chosen where it is first read; it does not change during a call.
FallBack ==
  /\ call.asking
  /\ \E managed \in UserInGroup(who = "child"), line \in Lines :
       IF Refuses(managed, Fallback(line))
       THEN \E phase \in Phase :
              Returns(Refusal(phase), "unavailable", Lenient(line), FALSE)
       ELSE Returns("ignore", "none", Lenient(line), managed # "yes")
  /\ UNCHANGED <<who, now, usage, policy, health, daemon>>

\* A bug in the module itself is caught by guard().
Panics ==
  /\ call.asking
  /\ Returns("ignore", "none", FALSE, TRUE)
  /\ UNCHANGED <<who, now, usage, policy, health, daemon>>

-----------------------------------------------------------------------------
(* The world. *)

HourPasses ==
  /\ now < Horizon
  /\ now' = now + 1
  /\ \E used \in 0 .. 1 :
       /\ usage.week + used <= MaxUsed
       /\ usage' = Later(Used(usage, used), now, now + 1)
  /\ UNCHANGED <<who, policy, health, daemon, thread>>
  /\ call' = Watched

GrantBonus ==
  /\ usage.bonus < MaxBonus
  /\ usage' = [usage EXCEPT !.bonus = @ + 1]
  /\ UNCHANGED <<who, now, policy, health, daemon, thread>>
  /\ call' = Watched

EditPolicy ==
  /\ policy' \in Policies \cup {None}
  /\ UNCHANGED <<who, now, usage, health, daemon, thread>>
  /\ call' = Watched

\* A poisoned lock stays poisoned as long as the process lives.
HealthChanges ==
  /\ health # "poisoned"
  /\ health' \in Health
  /\ daemon = "down" => health' # "poisoned"
  /\ UNCHANGED <<who, now, usage, policy, daemon, thread>>
  /\ call' = Watched

\* The lock lives in the process.
LockIsNew == health' = IF health = "poisoned" THEN "healthy" ELSE health

\* A new one may take the place of an old one at once; the socket a killed
\* daemon has left behind is removed.
DaemonStarts ==
  /\ daemon' \in {"up", "other version"} \ {daemon}
  /\ LockIsNew
  /\ UNCHANGED <<who, now, usage, policy, thread>>
  /\ call' = Watched

\* A signal ends it, or it is killed.
DaemonStops ==
  /\ daemon # "down"
  /\ daemon' = "down"
  /\ LockIsNew
  /\ UNCHANGED <<who, now, usage, policy, thread>>
  /\ call' = Watched

ModuleStep == Enter \/ NoUser \/ SetCred \/ Take \/ FallBack \/ Panics
ThreadStep == Connect \/ Serve \/ ExchangeFails
WorldStep ==
  \/ HourPasses \/ GrantBonus \/ EditPolicy \/ HealthChanges
  \/ DaemonStarts \/ DaemonStops

Next == ModuleStep \/ ThreadStep \/ WorldStep

Spec == Init /\ [][Next]_vars

-----------------------------------------------------------------------------
(* Properties *)

Snapshot == [day : 0 .. MaxUsed, week : 0 .. MaxUsed, bonus : 0 .. MaxBonus]

Answers ==
  [decision : {"ignore", "allow", "deny"}, reason : Refusals \cup {"none"}]

\* The values the variables take, and the day's usage is part of the week's:
\* the two sums of Store::snapshot are cut at different instants of the same
\* calendar.
TypeOK ==
  /\ who \in Account
  /\ now \in At(1, DayStart) .. Horizon
  /\ usage \in Snapshot
  /\ usage.day <= usage.week
  /\ policy \in Policies \cup {None}
  /\ health \in Health
  /\ daemon \in {"up", "other version", "down"}
  /\ thread \in [pc : {"none", "connecting", "asked", "failed", "answered"},
                 answer : Answers]
  /\ call \in [asking : BOOLEAN,
               code : {"ignore"} \cup {Refusal(phase) : phase \in Phase},
               reason : Refusals \cup {"none", "unavailable"},
               lenient : BOOLEAN,
               seen : SUBSET (Refusals \cup {"none", "aside"}),
               unsure : BOOLEAN]

\* Nobody but a member of the managed group is ever refused, whatever policy
\* lies about for them, whatever lookup fails, and whether or not the daemon
\* answers: root and parents by the module, other adults by the daemon's own
\* lookup and again by the one before the fallback.
OnlyChildrenRefused == call.code # "ignore" => who = "child"

EndsCall == call.asking /\ ~call'.asking

\* A refusal in the name of the rules gives a reason that was true at some
\* moment of this very call: not of an earlier call, nor of rules, time or a
\* bonus that had changed before it began.
ReasonHeldDuringCall ==
  [][EndsCall /\ call'.reason \in Refusals => call'.reason \in call.seen]_vars

\* Unless the line in /etc/pam.d says fallback=allow somewhere, a child whose
\* time is up all through the call is refused, whether the daemon answers,
\* hangs, dies, restarts or answers after the deadline and whatever else the
\* line says; only a lookup that failed or a bug in the module lets them in.
NothingGainedByKilling ==
  [][EndsCall /\ call.seen \subseteq Refusals
       /\ ~call'.lenient /\ ~call'.unsure
     => call'.code # "ignore"]_vars

Verdict == Evaluate(policy, usage, now)

Denied == policy # None /\ Verdict.reason # "none"

VerdictAt(t) == Evaluate(policy, Later(usage, now, t), t)

\* Every refusal says when to come back, and coming back earlier is in vain:
\* left alone, the rules refuse at every moment before.  The exception is a
\* day without any window, which upcoming_windows passes over although it is
\* allowed as a whole.  Coming back then is not: the reason given is gone,
\* unless what starts at that moment is a period with a quota of zero.
VainBeforeRetry ==
  Denied => /\ Verdict.retry # None /\ Verdict.retry > now
            /\ \A t \in now .. Verdict.retry - 1 :
                 \/ VerdictAt(t).reason # "none"
                 \/ Windows(policy, PolicyDay(t)) = {}
            /\ \/ VerdictAt(Verdict.retry).reason # Verdict.reason
               \/ 0 \in {Get(policy.daily, PolicyDay(Verdict.retry)),
                         policy.weekly}

\* The time left is exact within the policy day: used without a break, access
\* lasts as long as said and not a unit longer.  The quota of the day, of the
\* week and the end of the window, merged with those that touch it, all count.
TimeLeftIsExact ==
  policy # None /\ Verdict.remaining # None =>
    \A n \in 0 .. Verdict.remaining :
      PolicyDay(now + n) = PolicyDay(now) =>
        (Evaluate(policy, Used(usage, n), now + n).reason = "none"
          <=> n < Verdict.remaining)

\* The sentence on the lock screen, "at", "tomorrow at" or "Tuesday at", is
\* understood as the instant it was made from, a date and a reading of the
\* policy's clock, although the days are counted from the date in the zone of
\* the machine.  That is so whenever the two calendars show the same date.
\* When they do not, the machine's must not have passed the retry's date
\* already, nor be so early that a weekday names two dates.
SentenceMeansRetry ==
  Denied => \A ahead \in Zones :
    LET here == now + ahead
        days == DateOf(Verdict.retry) - DateOf(here)
    IN \/ DateOf(here) = DateOf(now)
       \/ days \in 0 .. WeekDays + 1
       => Meant(Facts(Verdict.retry, here), here) = Verdict.retry

\* What engine.rs says retry_at is, "when it becomes allowed again", and
\* deny_text puts on the screen, "Available again ...".
AvailableAtRetry == Denied => VerdictAt(Verdict.retry).reason = "none"
=============================================================================
