-------------------------------- MODULE Ticker --------------------------------
(***************************************************************************)
(* The enforcement half of the tick loop, for one user: what               *)
(* Ticker::tick_user, apply_verdict and enforce (tick.rs) do to the user's *)
(* sessions once they know whether time is up, next to everything that     *)
(* happens between two ticks: people log in, out, lock and unlock through  *)
(* PAM, desktops obey lock requests in their own time, parents edit rules  *)
(* and pull the emergency brake, the machine sleeps, logind or the         *)
(* database fails.                                                         *)
(*                                                                         *)
(* Users share nothing here: tick() handles each under its own state and   *)
(* logs an error without stopping.  Phase::Grace { since } is kept as the  *)
(* time the wall clock says has passed since then, counted in ticks up to  *)
(* the longest grace period of any rules, so that runs need no horizon.    *)
(* Which second time is up at is the business of TickAccounting; here it   *)
(* comes and goes.                                                         *)
(***************************************************************************)
EXTENDS Integers

CONSTANTS
  Session,       \* login sessions of class "user" on this machine's seats
  Console,       \* the text consoles among them, which have no screen to lock
  Policies,      \* the rules that can be in force
  None,          \* no rules, or a file that cannot be parsed; no notice given
  LongestGrace,  \* bound: the longest policy.grace_period, in ticks
  EditsAllowed,  \* whether the rules change during a run
  LockMayFail,      \* whether logind may fail to pass on a lock request
  TerminateMayFail, \* whether logind may fail to end a session
  StoreMayFail,     \* whether the database may ever return errors
  Unreadable,       \* sessions whose properties logind may fail to return
  ClockBack         \* how far behind the notice the clock may be set, in ticks

LockAction == {"Lock", "Terminate", "LockThenTerminate"}

Policy == [enforcement : BOOLEAN,
           onExhausted : LockAction,
           grace : 0 .. LongestGrace,
           onTamper : {"CountAndReport", "LockImmediately"}]

ASSUME TickerAssumption ==
  /\ {Console, Unreadable} \subseteq SUBSET Session
  /\ None \notin Policy
  /\ Policies \subseteq Policy \cup {None}
  /\ {LongestGrace, ClockBack} \subseteq Nat
  /\ {EditsAllowed, LockMayFail, TerminateMayFail, StoreMayFail}
       \subseteq BOOLEAN
  /\ None \notin Nat

VARIABLES
  phase,    \* UserState.phase
  waited,   \* ticks since Phase::Grace.since by the clock, at most LongestGrace
  session,  \* what logind says of each session
  asked,    \* sessions a lock request is on its way to
  policy,   \* the user's file in policy.d
  member,   \* is_member(user, managed_group) = Some(true)
  flag,     \* the file DISABLE_FLAG exists
  timeUp,   \* the stored figures leave nothing of some limit
  silent,   \* no fresh agent report with focus tracking
  broken,   \* the database may return an error at any call
  did,      \* history: what the last tick did
  notice    \* history: ticks since the notice of the running lockout that
            \* is on record, and ticks the clock was set forward by since,
            \* counted until the sessions end; None without a notice

daemon == <<phase, waited>>
desktop == <<session, asked>>
world == <<policy, member, flag, timeUp, silent, broken>>
history == <<did, notice>>
vars == <<daemon, desktop, world, history>>

Nothing == [notice |-> FALSE, locks |-> {}, ends |-> {}]

SessionState == {"gone", "unlocked", "locked"}

TypeOK ==
  /\ phase \in {"Running", "Grace", "Enforced"}
  /\ waited \in (-ClockBack) .. LongestGrace
  /\ session \in [Session -> SessionState]
  /\ asked \subseteq Session
  /\ policy \in Policy \cup {None}
  /\ member \in BOOLEAN
  /\ flag \in BOOLEAN
  /\ timeUp \in BOOLEAN
  /\ silent \in BOOLEAN
  /\ broken \in BOOLEAN
  /\ did \in [notice : BOOLEAN, locks : SUBSET Session, ends : SUBSET Session]
  /\ notice \in 0 .. LongestGrace \cup {None}
  /\ phase # "Grace" => waited = 0
  /\ \A s \in asked : session[s] # "gone" /\ s \notin Console

Init ==
  /\ phase = "Running"
  /\ waited = 0
  /\ session = [s \in Session |-> "gone"]
  /\ asked = {}
  /\ policy \in Policies
  /\ member \in BOOLEAN
  /\ flag = FALSE
  /\ timeUp = FALSE
  /\ silent \in BOOLEAN
  /\ broken = FALSE
  /\ did = Nothing
  /\ notice = None

-----------------------------------------------------------------------------
(***************************************************************************)
(* What a tick finds.  Logind::sessions asks for the properties of each    *)
(* session: one that does not answer is left out, as if it had vanished,   *)
(* and one whose LockedHint alone is missing counts as unlocked.           *)
(***************************************************************************)
Reads(s) ==
  IF s \in Unreadable /\ session[s] # "gone"
  THEN {session[s], "unlocked", "gone"} ELSE {session[s]}

Views ==
  {view \in [Session -> SessionState] :
     \A s \in Session : view[s] \in Reads(s)}

Lockable(view) == {s \in Session : view[s] # "gone"}

Capped(ticks) == IF ticks < LongestGrace THEN ticks ELSE LongestGrace

Later(ticks) == Capped(ticks + 1)

Terminates == policy.onExhausted \in {"Terminate", "LockThenTerminate"}

(***************************************************************************)
(* tb_core::evaluate: rules that only observe allow everything.            *)
(***************************************************************************)
Denied == policy.enforcement /\ timeUp

(***************************************************************************)
(* The early returns of tick_user: no rules, unreadable rules, the         *)
(* emergency brake, a user outside the managed group.                      *)
(***************************************************************************)
Managed == policy # None /\ ~flag /\ member

(***************************************************************************)
(* Somebody may be at work: an unlocked desktop may be in the foreground.  *)
(***************************************************************************)
AtWork(view) == {FALSE} \cup
  {TRUE : s \in {d \in Session \ Console : view[d] = "unlocked"}}

(***************************************************************************)
(* Blind tracking in a strict household, or the verdict, ends the session. *)
(***************************************************************************)
MustClose(atWork) ==
  \/ atWork /\ silent /\ policy.onTamper = "LockImmediately"
  \/ Denied

(***************************************************************************)
(* Every subset of the targets may be what a failing logind leaves: a      *)
(* refused request is logged and the loop goes on with the next session.   *)
(***************************************************************************)
Reached(targets, mayFail) == IF mayFail THEN SUBSET targets ELSE {targets}

(***************************************************************************)
(* The clock between two ticks, as the grace period sees it.               *)
(***************************************************************************)
GraceAges == waited' = IF phase = "Grace" THEN Later(waited) ELSE 0

NoticeAges == notice' = IF phase = "Grace" THEN Later(notice) ELSE notice

SendLocksToConsoles(sent) ==
  /\ asked' = asked \cup sent
  /\ UNCHANGED session

SendLocks(sent) ==
  /\ asked' = asked \cup (sent \ Console)
  /\ UNCHANGED session

-----------------------------------------------------------------------------
(***************************************************************************)
(* One tick.  An early return or an error leaves the phase as it is.       *)
(***************************************************************************)
Skipped ==
  /\ ~Managed \/ broken
  /\ GraceAges /\ NoticeAges
  /\ did' = Nothing
  /\ UNCHANGED <<phase, desktop>>

RestoreForgotten ==
  /\ did' = Nothing
  /\ UNCHANGED <<daemon, desktop, notice>>

(***************************************************************************)
(* Verdict::Allowed: access came back, or never went away.                 *)
(***************************************************************************)
Restore ==
  /\ phase' = "Running"
  /\ waited' = 0
  /\ did' = Nothing
  /\ notice' = None
  /\ UNCHANGED desktop

(***************************************************************************)
(* enforce() with no session to act on.                                    *)
(***************************************************************************)
NobodyThere(view) ==
  /\ Lockable(view) = {}
  /\ Restore

ToCloseAlways(view) == Lockable(view)

(***************************************************************************)
(* The sessions locked as soon as time is up: plain Terminate leaves the   *)
(* screen usable.                                                          *)
(***************************************************************************)
ToClose(view) ==
  IF policy.onExhausted = "Terminate" THEN {} ELSE Lockable(view)

(***************************************************************************)
(* enforce() in Phase::Running.  When the event cannot be recorded, `?'    *)
(* returns with the notice given, the locks sent and the phase unchanged,  *)
(* and the next tick does all of it again.                                 *)
(***************************************************************************)
CloseSession(view) ==
  /\ phase = "Running" /\ Lockable(view) # {}
  /\ \E sent \in Reached(ToClose(view), LockMayFail) :
       /\ SendLocks(sent)
       /\ did' = [notice |-> TRUE, locks |-> sent, ends |-> {}]
  /\ waited' = 0
  /\ \/ phase' = (IF Terminates THEN "Grace" ELSE "Enforced") /\ notice' = 0
     \/ broken /\ UNCHANGED <<phase, notice>>

(***************************************************************************)
(* The wait is what the wall clock says, and the grace period is that of   *)
(* the rules in force at this tick, not the one the notice named.  A clock *)
(* set back makes the wait negative, which u64::try_from turns into none.  *)
(***************************************************************************)
Elapsed == IF Later(waited) < 0 THEN 0 ELSE Later(waited)

GraceOverEarly == Elapsed + 1 >= policy.grace

GraceOver == Elapsed >= policy.grace

(***************************************************************************)
(* enforce() in Phase::Grace.  The rules are not asked again what was to   *)
(* happen after the grace period, only how long it is, and a session that  *)
(* could not be ended is not tried again.                                  *)
(***************************************************************************)
GraceGoesOn(view) ==
  /\ phase = "Grace" /\ Lockable(view) # {}
  /\ ~GraceOver
  /\ GraceAges /\ NoticeAges
  /\ did' = Nothing
  /\ UNCHANGED <<phase, desktop>>

End(ended) ==
  /\ session' = [s \in Session |-> IF s \in ended THEN "gone" ELSE session[s]]
  /\ asked' = asked \ ended
  /\ did' = [notice |-> FALSE, locks |-> {}, ends |-> ended]

EndSessionsInsisting(view) ==
  /\ phase = "Grace" /\ Lockable(view) # {}
  /\ GraceOver
  /\ \E ended \in Reached(Lockable(view), TerminateMayFail) :
       /\ End(ended)
       /\ phase' = IF ended = Lockable(view) THEN "Enforced" ELSE "Grace"
  /\ waited' = 0
  /\ NoticeAges

EndSessions(view) ==
  /\ phase = "Grace" /\ Lockable(view) # {}
  /\ GraceOver
  /\ \E ended \in Reached(Lockable(view), TerminateMayFail) : End(ended)
  /\ phase' = "Enforced"
  /\ waited' = 0
  /\ NoticeAges

StraysOfAnyState(view) == ToClose(view)

StraysLeftAlone(view) == {}

(***************************************************************************)
(* enforce() in Phase::Enforced: belt and braces.                          *)
(***************************************************************************)
Strays(view) == {s \in ToClose(view) : view[s] = "unlocked"}

LockStrays(view) ==
  /\ phase = "Enforced" /\ Lockable(view) # {}
  /\ \E sent \in Reached(Strays(view), LockMayFail) :
       /\ SendLocks(sent)
       /\ did' = [notice |-> FALSE, locks |-> sent, ends |-> {}]
  /\ NoticeAges
  /\ UNCHANGED <<phase, waited>>

Enforce(view) ==
  \/ NobodyThere(view)
  \/ CloseSession(view)
  \/ GraceGoesOn(view)
  \/ EndSessions(view)
  \/ LockStrays(view)

Tick ==
  /\ \/ Skipped
     \/ /\ Managed
        /\ \E view \in Views : \E atWork \in AtWork(view) :
             IF MustClose(atWork) THEN Enforce(view) ELSE Restore
  /\ UNCHANGED world

-----------------------------------------------------------------------------
(***************************************************************************)
(* What happens between ticks.  PAM refuses whom the engine denies         *)
(* (Responder::answer); it does not know about blind tracking, and it      *)
(* stands aside when the database fails it.                                *)
(***************************************************************************)
PamDenies == Managed /\ Denied

Admitted == ~PamDenies \/ broken

Between == UNCHANGED <<daemon, world, notice>> /\ did' = Nothing

Login(s) ==
  /\ session[s] = "gone" /\ Admitted
  /\ session' = [session EXCEPT ![s] = "unlocked"]
  /\ Between
  /\ UNCHANGED asked

Logout(s) ==
  /\ session[s] # "gone"
  /\ session' = [session EXCEPT ![s] = "gone"]
  /\ asked' = asked \ {s}
  /\ Between

Unlock(s) ==
  /\ session[s] = "locked" /\ Admitted
  /\ session' = [session EXCEPT ![s] = "unlocked"]
  /\ Between
  /\ UNCHANGED asked

LockSelf(s) ==
  /\ session[s] = "unlocked" /\ s \notin Console
  /\ session' = [session EXCEPT ![s] = "locked"]
  /\ Between
  /\ UNCHANGED asked

(***************************************************************************)
(* The desktop gets to the lock request and sets LockedHint.               *)
(***************************************************************************)
Obey(s) ==
  /\ s \in asked
  /\ session' = [session EXCEPT ![s] = "locked"]
  /\ asked' = asked \ {s}
  /\ Between

(***************************************************************************)
(* Time runs out, a bonus or a new day brings it back; an agent stops or   *)
(* reports again; the brake, the group and the rules are in other hands;   *)
(* the disk fills up or is emptied.                                        *)
(***************************************************************************)
WorldChanges ==
  /\ \/ timeUp' = ~timeUp /\ UNCHANGED <<policy, member, flag, silent, broken>>
     \/ silent' = ~silent /\ UNCHANGED <<policy, member, flag, timeUp, broken>>
     \/ flag' = ~flag /\ UNCHANGED <<policy, member, timeUp, silent, broken>>
     \/ member' = ~member /\ UNCHANGED <<policy, flag, timeUp, silent, broken>>
     \/ /\ StoreMayFail
        /\ broken' = ~broken
        /\ UNCHANGED <<policy, member, flag, timeUp, silent>>
     \/ /\ EditsAllowed
        /\ policy' \in Policies \ {policy}
        /\ UNCHANGED <<member, flag, timeUp, silent, broken>>
  /\ did' = Nothing
  /\ UNCHANGED <<daemon, desktop, notice>>

(***************************************************************************)
(* The machine sleeps: the clock the grace period is measured with goes on.*)
(***************************************************************************)
Suspend ==
  /\ phase = "Grace"
  /\ waited' = LongestGrace
  /\ notice' = LongestGrace
  /\ did' = Nothing
  /\ UNCHANGED <<phase, desktop, world>>

(***************************************************************************)
(* The clock is set back during a grace period, also to before it began.   *)
(***************************************************************************)
ClockSetBack ==
  /\ phase = "Grace"
  /\ waited' \in (-ClockBack) .. (waited - 1)
  /\ did' = Nothing
  /\ UNCHANGED <<phase, desktop, world, notice>>

(***************************************************************************)
(* The clock is set forward during a grace period, by hand or by time      *)
(* synchronisation: the wait grows and nobody has waited.                  *)
(***************************************************************************)
ClockSetForward ==
  /\ phase = "Grace"
  /\ waited' \in (waited + 1) .. LongestGrace
  /\ notice' = Capped(notice + (waited' - waited))
  /\ did' = Nothing
  /\ UNCHANGED <<phase, desktop, world>>

(***************************************************************************)
(* What a new Ticker knows of a user.                                      *)
(***************************************************************************)
Fresh ==
  /\ phase' = "Running"
  /\ waited' = 0
  /\ notice' = None

(***************************************************************************)
(* The daemon restarts, or Ticker::tick could not list the sessions or the *)
(* subjects at all: run_ticks drops the Ticker and makes a new one.        *)
(***************************************************************************)
TickerLost ==
  /\ Fresh
  /\ did' = Nothing
  /\ UNCHANGED <<desktop, world>>

Next ==
  \/ Tick
  \/ \E s \in Session :
       Login(s) \/ Logout(s) \/ Unlock(s) \/ LockSelf(s) \/ Obey(s)
  \/ WorldChanges
  \/ Suspend
  \/ ClockSetBack
  \/ ClockSetForward
  \/ TickerLost

Spec == Init /\ [][Next]_vars

(***************************************************************************)
(* run_ticks never stops ticking, a desktop gets to its lock requests, and *)
(* logind does not refuse the same request every time it is made, nor fail *)
(* to read the same session every time it would have been locked.          *)
(***************************************************************************)
Fairness ==
  /\ WF_vars(Tick)
  /\ \A s \in Session : WF_vars(Obey(s))
  /\ \A s \in Session : SF_vars(Tick /\ s \in did'.locks)

FairSpec == Spec /\ Fairness

-----------------------------------------------------------------------------
(***************************************************************************)
(* Nobody is thrown out unannounced: whatever the group, the brake, the    *)
(* database and the clock do in between, a session is ended only when the  *)
(* user was told in the running lockout and the grace period has passed    *)
(* since.  It is the grace period of the rules as they are by then, which  *)
(* an edit may have made shorter than the notice said; and time the clock  *)
(* was set forward by counts as passed, since the wait is read off it.     *)
(***************************************************************************)
EndedOnlyAfterGrace ==
  [][did'.ends # {} =>
       notice # None /\ Later(notice) >= policy.grace]_vars

(***************************************************************************)
(* Locking is an edge, not a level: once the notice of a lockout is on     *)
(* record the user is not told again, and a session that is locked is not  *)
(* sent the request again, as long as logind says that it is.              *)
(***************************************************************************)
LockIsAnEdge ==
  [][notice # None => /\ ~did'.notice
                      /\ \A s \in did'.locks \ Unreadable :
                           session[s] = "unlocked"]_vars

(***************************************************************************)
(* docs/architecture.md and Policy.enforcement: rules that only observe    *)
(* close nothing.                                                          *)
(***************************************************************************)
ObserveOnly ==
  [][did'.notice \/ did'.locks # {} => policy.enforcement]_vars

(***************************************************************************)
(* When time stays up, every desktop is locked or gone in the end, past    *)
(* failing lock requests, sessions that could not be ended or were left    *)
(* out of the list, unlocking just before, logging in elsewhere, a         *)
(* database that failed for a while and a clock set back now and then, for *)
(* the settings that lock.                                                 *)
(***************************************************************************)
Desktops == Session \ Console

ClockSettles == <>[][~ClockSetBack]_vars

LockedInTheEnd ==
  <>[](PamDenies /\ ~broken /\ policy.onExhausted # "Terminate") /\ ClockSettles
    => <>[](\A s \in Desktops : session[s] # "unlocked")

(***************************************************************************)
(* When access came back for good, the escalation is over and no late lock *)
(* request disturbs the user: nothing is left to be sent.                  *)
(***************************************************************************)
RestoredInTheEnd ==
  <>[](Managed /\ ~broken /\ \A atWork \in BOOLEAN : ~MustClose(atWork))
    => <>[](phase = "Running" /\ asked = {})

(***************************************************************************)
(* A grace period ends although the machine sleeps, the clock is set back  *)
(* and the database fails for a while, and whatever the rules become, none *)
(* of which has a longer grace period than LongestGrace.                   *)
(***************************************************************************)
GraceEnds ==
  <>[](Managed /\ ~broken) /\ ClockSettles
    => (phase = "Grace" ~> phase # "Grace")
=============================================================================
