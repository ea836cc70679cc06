---------------------------- MODULE TickAccounting ----------------------------
(***************************************************************************)
(* The accounting half of the tick loop, for one user: Ticker::tick_user   *)
(* and build_tick (tick.rs) turn what logind and the agent say into one    *)
(* observation, the SegmentBuilder turns it into rows, Store::snapshot     *)
(* (store.rs) sums the rows of the policy day, tb_core::evaluate compares  *)
(* the sum with the daily quota, and apply_verdict warns.                  *)
(*                                                                         *)
(* Between ticks a parent grants bonus time and the daemon may be lost.    *)
(* The policy day is DayLength seconds; weekly quotas and allowed windows  *)
(* only deny more, and what denial does to sessions is Ticker's business.  *)
(***************************************************************************)
EXTENDS UsageSegments, SequencesExt

CONSTANTS
  Quota,          \* the daily quota of the policy, in seconds
  Warnings,       \* policy.warnings
  IdleThreshold,  \* policy.idle_threshold
  NotifyAfter,    \* how long the compositor waits before it says `idled'
  AgentMayFail,   \* whether a report may be missing, the idle clock stop
  DayLength,      \* the length of a policy day
  BonusAmount,    \* seconds a grant is worth
  MaxGrants,      \* bound: grants in a run
  MaxLosses,      \* bound: crashes and failed inserts in a run
  Horizon         \* bound: the last second of a run

ASSUME AccountingAssumption ==
  /\ {Quota, IdleThreshold, NotifyAfter, BonusAmount, MaxGrants, MaxLosses,
      Horizon} \subseteq Nat
  /\ AgentMayFail \in BOOLEAN
  /\ Warnings \subseteq Nat
  /\ DayLength \in Nat \ {0}
  /\ None \notin {"Allowed", "Denied"}

VARIABLES
  open,     \* UserState.builder.open
  rows,     \* the user's rows in usage_segment
  clock,    \* when the user was last ticked
  lastTick, \* UserState.last_tick
  warned,   \* UserState.warned
  warnedOn, \* UserState.warned_on
  bonus,    \* the sum over bonus_grant, per policy day
  verdict,  \* what the last tick concluded, None when it did not get there
  typed,    \* when somebody last touched the keyboard or the mouse
  idled,    \* IdleClock: when the compositor said `idled', None if it did not
  watching, \* the agent's idle listener runs
  worked,   \* history: seconds today between two ticks that found work
  active,   \* history: at the last tick somebody was at work
  said,     \* history: the warnings of the policy day, whoever gave them
  renewed,  \* history: how many of them before the ticker now running
  refused,  \* history: the limit at the last denial of the day, or None
  losses    \* history: how often a segment could get lost

accounts == <<open, rows>>
user == <<lastTick, warned, warnedOn>>
told == <<said, renewed, refused>>
history == <<worked, active, told, losses>>
input == <<typed, idled, watching>>
vars == <<accounts, clock, user, bonus, verdict, input, history>>

Days == 0 .. Horizon \div DayLength

Today(now) == now \div DayLength

DayStart(now) == Today(now) * DayLength

(***************************************************************************)
(* A warning: the time it names, and the limit that was left of.           *)
(***************************************************************************)
Warning == [left : Nat, limit : Nat]

TypeOK ==
  /\ open \in OpenSegment \cup {None}
  /\ rows \in Seq(Segment)
  /\ clock \in 0 .. Horizon
  /\ lastTick \in 0 .. Horizon \cup {None}
  /\ warned \subseteq Warnings
  /\ warnedOn \in Days \cup {None}
  /\ bonus \in [Days -> Nat]
  /\ verdict \in {"Allowed", "Denied", None}
  /\ typed \in 0 .. clock
  /\ idled \in 0 .. clock \cup {None}
  /\ watching \in BOOLEAN
  /\ worked \in Nat
  /\ active \in BOOLEAN
  /\ said \in Seq(Warning)
  /\ renewed \in 0 .. Len(said)
  /\ refused \in Nat \cup {None}
  /\ losses \in 0 .. MaxLosses
  /\ lastTick = None => open = None /\ warned = {}
  /\ lastTick # None => lastTick = clock

(***************************************************************************)
(* Whether the compositor offers the protocol the idle listener needs.     *)
(***************************************************************************)
Supported == {TRUE, ~AgentMayFail}

Init ==
  /\ open = None
  /\ rows = << >>
  /\ clock = 0
  /\ lastTick = None
  /\ warned = {}
  /\ warnedOn = None
  /\ bonus = [d \in Days |-> 0]
  /\ verdict = None
  /\ typed = 0
  /\ idled = None
  /\ watching \in Supported
  /\ worked = 0
  /\ active = FALSE
  /\ said = << >>
  /\ renewed = 0
  /\ refused = None
  /\ losses = 0

-----------------------------------------------------------------------------
(***************************************************************************)
(* Store::usage_between for the policy day so far: every row clipped to    *)
(* the window [start of the day, now).                                     *)
(***************************************************************************)
Smaller(a, b) == IF a < b THEN a ELSE b

Larger(a, b) == IF a > b THEN a ELSE b

UsedInLastDay(stored, now) ==
  FoldLeft(LAMBDA sum, row :
             sum + Larger(0, Smaller(row.end, now)
                               - Larger(row.start, now - DayLength)),
           0, stored)

UsedToday(stored, now) ==
  FoldLeft(LAMBDA sum, row :
             sum + Larger(0, Smaller(row.end, now)
                               - Larger(row.start, DayStart(now))),
           0, stored)

(***************************************************************************)
(* evaluate(): the quota of the day, bonus included.                       *)
(***************************************************************************)
Limit(now) == Quota + bonus[Today(now)]

RemainingUnsaturated(stored, now) == Limit(now) - UsedToday(stored, now)

Remaining(stored, now) == Larger(0, Limit(now) - UsedToday(stored, now))

(***************************************************************************)
(* The listener hears `idled' when nothing has been touched for a while,   *)
(* and `resumed'; without it the clock stays as it is.                     *)
(***************************************************************************)
IdledNeverResumed(now, touched) ==
  IF ~watching \/ now - touched < NotifyAfter
  THEN idled ELSE touched + NotifyAfter

Idled(now, touched) ==
  IF ~watching THEN idled
  ELSE IF now - touched < NotifyAfter THEN None ELSE touched + NotifyAfter

(***************************************************************************)
(* IdleClock::idle_secs: zero while the user is active, else the time the  *)
(* compositor waited and the time since.                                   *)
(***************************************************************************)
IdleSecs(now, since) == IF since = None THEN 0 ELSE NotifyAfter + (now - since)

(***************************************************************************)
(* build_tick: nobody at work; idle for longer than the household          *)
(* tolerates, dated back to when that began but not before the last tick;  *)
(* or at work in some application, `unknown' when no agent reports.  idle  *)
(* is what the report says, None without one.                              *)
(***************************************************************************)
IdleSince(began) ==
  IF lastTick = None THEN began ELSE Larger(began, lastTick)

Observation(now, atWork, idle, app) ==
  IF ~atWork THEN [at |-> now, app |-> None]
  ELSE IF idle # None /\ idle >= IdleThreshold
  THEN [at |-> IdleSince(now - idle), app |-> None]
  ELSE [at |-> now, app |-> app]

-----------------------------------------------------------------------------
CrossedAgain(remaining, before) == {w \in Warnings : remaining <= w}

(***************************************************************************)
(* The thresholds crossed since they were last marked.                     *)
(***************************************************************************)
Crossed(remaining, before) == {w \in Warnings : remaining <= w} \ before

(***************************************************************************)
(* The history of a policy day ends with the day and with nothing else.    *)
(***************************************************************************)
DayGoesOn(now) == Today(clock) = Today(now)

SaidToday(now) == IF DayGoesOn(now) THEN said ELSE << >>

RefusedToday(now) == IF DayGoesOn(now) THEN refused ELSE None

RenewedToday(now) == IF DayGoesOn(now) THEN renewed ELSE 0

(***************************************************************************)
(* apply_verdict for Verdict::Allowed: a new day starts quiet, and all     *)
(* thresholds crossed at once are one warning.                             *)
(***************************************************************************)
Allow(now, remaining, atWork) ==
  LET before == IF warnedOn = Today(now) THEN warned ELSE {}
      crossed == IF atWork THEN Crossed(remaining, before) ELSE {}
      warning == [left |-> remaining, limit |-> Limit(now)]
  IN /\ verdict' = "Allowed"
     /\ warnedOn' = Today(now)
     /\ warned' = before \cup crossed
     /\ said' = IF crossed = {} THEN SaidToday(now)
                ELSE Append(SaidToday(now), warning)
     /\ refused' = RefusedToday(now)

Deny(now) ==
  /\ verdict' = "Denied"
  /\ said' = SaidToday(now)
  /\ refused' = Limit(now)
  /\ UNCHANGED <<warned, warnedOn>>

(***************************************************************************)
(* The tick ends before the verdict: the emergency brake, a user outside   *)
(* the managed group, or blind tracking in a strict household.             *)
(***************************************************************************)
RecordOnly(now) ==
  /\ verdict' = None
  /\ said' = SaidToday(now)
  /\ refused' = RefusedToday(now)
  /\ UNCHANGED <<warned, warnedOn>>

Decide(stored, now, atWork) ==
  \/ Remaining(stored, now) = 0 /\ Deny(now)
  \/ /\ Remaining(stored, now) # 0
     /\ Allow(now, Remaining(stored, now), atWork)
  \/ RecordOnly(now)

(***************************************************************************)
(* The database refuses the row, which is then gone, or the sum: either    *)
(* way tick_user returns early and nothing is decided.                     *)
(***************************************************************************)
Fail(stored, now) ==
  /\ losses < MaxLosses
  /\ losses' = losses + 1
  /\ rows' \in {rows, stored}
  /\ RecordOnly(now)

(***************************************************************************)
(* Seconds of the policy day between the last tick and this one.           *)
(***************************************************************************)
SinceLastTick(now) == now - Larger(clock, DayStart(now))

Watch(now, atWork, touched) ==
  LET before == IF DayGoesOn(now) THEN worked ELSE 0
      works == atWork /\ now - touched < IdleThreshold
      counts == active /\ works /\ now - clock <= MaxGap
  IN /\ worked' = before + IF counts THEN SinceLastTick(now) ELSE 0
     /\ active' = works

NextTick ==
  IF lastTick = None THEN clock + 1 .. Horizon
  ELSE clock + TickInterval .. Horizon

(***************************************************************************)
(* tick_user, accounting half.  run_ticks sleeps at least an interval      *)
(* between passes, and a suspend only makes the next one later.            *)
(***************************************************************************)
TickUser ==
  \E now \in NextTick, atWork \in BOOLEAN, app \in App, silent \in {FALSE, AgentMayFail} :
  \E touched \in {typed, now} :
    /\ LET since == Idled(now, touched)
           idle == IF silent THEN None ELSE IdleSecs(now, since)
           observation == Observation(now, atWork, idle, app)
           stored == rows \o Closed(open, observation)
       IN /\ idled' = since
          /\ open' = NextOpen(open, observation)
          /\ \/ /\ rows' = stored
                /\ Decide(stored, now, atWork)
                /\ UNCHANGED losses
             \/ Fail(stored, now)
    /\ Watch(now, atWork, touched)
    /\ renewed' = RenewedToday(now)
    /\ clock' = now
    /\ lastTick' = now
    /\ typed' = touched
    /\ UNCHANGED <<bonus, watching>>

(***************************************************************************)
(* Store::add_bonus, through the CLI, for the policy day it is.            *)
(***************************************************************************)
GrantBonus ==
  /\ bonus[Today(clock)] + BonusAmount <= MaxGrants * BonusAmount
  /\ bonus' = [bonus EXCEPT ![Today(clock)] = @ + BonusAmount]
  /\ verdict' = None
  /\ UNCHANGED <<accounts, clock, user, input, history>>

(***************************************************************************)
(* A crash, or run_ticks dropping the Ticker when logind is lost: the open *)
(* segment and the marks of the warnings given are forgotten, the day and  *)
(* what the user was told are not.                                         *)
(***************************************************************************)
TickerLost ==
  /\ losses < MaxLosses /\ lastTick # None
  /\ losses' = losses + 1
  /\ open' = None
  /\ lastTick' = None
  /\ warned' = {}
  /\ warnedOn' = None
  /\ verdict' = None
  /\ active' = FALSE
  /\ renewed' = Len(said)
  /\ UNCHANGED <<rows, clock, bonus, input, worked, said, refused>>

(***************************************************************************)
(* idle::run returns when its connection drops, and nobody starts it again *)
(* or resets the clock it leaves behind.                                   *)
(***************************************************************************)
ListenerEnds ==
  /\ AgentMayFail
  /\ watching
  /\ watching' = FALSE
  /\ UNCHANGED <<accounts, clock, user, bonus, verdict, typed, idled, history>>

(***************************************************************************)
(* The bounded run ends at the horizon.                                    *)
(***************************************************************************)
Done ==
  /\ clock + TickInterval > Horizon
  /\ UNCHANGED vars

Next ==
  \/ TickUser
  \/ GrantBonus
  \/ TickerLost
  \/ ListenerEnds
  \/ Done

Spec == Init /\ [][Next]_vars

-----------------------------------------------------------------------------
(***************************************************************************)
(* How far a child can get past the quota: only stored segments count, so  *)
(* as long as a tick still allows more, the time observed today is below   *)
(* the limit plus the one segment that is open and, for each crash or      *)
(* failed write, plus the segment lost with it, which the tick that closes *)
(* it may have prolonged by a gap.  Not reporting gains nothing, and an    *)
(* idle listener that ends charges all time, unless it ends while nobody   *)
(* is there: then the clock it leaves behind runs on.                      *)
(***************************************************************************)
OverrunBounded ==
  verdict = "Allowed" /\ (watching \/ idled = None) =>
    worked < Limit(clock) + MaxSegment + losses * (MaxSegment + MaxGap)

(***************************************************************************)
(* On one policy day each warning names less time than the ones before,    *)
(* whatever bonus came in between, as long as the same ticker gives them.  *)
(* A ticker started anew, by a daemon restart or because logind was lost,  *)
(* has forgotten the marks and may tell the user the same again; but not   *)
(* that more of the same limit is left, also when rows were lost.          *)
(***************************************************************************)
WarningsEscalate ==
  \A i, j \in DOMAIN said : i < j =>
    \/ said[j].left < said[i].left
    \/ /\ i <= renewed
       /\ said[j].left - said[j].limit <= said[i].left - said[i].limit

(***************************************************************************)
(* A verdict does not flicker: once a tick of a policy day has denied, no  *)
(* later tick of that day allows more unless a bonus was granted since,    *)
(* past ticks that were skipped or failed and past restarts.  (The rules   *)
(* do not change here.)                                                    *)
(***************************************************************************)
DenialLasts ==
  verdict = "Allowed" /\ refused # None => refused < Limit(clock)

(***************************************************************************)
(* The comment in build_tick: crediting stops when the inactivity began,   *)
(* not when it was noticed; otherwise the threshold itself is charged.     *)
(* So the row closed by the tick that notices it, of a segment open at the *)
(* last touch, ends at most a tick after that touch.  (Without anybody at  *)
(* work a segment ends at the tick itself; that is not what is meant.)     *)
(***************************************************************************)
CreditStopsWhenIdleBegan ==
  [][\A i \in DOMAIN rows' \ DOMAIN rows :
       /\ clock' - typed' >= IdleThreshold
       /\ rows'[i].start <= typed' /\ rows'[i].end < clock'
       => rows'[i].end <= typed' + TickInterval]_vars
=============================================================================
