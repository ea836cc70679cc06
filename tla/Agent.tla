-------------------------------- MODULE Agent --------------------------------
(***************************************************************************)
(* The agent in a child's session and the daemon's agent socket.  Every    *)
(* few seconds report_once (tb-agent/src/main.rs) sends what the session   *)
(* sees, with the child's request for more time riding along, and takes in *)
(* the answer; Receiver::accept (agentserver.rs) notes the request and the *)
(* report.  The answer may be late or lost, the daemon may restart and the *)
(* agent may be killed.                                                    *)
(*                                                                         *)
(* A round is one step of the agent: its loop awaits the exchange before   *)
(* it looks at the button again.  What an abandoned connection does later  *)
(* is a step of the daemon's.  Ages count rounds up to the bound they are  *)
(* compared with, so that runs need no horizon.  What the engine says of   *)
(* the child comes and goes at will: it is the business of TickAccounting. *)
(***************************************************************************)
EXTENDS Announcements

CONSTANTS
  FocusFreshness,  \* FOCUS_FRESHNESS, in rounds
  ReportMaxAge,    \* the tick loop's report_max_age, in rounds
  QuietPeriod,     \* QUIET_PERIOD between two recorded requests, in rounds
  StoreMayFail,    \* whether the database may refuse an event
  MayBeKilled      \* whether the agent and the script are stopped in a run

ASSUME AgentAssumption ==
  /\ FocusFreshness \in Nat
  /\ ReportMaxAge \in Nat
  /\ QuietPeriod \in Nat
  /\ {StoreMayFail, MayBeKilled} \subseteq BOOLEAN

VARIABLES
  alive,      \* the agent runs
  pending,    \* pending_request holds a request
  focusAge,   \* rounds since AgentState.focus_at, at most FocusFreshness
  script,     \* the compositor script is loaded
  observed,   \* AgentReports: the last report and its age
  lastAsked,  \* rounds since the last MoreTimeRequested, at most QuietPeriod
  late,       \* the report of a connection the agent gave up on, or None
  verdict,    \* what evaluate() makes of rules and stored figures
  owed        \* history: a press the parents do not know of yet

daemon == <<observed, lastAsked, late, verdict>>
vars == <<voice, alive, pending, focusAge, script, daemon, owed>>

Report == [tracking : BOOLEAN, asks : BOOLEAN]

NoReport == [tracking |-> FALSE, age |-> ReportMaxAge + 1]

TypeOK ==
  /\ VoiceTypeOK
  /\ alive \in BOOLEAN
  /\ pending \in BOOLEAN
  /\ focusAge \in 0 .. FocusFreshness
  /\ script \in BOOLEAN
  /\ observed \in [tracking : BOOLEAN, age : 0 .. ReportMaxAge + 1]
  /\ lastAsked \in 0 .. QuietPeriod
  /\ late \in Report \cup {None}
  /\ verdict \in Answer
  /\ owed \in BOOLEAN

Init ==
  /\ VoiceInit
  /\ alive = TRUE
  /\ pending = FALSE
  /\ focusAge = FocusFreshness
  /\ script = FALSE
  /\ observed = NoReport
  /\ lastAsked = QuietPeriod
  /\ late = None
  /\ verdict \in Answer
  /\ owed = FALSE

-----------------------------------------------------------------------------
OlderUnbounded(age, bound) == age + 1

Older(age, bound) == IF age < bound THEN age + 1 ELSE bound

ObservedOlder ==
  IF observed.age < ReportMaxAge
  THEN [observed EXCEPT !.age = @ + 1]
  ELSE NoReport

(***************************************************************************)
(* AgentState::focus_tracking, and what tick_user makes of the report.     *)
(***************************************************************************)
FocusEverTracked == focusAge <= FocusFreshness

FocusTracking == focusAge < FocusFreshness

TrackingBlind == observed.age > ReportMaxAge \/ ~observed.tracking

(***************************************************************************)
(* The report of this round: the request is taken out of pending_request.  *)
(***************************************************************************)
Now == [tracking |-> FocusTracking, asks |-> pending]

(***************************************************************************)
(* The events on record: whether the last request is too recent, and a new *)
(* one.                                                                    *)
(***************************************************************************)
AskedRecently(age) == age < QuietPeriod

RecordEvent == lastAsked' = 0

(***************************************************************************)
(* Receiver::record_request, `age' rounds after the last one: ignored in   *)
(* the quiet period, and an error of the database is not noticed.          *)
(***************************************************************************)
RecordRequest(age) ==
  IF AskedRecently(age)
  THEN lastAsked' = age /\ owed' = FALSE
  ELSE \/ RecordEvent /\ owed' = FALSE
       \/ StoreMayFail /\ lastAsked' = age /\ UNCHANGED owed

NoRequest(age) == lastAsked' = age /\ UNCHANGED owed

(***************************************************************************)
(* Receiver::accept: the request first, then the report, which counts as   *)
(* new whenever it was written.                                            *)
(***************************************************************************)
AcceptUnlessBlind(report, age) ==
  /\ IF report.asks /\ report.tracking
     THEN RecordRequest(age)
     ELSE NoRequest(age)
  /\ observed' = [tracking |-> report.tracking, age |-> 0]

Accept(report, age) ==
  /\ IF report.asks THEN RecordRequest(age) ELSE NoRequest(age)
  /\ observed' = [tracking |-> report.tracking, age |-> 0]

(***************************************************************************)
(* Receiver::state_for: an error of the database reads as "not managed".   *)
(***************************************************************************)
StateForCached == IF TrackingBlind THEN {verdict} ELSE {shown}

StateFor == {verdict} \cup (IF StoreMayFail THEN {Unmanaged} ELSE {})

(***************************************************************************)
(* The three ends of a round.                                              *)
(***************************************************************************)
Answered ==
  /\ alive
  /\ focusAge' = Older(focusAge, FocusFreshness)
  /\ Accept(Now, Older(lastAsked, QuietPeriod))
  /\ \E answer \in StateFor : Ingest(answer)
  /\ pending' = FALSE
  /\ UNCHANGED <<alive, script, late, verdict>>

PutBackForgotten ==
  /\ pending' = FALSE
  /\ Silence

PutBack ==
  /\ pending' = Now.asks
  /\ Silence

AnswerLost ==
  /\ alive
  /\ focusAge' = Older(focusAge, FocusFreshness)
  /\ Accept(Now, Older(lastAsked, QuietPeriod))
  /\ PutBack
  /\ UNCHANGED <<alive, script, late, verdict>>

NoAnswer ==
  /\ alive
  /\ focusAge' = Older(focusAge, FocusFreshness)
  /\ observed' = ObservedOlder
  /\ lastAsked' = Older(lastAsked, QuietPeriod)
  /\ late' \in {late, Now}
  /\ PutBack
  /\ UNCHANGED <<alive, script, verdict, owed>>

ReportOnce == Answered \/ AnswerLost \/ NoAnswer

(***************************************************************************)
(* No agent: only the daemon's clocks run.                                 *)
(***************************************************************************)
NobodyReports ==
  /\ ~alive
  /\ observed' = ObservedOlder
  /\ lastAsked' = Older(lastAsked, QuietPeriod)
  /\ Silence
  /\ UNCHANGED <<alive, pending, focusAge, script, late, verdict, owed>>

TimePasses == ReportOnce \/ NobodyReports

-----------------------------------------------------------------------------
(***************************************************************************)
(* The daemon gets to a report the agent has given up on.                  *)
(***************************************************************************)
AcceptLate ==
  /\ late # None
  /\ Accept(late, lastAsked)
  /\ late' = None
  /\ Silence
  /\ UNCHANGED <<alive, pending, focusAge, script, verdict>>

(***************************************************************************)
(* Reports live in memory and die with the daemon, requests are stored.    *)
(***************************************************************************)
DaemonRestarts ==
  /\ observed' = NoReport
  /\ late' = None
  /\ Silence
  /\ UNCHANGED <<alive, pending, focusAge, script, lastAsked, verdict, owed>>

(***************************************************************************)
(* The button, on notifications that carry one: main.rs does not ask which *)
(* notification it was, so that of an agent that is gone works as well.    *)
(***************************************************************************)
Press ==
  /\ alive
  /\ Standing # {}
  /\ pending' = TRUE
  /\ owed' = TRUE
  /\ Silence
  /\ UNCHANGED <<alive, focusAge, script, daemon>>

Dismiss ==
  /\ Dismissed
  /\ UNCHANGED <<alive, pending, focusAge, script, daemon, owed>>

(***************************************************************************)
(* The script reports as it is loaded and when another window is           *)
(* activated; a call nobody serves is lost.                                *)
(***************************************************************************)
ReportFocus ==
  /\ script' = TRUE
  /\ focusAge' = IF alive THEN 0 ELSE focusAge
  /\ Silence
  /\ UNCHANGED <<alive, pending, daemon, owed>>

ScriptStarts == ~script /\ ReportFocus

WindowActivated == script /\ ReportFocus

ScriptStops ==
  /\ MayBeKilled
  /\ script
  /\ script' = FALSE
  /\ Silence
  /\ UNCHANGED <<alive, pending, focusAge, daemon, owed>>

(***************************************************************************)
(* The agent dies with everything it knows, perhaps in the middle of an    *)
(* exchange, and is started again.                                         *)
(***************************************************************************)
AgentStops ==
  /\ MayBeKilled
  /\ alive
  /\ alive' = FALSE
  /\ pending' = FALSE
  /\ owed' = FALSE
  /\ focusAge' = FocusFreshness
  /\ late' \in {late, Now}
  /\ Forget
  /\ UNCHANGED <<script, observed, lastAsked, verdict>>

AgentStarts ==
  /\ ~alive
  /\ alive' = TRUE
  /\ Silence
  /\ UNCHANGED <<pending, focusAge, script, daemon, owed>>

(***************************************************************************)
(* The machine sleeps: the daemon's wall clock goes on, the agent's        *)
(* monotonic one does not.                                                 *)
(***************************************************************************)
Suspend ==
  /\ observed' = NoReport
  /\ lastAsked' = QuietPeriod
  /\ Silence
  /\ UNCHANGED <<alive, pending, focusAge, script, late, verdict, owed>>

(***************************************************************************)
(* Time runs out, a parent grants some, a window opens, the rules change.  *)
(***************************************************************************)
VerdictChanges ==
  /\ verdict' \in Answer
  /\ Silence
  /\ UNCHANGED <<alive, pending, focusAge, script, observed, lastAsked, late, owed>>

Next ==
  \/ Answered \/ AnswerLost \/ NoAnswer \/ NobodyReports
  \/ AcceptLate \/ DaemonRestarts
  \/ Press \/ Dismiss
  \/ ScriptStarts \/ WindowActivated \/ ScriptStops
  \/ AgentStops \/ AgentStarts
  \/ Suspend
  \/ VerdictChanges

Spec == Init /\ [][Next]_vars

(***************************************************************************)
(* Time passes, the agent's interval fires, and the daemon answers in time *)
(* again and again: nobody promises that it does so every round.           *)
(***************************************************************************)
Fairness == WF_vars(TimePasses) /\ SF_vars(Answered)

FairSpec == Spec /\ Fairness

-----------------------------------------------------------------------------
(***************************************************************************)
(* report_once: a request that reaches the daemon is done, and one that    *)
(* does not is put back and retried.  A press the parents do not know of   *)
(* is still waiting in the agent, past lost answers, timeouts, late        *)
(* handling and restarts of the daemon; stated for a database that works,  *)
(* since an error while recording the event is not noticed.                *)
(***************************************************************************)
RequestKept == owed => alive /\ pending

(***************************************************************************)
(* And a press becomes known to the parents in the end, by an event of its *)
(* own or one less than a quiet period old, unless the agent is killed.    *)
(***************************************************************************)
RequestHeard == []<>~owed

(***************************************************************************)
(* notify.rs: the warning is the part a child must not lose.  Whoever is   *)
(* refused for good is told "time is up" in the end as the last word, to   *)
(* stay on the screen unless the child dismisses it, past lost answers and *)
(* new agents; whoever has access again for good does not look at it in    *)
(* the end, once what agents left that are gone has been dismissed: no     *)
(* agent takes that back.  All of it unless the desktop fails to show the  *)
(* last announcement.                                                      *)
(***************************************************************************)
ToldInTheEnd ==
  /\ <>[](alive /\ ~lost /\ verdict.blocked) => <>[](banner = "Blocked")
  /\ <>[](alive /\ ~lost /\ ~verdict.blocked /\ "Blocked" \notin stale)
       => <>[]("Blocked" \notin Standing)

(***************************************************************************)
(* agentserver.rs: a killed agent is indistinguishable from one that never *)
(* existed, the daemon stops attributing time and says so.  An agent or a  *)
(* script that is gone for good leaves tracking blind for good, in spite   *)
(* of old reports that arrive late and count as new.                       *)
(***************************************************************************)
SilenceNoticed == <>[](~alive) \/ <>[](~script) => <>[]TrackingBlind

(***************************************************************************)
(* state.rs, FOCUS_FRESHNESS: silence that outlasts this means the script  *)
(* is gone, not that nobody switched windows.                              *)
(***************************************************************************)
SilenceMeansNoScript == alive /\ script => FocusTracking
=============================================================================
