----------------------------- MODULE AgentProofs -----------------------------
(***************************************************************************)
(* Proofs about Agent for every set of thresholds, every range of times    *)
(* and every bound on ages: its types, that what the agent announced last  *)
(* agrees with the last answer, that banners alternate, that the child is  *)
(* warned exactly when a threshold has been passed, and that a request is  *)
(* not lost.                                                               *)
(***************************************************************************)
EXTENDS Agent, TLAPS

(***************************************************************************)
(* The strengthening: the flag, the last answer and the agent's last       *)
(* banner tell the same story of a refusal, and the thresholds marked are  *)
(* those at or above the least time warned of.                             *)
(***************************************************************************)
BannerAgrees == ~lost => (shown.blocked <=> banner = "Blocked")

MarkedWhenBlocked == blockedAnnounced = shown.blocked

WarnedOf(time) == {t \in WarnAt : time # None /\ time <= t}

MarkedAreWarnedOf == announced = WarnedOf(low)

VoiceInv ==
  /\ VoiceTypeOK
  /\ BannerAgrees
  /\ MarkedWhenBlocked
  /\ MarkedAreWarnedOf

KeptByAgent == ~StoreMayFail => RequestKept

IInv == TypeOK /\ VoiceInv /\ KeptByAgent

-----------------------------------------------------------------------------
(***************************************************************************)
(* What an answer looks like: a refusal states no time at all.             *)
(***************************************************************************)
LEMMA AnswerFields ==
  ASSUME NEW answer \in Answer
  PROVE  /\ answer.blocked \in BOOLEAN
         /\ answer.left \in 0 .. MaxLeft \cup {None}
         /\ answer.blocked => answer.left = 0
<1>0. MaxLeft \in Nat
  BY AnnouncementsAssumption DEF AnnouncementsAssumption
<1>1. CASE answer = Unmanaged
  BY <1>1 DEF Unmanaged
<1>2. CASE answer = Refused
  BY <1>0, <1>2 DEF Refused
<1>3. CASE answer \in {Allowed(left) : left \in 0 .. MaxLeft}
  <2>1. PICK left \in 0 .. MaxLeft : answer = Allowed(left)
    BY <1>3
  <2>2. QED
    BY <2>1 DEF Allowed
<1>4. QED
  BY <1>1, <1>2, <1>3 DEF Answer

(***************************************************************************)
(* A refusal is never more time, so it never clears the marks.             *)
(***************************************************************************)
LEMMA RefusalIsNoGrowth ==
  ASSUME VoiceTypeOK, NEW answer \in Answer, answer.blocked
  PROVE  ~Grew(answer)
<1>1. answer.left = 0
  BY AnswerFields
<1>2. shown.left \in 0 .. MaxLeft \cup {None}
  BY AnswerFields DEF VoiceTypeOK
<1>3. QED
  BY <1>1, <1>2 DEF Grew

(***************************************************************************)
(* Forgetting what was warned of and clearing the marks go together.       *)
(***************************************************************************)
LEMMA KeptIsWarnedOf ==
  ASSUME VoiceInv, NEW answer
  PROVE  /\ Kept(answer) = WarnedOf(LowKept(answer))
         /\ LowKept(answer) \in 0 .. MaxLeft \cup {None}
<1>1. CASE Grew(answer)
  BY <1>1 DEF Kept, LowKept, WarnedOf
<1>2. CASE ~Grew(answer)
  BY <1>2 DEF Kept, LowKept, VoiceInv, MarkedAreWarnedOf, VoiceTypeOK
<1>3. QED
  BY <1>1, <1>2

(***************************************************************************)
(* A fresh threshold is one below everything warned of.                    *)
(***************************************************************************)
LEMMA FreshThreshold ==
  ASSUME NEW left \in 0 .. MaxLeft, NEW time \in 0 .. MaxLeft \cup {None}
  PROVE  /\ Crossed(left) \ WarnedOf(time) # {}
              <=> \E t \in WarnAt : left <= t /\ (time # None => t < time)
         /\ Crossed(left) \ WarnedOf(time) # {}
              => WarnedOf(time) \cup Crossed(left) = WarnedOf(left)
         /\ Crossed(left) \ WarnedOf(time) = {}
              => WarnedOf(time) \cup Crossed(left) = WarnedOf(time)
<1> USE AnnouncementsAssumption DEF AnnouncementsAssumption
<1>1. \A t \in WarnAt : t \in Nat
  OBVIOUS
<1>2. left \in Int /\ left # None /\ (time # None => time \in Int)
  OBVIOUS
<1>3. Crossed(left) \ WarnedOf(time) # {}
        <=> \E t \in WarnAt : left <= t /\ (time # None => t < time)
  <2>1. Crossed(left) \ WarnedOf(time) # {}
          <=> \E t \in WarnAt : left <= t /\ ~(time # None /\ time <= t)
    BY DEF Crossed, WarnedOf
  <2>2. \A t \in WarnAt : ~(time # None /\ time <= t) <=> (time # None => t < time)
    BY <1>1, <1>2
  <2>3. QED
    BY <2>1, <2>2
<1>4. Crossed(left) \ WarnedOf(time) # {}
        => WarnedOf(time) \cup Crossed(left) = WarnedOf(left)
  <2>1. HAVE Crossed(left) \ WarnedOf(time) # {}
  <2>2. PICK t \in WarnAt : left <= t /\ (time # None => t < time)
    BY <1>3, <2>1
  <2>3. time # None => left <= time
    BY <1>1, <1>2, <2>2
  <2>4. \A u \in WarnAt : time # None /\ time <= u => left <= u
    BY <1>1, <1>2, <2>3
  <2>5. QED
    BY <1>2, <2>4 DEF Crossed, WarnedOf
<1>5. Crossed(left) \ WarnedOf(time) = {}
        => WarnedOf(time) \cup Crossed(left) = WarnedOf(time)
  OBVIOUS
<1>6. QED
  BY <1>3, <1>4, <1>5

-----------------------------------------------------------------------------
(***************************************************************************)
(* Speaking, or saying nothing, leaves the screen well formed.             *)
(***************************************************************************)
LEMMA SayTyped ==
  ASSUME VoiceTypeOK, NEW kind \in Kind, Say(kind)
  PROVE  /\ said' = kind
         /\ banner' \in Kind
         /\ closed' \in BOOLEAN
         /\ stale' \subseteq {k \in Kind : OffersRequest(k)}
         /\ lost' \in BOOLEAN
         /\ ~lost' => \/ banner' = kind
                      \/ kind = "Nothing" /\ banner' = banner /\ ~lost
<1>1. CASE kind = "Nothing"
  BY <1>1 DEF Say, VoiceTypeOK, screen
<1>2. CASE kind # "Nothing"
  BY <1>2 DEF Say, Show, VoiceTypeOK, screen
<1>3. QED
  BY <1>1, <1>2

(***************************************************************************)
(* Whatever an answer says, taking it in keeps the invariant.              *)
(***************************************************************************)
LEMMA IngestKeeps ==
  ASSUME VoiceInv, NEW answer \in Answer, Ingest(answer)
  PROVE  VoiceInv'
<1>a. /\ answer.blocked \in BOOLEAN
      /\ answer.left \in 0 .. MaxLeft \cup {None}
      /\ answer.blocked => answer.left = 0
  BY AnswerFields
<1>b. shown' = answer
  BY DEF Ingest
<1>c. /\ shown.blocked \in BOOLEAN
      /\ blockedAnnounced = shown.blocked
      /\ ~lost => (shown.blocked <=> banner = "Blocked")
      /\ announced \subseteq WarnAt
  BY AnswerFields
     DEF VoiceInv, VoiceTypeOK, BannerAgrees, MarkedWhenBlocked
<1>d. /\ Kept(answer) = WarnedOf(LowKept(answer))
      /\ LowKept(answer) \in 0 .. MaxLeft \cup {None}
  BY KeptIsWarnedOf
<1>e. WarnedOf(low') \subseteq WarnAt
  BY DEF WarnedOf
<1>f. ~shown.blocked => BlockedKept(answer) = FALSE
  BY <1>c DEF BlockedKept
<1>g. VoiceTypeOK
  BY DEF VoiceInv
<1>1. CASE HearRefusal(answer)
  <2> DEFINE kind == IF BlockedKept(answer) THEN "Nothing" ELSE "Blocked"
  <2>1. ~Grew(answer)
    BY <1>1, RefusalIsNoGrowth DEF VoiceInv, HearRefusal
  <2>2. kind \in Kind /\ Say(kind)
    BY <1>1 DEF HearRefusal, Kind
  <2>3. /\ said' \in Kind /\ banner' \in Kind /\ closed' \in BOOLEAN
        /\ stale' \subseteq {k \in Kind : OffersRequest(k)}
        /\ lost' \in BOOLEAN
        /\ ~lost' => \/ banner' = kind
                     \/ kind = "Nothing" /\ banner' = banner /\ ~lost
    BY <1>g, <2>2, SayTyped
  <2>4. ~lost' => banner' = "Blocked"
    <3>1. CASE BlockedKept(answer)
      BY <1>1, <1>c, <3>1 DEF HearRefusal, Say, BlockedKept, screen
    <3>2. CASE ~BlockedKept(answer)
      BY <2>3, <3>2
    <3>3. QED
      BY <3>1, <3>2
  <2>5. QED
    BY <1>1, <1>b, <1>d, <1>e, <2>3, <2>4
       DEF HearRefusal, VoiceInv, VoiceTypeOK, BannerAgrees,
           MarkedWhenBlocked, MarkedAreWarnedOf
<1>2. CASE HearRestored(answer)
  <2>1. /\ said' \in Kind /\ banner' \in Kind /\ closed' \in BOOLEAN
        /\ stale' \subseteq {k \in Kind : OffersRequest(k)}
        /\ lost' \in BOOLEAN
        /\ ~lost' => banner' = "Restored"
    BY <1>2, <1>g, SayTyped DEF HearRestored, Kind
  <2>2. WarnedOf(low') = {}
    BY <1>2 DEF HearRestored, WarnedOf
  <2>3. QED
    BY <1>2, <1>a, <1>b, <2>1, <2>2
       DEF HearRestored, VoiceInv, VoiceTypeOK, BannerAgrees,
           MarkedWhenBlocked, MarkedAreWarnedOf
<1>3. CASE HearUnlimited(answer)
  <2>1. UNCHANGED <<screen, lost>> /\ said' = "Nothing"
    BY <1>3 DEF HearUnlimited, Say
  <2>2. ~shown.blocked /\ answer.blocked = FALSE /\ blockedAnnounced' = FALSE
    BY <1>3, <1>a, <1>f DEF HearUnlimited
  <2>3. QED
    BY <1>3, <1>b, <1>c, <1>d, <1>e, <1>g, <2>1, <2>2
       DEF HearUnlimited, VoiceInv, VoiceTypeOK, BannerAgrees, screen,
           MarkedWhenBlocked, MarkedAreWarnedOf, Kind
<1>4. CASE HearTimeLeft(answer)
  <2> DEFINE fresh == Crossed(answer.left) \ Kept(answer)
             kind == IF fresh # {} THEN "Warning" ELSE "Nothing"
  <2>1. answer.left \in 0 .. MaxLeft
    BY <1>4, <1>a DEF HearTimeLeft
  <2>2. announced' = Kept(answer) \cup Crossed(answer.left)
    BY <1>4 DEF HearTimeLeft
  <2>3. low' = IF fresh # {} THEN answer.left ELSE LowKept(answer)
    BY <1>4 DEF HearTimeLeft
  <2>4. announced' = WarnedOf(low')
    BY <1>d, <2>1, <2>2, <2>3, FreshThreshold
  <2>5. low' \in 0 .. MaxLeft \cup {None}
    BY <1>d, <2>1, <2>3
  <2>6. kind \in Kind /\ Say(kind)
    BY <1>4 DEF HearTimeLeft, Kind
  <2>7. ~shown.blocked /\ ~answer.blocked /\ blockedAnnounced' = FALSE
    BY <1>4, <1>f DEF HearTimeLeft, BlockedKept
  <2>8. /\ said' \in Kind /\ banner' \in Kind /\ closed' \in BOOLEAN
        /\ stale' \subseteq {k \in Kind : OffersRequest(k)}
        /\ lost' \in BOOLEAN
        /\ ~lost' => banner' = kind \/ (banner' = banner /\ ~lost)
    BY <1>g, <2>6, SayTyped
  <2>9. ~lost' => banner' # "Blocked"
    BY <1>c, <2>7, <2>8
  <2>10. QED
    BY <1>a, <1>b, <1>e, <2>4, <2>5, <2>7, <2>8, <2>9
       DEF VoiceInv, VoiceTypeOK, BannerAgrees, MarkedWhenBlocked,
           MarkedAreWarnedOf
<1>5. QED
  BY <1>1, <1>2, <1>3, <1>4 DEF Ingest

LEMMA SilenceKeeps ==
  ASSUME VoiceInv, Silence
  PROVE  VoiceInv'
BY DEF Silence, VoiceInv, VoiceTypeOK, BannerAgrees, MarkedWhenBlocked,
       MarkedAreWarnedOf, WarnedOf, Kind, screen

LEMMA DismissedKeeps ==
  ASSUME VoiceInv, Dismissed
  PROVE  VoiceInv'
<1>1. closed' \in BOOLEAN /\ stale' \subseteq stale
  BY DEF Dismissed, VoiceInv, VoiceTypeOK
<1>2. QED
  BY <1>1 DEF Dismissed, VoiceInv, VoiceTypeOK, BannerAgrees,
              MarkedWhenBlocked, MarkedAreWarnedOf, WarnedOf, Kind

LEMMA ForgetKeeps ==
  ASSUME VoiceTypeOK, Forget
  PROVE  VoiceInv'
<1>1. Standing \subseteq {kind \in Kind : OffersRequest(kind)}
  BY DEF Standing, Own, VoiceTypeOK
<1>2. QED
  BY <1>1 DEF Forget, VoiceInv, VoiceTypeOK, BannerAgrees, MarkedWhenBlocked,
              MarkedAreWarnedOf, WarnedOf, Kind, Answer, Unmanaged

-----------------------------------------------------------------------------
(***************************************************************************)
(* What a step of the whole system does to the announcements.              *)
(***************************************************************************)
LEMMA VoiceOfStep ==
  ASSUME TypeOK, Next
  PROVE  \/ \E answer \in Answer : Ingest(answer)
         \/ Silence \/ Dismissed \/ Forget
<1>1. CASE Answered
  <2>1. PICK answer \in StateFor : Ingest(answer)
    BY <1>1 DEF Answered
  <2>2. StateFor \subseteq Answer
    BY DEF StateFor, TypeOK, Answer
  <2>3. QED
    BY <2>1, <2>2
<1>2. CASE AgentStops
  BY <1>2 DEF AgentStops
<1>3. CASE ~Answered /\ ~AgentStops
  BY <1>3 DEF Next, AnswerLost, NoAnswer, PutBack, NobodyReports, AcceptLate,
              DaemonRestarts, Press, Dismiss, ScriptStarts, WindowActivated,
              ReportFocus, ScriptStops, AgentStarts, Suspend, VerdictChanges
<1>4. QED
  BY <1>1, <1>2, <1>3

LEMMA VoiceKept ==
  ASSUME TypeOK, VoiceInv, [Next]_vars
  PROVE  VoiceInv'
<1>1. CASE Next
  BY <1>1, VoiceOfStep, IngestKeeps, SilenceKeeps, DismissedKeeps, ForgetKeeps
     DEF VoiceInv
<1>2. CASE UNCHANGED vars
  BY <1>2 DEF vars, voice, screen, VoiceInv, VoiceTypeOK, BannerAgrees,
              MarkedWhenBlocked, MarkedAreWarnedOf, WarnedOf
<1>3. QED
  BY <1>1, <1>2

-----------------------------------------------------------------------------
(***************************************************************************)
(* Ages stay within their bounds, and handling a report is well typed.     *)
(***************************************************************************)
LEMMA OlderInRange ==
  ASSUME NEW bound \in Nat, NEW age \in 0 .. bound
  PROVE  Older(age, bound) \in 0 .. bound
BY DEF Older

LEMMA ObservedOlderTyped ==
  ASSUME TypeOK
  PROVE  ObservedOlder \in [tracking : BOOLEAN, age : 0 .. ReportMaxAge + 1]
BY AgentAssumption DEF AgentAssumption, ObservedOlder, NoReport, TypeOK

LEMMA NoReportTyped ==
  NoReport \in [tracking : BOOLEAN, age : 0 .. ReportMaxAge + 1]
BY AgentAssumption DEF AgentAssumption, NoReport

LEMMA AcceptTyped ==
  ASSUME TypeOK, NEW report \in Report, NEW age \in 0 .. QuietPeriod,
         Accept(report, age)
  PROVE  /\ lastAsked' \in 0 .. QuietPeriod
         /\ observed' \in [tracking : BOOLEAN, age : 0 .. ReportMaxAge + 1]
         /\ owed' \in BOOLEAN
<1>1. QuietPeriod \in Nat /\ ReportMaxAge \in Nat
  BY AgentAssumption DEF AgentAssumption
<1>2. observed' \in [tracking : BOOLEAN, age : 0 .. ReportMaxAge + 1]
  BY <1>1 DEF Accept, Report
<1>3. lastAsked' \in {0, age} /\ owed' \in {FALSE, owed}
  BY DEF Accept, RecordRequest, AskedRecently, RecordEvent, NoRequest
<1>4. owed \in BOOLEAN /\ 0 \in 0 .. QuietPeriod
  BY <1>1 DEF TypeOK
<1>5. QED
  BY <1>2, <1>3, <1>4

LEMMA TypesKept ==
  ASSUME TypeOK, VoiceTypeOK', Next
  PROVE  TypeOK'
<1>0. FocusFreshness \in Nat /\ ReportMaxAge \in Nat /\ QuietPeriod \in Nat
  BY AgentAssumption DEF AgentAssumption
<1>a. Now \in Report
  BY <1>0 DEF Now, Report, FocusTracking, TypeOK
<1>b. Older(focusAge, FocusFreshness) \in 0 .. FocusFreshness
  BY <1>0, OlderInRange DEF TypeOK
<1>c. Older(lastAsked, QuietPeriod) \in 0 .. QuietPeriod
  BY <1>0, OlderInRange DEF TypeOK
<1>d. ObservedOlder \in [tracking : BOOLEAN, age : 0 .. ReportMaxAge + 1]
  BY ObservedOlderTyped
<1>e. NoReport \in [tracking : BOOLEAN, age : 0 .. ReportMaxAge + 1]
  BY NoReportTyped
<1>1. CASE Answered
  <2>1. Accept(Now, Older(lastAsked, QuietPeriod))
    BY <1>1 DEF Answered
  <2>2. QED
    BY <1>1, <1>a, <1>b, <1>c, <2>1, AcceptTyped DEF Answered, TypeOK
<1>2. CASE AnswerLost
  <2>1. Accept(Now, Older(lastAsked, QuietPeriod))
    BY <1>2 DEF AnswerLost
  <2>2. pending' \in BOOLEAN
    BY <1>2, <1>a DEF AnswerLost, PutBack, Report
  <2>3. QED
    BY <1>2, <1>a, <1>b, <1>c, <2>1, <2>2, AcceptTyped DEF AnswerLost, TypeOK
<1>3. CASE NoAnswer
  <2>1. pending' \in BOOLEAN
    BY <1>3, <1>a DEF NoAnswer, PutBack, Report
  <2>2. late' \in Report \cup {None}
    BY <1>3, <1>a DEF NoAnswer, TypeOK
  <2>3. QED
    BY <1>3, <1>b, <1>c, <1>d, <2>1, <2>2 DEF NoAnswer, TypeOK
<1>4. CASE NobodyReports
  BY <1>4, <1>c, <1>d DEF NobodyReports, TypeOK
<1>5. CASE AcceptLate
  <2>1. late \in Report /\ lastAsked \in 0 .. QuietPeriod
    BY <1>5 DEF AcceptLate, TypeOK
  <2>2. Accept(late, lastAsked)
    BY <1>5 DEF AcceptLate
  <2>3. QED
    BY <1>5, <2>1, <2>2, AcceptTyped DEF AcceptLate, TypeOK
<1>6. CASE DaemonRestarts
  BY <1>6, <1>e DEF DaemonRestarts, TypeOK
<1>7. CASE Press \/ Dismiss
  BY <1>7 DEF Press, Dismiss, daemon, TypeOK
<1>8. CASE ScriptStarts \/ WindowActivated
  <2>1. ReportFocus
    BY <1>8 DEF ScriptStarts, WindowActivated
  <2>2. focusAge' \in 0 .. FocusFreshness
    BY <1>0, <2>1 DEF ReportFocus, TypeOK
  <2>3. QED
    BY <2>1, <2>2 DEF ReportFocus, daemon, TypeOK
<1>9. CASE ScriptStops
  BY <1>9 DEF ScriptStops, daemon, TypeOK
<1>10. CASE AgentStops
  <2>1. focusAge' \in 0 .. FocusFreshness
    BY <1>0, <1>10 DEF AgentStops
  <2>2. alive' \in BOOLEAN /\ pending' \in BOOLEAN /\ owed' \in BOOLEAN
    BY <1>10 DEF AgentStops
  <2>3. late' \in Report \cup {None}
    BY <1>10, <1>a DEF AgentStops, TypeOK
  <2>4. QED
    BY <1>10, <2>1, <2>2, <2>3 DEF AgentStops, TypeOK
<1>11. CASE AgentStarts
  BY <1>11 DEF AgentStarts, daemon, TypeOK
<1>12. CASE Suspend
  BY <1>0, <1>12, <1>e DEF Suspend, TypeOK
<1>13. CASE VerdictChanges
  BY <1>13 DEF VerdictChanges, TypeOK
<1>14. QED
  BY <1>1, <1>2, <1>3, <1>4, <1>5, <1>6, <1>7, <1>8, <1>9, <1>10, <1>11,
     <1>12, <1>13 DEF Next

(***************************************************************************)
(* A database that works records every request that is handed over, so a   *)
(* press is either known to the parents or still with the agent.           *)
(***************************************************************************)
LEMMA AcceptHearsRequests ==
  ASSUME ~StoreMayFail, NEW report \in Report, NEW age, Accept(report, age)
  PROVE  /\ owed' => owed
         /\ report.asks => ~owed'
BY DEF Accept, RecordRequest, AskedRecently, RecordEvent, NoRequest

LEMMA RequestsKept ==
  ASSUME TypeOK, ~StoreMayFail, RequestKept, Next
  PROVE  RequestKept'
<1>a. Now \in Report /\ Now.asks = pending
  BY AgentAssumption
     DEF AgentAssumption, Now, Report, FocusTracking, TypeOK
<1>1. CASE Answered
  <2>1. Accept(Now, Older(lastAsked, QuietPeriod))
    BY <1>1 DEF Answered
  <2>2. (owed' => owed) /\ (pending => ~owed')
    BY <1>a, <2>1, AcceptHearsRequests
  <2>3. QED
    BY <2>2 DEF RequestKept
<1>2. CASE AnswerLost
  <2>1. Accept(Now, Older(lastAsked, QuietPeriod))
    BY <1>2 DEF AnswerLost
  <2>2. (owed' => owed) /\ (pending => ~owed')
    BY <1>a, <2>1, AcceptHearsRequests
  <2>3. QED
    BY <2>2 DEF RequestKept
<1>3. CASE NoAnswer
  BY <1>3, <1>a DEF NoAnswer, PutBack, RequestKept
<1>4. CASE AcceptLate
  <2>1. late \in Report
    BY <1>4 DEF AcceptLate, TypeOK
  <2>2. owed' => owed
    BY <1>4, <2>1, AcceptHearsRequests DEF AcceptLate
  <2>3. QED
    BY <1>4, <2>2 DEF AcceptLate, RequestKept
<1>5. CASE Press
  BY <1>5 DEF Press, RequestKept
<1>6. CASE AgentStops
  BY <1>6 DEF AgentStops, RequestKept
<1>7. CASE \/ NobodyReports \/ DaemonRestarts \/ ScriptStarts
           \/ WindowActivated \/ ScriptStops \/ Suspend \/ VerdictChanges
           \/ AgentStarts \/ Dismiss
  BY <1>7 DEF NobodyReports, Dismiss, DaemonRestarts, ScriptStarts, WindowActivated,
              ReportFocus, ScriptStops, Suspend, VerdictChanges, AgentStarts,
              RequestKept
<1>8. QED
  BY <1>1, <1>2, <1>3, <1>4, <1>5, <1>6, <1>7 DEF Next

-----------------------------------------------------------------------------
LEMMA InitEstablishes ==
  ASSUME Init
  PROVE  IInv
<1>1. VoiceInv
  BY DEF Init, VoiceInit, VoiceInv, VoiceTypeOK, BannerAgrees,
         MarkedWhenBlocked, MarkedAreWarnedOf, WarnedOf, Kind, Answer, Unmanaged
<1>2. TypeOK
  <2>1. focusAge \in 0 .. FocusFreshness /\ lastAsked \in 0 .. QuietPeriod
    BY AgentAssumption DEF AgentAssumption, Init
  <2>2. observed \in [tracking : BOOLEAN, age : 0 .. ReportMaxAge + 1]
    BY NoReportTyped DEF Init
  <2>3. QED
    BY <1>1, <2>1, <2>2 DEF Init, TypeOK, VoiceInv
<1>3. KeptByAgent
  BY DEF Init, KeptByAgent, RequestKept
<1>4. QED
  BY <1>1, <1>2, <1>3 DEF IInv

LEMMA StepKeeps ==
  ASSUME IInv, [Next]_vars
  PROVE  IInv'
<1>1. VoiceInv'
  BY VoiceKept DEF IInv
<1>2. CASE Next
  <2>1. TypeOK'
    BY <1>1, <1>2, TypesKept DEF IInv, VoiceInv
  <2>2. KeptByAgent'
    BY <1>2, RequestsKept DEF IInv, KeptByAgent
  <2>3. QED
    BY <1>1, <2>1, <2>2 DEF IInv
<1>3. CASE UNCHANGED vars
  <2>1. TypeOK'
    BY <1>1, <1>3 DEF IInv, VoiceInv, TypeOK, vars, daemon
  <2>2. KeptByAgent'
    BY <1>3 DEF IInv, KeptByAgent, RequestKept, vars
  <2>3. QED
    BY <1>1, <2>1, <2>2 DEF IInv
<1>4. QED
  BY <1>2, <1>3

(***************************************************************************)
(* The inductive invariant holds in every state the system can reach.      *)
(***************************************************************************)
THEOREM Invariance == Spec => []IInv
BY InitEstablishes, StepKeeps, PTL DEF Spec

(***************************************************************************)
(* The state of agent, socket and screen is well formed.                   *)
(***************************************************************************)
THEOREM TypeCorrect == Spec => []TypeOK
<1>1. IInv => TypeOK
  BY DEF IInv
<1>2. QED
  BY <1>1, Invariance, PTL

(***************************************************************************)
(* The agent's last notification is "time is up" exactly while the last    *)
(* answer refused, unless the desktop did not show it, and a "time is up"  *)
(* that is up while access is allowed was left by an agent that is gone.   *)
(***************************************************************************)
THEOREM ScreenTellsTheTruth == Spec => []ScreenAgrees
<1>1. IInv => ScreenAgrees
  <2>1. SUFFICES ASSUME IInv, ~lost
                 PROVE  /\ shown.blocked <=> banner = "Blocked"
                        /\ "Blocked" \in Standing \ stale => shown.blocked
    BY DEF ScreenAgrees
  <2>2. shown.blocked <=> banner = "Blocked"
    BY <2>1 DEF IInv, VoiceInv, BannerAgrees
  <2>3. QED
    BY <2>2 DEF Standing, Own
<1>2. QED
  BY <1>1, Invariance, PTL

(***************************************************************************)
(* While the database works, no press is lost on the way to the daemon.    *)
(***************************************************************************)
THEOREM NoPressIsLost == ~StoreMayFail => (Spec => []RequestKept)
<1>1. SUFFICES ASSUME ~StoreMayFail
               PROVE  Spec => []RequestKept
  OBVIOUS
<1>2. IInv => RequestKept
  BY <1>1 DEF IInv, KeptByAgent
<1>3. QED
  BY <1>2, Invariance, PTL

-----------------------------------------------------------------------------
(***************************************************************************)
(* What one answer may announce.                                           *)
(***************************************************************************)
LEMMA IngestAlternates ==
  ASSUME VoiceInv, NEW answer \in Answer, Ingest(answer)
  PROVE  ~lost => /\ said' = "Blocked" => banner # "Blocked"
                  /\ said' = "Restored" => banner = "Blocked"
                  /\ said' = "Warning" => banner # "Blocked"
<1>1. ~lost => (shown.blocked <=> banner = "Blocked")
  BY DEF VoiceInv, BannerAgrees
<1>2. CASE HearRefusal(answer)
  <2>1. ~Grew(answer)
    BY <1>2, RefusalIsNoGrowth DEF VoiceInv, HearRefusal
  <2>2. said' = "Blocked" => ~shown.blocked
    BY <1>2, <2>1
       DEF HearRefusal, Say, BlockedKept, VoiceInv, MarkedWhenBlocked
  <2>3. said' \in {"Blocked", "Nothing"}
    BY <1>2 DEF HearRefusal, Say
  <2>4. QED
    BY <1>1, <2>2, <2>3
<1>3. CASE HearRestored(answer)
  BY <1>1, <1>3 DEF HearRestored, Say
<1>4. CASE HearUnlimited(answer)
  BY <1>4 DEF HearUnlimited, Say
<1>5. CASE HearTimeLeft(answer)
  <2>1. said' \in {"Warning", "Nothing"} /\ ~shown.blocked
    BY <1>5 DEF HearTimeLeft, Say
  <2>2. QED
    BY <1>1, <2>1
<1>6. QED
  BY <1>2, <1>3, <1>4, <1>5 DEF Ingest

LEMMA IngestWarnsWhenDue ==
  ASSUME VoiceInv, NEW answer \in Answer, Ingest(answer)
  PROVE  /\ said' = "Warning" => PassesThreshold
         /\ PassesThreshold => said' # "Nothing"
<1>a. shown' = answer
  BY DEF Ingest
<1>1. CASE HearRefusal(answer)
  <2>1. said' # "Warning" /\ answer.blocked
    BY <1>1 DEF HearRefusal, Say
  <2>2. QED
    BY <1>a, <2>1 DEF PassesThreshold
<1>2. CASE HearRestored(answer)
  BY <1>2 DEF HearRestored, Say
<1>3. CASE HearUnlimited(answer)
  <2>1. said' # "Warning" /\ answer.left = None
    BY <1>3 DEF HearUnlimited, Say
  <2>2. QED
    BY <1>a, <2>1 DEF PassesThreshold
<1>4. CASE HearTimeLeft(answer)
  <2> DEFINE fresh == Crossed(answer.left) \ WarnedOf(LowKept(answer))
  <2>1. Kept(answer) = WarnedOf(LowKept(answer))
    BY KeptIsWarnedOf
  <2>2. said' = IF fresh # {} THEN "Warning" ELSE "Nothing"
    BY <1>4, <2>1 DEF HearTimeLeft, Say
  <2>3. answer.left # None /\ answer.left \in 0 .. MaxLeft /\ ~answer.blocked
    BY <1>4, AnswerFields DEF HearTimeLeft
  <2>4. LowKept(answer) \in 0 .. MaxLeft \cup {None}
    BY KeptIsWarnedOf
  <2>5. fresh # {} <=> \E t \in WarnAt :
          answer.left <= t /\ (LowKept(answer) # None => t < LowKept(answer))
    BY <2>3, <2>4, FreshThreshold
  <2>6. PassesThreshold <=> fresh # {}
    BY <1>a, <2>3, <2>5 DEF PassesThreshold
  <2>7. QED
    BY <2>2, <2>6
<1>5. QED
  BY <1>1, <1>2, <1>3, <1>4 DEF Ingest

(***************************************************************************)
(* One agent announces a refusal once and takes it back once, and no       *)
(* countdown replaces it; an agent started again begins anew.              *)
(***************************************************************************)
THEOREM BannersTakeTurns == Spec => BannersAlternate
<1>1. IInv /\ [Next]_vars
        => [~lost => /\ said' = "Blocked" => banner # "Blocked"
                     /\ said' = "Restored" => banner = "Blocked"
                     /\ said' = "Warning" => banner # "Blocked"]_voice
  <2>1. SUFFICES ASSUME IInv, Next
                 PROVE  ~lost => /\ said' = "Blocked" => banner # "Blocked"
                                 /\ said' = "Restored" => banner = "Blocked"
                                 /\ said' = "Warning" => banner # "Blocked"
    BY DEF vars, voice
  <2>2. (\E answer \in Answer : Ingest(answer)) \/ said' = "Nothing"
    BY <2>1, VoiceOfStep DEF IInv, Silence, Dismissed, Forget
  <2>3. QED
    BY <2>1, <2>2, IngestAlternates DEF IInv
<1>2. QED
  BY <1>1, Invariance, PTL DEF Spec, BannersAlternate

(***************************************************************************)
(* No nagging and no ambush: the child is warned exactly when the time     *)
(* left has passed a threshold not warned of since it last grew.           *)
(***************************************************************************)
THEOREM WarnedInTime == Spec => WarnedWhenDue
<1>1. IInv /\ [Next]_vars
        => [/\ said' = "Warning" => PassesThreshold
            /\ shown' # shown /\ PassesThreshold => said' # "Nothing"]_voice
  <2>1. SUFFICES ASSUME IInv, Next
                 PROVE  /\ said' = "Warning" => PassesThreshold
                        /\ shown' # shown /\ PassesThreshold
                             => said' # "Nothing"
    BY DEF vars, voice
  <2>2. CASE \E answer \in Answer : Ingest(answer)
    BY <2>1, <2>2, IngestWarnsWhenDue DEF IInv
  <2>3. CASE Silence
    BY <2>3 DEF Silence
  <2>4. CASE Dismissed
    BY <2>4 DEF Dismissed
  <2>5. CASE Forget
    BY <2>5 DEF Forget, Unmanaged, PassesThreshold
  <2>6. QED
    BY <2>1, <2>2, <2>3, <2>4, <2>5, VoiceOfStep DEF IInv
<1>2. QED
  BY <1>1, Invariance, PTL DEF Spec, WarnedWhenDue

=============================================================================
