----------------------------- MODULE AccessProofs -----------------------------
(***************************************************************************)
(* What holds of a login through the module for every calendar, all rules  *)
(* and every bound: who is refused, with which reason, and what is gained  *)
(* by stopping the daemon; and that the verdict's own promises are true of *)
(* every policy: when to come back, in which words, and the time left.     *)
(***************************************************************************)
EXTENDS Access, FoldLemmas

\* What an answer on its way to the module is worth: a refusal gives a reason
\* that held during this call, and anything else had a cause in this call.
AnswerEarned ==
  call.asking /\ thread.pc = "answered" =>
    IF thread.answer.decision = "deny"
    THEN /\ who = "child"
         /\ thread.answer.reason \in call.seen
    ELSE \/ call.unsure
         \/ "none" \in call.seen
         \/ "aside" \in call.seen

NoReasonUnlessDenied ==
  thread.answer.reason # "none" => thread.answer.decision = "deny"

Witnessed == call.asking => Standing \in call.seen

Inv ==
  /\ TypeOK
  /\ Witnessed
  /\ AnswerEarned
  /\ NoReasonUnlessDenied
  /\ OnlyChildrenRefused

\* Reason gives one of four reasons, whatever the policy.
LEMMA ReasonType ==
  ASSUME NEW p, NEW u, NEW t
  PROVE  Reason(p, u, t) \in Refusals \cup {"none"}
  BY DEF Reason, Refusals

\* Standing is one of the five values a watcher can note.
LEMMA StandingType == Standing \in Refusals \cup {"none", "aside"}
  BY ReasonType DEF Standing

LEMMA StandingTypePrimed == Standing' \in (Refusals \cup {"none", "aside"})
  <1>1. Reason(policy', usage', now') \in Refusals \cup {"none"}
    BY ReasonType
  <1> QED
    BY <1>1 DEF Standing

\* A snapshot taken later, or after one hour of use, is still one: the sums
\* stay within their bounds, and the day's stays part of the week's.
LEMMA LaterType ==
  ASSUME NEW u \in Snapshot, u.day <= u.week, NEW n \in 0 .. 1,
         u.week + n <= MaxUsed, NEW t, NEW t2, AccessAssumption
  PROVE  /\ Later(Used(u, n), t, t2) \in Snapshot
         /\ Later(Used(u, n), t, t2).day <= Later(Used(u, n), t, t2).week
  <1>2. /\ u.day + n \in 0 .. MaxUsed
        /\ u.week + n \in 0 .. MaxUsed
        /\ u.day + n <= u.week + n
        /\ u.bonus \in 0 .. MaxBonus
    BY DEF Snapshot, AccessAssumption
  <1>3. PolicyDay(t2) = PolicyDay(t)
          => WeekStart(PolicyDay(t2)) = WeekStart(PolicyDay(t))
    OBVIOUS
  <1>4. 0 \in 0 .. MaxUsed /\ 0 \in 0 .. MaxBonus
    BY DEF AccessAssumption
  <1> QED
    BY <1>2, <1>3, <1>4 DEF Later, Snapshot, Used

\* What a call is like while it runs and once it is over.
LEMMA CallType ==
  ASSUME TypeOK
  PROVE  /\ call.asking \in BOOLEAN
         /\ call.unsure \in BOOLEAN
         /\ call.seen \in SUBSET (Refusals \cup {"none", "aside"})
         /\ thread.answer \in Answers
  BY DEF TypeOK

\* The daemon's answer to this account, at any moment: a refusal means that
\* the account stands refused, for the reason it gives; otherwise it stands
\* allowed or out of reach, or the daemon's lookup did
\* not find it in the managed group.
LEMMA AnswerTrue ==
  ASSUME NEW member \in IsMember(who = "child"), daemon # "down"
  PROVE  /\ Answer(member) \in Answers
         /\ Answer(member).decision = "deny" =>
              who = "child" /\ Answer(member).reason = Standing
         /\ Answer(member).decision # "deny" =>
              member # "yes" \/ Standing \in {"none", "aside"}
         /\ Answer(member).reason # "none" => Answer(member).decision = "deny"
  <1> DEFINE reason == Reason(policy, usage, now)
  <1>1. reason \in Refusals \cup {"none"}
    BY ReasonType
  <1>2. Evaluate(policy, usage, now).reason = reason
    BY DEF Evaluate
  <1> HIDE DEF reason
  <1>3. Standing = IF \/ who # "child" \/ policy = None
                      \/ health # "healthy" \/ daemon = "other version"
                   THEN "aside" ELSE reason
    BY DEF Standing, reason
  <1>4. Answer(member) =
          IF \/ daemon = "other version" \/ health # "healthy"
             \/ policy = None \/ member # "yes"
          THEN Ignore ELSE IF reason = "none" THEN Allow ELSE Deny(reason)
    BY <1>2 DEF Answer
  <1>5. member = "yes" => who = "child"
    BY DEF IsMember, UserInGroup
  <1>6. CASE \/ daemon = "other version" \/ health # "healthy"
             \/ policy = None \/ member # "yes"
    <2>1. Answer(member) = Ignore
      BY <1>4, <1>6
    <2>2. member # "yes" \/ Standing = "aside"
      BY <1>3, <1>6
    <2> QED
      BY <2>1, <2>2 DEF Ignore, Answers
  <1>7. CASE ~(\/ daemon = "other version" \/ health # "healthy"
               \/ policy = None \/ member # "yes")
    <2>1. who = "child" /\ Standing = reason
      BY <1>3, <1>5, <1>7
    <2>2. CASE reason = "none"
      <3>1. Answer(member) = Allow
        BY <1>4, <1>7, <2>2
      <3> QED
        BY <2>1, <2>2, <3>1 DEF Allow, Answers
    <2>3. CASE reason # "none"
      <3>1. Answer(member) = Deny(reason)
        BY <1>4, <1>7, <2>3
      <3> QED
        BY <1>1, <2>1, <2>3, <3>1 DEF Deny, Answers
    <2> QED
      BY <2>2, <2>3
  <1> QED
    BY <1>6, <1>7

-----------------------------------------------------------------------------

Codes == {"ignore"} \cup {Refusal(phase) : phase \in Phase}

CallOK ==
  call \in [asking : BOOLEAN, code : Codes,
            reason : Refusals \cup {"none", "unavailable"}, lenient : BOOLEAN,
            seen : SUBSET (Refusals \cup {"none", "aside"}),
            unsure : BOOLEAN]

\* When the world moves, the running call notes how the account now stands,
\* and keeps all it noted before.
LEMMA WatchingKeeps ==
  ASSUME Inv, call' = Watched, UNCHANGED <<who, thread>>
  PROVE  CallOK' /\ Witnessed' /\ AnswerEarned' /\ NoReasonUnlessDenied'
         /\ OnlyChildrenRefused'
  <1>1. CallOK
    BY DEF Inv, TypeOK, CallOK, Codes
  <1>2. CASE call.asking
    <2>1. call' = [call EXCEPT !.seen = @ \cup {Standing'}]
      BY <1>2 DEF Watched
    <2>2. /\ CallOK'
          /\ call'.asking = call.asking /\ call'.code = call.code
          /\ call'.unsure = call.unsure
          /\ call'.seen = call.seen \cup {Standing'}
      BY <1>1, <2>1, StandingTypePrimed DEF CallOK
    <2> QED
      BY <2>2
      DEF Inv, Witnessed, AnswerEarned, NoReasonUnlessDenied,
          OnlyChildrenRefused
  <1>3. CASE ~call.asking
    <2>1. call' = call
      BY <1>3 DEF Watched
    <2> QED
      BY <1>1, <1>3, <2>1
      DEF CallOK, Inv, Witnessed, AnswerEarned, NoReasonUnlessDenied,
          OnlyChildrenRefused
  <1> QED
    BY <1>2, <1>3

\* While the world stands still, so does the account.
LEMMA StandingKept ==
  ASSUME UNCHANGED <<who, now, usage, policy, health, daemon>>
  PROVE  Standing' = Standing
  BY DEF Standing

\* A call that is over carries over nothing but what it ended with.
LEMMA OverKeeps ==
  ASSUME Inv, UNCHANGED who, thread' = NoThread \/ thread' = thread,
         NEW code \in Codes,
         NEW reason \in Refusals \cup {"none", "unavailable"},
         NEW lenient \in BOOLEAN, NEW unsure \in BOOLEAN,
         call' = Over(code, reason, lenient, unsure),
         code # "ignore" => who = "child"
  PROVE  CallOK' /\ Witnessed' /\ AnswerEarned' /\ NoReasonUnlessDenied'
         /\ OnlyChildrenRefused'
  <1>1. /\ CallOK' /\ ~call'.asking /\ call'.code = code
    BY DEF Over, CallOK
  <1>2. NoReasonUnlessDenied'
    BY DEF Inv, NoReasonUnlessDenied, NoThread, Ignore
  <1> QED
    BY <1>1, <1>2 DEF Witnessed, AnswerEarned, OnlyChildrenRefused

LEMMA InvInit == Init => Inv
  <1> SUFFICES ASSUME Init PROVE Inv
    OBVIOUS
  <1> USE DEF Init, NoCall, Over, NoThread, Ignore
  <1>1. TypeOK
    <2>1. now \in At(1, DayStart) .. Horizon
      <3>1. At(1 + WeekDays, DayStart) \in Int /\ At(1, DayStart) \in Int
        BY CalendarAssumption DEF At
      <3> QED
        BY <3>1, AccessAssumption
    <2>2. usage \in Snapshot /\ usage.day <= usage.week
      BY AccessAssumption DEF Snapshot
    <2> QED
      BY <2>1, <2>2 DEF TypeOK, Health, Answers
  <1> QED
    BY <1>1
    DEF Inv, Witnessed, AnswerEarned, NoReasonUnlessDenied,
        OnlyChildrenRefused

\* Steps of the module and of its thread.
LEMMA InvCall ==
  ASSUME Inv, ModuleStep \/ ThreadStep
  PROVE  Inv'
  <1> DEFINE worldStill == UNCHANGED <<who, now, usage, policy, health, daemon>>
  <1>1. worldStill
    BY DEF ModuleStep, ThreadStep, Enter, NoUser, SetCred, Take, FallBack,
           Panics, Connect, Serve, ExchangeFails
  <1>2. Standing' = Standing
    BY <1>1, StandingKept
  <1>3. CallOK /\ thread.answer \in Answers
    BY DEF Inv, TypeOK, CallOK, Codes
  <1>4. SUFFICES /\ CallOK' /\ Witnessed' /\ AnswerEarned'
                 /\ NoReasonUnlessDenied' /\ OnlyChildrenRefused'
                 /\ thread' \in [pc : {"none", "connecting", "asked", "failed",
                                       "answered"}, answer : Answers]
    BY <1>1 DEF Inv, TypeOK, CallOK, Codes
  <1>5. thread \in [pc : {"none", "connecting", "asked", "failed", "answered"},
                    answer : Answers]
    BY DEF Inv, TypeOK
  <1>6. NoThread \in [pc : {"none", "connecting", "asked", "failed",
                            "answered"}, answer : Answers]
    BY DEF NoThread, Ignore, Answers
  <1>7. CASE Enter
    <2> PICK root \in IsRoot, parent \in UserInGroup(who = "parent") :
          IF Exempt(root, parent)
          THEN /\ call' = Over("ignore", "none", FALSE, parent = "failed")
               /\ UNCHANGED thread
          ELSE /\ call' = [NoCall EXCEPT !.asking = TRUE, !.seen = {Standing}]
               /\ thread' = [NoThread EXCEPT !.pc = "connecting"]
      BY <1>7 DEF Enter
    <2>1. CASE Exempt(root, parent)
      <3>1. (parent = "failed") \in BOOLEAN
        OBVIOUS
      <3> QED
        BY <1>1, <1>5, <2>1, <3>1, OverKeeps DEF Codes
    <2>2. CASE ~Exempt(root, parent)
      <3>1. /\ call' = [NoCall EXCEPT !.asking = TRUE, !.seen = {Standing}]
            /\ thread' = [NoThread EXCEPT !.pc = "connecting"]
        BY <2>2
      <3>2. /\ call' = [asking |-> TRUE, code |-> "ignore", reason |-> "none",
                        lenient |-> FALSE, seen |-> {Standing},
                        unsure |-> FALSE]
            /\ thread' = [pc |-> "connecting", answer |-> Ignore]
        BY <3>1 DEF NoCall, Over, NoThread
      <3> QED
        BY <1>2, <3>2, StandingType
        DEF CallOK, Codes, Witnessed, AnswerEarned, NoReasonUnlessDenied,
            OnlyChildrenRefused, Ignore, Answers
    <2> QED
      BY <2>1, <2>2
  <1>8. CASE Connect \/ ExchangeFails
    <2>1. /\ call' = call /\ thread'.answer = thread.answer
          /\ thread' \in [pc : {"none", "connecting", "asked", "failed",
                                "answered"}, answer : Answers]
          /\ thread'.pc # "answered"
      BY <1>5, <1>8 DEF Connect, Listening, ExchangeFails
    <2> QED
      BY <1>1, <1>2, <1>3, <2>1
      DEF Inv, CallOK, Witnessed, AnswerEarned, NoReasonUnlessDenied,
          OnlyChildrenRefused
  <1>9. CASE Serve
    <2>1. PICK member \in IsMember(who = "child") :
            /\ thread' = [pc |-> "answered", answer |-> Answer(member)]
            /\ call' = [call EXCEPT !.unsure = @ \/ member # "yes"]
      BY <1>9 DEF Serve, Listening
    <2>2. daemon # "down"
      BY <1>9 DEF Serve, Listening
    <2>3. /\ CallOK' /\ call'.asking = call.asking /\ call'.code = call.code
          /\ call'.seen = call.seen
          /\ member # "yes" => call'.unsure
      BY <1>3, <2>1 DEF CallOK
    <2>4. call.asking => Standing \in call.seen
      BY DEF Inv, Witnessed
    <2>5. /\ thread'.pc = "answered" /\ thread'.answer = Answer(member)
          /\ Answer(member) \in Answers
      BY <2>1, <2>2, AnswerTrue
    <2>6. AnswerEarned'
      BY <1>1, <2>2, <2>3, <2>4, <2>5, AnswerTrue DEF AnswerEarned
    <2>7. NoReasonUnlessDenied'
      BY <2>2, <2>5, AnswerTrue DEF NoReasonUnlessDenied
    <2> QED
      BY <1>1, <1>2, <2>1, <2>3, <2>4, <2>5, <2>6, <2>7
      DEF Inv, Witnessed, OnlyChildrenRefused
  <1>10. CASE Take
    <2>1. CASE thread.answer.decision = "deny"
      <3>1. PICK phase \in Phase :
              /\ call' = Over(Refusal(phase), thread.answer.reason, FALSE,
                              call.unsure \/ FALSE)
              /\ thread' = NoThread
        BY <1>10, <2>1 DEF Take, Returns
      <3>2. who = "child"
        BY <1>10, <2>1 DEF Take, Inv, AnswerEarned
      <3>3. /\ thread.answer.reason \in Refusals \cup {"none", "unavailable"}
            /\ (call.unsure \/ FALSE) \in BOOLEAN
            /\ Refusal(phase) \in Codes
        BY <1>3 DEF Answers, CallOK, Codes
      <3> QED
        BY <1>1, <1>6, <3>1, <3>2, <3>3, OverKeeps
    <2>2. CASE thread.answer.decision # "deny"
      <3>1. /\ call' = Over("ignore", "none", FALSE, call.unsure \/ FALSE)
            /\ thread' = NoThread
        BY <1>10, <2>2 DEF Take, Returns
      <3>2. (call.unsure \/ FALSE) \in BOOLEAN /\ "ignore" \in Codes
        BY DEF Codes
      <3> QED
        BY <1>1, <1>6, <3>1, <3>2, OverKeeps
    <2> QED
      BY <2>1, <2>2
  <1>11. CASE FallBack
    <2>1. PICK managed \in UserInGroup(who = "child"), line \in Lines :
            IF Refuses(managed, Fallback(line))
            THEN \E phase \in Phase :
                   Returns(Refusal(phase), "unavailable", Lenient(line), FALSE)
            ELSE Returns("ignore", "none", Lenient(line), managed # "yes")
      BY <1>11 DEF FallBack
    <2>2. Lenient(line) \in BOOLEAN
      BY DEF Lenient
    <2>3. CASE Refuses(managed, Fallback(line))
      <3>1. PICK phase \in Phase :
              /\ call' = Over(Refusal(phase), "unavailable", Lenient(line),
                              call.unsure \/ FALSE)
              /\ thread' = NoThread
        BY <2>1, <2>3 DEF Returns
      <3>2. who = "child"
        BY <2>3 DEF Refuses, UserInGroup
      <3>3. (call.unsure \/ FALSE) \in BOOLEAN /\ Refusal(phase) \in Codes
        BY DEF Codes
      <3> QED
        BY <1>1, <1>6, <2>2, <3>1, <3>2, <3>3, OverKeeps
    <2>4. CASE ~Refuses(managed, Fallback(line))
      <3>1. /\ call' = Over("ignore", "none", Lenient(line),
                            call.unsure \/ managed # "yes")
            /\ thread' = NoThread
        BY <2>1, <2>4 DEF Returns
      <3>2. (call.unsure \/ managed # "yes") \in BOOLEAN /\ "ignore" \in Codes
        BY DEF Codes
      <3> QED
        BY <1>1, <1>6, <2>2, <3>1, <3>2, OverKeeps
    <2> QED
      BY <2>3, <2>4
  <1>12. CASE Panics
    <2>1. /\ call' = Over("ignore", "none", FALSE, call.unsure \/ TRUE)
          /\ thread' = NoThread
      BY <1>12 DEF Panics, Returns
    <2>2. (call.unsure \/ TRUE) \in BOOLEAN /\ "ignore" \in Codes
      BY DEF Codes
    <2> QED
      BY <1>1, <1>6, <2>1, <2>2, OverKeeps
  <1>13. CASE NoUser \/ SetCred
    <2>1. PICK unsure \in BOOLEAN :
            call' = Over("ignore", "none", FALSE, unsure)
      BY <1>13 DEF NoUser, SetCred, NoCall
    <2>2. thread' = thread /\ "ignore" \in Codes
      BY <1>13 DEF NoUser, SetCred, Codes
    <2> QED
      BY <1>1, <1>5, <2>1, <2>2, OverKeeps
  <1> QED
    BY <1>7, <1>8, <1>9, <1>10, <1>11, <1>12, <1>13
    DEF ModuleStep, ThreadStep

\* Steps of the world: what they do to the account's own figures, and what
\* the running call sees of it.
LEMMA InvWorld ==
  ASSUME Inv, WorldStep
  PROVE  Inv'
  <1>1. call' = Watched /\ UNCHANGED <<who, thread>>
    BY DEF WorldStep, HourPasses, GrantBonus, EditPolicy, HealthChanges,
           DaemonStarts, DaemonStops, LockIsNew
  <1>2. CallOK' /\ Witnessed' /\ AnswerEarned' /\ NoReasonUnlessDenied'
        /\ OnlyChildrenRefused'
    BY <1>1, WatchingKeeps
  <1>3. /\ who' \in Account
        /\ thread' \in [pc : {"none", "connecting", "asked", "failed",
                              "answered"}, answer : Answers]
    BY <1>1 DEF Inv, TypeOK
  <1>4. SUFFICES /\ now' \in At(1, DayStart) .. Horizon
                 /\ usage' \in Snapshot /\ usage'.day <= usage'.week
                 /\ policy' \in Policies \cup {None} /\ health' \in Health
                 /\ daemon' \in {"up", "other version", "down"}
    BY <1>2, <1>3 DEF Inv, TypeOK, CallOK, Codes
  <1>5. TypeOK
    BY DEF Inv
  <1>6. CASE HourPasses
    <2>1. At(1, DayStart) \in Int /\ Horizon \in Int
      BY CalendarAssumption, AccessAssumption DEF At
    <2>2. now' \in At(1, DayStart) .. Horizon
      <3>1. now \in At(1, DayStart) .. Horizon
        BY <1>5 DEF TypeOK
      <3>2. now < Horizon /\ now' = now + 1
        BY <1>6 DEF HourPasses
      <3> QED
        BY <2>1, <3>1, <3>2
    <2>3. PICK used \in 0 .. 1 : /\ usage.week + used <= MaxUsed
                                 /\ usage' = Later(Used(usage, used), now, now + 1)
      BY <1>6 DEF HourPasses
    <2>4. usage' \in Snapshot /\ usage'.day <= usage'.week
      BY <1>5, <2>3, LaterType, AccessAssumption DEF TypeOK
    <2> QED
      BY <1>5, <1>6, <2>2, <2>4 DEF HourPasses, TypeOK
  <1>7. CASE GrantBonus
    <2>1. /\ usage' \in Snapshot
          /\ usage'.day = usage.day /\ usage'.week = usage.week
      <3>1. usage \in Snapshot
        BY <1>5 DEF TypeOK
      <3>2. usage.bonus < MaxBonus /\ usage' = [usage EXCEPT !.bonus = @ + 1]
        BY <1>7 DEF GrantBonus
      <3>3. usage.bonus + 1 \in 0 .. MaxBonus
        BY <3>1, <3>2, AccessAssumption DEF Snapshot
      <3> QED
        BY <3>1, <3>2, <3>3 DEF Snapshot
    <2> QED
      BY <1>5, <1>7, <2>1 DEF GrantBonus, TypeOK
  <1>8. CASE EditPolicy
    BY <1>5, <1>8 DEF EditPolicy, TypeOK
  <1>9. CASE HealthChanges
    BY <1>5, <1>9 DEF HealthChanges, TypeOK
  <1>10. CASE DaemonStarts
    BY <1>5, <1>10 DEF DaemonStarts, LockIsNew, TypeOK, Health
  <1>11. CASE DaemonStops
    BY <1>5, <1>11 DEF DaemonStops, LockIsNew, TypeOK, Health
  <1> QED
    BY <1>6, <1>7, <1>8, <1>9, <1>10, <1>11 DEF WorldStep

LEMMA InvNext == Inv /\ [Next]_vars => Inv'
  <1> SUFFICES ASSUME Inv, [Next]_vars PROVE Inv'
    OBVIOUS
  <1>1. CASE ModuleStep \/ ThreadStep
    BY <1>1, InvCall
  <1>2. CASE WorldStep
    BY <1>2, InvWorld
  <1>3. CASE UNCHANGED vars
    <2>1. Standing' = Standing
      BY <1>3, StandingKept DEF vars
    <2>2. CallOK'
      BY <1>3 DEF Inv, vars, TypeOK, CallOK, Codes
    <2>3. TypeOK'
      <3>1. TypeOK
        BY DEF Inv
      <3>2. /\ who' \in Account /\ now' \in At(1, DayStart) .. Horizon
            /\ usage' \in Snapshot /\ usage'.day <= usage'.week
            /\ policy' \in Policies \cup {None} /\ health' \in Health
            /\ daemon' \in {"up", "other version", "down"}
        BY <1>3, <3>1 DEF vars, TypeOK
      <3>3. thread' \in [pc : {"none", "connecting", "asked", "failed",
                               "answered"}, answer : Answers]
        BY <1>3, <3>1 DEF vars, TypeOK
      <3> QED
        BY <2>2, <3>2, <3>3 DEF TypeOK, CallOK, Codes
    <2> QED
      BY <1>3, <2>1, <2>3
      DEF Inv, vars, Witnessed, AnswerEarned, NoReasonUnlessDenied,
          OnlyChildrenRefused
  <1> QED
    BY <1>1, <1>2, <1>3 DEF Next

\* The invariant: a running call has noted how the account stands, an answer
\* on its way was earned during the call, and only children were refused.
THEOREM Invariance == Spec => []Inv
  BY InvInit, InvNext, PTL DEF Spec

-----------------------------------------------------------------------------

\* The figures of store and call are well formed under every calendar, and no
\* day's usage exceeds its week's.
THEOREM TypeCorrect == Spec => []TypeOK
  BY Invariance, PTL DEF Inv

\* Whatever lookups and daemons fail, whatever policies lie about, only
\* members of the managed group are refused.
THEOREM AdultsGetIn == Spec => []OnlyChildrenRefused
  BY Invariance, PTL DEF Inv

\* A reason on the lock screen was true at some moment of that call.
THEOREM ReasonsAreTrue == Spec => ReasonHeldDuringCall
  <1>1. Inv /\ [Next]_vars =>
          [EndsCall /\ call'.reason \in Refusals
             => call'.reason \in call.seen]_vars
    <2> SUFFICES ASSUME Inv, Next, EndsCall, call'.reason \in Refusals
                 PROVE  call'.reason \in call.seen
      BY DEF EndsCall, vars
    <2>1. CallOK
      BY DEF Inv, TypeOK, CallOK, Codes
    <2>2. ~Enter /\ ~NoUser /\ ~SetCred /\ ~ThreadStep /\ ~WorldStep
      <3>1. ~Enter /\ ~NoUser /\ ~SetCred
        BY DEF EndsCall, Enter, NoUser, SetCred
      <3>2. ~ThreadStep
        BY <2>1 DEF EndsCall, ThreadStep, Connect, Serve, ExchangeFails, CallOK
      <3>3. ~WorldStep
        BY <2>1 DEF EndsCall, WorldStep, HourPasses, GrantBonus, EditPolicy,
                    HealthChanges, DaemonStarts, DaemonStops, Watched, CallOK
      <3> QED
        BY <3>1, <3>2, <3>3
    <2>3. CASE Take
      <3>1. /\ call'.reason = "none" \/ call'.reason = thread.answer.reason
            /\ "none" \notin Refusals
        BY <2>3 DEF Take, Returns, Over, Refusals
      <3> QED
        BY <2>3, <3>1 DEF Take, Inv, AnswerEarned, NoReasonUnlessDenied
    <2>4. CASE FallBack \/ Panics
      BY <2>4 DEF FallBack, Panics, Returns, Over, Refusals
    <2> QED
      BY <2>2, <2>3, <2>4 DEF Next, ModuleStep
  <1> QED
    BY <1>1, Invariance, PTL DEF Spec, ReasonHeldDuringCall

\* A child whose time is up throughout a call is refused, whatever is done to
\* the daemon meanwhile.
THEOREM KillingGainsNothing == Spec => NothingGainedByKilling
  <1>1. Inv /\ [Next]_vars =>
          [EndsCall /\ call.seen \subseteq Refusals
             /\ ~call'.lenient /\ ~call'.unsure
           => call'.code # "ignore"]_vars
    <2> SUFFICES ASSUME Inv, Next, EndsCall, call.seen \subseteq Refusals,
                        ~call'.lenient, ~call'.unsure
                 PROVE  call'.code # "ignore"
      BY DEF EndsCall, vars
    <2>1. CallOK /\ call.asking
      BY DEF Inv, TypeOK, CallOK, Codes, EndsCall
    <2>2. who = "child"
      BY <2>1 DEF Inv, Witnessed, Standing, Refusals
    <2>3. "none" \notin call.seen /\ "aside" \notin call.seen
      BY DEF Refusals
    <2>4. ~ThreadStep /\ ~WorldStep /\ ~Enter /\ ~NoUser /\ ~SetCred
      <3>1. ~Enter /\ ~NoUser /\ ~SetCred
        BY DEF EndsCall, Enter, NoUser, SetCred
      <3>2. ~ThreadStep
        BY <2>1 DEF EndsCall, ThreadStep, Connect, Serve, ExchangeFails, CallOK
      <3>3. ~WorldStep
        BY <2>1 DEF EndsCall, WorldStep, HourPasses, GrantBonus, EditPolicy,
                    HealthChanges, DaemonStarts, DaemonStops, Watched, CallOK
      <3> QED
        BY <3>1, <3>2, <3>3
    <2>5. CASE Take
      <3>1. /\ thread.answer.decision = "deny" => call'.code # "ignore"
            /\ call'.unsure = (call.unsure \/ FALSE)
        BY <2>5 DEF Take, Returns, Over, Refusal
      <3> QED
        BY <2>1, <2>3, <2>5, <3>1 DEF Take, Inv, AnswerEarned
    <2>6. CASE FallBack
      <3>1. PICK managed \in UserInGroup(who = "child"), line \in Lines :
              IF Refuses(managed, Fallback(line))
              THEN \E phase \in Phase :
                     Returns(Refusal(phase), "unavailable", Lenient(line), FALSE)
              ELSE Returns("ignore", "none", Lenient(line), managed # "yes")
        BY <2>6 DEF FallBack
      <3>2. CASE Refuses(managed, Fallback(line))
        BY <3>1, <3>2 DEF Returns, Over, Refusal
      <3>3. CASE ~Refuses(managed, Fallback(line))
        <4>a. call' = Over("ignore", "none", Lenient(line),
                           call.unsure \/ managed # "yes")
          BY <3>1, <3>3 DEF Returns
        <4>b. /\ call'.lenient = Lenient(line)
              /\ call'.unsure = (call.unsure \/ managed # "yes")
          BY <4>a DEF Over
        <4>1. ~Lenient(line) /\ managed = "yes"
          BY <4>b
        <4>2. Fallback(line) = "deny"
          BY <4>1 DEF Lenient, Fallback
        <4> QED
          BY <3>3, <4>1, <4>2 DEF Refuses
      <3> QED
        BY <3>2, <3>3
    <2>7. CASE Panics
      BY <2>7 DEF Panics, Returns, Over
    <2> QED
      BY <2>4, <2>5, <2>6, <2>7 DEF Next, ModuleStep
  <1> QED
    BY <1>1, Invariance, PTL DEF Spec, NothingGainedByKilling

-----------------------------------------------------------------------------
(* The calendar: dates, policy days and weeks. *)

\* What a division leaves over.
LEMMA Division ==
  ASSUME NEW n \in Nat \ {0}, NEW t \in Int
  PROVE  /\ t \div n \in Int /\ t % n \in 0 .. n - 1
         /\ t = n * (t \div n) + (t % n)
  OBVIOUS

\* Multiples of a length lie at least that length apart.
LEMMA Stretch ==
  ASSUME NEW n \in Nat, NEW a \in Int, NEW b \in Int, a < b
  PROVE  a * n + n <= b * n
<1>1. (b - a - 1) * n >= 0
  OBVIOUS
<1> QED
  BY <1>1

\* A number lies between two neighbouring multiples, and only two.
LEMMA DivisionUnique ==
  ASSUME NEW n \in Nat \ {0}, NEW a \in Int, NEW t \in Int,
         a * n <= t, t < a * n + n
  PROVE  t \div n = a /\ t % n = t - a * n
<1> DEFINE q == t \div n
<1>1. q \in Int /\ q * n <= t /\ t < q * n + n /\ t % n = t - q * n
  BY Division
<1> HIDE DEF q
<1>2. ~(a < q)
  BY <1>1, Stretch
<1>3. ~(q < a)
  BY <1>1, Stretch
<1>4. q = a
  BY <1>1, <1>2, <1>3
<1> QED
  BY <1>1, <1>4 DEF q

\* A moment is a clock time of a date ...
LEMMA DateHolds ==
  ASSUME NEW t \in Int
  PROVE  /\ DateOf(t) \in Int /\ ClockOf(t) \in 0 .. HoursPerDay - 1
         /\ t = DateOf(t) * HoursPerDay + ClockOf(t)
BY Division, CalendarAssumption DEF DateOf, ClockOf

\* A moment lies on its policy day, which begins DayStart hours late ...
LEMMA DayHolds ==
  ASSUME NEW t \in Int
  PROVE  /\ PolicyDay(t) \in Int
         /\ At(PolicyDay(t), DayStart) <= t
         /\ t < At(PolicyDay(t) + 1, DayStart)
<1>1. /\ DateOf(t) \in Int /\ ClockOf(t) \in 0 .. HoursPerDay - 1
      /\ t = DateOf(t) * HoursPerDay + ClockOf(t)
  BY DateHolds
<1>2. \A d \in Int : /\ (d + 1) * HoursPerDay = d * HoursPerDay + HoursPerDay
                     /\ (d - 1) * HoursPerDay = d * HoursPerDay - HoursPerDay
                     /\ d * HoursPerDay \in Int
  BY CalendarAssumption
<1> QED
  BY <1>1, <1>2, CalendarAssumption DEF PolicyDay, At

\* ... and of one date only.
LEMMA DateIs ==
  ASSUME NEW d \in Int, NEW t \in Int,
         d * HoursPerDay <= t, t < d * HoursPerDay + HoursPerDay
  PROVE  DateOf(t) = d /\ ClockOf(t) = t - d * HoursPerDay
<1>1. HoursPerDay \in Nat \ {0}
  BY CalendarAssumption
<1> QED
  BY <1>1, DivisionUnique DEF DateOf, ClockOf

\* ... and on no other.
LEMMA DayIs ==
  ASSUME NEW d \in Int, NEW t \in Int,
         At(d, DayStart) <= t, t < At(d + 1, DayStart)
  PROVE  PolicyDay(t) = d
<1> DEFINE low == d * HoursPerDay
<1>1. low \in Int /\ (d + 1) * HoursPerDay = low + HoursPerDay
  BY CalendarAssumption
<1>2. low + DayStart <= t /\ t < low + HoursPerDay + DayStart
  BY <1>1 DEF At
<1>3. HoursPerDay \in Nat /\ HoursPerDay > 0 /\ DayStart \in 0 .. HoursPerDay - 1
  BY CalendarAssumption
<1>4. CASE t < low + HoursPerDay
  <2>1. d * HoursPerDay <= t /\ t < d * HoursPerDay + HoursPerDay
    BY <1>1, <1>2, <1>3, <1>4
  <2>2. DateOf(t) = d /\ ClockOf(t) = t - low
    BY <2>1, DateIs
  <2> HIDE DEF low
  <2>3. ~(ClockOf(t) < DayStart)
    BY <1>1, <1>2, <1>3, <2>2
  <2> QED
    BY <2>2, <2>3 DEF PolicyDay
<1>5. CASE t >= low + HoursPerDay
  <2>1. /\ d + 1 \in Int
        /\ (d + 1) * HoursPerDay <= t
        /\ t < (d + 1) * HoursPerDay + HoursPerDay
    <3> HIDE DEF low
    <3> QED
      BY <1>1, <1>2, <1>3, <1>5
  <2>2. DateOf(t) = d + 1 /\ ClockOf(t) = t - (low + HoursPerDay)
    <3> HIDE DEF low
    <3> QED
      BY <1>1, <2>1, DateIs
  <2> HIDE DEF low
  <2>3. ClockOf(t) < DayStart
    BY <1>1, <1>2, <1>3, <2>2
  <2> QED
    BY <2>2, <2>3 DEF PolicyDay
<1> HIDE DEF low
<1> QED
  BY <1>1, <1>3, <1>4, <1>5

\* Policy days follow one another.
LEMMA DaysFollow ==
  ASSUME NEW a \in Int, NEW b \in Int, a < b
  PROVE  /\ At(a, DayStart) \in Int /\ At(b, DayStart) \in Int
         /\ At(a + 1, DayStart) <= At(b, DayStart)
         /\ At(a, DayStart) < At(a + 1, DayStart)
<1>1. HoursPerDay \in Nat /\ HoursPerDay > 0 /\ DayStart \in Int
  BY CalendarAssumption
<1>2. a * HoursPerDay + HoursPerDay <= b * HoursPerDay
  BY <1>1, Stretch
<1>3. (a + 1) * HoursPerDay = a * HoursPerDay + HoursPerDay
  BY <1>1
<1>4. a * HoursPerDay \in Int /\ b * HoursPerDay \in Int
  BY <1>1
<1> QED
  BY <1>1, <1>2, <1>3, <1>4 DEF At

\* Whether a moment lies before a policy day can be told from either.
LEMMA DayReached ==
  ASSUME NEW d \in Int, NEW t \in Int
  PROVE  At(d, DayStart) <= t <=> d <= PolicyDay(t)
<1>1. /\ PolicyDay(t) \in Int
      /\ At(PolicyDay(t), DayStart) <= t
      /\ t < At(PolicyDay(t) + 1, DayStart)
  BY DayHolds
<1> DEFINE e == PolicyDay(t)
<1>2. At(d, DayStart) \in Int /\ At(e, DayStart) \in Int
      /\ At(e + 1, DayStart) \in Int
  BY <1>1, CalendarAssumption DEF At
<1> HIDE DEF e
<1>3. CASE d < e
  <2>1. At(d + 1, DayStart) <= At(e, DayStart) /\ At(d, DayStart) < At(d + 1, DayStart)
        /\ At(d + 1, DayStart) \in Int
    BY <1>1, <1>3, DaysFollow, CalendarAssumption DEF e, At
  <2> QED
    BY <1>1, <1>2, <1>3, <2>1 DEF e
<1>4. CASE e < d
  <2>1. At(e + 1, DayStart) <= At(d, DayStart)
    BY <1>1, <1>4, DaysFollow DEF e
  <2> QED
    BY <1>1, <1>2, <1>4, <2>1 DEF e
<1>5. CASE e = d
  BY <1>1, <1>2, <1>5 DEF e
<1> QED
  BY <1>1, <1>3, <1>4, <1>5 DEF e

\* A date lies in the week that starts on the last Monday ...
LEMMA WeekHolds ==
  ASSUME NEW d \in Int
  PROVE  /\ Weekday(d) \in Day
         /\ WeekStart(d) \in Int
         /\ WeekStart(d) <= d /\ d < WeekStart(d) + WeekDays
BY Division, CalendarAssumption DEF Weekday, WeekStart, Day

\* A weekday counts the days since a multiple of the week.
LEMMA WeekdayIs ==
  ASSUME NEW q \in Int, NEW t \in Int,
         q * WeekDays <= t, t < q * WeekDays + WeekDays
  PROVE  Weekday(t) = t - q * WeekDays
<1>1. WeekDays \in Nat \ {0}
  BY CalendarAssumption
<1> QED
  BY <1>1, DivisionUnique DEF Weekday

\* Weeks start at multiples of their length.
LEMMA WeekQuotient ==
  ASSUME NEW d \in Int
  PROVE  \E q \in Int : WeekStart(d) = q * WeekDays
<1>1. WeekDays \in Nat \ {0}
  BY CalendarAssumption
<1>2. d \div WeekDays \in Int /\ (d % WeekDays) \in Int
      /\ d = WeekDays * (d \div WeekDays) + (d % WeekDays)
  BY <1>1, Division
<1>3. d - (d % WeekDays) = (d \div WeekDays) * WeekDays
  BY <1>1, <1>2
<1> QED
  BY <1>2, <1>3 DEF WeekStart, Weekday

\* ... and the dates of that week share the start.
LEMMA WeekIs ==
  ASSUME NEW d \in Int, NEW e \in Int,
         WeekStart(d) <= e, e < WeekStart(d) + WeekDays
  PROVE  WeekStart(e) = WeekStart(d) /\ Weekday(e) = e - WeekStart(d)
<1>1. WeekDays \in Nat \ {0}
  BY CalendarAssumption
<1>2. PICK q \in Int : WeekStart(d) = q * WeekDays
  BY WeekQuotient
<1>3. Weekday(e) = e - q * WeekDays
  BY <1>2, WeekdayIs
<1>4. q * WeekDays \in Int
  BY <1>1
<1> QED
  BY <1>2, <1>3, <1>4 DEF WeekStart

\* A week later it is the same weekday, and next Monday starts a new week.
LEMMA NextWeek ==
  ASSUME NEW d \in Int
  PROVE  /\ Weekday(d + WeekDays) = Weekday(d)
         /\ WeekStart(WeekStart(d) + WeekDays) = WeekStart(d) + WeekDays
<1>1. WeekDays \in Nat /\ WeekDays > 0
  BY CalendarAssumption
<1>2. PICK q \in Int : WeekStart(d) = q * WeekDays
  BY WeekQuotient
<1> DEFINE low == q * WeekDays
<1>3. /\ (q + 1) * WeekDays = low + WeekDays
      /\ low \in Int
  BY <1>1
<1>4. low <= d /\ d < low + WeekDays
  BY <1>2, WeekHolds
<1>5. Weekday(d) = d - low
  BY <1>4, WeekdayIs
<1>6. \A t \in Int : low + WeekDays <= t /\ t < low + WeekDays + WeekDays
                     => Weekday(t) = t - (low + WeekDays)
  <2> SUFFICES ASSUME NEW t \in Int, low + WeekDays <= t,
                      t < low + WeekDays + WeekDays
               PROVE  Weekday(t) = t - (low + WeekDays)
    OBVIOUS
  <2>1. q + 1 \in Int /\ (q + 1) * WeekDays <= t
        /\ t < (q + 1) * WeekDays + WeekDays
    BY <1>3
  <2>2. Weekday(t) = t - (q + 1) * WeekDays
    BY <2>1, WeekdayIs
  <2> QED
    BY <1>3, <2>2
<1> HIDE DEF low
<1>7. Weekday(d + WeekDays) = (d + WeekDays) - (low + WeekDays)
  <2> DEFINE f == d + WeekDays
  <2>1. f \in Int /\ low + WeekDays <= f /\ f < low + WeekDays + WeekDays
    BY <1>1, <1>3, <1>4
  <2>2. Weekday(f) = f - (low + WeekDays)
    <3> HIDE DEF f
    <3> QED
      BY <1>6, <2>1
  <2> QED
    BY <1>1, <1>3, <2>1, <2>2
<1>8. Weekday(low + WeekDays) = low + WeekDays - (low + WeekDays)
  BY <1>1, <1>3, <1>6
<1>9. WeekStart(d) = low
  BY <1>2 DEF low
<1> QED
  BY <1>1, <1>3, <1>5, <1>7, <1>8, <1>9 DEF WeekStart

\* Within one week a weekday names one date.
LEMMA WeekdayNames ==
  ASSUME NEW d \in Int, NEW e \in Int, d <= e, e < d + WeekDays,
         Weekday(d) = Weekday(e)
  PROVE  d = e
<1>1. CASE e < WeekStart(d) + WeekDays
  BY <1>1, WeekHolds, WeekIs
<1>2. CASE e >= WeekStart(d) + WeekDays
  <2>1. /\ WeekStart(d) \in Int /\ WeekStart(d) <= d
        /\ d < WeekStart(d) + WeekDays
    BY WeekHolds
  <2> DEFINE f == e - WeekDays
  <2>2. WeekDays \in Nat /\ e = f + WeekDays /\ f \in Int
    BY CalendarAssumption
  <2> HIDE DEF f
  <2>3. Weekday(d) = d - WeekStart(d)
    BY <2>1, WeekIs
  <2>4. WeekStart(d) <= f /\ f < WeekStart(d) + WeekDays
    BY <1>2, <2>1, <2>2
  <2>5. Weekday(f) = f - WeekStart(d)
    BY <2>2, <2>4, WeekIs
  <2>6. Weekday(e) = Weekday(f)
    BY <2>2, NextWeek
  <2> QED
    BY <2>1, <2>2, <2>3, <2>5, <2>6
<1>3. WeekStart(d) \in Int /\ WeekDays \in Int
  BY WeekHolds, CalendarAssumption
<1> QED
  BY <1>1, <1>2, <1>3
-----------------------------------------------------------------------------

\* The least of a set of numbers that are not below a bound.
LEMMA MinIsIn ==
  ASSUME NEW S, S \subseteq Int, S # {}, NEW b \in Int, \A x \in S : b <= x
  PROVE  Min(S) \in S /\ \A x \in S : Min(S) <= x
<1> DEFINE T == {n \in Nat : b + n \in S}
<1>1. T # {}
  <2>1. PICK x \in S : b <= x
    OBVIOUS
  <2>2. x - b \in Nat /\ b + (x - b) = x
    BY <2>1
  <2> QED
    BY <2>2
<1>2. PICK n \in T : \A m \in T : n <= m
  <2>1. T \in SUBSET Nat
    OBVIOUS
  <2> HIDE DEF T
  <2> QED
    BY <1>1, <2>1, LeastExists
<1>3. b + n \in S /\ n \in Nat
  BY <1>2
<1>4. \A x \in S : b + n <= x
  <2> SUFFICES ASSUME NEW x \in S PROVE b + n <= x
    OBVIOUS
  <2>1. x \in Int /\ b <= x
    OBVIOUS
  <2>2. x - b \in Nat /\ b + (x - b) = x
    BY <2>1
  <2>3. x - b \in T
    BY <2>2
  <2>4. n <= x - b
    BY <1>2, <2>3
  <2> QED
    BY <1>3, <2>1, <2>4
<1>5. \E m \in S : \A x \in S : m <= x
  BY <1>3, <1>4
<1> QED
  BY <1>5 DEF Min

LEMMA LeastIsIn ==
  ASSUME NEW S, S \subseteq Int \cup {None}, S # {None}, S # {},
         NEW b \in Int, \A x \in S \ {None} : b <= x
  PROVE  /\ Least(S) \in S \ {None} /\ Least(S) \in Int
         /\ \A x \in S \ {None} : Least(S) <= x
<1> DEFINE T == S \ {None}
<1>1. T \subseteq Int /\ T # {}
  OBVIOUS
<1>2. Least(S) = Min(T)
  BY <1>1 DEF Least
<1>3. \A x \in T : b <= x
  OBVIOUS
<1> HIDE DEF T
<1>4. Min(T) \in T /\ \A x \in T : Min(T) <= x
  BY <1>1, <1>3, MinIsIn
<1> QED
  BY <1>1, <1>2, <1>4 DEF T

\* Intervals of positive length within bounds.
Spans(I, low, high) ==
  \A i \in I : /\ i.start \in Int /\ i.end \in Int
               /\ low <= i.start /\ i.start < i.end /\ i.end <= high

\* An end at which no interval runs is an end of what they cover.
Ends(I) == {j.end : j \in {k \in I : \A l \in I : ~Runs(l, k.end)}}

LEMMA MergedIs ==
  ASSUME NEW I, NEW low \in Int, NEW high \in Int, Spans(I, low, high),
         NEW m \in Merged(I)
  PROVE  /\ \E i \in I : m.start = i.start
         /\ m.start \in Int /\ m.end \in Int /\ m.start < m.end
         /\ m.end \in Ends(I)
         /\ \A e \in Ends(I) : e > m.start => m.end <= e
<1>1. PICK i \in I :
        /\ m.start = i.start
        /\ m.end = Min({k.end : k \in {j \in I : /\ j.end > i.start
                                                 /\ \A l \in I : ~Runs(l, j.end)}})
  BY DEF Merged
<1> DEFINE E == {e \in Ends(I) : e > i.start}
<1>2. {k.end : k \in {j \in I : /\ j.end > i.start
                                /\ \A l \in I : ~Runs(l, j.end)}} = E
  BY DEF Ends
<1>3. /\ i.start \in Int /\ i.end \in Int /\ i.start < i.end
  BY DEF Spans
<1>4. E # {}
  <2> DEFINE F == {0 - j.end : j \in I}
  <2>1. F \subseteq Int /\ F # {} /\ \A x \in F : 0 - high <= x
    BY DEF Spans
  <2>2. Min(F) \in F /\ \A x \in F : Min(F) <= x
    <3> HIDE DEF F
    <3>1. 0 - high \in Int
      OBVIOUS
    <3> QED
      BY <2>1, <3>1, MinIsIn
  <2>3. PICK j \in I : Min(F) = 0 - j.end
    BY <2>2
  <2>4. \A k \in I : k.end <= j.end
    <3> SUFFICES ASSUME NEW k \in I PROVE k.end <= j.end
      OBVIOUS
    <3>1. 0 - k.end \in F
      OBVIOUS
    <3>2. 0 - j.end <= 0 - k.end
      BY <2>2, <2>3, <3>1
    <3> QED
      BY <3>2 DEF Spans
  <2>5. \A l \in I : ~Runs(l, j.end)
    BY <2>4 DEF Runs, Spans
  <2>6. j.end > i.start
    BY <2>4, <1>3 DEF Spans
  <2> QED
    BY <2>5, <2>6 DEF Ends
<1>5. E \subseteq Int /\ \A x \in E : i.start <= x
  BY <1>3 DEF Ends, Spans
<1>6. Min(E) \in E /\ \A x \in E : Min(E) <= x
  <2> HIDE DEF E
  <2> QED
    BY <1>3, <1>4, <1>5, MinIsIn
<1>7. m.end = Min(E)
  BY <1>1, <1>2
<1> QED
  BY <1>1, <1>3, <1>5, <1>6, <1>7

\* What covers something begins somewhere.
LEMMA MergedBegins ==
  ASSUME NEW I, NEW low \in Int, NEW high \in Int, Spans(I, low, high), I # {}
  PROVE  Merged(I) # {}
<1> DEFINE S == {i.start : i \in I}
<1>1. S \subseteq Int /\ S # {} /\ \A x \in S : low <= x
  BY DEF Spans
<1>2. Min(S) \in S /\ \A x \in S : Min(S) <= x
  <2> HIDE DEF S
  <2> QED
    BY <1>1, MinIsIn
<1>3. PICK i \in I : Min(S) = i.start
  BY <1>2
<1>4. \A k \in I : i.start <= k.start
  BY <1>2, <1>3
<1>5. \A k \in I : ~Reaches(k, i)
  BY <1>4 DEF Reaches, Spans
<1> QED
  BY <1>5 DEF Merged

\* Two covering intervals that run at once end at once, and where one ends no
\* other runs.
LEMMA MergedApart ==
  ASSUME NEW I, NEW low \in Int, NEW high \in Int, Spans(I, low, high),
         NEW m \in Merged(I), NEW t \in Int, Runs(m, t)
  PROVE  \A k \in Merged(I) : /\ Runs(k, t) => k.end = m.end
                              /\ ~Runs(k, m.end)
<1>1. \A k \in Merged(I) :
        /\ \E i \in I : k.start = i.start
        /\ k.start \in Int /\ k.end \in Int /\ k.start < k.end
        /\ k.end \in Ends(I)
        /\ \A e \in Ends(I) : e > k.start => k.end <= e
  BY MergedIs
<1>2. SUFFICES ASSUME NEW k \in Merged(I)
               PROVE  (Runs(k, t) => k.end = m.end) /\ ~Runs(k, m.end)
  OBVIOUS
<1>3. Runs(k, t) => k.end = m.end
  BY <1>1 DEF Runs
<1>4. ~Runs(k, m.end)
  <2> SUFFICES ASSUME Runs(k, m.end) PROVE FALSE
    OBVIOUS
  <2>1. m.end = k.start
    BY <1>1 DEF Runs
  <2>2. PICK i \in I : k.start = i.start
    BY <1>1
  <2>3. Runs(i, m.end)
    BY <2>1, <2>2 DEF Runs, Spans
  <2>4. \A l \in I : ~Runs(l, m.end)
    BY <1>1 DEF Ends
  <2> QED
    BY <2>3, <2>4
<1> QED
  BY <1>3, <1>4

\* The greatest of a set of numbers that are not above a bound.
LEMMA GreatestExists ==
  ASSUME NEW S, S \subseteq Int, S # {}, NEW b \in Int, \A x \in S : x <= b
  PROVE  \E m \in S : \A x \in S : x <= m
<1> DEFINE T == {0 - x : x \in S}
<1>1. T \subseteq Int /\ T # {} /\ 0 - b \in Int /\ \A y \in T : 0 - b <= y
  <2>1. \A x \in S : 0 - x \in Int /\ 0 - b <= 0 - x
    <3> TAKE x \in S
    <3>1. x \in Int /\ x <= b
      OBVIOUS
    <3> QED
      BY <3>1
  <2>2. 0 - b \in Int
    OBVIOUS
  <2> QED
    BY <2>1, <2>2
<1>2. Min(T) \in T /\ \A y \in T : Min(T) <= y
  <2> HIDE DEF T
  <2> QED
    BY <1>1, MinIsIn
<1>3. PICK m \in S : Min(T) = 0 - m
  BY <1>2
<1>4. ASSUME NEW x \in S
      PROVE  x <= m
  <2>1. 0 - m <= 0 - x
    BY <1>2, <1>3
  <2> QED
    BY <2>1
<1> QED
  BY <1>4

\* Covering neither adds a moment to the intervals nor takes one away.
LEMMA MergedCovers ==
  ASSUME NEW I, NEW low \in Int, NEW high \in Int, Spans(I, low, high),
         NEW t \in Int
  PROVE  (\E m \in Merged(I) : Runs(m, t)) <=> (\E i \in I : Runs(i, t))
<1>1. \A i \in I : /\ i.start \in Int /\ i.end \in Int
                   /\ low <= i.start /\ i.start < i.end /\ i.end <= high
  BY DEF Spans
<1>2. \A m \in Merged(I) :
        /\ \E i \in I : m.start = i.start
        /\ m.start \in Int /\ m.end \in Int /\ m.start < m.end
        /\ m.end \in Ends(I)
        /\ \A e \in Ends(I) : e > m.start => m.end <= e
  BY MergedIs
<1>3. \A i \in I : (\A k \in I : ~Reaches(k, i))
                     => \E m \in Merged(I) : m.start = i.start
  <2> DEFINE Until(i) ==
        Min({k.end : k \in {j \in I : /\ j.end > i.start
                                      /\ \A l \in I : ~Runs(l, j.end)}})
  <2>1. Merged(I) = {[start |-> i.start, end |-> Until(i)] :
                       i \in {j \in I : \A k \in I : ~Reaches(k, j)}}
    BY DEF Merged
  <2> HIDE DEF Until
  <2>2. \A i \in I : (\A k \in I : ~Reaches(k, i))
          => [start |-> i.start, end |-> Until(i)] \in Merged(I)
    BY <2>1
  <2> QED
    BY <2>2
\* Nothing is added: the last end before t would have ended the cover.
<1>4. ASSUME NEW m \in Merged(I), Runs(m, t), \A i \in I : ~Runs(i, t)
      PROVE  FALSE
  <2> DEFINE E == {i.end : i \in {j \in I : j.end <= t}}
  <2>1. PICK i0 \in I : m.start = i0.start
    BY <1>2
  <2>2. m.start <= t /\ t < m.end
    BY <1>4 DEF Runs
  <2>3. i0.end \in E
    BY <1>1, <1>4, <2>1, <2>2 DEF Runs
  <2>4. E \subseteq Int /\ \A x \in E : x <= t
    BY <1>1
  <2>5. PICK e \in E : \A x \in E : x <= e
    <3> HIDE DEF E
    <3> QED
      BY <2>3, <2>4, GreatestExists
  <2>6. PICK j \in I : e = j.end /\ j.end <= t
    BY <2>5
  <2>7. ASSUME NEW l \in I, Runs(l, e)
        PROVE  FALSE
    <3>1. l.start <= e /\ e < l.end
      BY <2>7 DEF Runs
    <3>2. ~(l.end <= t)
      <4>1. l.end <= t => l.end \in E
        OBVIOUS
      <4>2. e \in Int /\ l.end \in Int
        BY <1>1, <2>6
      <4> HIDE DEF E
      <4> QED
        BY <2>5, <3>1, <4>1, <4>2
    <3>3. Runs(l, t)
      BY <1>1, <2>6, <3>1, <3>2 DEF Runs
    <3> QED
      BY <1>4, <3>3
  <2>8. e \in Ends(I)
    BY <2>6, <2>7 DEF Ends
  <2>9. e > m.start
    <3>1. i0.end <= e
      <4> HIDE DEF E
      <4> QED
        BY <2>3, <2>5
    <3> QED
      BY <1>1, <2>1, <2>6, <3>1
  <2>10. m.end <= e
    BY <1>2, <2>8, <2>9
  <2> QED
    BY <1>1, <1>2, <2>2, <2>6, <2>10
\* Nothing is taken away: a cover that began last and ended before t would
\* have been followed by another.
<1>5. ASSUME NEW i \in I, Runs(i, t), \A m \in Merged(I) : ~Runs(m, t)
      PROVE  FALSE
  <2>1. i.start <= t /\ t < i.end
    BY <1>5 DEF Runs
  <2> DEFINE B == {m.start : m \in {k \in Merged(I) : k.start <= t}}
  <2>2. ASSUME NEW from \in Int, from <= i.start,
               \A l \in I : l.start < from => l.end < from
        PROVE  \E m \in Merged(I) : from <= m.start /\ m.start <= t
    <3> DEFINE S == {l.start : l \in {k \in I : from <= k.start}}
    <3>1. S \subseteq Int /\ S # {} /\ \A x \in S : from <= x
      BY <1>1, <2>2
    <3>2. Min(S) \in S /\ \A x \in S : Min(S) <= x
      <4> HIDE DEF S
      <4> QED
        BY <2>2, <3>1, MinIsIn
    <3>3. PICK j \in I : from <= j.start /\ j.start = Min(S)
      BY <3>2
    <3>4. ASSUME NEW k \in I, Reaches(k, j)
          PROVE  FALSE
      <4>1. k.start < j.start /\ j.start <= k.end
        BY <3>4 DEF Reaches
      <4>2. ~(from <= k.start)
        <5>1. from <= k.start => k.start \in S
          OBVIOUS
        <5> HIDE DEF S
        <5> QED
          BY <1>1, <3>2, <3>3, <4>1, <5>1
      <4>3. k.end < from
        BY <1>1, <2>2, <4>2
      <4> QED
        BY <1>1, <3>3, <4>1, <4>3
    <3>5. j.start <= i.start
      <4>1. i.start \in S
        BY <2>2
      <4> HIDE DEF S
      <4> QED
        BY <3>2, <3>3, <4>1
    <3>6. PICK m \in Merged(I) : m.start = j.start
      BY <1>3, <3>4
    <3> QED
      BY <1>1, <2>1, <3>3, <3>5, <3>6
  <2>3. B # {}
    <3>1. \A l \in I : l.start < low => l.end < low
      BY <1>1
    <3>2. low <= i.start
      BY <1>1
    <3>3. \E m \in Merged(I) : low <= m.start /\ m.start <= t
      BY <2>2, <3>1, <3>2
    <3> QED
      BY <3>3
  <2>4. B \subseteq Int /\ \A x \in B : x <= t
    BY <1>2
  <2>5. PICK b \in B : \A x \in B : x <= b
    <3> HIDE DEF B
    <3> QED
      BY <2>3, <2>4, GreatestExists
  <2>6. PICK m \in Merged(I) : m.start = b /\ m.start <= t
    BY <2>5
  <2>7. m.end <= t
    BY <1>2, <1>5, <2>6 DEF Runs
  <2>8. \A l \in I : ~Runs(l, m.end)
    BY <1>2 DEF Ends
  <2> DEFINE from == m.end + 1
  <2>9. from \in Int /\ from <= i.start
    BY <1>1, <1>2, <2>1, <2>7, <2>8 DEF Runs
  <2>10. \A l \in I : l.start < from => l.end < from
    BY <1>1, <1>2, <2>8 DEF Runs
  <2>11. PICK k \in Merged(I) : from <= k.start /\ k.start <= t
    <3> HIDE DEF from
    <3> QED
      BY <2>2, <2>9, <2>10
  <2>12. k.start \in B
    BY <2>11
  <2>13. k.start <= b
    <3> HIDE DEF B
    <3> QED
      BY <2>5, <2>12
  <2> QED
    BY <1>2, <2>6, <2>9, <2>11, <2>13
<1> QED
  BY <1>4, <1>5

-----------------------------------------------------------------------------

Snapshots == [day : Nat, week : Nat, bonus : Nat]

\* What a date gets of a week schedule is one of the schedule's values.
LEMMA GetIs ==
  ASSUME NEW S, NEW s, IsSchedule(s, S), NEW date
  PROVE  Get(s, date) \in S
BY DEF Get, IsSchedule

\* What a policy says of a date, whatever schedule says it.
LEMMA PolicyIs ==
  ASSUME NEW p \in Policies, NEW date
  PROVE  /\ p.enforcement \in BOOLEAN
         /\ p.weekly \in {None} \cup Nat
         /\ Get(p.daily, date) \in {None} \cup Nat
         /\ Windows(p, date) \in SUBSET [start : Clock, end : Clock]
BY AccessAssumption, GetIs DEF Windows

\* A clock time names one moment of a policy day.
LEMMA ResolveIs ==
  ASSUME NEW d \in Int, NEW c \in Clock
  PROVE  /\ Resolve(d, c) \in Int /\ At(d, DayStart) <= Resolve(d, c)
         /\ Resolve(d, c) < At(d + 1, DayStart)
<1> DEFINE low == d * HoursPerDay
<1>1. low \in Int /\ (d + 1) * HoursPerDay = low + HoursPerDay
  BY CalendarAssumption
<1>2. HoursPerDay \in Nat /\ DayStart \in Int /\ c \in 0 .. HoursPerDay - 1
      /\ DayStart \in 0 .. HoursPerDay - 1
  BY CalendarAssumption DEF Clock
<1>3. /\ At(d, DayStart) = low + DayStart
      /\ At(d + 1, DayStart) = low + HoursPerDay + DayStart
      /\ Resolve(d, c) = IF c >= DayStart THEN low + c
                         ELSE low + HoursPerDay + c
  <2>1. At(d, DayStart) = low + DayStart /\ At(d, c) = low + c
    BY DEF At
  <2>2. /\ At(d + 1, DayStart) = low + HoursPerDay + DayStart
        /\ At(d + 1, c) = low + HoursPerDay + c
    BY <1>1 DEF At
  <2> HIDE DEF low
  <2> QED
    BY <2>1, <2>2 DEF Resolve
<1> HIDE DEF low
<1> QED
  BY <1>1, <1>2, <1>3

PinnedOf(p, d) == {Pinned(d, w) : w \in Windows(p, d)}

\* Every window lasts for some time, and begins before its policy day is over.
LEMMA PinnedSpan ==
  ASSUME NEW p \in Policies, NEW d \in Int
  PROVE  /\ At(d, DayStart) \in Int
         /\ At(d + 1, DayStart) + HoursPerDay \in Int
         /\ Spans(PinnedOf(p, d), At(d, DayStart),
                  At(d + 1, DayStart) + HoursPerDay)
         /\ \A i \in PinnedOf(p, d) : i.start < At(d + 1, DayStart)
<1> DEFINE low == At(d, DayStart)
           next == At(d + 1, DayStart)
<1>1. low \in Int /\ next \in Int /\ HoursPerDay \in Nat /\ HoursPerDay > 0
      /\ next = low + HoursPerDay
  <2>1. d * HoursPerDay \in Int /\ (d + 1) * HoursPerDay = d * HoursPerDay + HoursPerDay
        /\ HoursPerDay \in Nat /\ DayStart \in Int /\ HoursPerDay > 0
    BY CalendarAssumption
  <2> QED
    BY <2>1 DEF At
<1>2. ASSUME NEW i \in PinnedOf(p, d)
      PROVE  /\ i.start \in Int /\ i.end \in Int
             /\ low <= i.start /\ i.start < i.end
             /\ i.end <= next + HoursPerDay
             /\ i.start < next
  <2>1. PICK w \in Windows(p, d) : i = Pinned(d, w)
    BY DEF PinnedOf
  <2>2. w.start \in Clock /\ w.end \in Clock
    BY PolicyIs
  <2> DEFINE s == Resolve(d, w.start)
             e == Resolve(d, w.end)
  <2>3. /\ s \in Int /\ low <= s /\ s < next
        /\ e \in Int /\ low <= e /\ e < next
    BY <2>2, ResolveIs
  <2>4. i.start = s /\ i.end = IF e <= s THEN e + HoursPerDay ELSE e
    BY <2>1 DEF Pinned
  <2> HIDE DEF s, e, low, next
  <2> QED
    BY <1>1, <2>3, <2>4
<1> HIDE DEF low, next
<1>3. Spans(PinnedOf(p, d), low, next + HoursPerDay)
      /\ \A i \in PinnedOf(p, d) : i.start < next
  BY <1>2 DEF Spans
<1> QED
  BY <1>1, <1>3 DEF low, next

\* The windows of a policy day begin on it.
LEMMA WindowsBegin ==
  ASSUME NEW p \in Policies, NEW d \in Int, NEW m \in ConcreteWindows(p, d)
  PROVE  /\ m.start \in Int /\ m.end \in Int /\ m.start < m.end
         /\ At(d, DayStart) <= m.start
         /\ PolicyDay(m.start) = d
<1> DEFINE I == PinnedOf(p, d)
<1>1. /\ At(d, DayStart) \in Int /\ At(d + 1, DayStart) + HoursPerDay \in Int
      /\ Spans(I, At(d, DayStart), At(d + 1, DayStart) + HoursPerDay)
      /\ \A i \in I : i.start < At(d + 1, DayStart)
  BY PinnedSpan
<1>2. m \in Merged(I)
  BY DEF ConcreteWindows, PinnedOf
<1> HIDE DEF I
<1>3. /\ \E i \in I : m.start = i.start
      /\ m.start \in Int /\ m.end \in Int /\ m.start < m.end
  BY <1>1, <1>2, MergedIs
<1>4. At(d, DayStart) <= m.start /\ m.start < At(d + 1, DayStart)
  BY <1>1, <1>3 DEF Spans
<1> QED
  BY <1>3, <1>4, DayIs

\* A day with windows has some to be let in by.
LEMMA WindowsExist ==
  ASSUME NEW p \in Policies, NEW d \in Int, Windows(p, d) # {}
  PROVE  ConcreteWindows(p, d) # {}
<1> DEFINE I == PinnedOf(p, d)
<1>1. /\ At(d, DayStart) \in Int /\ At(d + 1, DayStart) + HoursPerDay \in Int
      /\ Spans(I, At(d, DayStart), At(d + 1, DayStart) + HoursPerDay)
  BY PinnedSpan
<1>2. I # {} /\ ConcreteWindows(p, d) = Merged(I)
  BY DEF ConcreteWindows, PinnedOf
<1> HIDE DEF I
<1> QED
  BY <1>1, <1>2, MergedBegins

\* Next to the windows that run now there are no others: where they end, none
\* of the day's runs.
LEMMA WindowsApart ==
  ASSUME NEW p \in Policies, NEW d \in Int, NEW t \in Int,
         NEW m \in ConcreteWindows(p, d), Runs(m, t)
  PROVE  \A k \in ConcreteWindows(p, d) : /\ Runs(k, t) => k.end = m.end
                                          /\ ~Runs(k, m.end)
<1> DEFINE I == PinnedOf(p, d)
<1>1. /\ At(d, DayStart) \in Int /\ At(d + 1, DayStart) + HoursPerDay \in Int
      /\ Spans(I, At(d, DayStart), At(d + 1, DayStart) + HoursPerDay)
  BY PinnedSpan
<1>2. ConcreteWindows(p, d) = Merged(I)
  BY DEF ConcreteWindows, PinnedOf
<1> HIDE DEF I
<1> QED
  BY <1>1, <1>2, MergedApart

-----------------------------------------------------------------------------

\* The window after the one that was missed: it is at most a week away, it
\* begins when the refusal says, and till then no window runs.
LEMMA NextWindow ==
  ASSUME NEW p \in Policies, NEW t \in Int,
         Windows(p, PolicyDay(t)) # {}, Current(p, t) = {}
  PROVE  LET r == RetryAt(p, t, "window")
         IN /\ r \in Int /\ t < r
            /\ PolicyDay(r) <= PolicyDay(t) + WeekDays
            /\ Current(p, r) # {}
            /\ \A s \in t .. r - 1 : Current(p, s) = {}
<1> DEFINE from == PolicyDay(t)
           last == from + WeekDays
           S == {i.start : i \in {j \in UpcomingWindows(p, from) : j.start > t}}
           r == RetryAt(p, t, "window")
<1>1. r = Least(S)
  BY DEF RetryAt
<1>2. from \in Int /\ At(from, DayStart) <= t
  BY DayHolds
<1>3. WeekDays \in Nat /\ WeekDays > 0 /\ Lookahead \in Int /\ Lookahead > WeekDays
  BY CalendarAssumption
<1>4. last \in Int /\ from < last
  BY <1>2, <1>3
<1>5. ASSUME NEW d \in from .. last, NEW m \in ConcreteWindows(p, d),
             m.start > t
      PROVE  m.start \in S
  <2> DEFINE offset == d - from
  <2>1. offset \in 0 .. Lookahead - 1 /\ d = from + offset
    BY <1>2, <1>3, <1>4
  <2> HIDE DEF offset
  <2>2. m \in UpcomingWindows(p, from)
    BY <2>1 DEF UpcomingWindows
  <2> QED
    BY <1>5, <2>2
<1>6. ASSUME NEW x \in S
      PROVE  \E d \in Int : \E k \in ConcreteWindows(p, d) :
                                k.start = x /\ x > t
  <2>1. PICK j \in UpcomingWindows(p, from) : j.start > t /\ x = j.start
    OBVIOUS
  <2>2. PICK offset \in 0 .. Lookahead - 1 : j \in ConcreteWindows(p, from + offset)
    BY <2>1 DEF UpcomingWindows
  <2>3. from + offset \in Int
    BY <1>2, <1>3
  <2> QED
    BY <2>1, <2>2, <2>3
<1>7. Windows(p, last) # {}
  BY <1>2, NextWeek DEF Windows, Get
<1>8. PICK m \in ConcreteWindows(p, last) : TRUE
  BY <1>4, <1>7, WindowsExist
<1>9. m.start \in Int /\ m.start > t /\ PolicyDay(m.start) = last
  <2>1. /\ m.start \in Int /\ PolicyDay(m.start) = last
        /\ At(last, DayStart) <= m.start
    BY <1>4, WindowsBegin
  <2>2. ~(At(last, DayStart) <= t)
    BY <1>2, <1>3, <1>4, DayReached
  <2>3. At(last, DayStart) \in Int
    BY <1>2, <1>4, DaysFollow
  <2> QED
    BY <2>1, <2>2, <2>3
<1>10. m.start \in S
  BY <1>2, <1>4, <1>5, <1>9
<1>11. S \subseteq Int /\ \A x \in S : t < x
  BY <1>6, WindowsBegin
<1> HIDE DEF S, last, from, r
<1>12. r \in S /\ r \in Int /\ \A x \in S : r <= x
  <2>1. /\ S \subseteq Int \cup {None} /\ S # {None} /\ S # {}
        /\ \A x \in S \ {None} : t <= x
    BY <1>9, <1>10, <1>11, CalendarAssumption
  <2>2. S \ {None} = S
    BY <1>11, CalendarAssumption
  <2> QED
    BY <1>1, <2>1, <2>2, LeastIsIn
<1>13. t < r
  BY <1>11, <1>12
<1>14. PolicyDay(r) \in Int /\ PolicyDay(r) <= last
  <2>1. PolicyDay(r) \in Int /\ At(PolicyDay(r), DayStart) <= r
        /\ At(PolicyDay(r), DayStart) \in Int
    BY <1>12, DayHolds, CalendarAssumption DEF At
  <2>2. At(PolicyDay(r), DayStart) <= m.start
    BY <1>9, <1>10, <1>12, <2>1
  <2> QED
    BY <1>9, <2>1, <2>2, DayReached
<1>15. Current(p, r) # {}
  <2>1. PICK d \in Int : \E k \in ConcreteWindows(p, d) : k.start = r
    BY <1>6, <1>12
  <2>2. PICK k \in ConcreteWindows(p, d) : k.start = r
    BY <2>1
  <2>3. PolicyDay(r) = d /\ Runs(k, r)
    BY <2>2, WindowsBegin DEF Runs
  <2> QED
    BY <2>2, <2>3 DEF Current
<1>16. ASSUME NEW s \in t .. r - 1, NEW k \in Current(p, s)
       PROVE  FALSE
  <2> DEFINE d == PolicyDay(s)
  <2>1. s \in Int /\ t <= s /\ s < r
    BY <1>12
  <2>2. d \in Int /\ from <= d
    <3>1. d \in Int
      BY <2>1, DayHolds
    <3>2. At(from, DayStart) <= s
      BY <1>2, <2>1, CalendarAssumption DEF At
    <3> QED
      BY <1>2, <2>1, <3>1, <3>2, DayReached
  <2>3. d <= last
    <3>1. /\ At(d, DayStart) <= s /\ At(d, DayStart) \in Int
      BY <2>1, <2>2, DayHolds, CalendarAssumption DEF At
    <3>2. At(d, DayStart) <= r
      BY <1>12, <2>1, <3>1
    <3> QED
      BY <1>4, <1>12, <1>14, <2>2, <3>2, DayReached
  <2>4. k \in ConcreteWindows(p, d) /\ Runs(k, s)
    BY <1>16 DEF Current
  <2>5. k.start \in Int /\ k.start <= s /\ s < k.end /\ At(d, DayStart) <= k.start
        /\ k.end \in Int
    BY <2>2, <2>4, WindowsBegin DEF Runs
  <2>6. ~(k.start > t)
    <3>1. k.start > t => k.start \in S
      BY <1>2, <1>4, <1>5, <2>2, <2>3, <2>4
    <3> QED
      BY <1>12, <2>1, <2>5, <3>1
  <2>7. d = from
    <3>1. At(d, DayStart) <= t
      BY <2>2, <2>5, <2>6, CalendarAssumption DEF At
    <3> QED
      BY <1>2, <2>2, <3>1, DayReached DEF from
  <2>8. Runs(k, t)
    BY <2>1, <2>5, <2>6 DEF Runs
  <2> QED
    BY <2>4, <2>7, <2>8 DEF Current, from
<1> QED
  BY <1>12, <1>13, <1>14, <1>15, <1>16 DEF r, last, from

\* A refusal for the day ends with the day, and one for the week with the
\* week; neither is farther away than a week.
LEMMA NextDay ==
  ASSUME NEW t \in Int
  PROVE  LET r == PolicyDayEnd(PolicyDay(t))
         IN /\ r \in Int /\ t < r
            /\ PolicyDay(r) = PolicyDay(t) + 1
            /\ \A s \in t .. r - 1 : PolicyDay(s) = PolicyDay(t)
<1> DEFINE d == PolicyDay(t)
           r == At(d + 1, DayStart)
<1>1. d \in Int /\ d + 1 \in Int /\ At(d, DayStart) <= t /\ t < r
  BY DayHolds
<1>2. r \in Int /\ At(d, DayStart) \in Int
  BY <1>1, CalendarAssumption DEF At
<1>3. PolicyDay(r) = d + 1
  <2>1. At(d + 1, DayStart) < At((d + 1) + 1, DayStart)
    BY <1>1, DaysFollow
  <2> QED
    BY <1>1, <1>2, <2>1, DayIs
<1>4. ASSUME NEW s \in t .. r - 1
      PROVE  PolicyDay(s) = d
  <2>1. s \in Int /\ At(d, DayStart) <= s /\ s < At(d + 1, DayStart)
    <3> HIDE DEF d
    <3> QED
      BY <1>1, <1>2, <1>4
  <2> QED
    BY <1>1, <2>1, DayIs
<1> QED
  BY <1>1, <1>2, <1>3, <1>4 DEF PolicyDayEnd

LEMMA NextWeekBegins ==
  ASSUME NEW t \in Int
  PROVE  LET r == At(WeekStart(PolicyDay(t)) + WeekDays, DayStart)
         IN /\ r \in Int /\ t < r
            /\ PolicyDay(r) \in Int
            /\ PolicyDay(r) <= PolicyDay(t) + WeekDays
            /\ WeekStart(PolicyDay(r)) # WeekStart(PolicyDay(t))
            /\ \A s \in t .. r - 1 :
                 WeekStart(PolicyDay(s)) = WeekStart(PolicyDay(t))
<1> DEFINE d == PolicyDay(t)
           w == WeekStart(d)
           e == w + WeekDays
           r == At(e, DayStart)
<1>1. d \in Int /\ At(d, DayStart) <= t
  BY DayHolds
<1>2. w \in Int /\ w <= d /\ d < e /\ e \in Int /\ WeekDays \in Nat /\ WeekDays > 0
  BY <1>1, WeekHolds, CalendarAssumption
<1>3. r \in Int /\ At(d, DayStart) \in Int
  BY <1>1, <1>2, CalendarAssumption DEF At
<1>4. t < r
  <2>1. ~(At(e, DayStart) <= t)
    <3> HIDE DEF e
    <3> QED
      BY <1>1, <1>2, DayReached
  <2> QED
    BY <1>3, <2>1
<1>5. PolicyDay(r) = e
  <2>1. e + 1 \in Int /\ e < e + 1
    BY <1>2
  <2> HIDE DEF e
  <2>2. At(e, DayStart) < At(e + 1, DayStart)
    BY <1>2, <2>1, DaysFollow
  <2> QED
    BY <1>2, <1>3, <2>2, DayIs
<1>6. WeekStart(e) = e /\ e # w
  BY <1>1, <1>2, NextWeek
<1>7. ASSUME NEW s \in t .. r - 1
      PROVE  WeekStart(PolicyDay(s)) = w
  <2>1. s \in Int /\ t <= s /\ s < r
    BY <1>3
  <2>2. PolicyDay(s) \in Int
    BY <2>1, DayHolds
  <2>3. At(d, DayStart) <= s
    BY <1>1, <1>3, <2>1
  <2>4. d <= PolicyDay(s)
    BY <1>1, <2>1, <2>3, DayReached
  <2>5. ~(e <= PolicyDay(s))
    <3>1. ~(At(e, DayStart) <= s)
      BY <1>3, <2>1
    <3> HIDE DEF e
    <3> QED
      BY <1>2, <2>1, <3>1, DayReached
  <2>6. w <= PolicyDay(s) /\ PolicyDay(s) < e
    <3> HIDE DEF e, w, d
    <3> QED
      BY <1>1, <1>2, <2>2, <2>4, <2>5
  <2> QED
    BY <1>1, <2>2, <2>6, WeekIs
<1>8. e <= d + WeekDays
  BY <1>1, <1>2
<1> QED
  BY <1>2, <1>3, <1>4, <1>5, <1>6, <1>7, <1>8

\* Whatever the reason, the way back in is later than now, and at most a
\* week away.
LEMMA RetryIsNear ==
  ASSUME NEW p \in Policies, NEW u, NEW t \in Int, Reason(p, u, t) # "none"
  PROVE  LET r == RetryAt(p, t, Reason(p, u, t))
         IN /\ r \in Int /\ t < r
            /\ PolicyDay(r) <= PolicyDay(t) + WeekDays
<1> DEFINE reason == Reason(p, u, t)
           r == RetryAt(p, t, reason)
<1> SUFFICES /\ r \in Int /\ t < r
             /\ PolicyDay(r) <= PolicyDay(t) + WeekDays
  OBVIOUS
<1>1. reason \in {"window", "daily", "weekly"}
  BY DEF Reason
<1>2. CASE reason = "window"
  <2>1. Windows(p, PolicyDay(t)) # {} /\ Current(p, t) = {}
    BY <1>2 DEF Reason
  <2> HIDE DEF reason
  <2> QED
    BY <1>2, <2>1, NextWindow
<1>3. CASE reason = "daily"
  <2> HIDE DEF reason
  <2>1. r = PolicyDayEnd(PolicyDay(t))
    BY <1>3 DEF RetryAt
  <2>2. PolicyDay(t) \in Int /\ WeekDays \in Nat /\ WeekDays > 0
    BY DayHolds, CalendarAssumption
  <2> QED
    BY <2>1, <2>2, NextDay
<1>4. CASE reason = "weekly"
  <2> HIDE DEF reason
  <2>1. r = At(WeekStart(PolicyDay(t)) + WeekDays, DayStart)
    BY <1>4 DEF RetryAt
  <2> QED
    BY <2>1, NextWeekBegins
<1> QED
  BY <1>1, <1>2, <1>3, <1>4

\* A moment up to a week of policy days ahead is no more than a week and a
\* day of dates ahead.
LEMMA DatesAhead ==
  ASSUME NEW t \in Int, NEW r \in Int, t < r,
         PolicyDay(r) <= PolicyDay(t) + WeekDays
  PROVE  DateOf(r) - DateOf(t) \in 0 .. WeekDays + 1
<1> DEFINE today == DateOf(t)
           date == DateOf(r)
<1>1. /\ today \in Int /\ ClockOf(t) \in 0 .. HoursPerDay - 1
      /\ t = today * HoursPerDay + ClockOf(t)
      /\ date \in Int /\ ClockOf(r) \in 0 .. HoursPerDay - 1
      /\ r = date * HoursPerDay + ClockOf(r)
  BY DateHolds
<1>2. /\ PolicyDay(t) \in Int /\ PolicyDay(t) <= today
      /\ PolicyDay(r) \in Int /\ date <= PolicyDay(r) + 1
  BY <1>1 DEF PolicyDay
<1>3. HoursPerDay \in Nat /\ HoursPerDay > 0 /\ WeekDays \in Nat /\ WeekDays > 0
  BY CalendarAssumption
<1>4. date <= today + WeekDays + 1
  <2> HIDE DEF today, date
  <2> QED
    BY <1>1, <1>2, <1>3
<1>5. today <= date
  <2> HIDE DEF today, date
  <2> SUFFICES ASSUME date < today PROVE FALSE
    BY <1>1
  <2>1. date * HoursPerDay + HoursPerDay <= today * HoursPerDay
    BY <1>1, <1>3, Stretch
  <2>2. date * HoursPerDay \in Int /\ today * HoursPerDay \in Int
    BY <1>1, <1>3
  <2> QED
    BY <1>1, <1>3, <2>1, <2>2
<1> HIDE DEF today, date
<1>6. date - today \in 0 .. WeekDays + 1
  BY <1>1, <1>3, <1>4, <1>5
<1> QED
  BY <1>6 DEF today, date

\* A moment up to a week and a day of dates ahead of the one the machine shows
\* is understood from the words that are made of it: weekdays name dates apart
\* for a week from the day after tomorrow.
LEMMA WordsMean ==
  ASSUME NEW t \in Int, NEW r \in Int,
         DateOf(r) - DateOf(t) \in 0 .. WeekDays + 1
  PROVE  Meant(Facts(r, t), t) = r
<1> DEFINE today == DateOf(t)
           date == DateOf(r)
<1>1. /\ today \in Int
      /\ date \in Int /\ ClockOf(r) \in 0 .. HoursPerDay - 1
      /\ r = date * HoursPerDay + ClockOf(r)
  BY DateHolds
<1>3. WeekDays \in Nat /\ WeekDays > 0 /\ None \notin Int
  BY CalendarAssumption
<1>a. date - today \in 0 .. WeekDays + 1
  OBVIOUS
<1>4. date <= today + WeekDays + 1 /\ today <= date
  <2> HIDE DEF today, date
  <2> QED
    BY <1>1, <1>3, <1>a
<1>6. At(date, ClockOf(r)) = r
  BY <1>1 DEF At
<1> DEFINE facts == Facts(r, t)
<1> SUFFICES Meant(facts, t) = r
  OBVIOUS
<1>7. /\ facts.clock = ClockOf(r)
      /\ facts.notToday <=> date - today # 0
      /\ facts.weekday = IF date - today > 1 THEN Weekday(date) ELSE None
  BY DEF Facts
<1>8. Weekday(date) \in Int
  BY <1>1, WeekHolds DEF Day
<1>9. CASE date - today > 1
  <2> DEFINE D == {d \in today + 2 .. today + WeekDays + 1 :
                     Weekday(d) = facts.weekday}
  <2>1. facts.weekday = Weekday(date) /\ facts.weekday # None
    BY <1>3, <1>7, <1>8, <1>9
  <2>2. date \in today + 2 .. today + WeekDays + 1
    <3> HIDE DEF today, date
    <3> QED
      BY <1>1, <1>3, <1>4, <1>9
  <2>3. \A d \in today + 2 .. today + WeekDays + 1 :
          Weekday(d) = Weekday(date) => d = date
    <3> SUFFICES ASSUME NEW d \in today + 2 .. today + WeekDays + 1,
                        Weekday(d) = Weekday(date)
                 PROVE  d = date
      OBVIOUS
    <3> HIDE DEF today, date
    <3>1. /\ d \in Int /\ d < date + WeekDays /\ date < d + WeekDays
      BY <1>1, <1>3, <2>2
    <3>2. d <= date => d = date
      BY <1>1, <3>1, WeekdayNames
    <3>3. date <= d => d = date
      BY <1>1, <3>1, WeekdayNames
    <3> QED
      BY <1>1, <3>1, <3>2, <3>3
  <2>4. D = {date}
    BY <2>1, <2>2, <2>3
  <2>5. Min({date}) = date
    BY <1>1 DEF Min
  <2>6. Meant(facts, t) = At(date, facts.clock)
    BY <2>1, <2>4, <2>5 DEF Meant
  <2> HIDE DEF today, date, facts
  <2> QED
    BY <1>6, <1>7, <2>6
<1>10. CASE ~(date - today > 1)
  <2>1. facts.weekday = None
    BY <1>7, <1>10
  <2>2. date = today \/ date = today + 1
    <3> HIDE DEF today, date
    <3> QED
      BY <1>1, <1>4, <1>10
  <2>3. date = IF facts.notToday THEN today + 1 ELSE today
    <3> HIDE DEF today, date, facts
    <3>1. date - today # 0 <=> date # today
      BY <1>1
    <3>2. facts.notToday <=> date # today
      BY <1>7, <3>1
    <3>3. CASE date = today
      BY <3>2, <3>3
    <3>4. CASE date # today
      BY <2>2, <3>2, <3>4
    <3> QED
      BY <3>3, <3>4
  <2>4. Meant(facts, t) = At(date, facts.clock)
    BY <2>1, <2>3 DEF Meant
  <2> HIDE DEF today, date, facts
  <2> QED
    BY <1>6, <1>7, <2>4
<1> QED
  BY <1>9, <1>10

\* Every moment an account is followed at is a number.
LEMMA FiguresAre ==
  ASSUME TypeOK
  PROVE  now \in Int /\ usage \in Snapshots
<1>1. At(1, DayStart) \in Int /\ Horizon \in Int /\ MaxUsed \in Nat
      /\ MaxBonus \in Nat
  BY CalendarAssumption, AccessAssumption DEF At
<1>2. 0 .. MaxUsed \in SUBSET Nat /\ 0 .. MaxBonus \in SUBSET Nat
  BY <1>1
<1>3. usage \in Snapshots
  BY <1>2 DEF TypeOK, Snapshot, Snapshots
<1>4. now \in Int
  <2>1. now \in At(1, DayStart) .. Horizon
    BY DEF TypeOK
  <2> QED
    BY <1>1, <2>1
<1> QED
  BY <1>3, <1>4

\* The instant of a refusal is what its sentence is understood as.
LEMMA SentenceHolds == TypeOK => SentenceMeansRetry
<1> SUFFICES ASSUME TypeOK, Denied, NEW ahead \in Zones,
                    \/ DateOf(now + ahead) = DateOf(now)
                    \/ DateOf(Verdict.retry) - DateOf(now + ahead)
                         \in 0 .. WeekDays + 1
             PROVE  Meant(Facts(Verdict.retry, now + ahead), now + ahead)
                      = Verdict.retry
  BY DEF SentenceMeansRetry
<1>1. policy \in Policies /\ now \in Int
  BY FiguresAre DEF TypeOK, Denied
<1>a. now + ahead \in Int
  BY <1>1, AccessAssumption
<1> DEFINE reason == Reason(policy, usage, now)
<1>2. reason # "none" /\ Verdict.retry = RetryAt(policy, now, reason)
  BY DEF Denied, Verdict, Evaluate
<1> DEFINE r == RetryAt(policy, now, reason)
<1>3. /\ r \in Int /\ now < r
      /\ PolicyDay(r) <= PolicyDay(now) + WeekDays
  BY <1>1, <1>2, RetryIsNear
<1> DEFINE here == now + ahead
<1>b. DateOf(here) = DateOf(now) \/ DateOf(r) - DateOf(here) \in 0 .. WeekDays + 1
  BY <1>2
<1> HIDE DEF r, here
<1>4. DateOf(r) - DateOf(here) \in 0 .. WeekDays + 1
  <2>1. DateOf(r) - DateOf(now) \in 0 .. WeekDays + 1
    BY <1>1, <1>3, DatesAhead
  <2> QED
    BY <1>b, <2>1
<1>5. Meant(Facts(r, here), here) = r
  BY <1>a, <1>3, <1>4, WordsMean DEF here
<1> QED
  BY <1>2, <1>5 DEF r, here

-----------------------------------------------------------------------------

\* Until the instant a refusal names nothing changes for the better, and then
\* its reason is gone, unless the period that begins has a quota of zero.
LEMMA VainHolds == TypeOK => VainBeforeRetry
<1> SUFFICES ASSUME TypeOK, Denied
             PROVE  /\ Verdict.retry # None /\ Verdict.retry > now
                    /\ \A t \in now .. Verdict.retry - 1 :
                         \/ VerdictAt(t).reason # "none"
                         \/ Windows(policy, PolicyDay(t)) = {}
                    /\ \/ VerdictAt(Verdict.retry).reason # Verdict.reason
                       \/ 0 \in {Get(policy.daily, PolicyDay(Verdict.retry)),
                                 policy.weekly}
  BY DEF VainBeforeRetry
<1>1. policy \in Policies /\ now \in Int /\ usage \in Snapshots
  BY FiguresAre DEF TypeOK, Denied
<1> DEFINE reason == Reason(policy, usage, now)
           r == RetryAt(policy, now, reason)
           Then(t) == Reason(policy, Later(usage, now, t), t)
           u(t) == Later(usage, now, t)
<1>2. /\ Verdict.reason = reason /\ Verdict.retry = r
      /\ \A t : VerdictAt(t).reason = Then(t)
      /\ reason # "none"
  BY DEF Denied, Verdict, VerdictAt, Evaluate
<1>3. r \in Int /\ now < r /\ r # None
  <2>1. r \in Int /\ now < r
    BY <1>1, <1>2, RetryIsNear
  <2> HIDE DEF r
  <2> QED
    BY <2>1, CalendarAssumption
<1>4. policy.enforcement
  BY <1>2 DEF Reason
<1>5. \A t : /\ Windows(policy, PolicyDay(t)) # {} /\ Current(policy, t) = {}
                  <=> Then(t) = "window"
             /\ DailyRemaining(policy, u(t), t) = 0 => Then(t) # "none"
             /\ WeeklyRemaining(policy, u(t)) = 0 => Then(t) # "none"
             /\ Then(t) = "daily" => DailyRemaining(policy, u(t), t) = 0
             /\ Then(t) = "weekly" => WeeklyRemaining(policy, u(t)) = 0
  BY <1>4 DEF Reason
<1>6. reason \in {"window", "daily", "weekly"}
  BY <1>2 DEF Reason
<1>7. /\ reason = "window" => /\ Windows(policy, PolicyDay(now)) # {}
                              /\ Current(policy, now) = {}
      /\ reason = "daily" => DailyRemaining(policy, usage, now) = 0
      /\ reason = "weekly" => WeeklyRemaining(policy, usage) = 0
  BY DEF Reason
<1>8. \A date : /\ Get(policy.daily, date) \in {None} \cup Nat
                /\ policy.weekly \in {None} \cup Nat
  BY <1>1, PolicyIs
<1>9. None \notin Int
  BY CalendarAssumption
<1> HIDE DEF reason, Then
<1>10. SUFFICES /\ \A t \in now .. r - 1 :
                     Then(t) # "none" \/ Windows(policy, PolicyDay(t)) = {}
                /\ \/ Then(r) # reason
                   \/ 0 \in {Get(policy.daily, PolicyDay(r)), policy.weekly}
  BY <1>2, <1>3
<1>11. CASE reason = "window"
  <2>1. r = RetryAt(policy, now, "window")
    BY <1>11
  <2> HIDE DEF r
  <2>2. /\ Current(policy, r) # {}
        /\ \A t \in now .. r - 1 : Current(policy, t) = {}
    BY <1>1, <1>7, <1>11, <2>1, NextWindow
  <2> QED
    BY <1>5, <1>11, <2>2
<1>12. CASE reason = "daily"
  <2>1. r = PolicyDayEnd(PolicyDay(now))
    BY <1>12 DEF RetryAt
  <2> HIDE DEF r
  <2>2. /\ PolicyDay(r) = PolicyDay(now) + 1
        /\ \A t \in now .. r - 1 : PolicyDay(t) = PolicyDay(now)
    BY <1>1, <2>1, NextDay
  <2>3. ASSUME NEW t \in now .. r - 1
        PROVE  Then(t) # "none"
    <3>1. PolicyDay(t) = PolicyDay(now)
      BY <2>2
    <3>2. u(t).day = usage.day /\ u(t).bonus = usage.bonus
      BY <3>1 DEF Later
    <3>3. DailyRemaining(policy, u(t), t) = 0
      BY <1>7, <1>12, <3>1, <3>2 DEF DailyRemaining
    <3> QED
      BY <1>5, <3>3
  <2>4. ASSUME Then(r) = "daily"
        PROVE  Get(policy.daily, PolicyDay(r)) = 0
    <3>1. PolicyDay(r) # PolicyDay(now)
      BY <1>1, <2>2, DayHolds
    <3>2. u(r).day = 0 /\ u(r).bonus = 0
      BY <3>1 DEF Later
    <3>3. DailyRemaining(policy, u(r), r) = 0
      BY <1>5, <2>4
    <3> DEFINE limit == Get(policy.daily, PolicyDay(r))
    <3>4. DailyRemaining(policy, u(r), r) =
            IF limit = None THEN None ELSE Minus(limit + 0, 0)
      BY <3>2 DEF DailyRemaining
    <3>5. limit \in {None} \cup Nat
      BY <1>8
    <3> HIDE DEF limit
    <3>6. limit = 0
      BY <1>9, <3>3, <3>4, <3>5 DEF Minus
    <3> QED
      BY <3>6 DEF limit
  <2> QED
    BY <1>12, <2>3, <2>4
<1>13. CASE reason = "weekly"
  <2>1. r = At(WeekStart(PolicyDay(now)) + WeekDays, DayStart)
    BY <1>13 DEF RetryAt
  <2> HIDE DEF r
  <2>2. /\ WeekStart(PolicyDay(r)) # WeekStart(PolicyDay(now))
        /\ \A t \in now .. r - 1 :
             WeekStart(PolicyDay(t)) = WeekStart(PolicyDay(now))
    BY <1>1, <2>1, NextWeekBegins
  <2>3. ASSUME NEW t \in now .. r - 1
        PROVE  Then(t) # "none"
    <3>1. u(t).week = usage.week
      BY <2>2 DEF Later
    <3>2. WeeklyRemaining(policy, u(t)) = 0
      BY <1>7, <1>13, <3>1 DEF WeeklyRemaining
    <3> QED
      BY <1>5, <3>2
  <2>4. ASSUME Then(r) = "weekly"
        PROVE  policy.weekly = 0
    <3>1. u(r).week = 0
      BY <2>2 DEF Later
    <3>2. WeeklyRemaining(policy, u(r)) = 0
      BY <1>5, <2>4
    <3> QED
      BY <1>8, <1>9, <3>1, <3>2 DEF WeeklyRemaining, Minus
  <2> QED
    BY <1>13, <2>3, <2>4
<1> QED
  BY <1>6, <1>11, <1>12, <1>13

-----------------------------------------------------------------------------

\* A quota that is not used up lasts for as long as it is the rest of.
LEMMA QuotaLasts ==
  ASSUME NEW limit \in Nat, NEW used \in Nat, NEW n \in Nat,
         Minus(limit, used) # 0
  PROVE  /\ Minus(limit, used) \in Nat
         /\ Minus(limit, used + n) = 0 <=> n >= Minus(limit, used)
BY DEF Minus

\* A window that runs lasts until its end, and where it ends access does; a
\* day without windows has no such end.
LEMMA WindowLasts ==
  ASSUME NEW p \in Policies, NEW t \in Int, NEW n \in Nat,
         Windows(p, PolicyDay(t)) = {} \/ Current(p, t) # {},
         PolicyDay(t + n) = PolicyDay(t)
  PROVE  LET rest == WindowRemaining(p, t)
         IN /\ rest \in {None} \cup Nat
            /\ (rest # None => n <= rest) =>
                 ((Windows(p, PolicyDay(t + n)) # {} /\ Current(p, t + n) = {})
                    <=> (rest # None /\ n >= rest))
<1> DEFINE d == PolicyDay(t)
           s == t + n
           rest == WindowRemaining(p, t)
           S == {i.end - t : i \in Current(p, t)}
<1>1. s \in Int /\ d \in Int /\ PolicyDay(s) = d
  BY DayHolds
<1>2. rest = Least(S)
  BY DEF WindowRemaining
<1>3. CASE Windows(p, d) = {}
  <2>1. ConcreteWindows(p, d) = {}
    BY <1>3 DEF ConcreteWindows, Merged
  <2>2. S = {}
    BY <2>1 DEF Current
  <2>3. rest = None
    BY <1>2, <2>2 DEF Least
  <2> QED
    BY <1>1, <1>3, <2>3
<1>4. CASE Windows(p, d) # {}
  <2>1. PICK m \in Current(p, t) : TRUE
    BY <1>4
  <2>2. m \in ConcreteWindows(p, d) /\ Runs(m, t)
    BY <2>1 DEF Current
  <2>3. /\ m.start \in Int /\ m.end \in Int
    BY <1>1, <2>2, WindowsBegin
  <2>4. m.start <= t /\ t < m.end
    BY <2>2 DEF Runs
  <2>5. \A k \in ConcreteWindows(p, d) : /\ Runs(k, t) => k.end = m.end
                                         /\ ~Runs(k, m.end)
    BY <1>1, <2>2, WindowsApart
  <2>6. S = {m.end - t}
    BY <2>1, <2>5 DEF Current
  <2>7. rest = m.end - t
    <3> DEFINE e == m.end - t
    <3>1. S = {e} /\ e \in Int /\ e # None
      BY <2>3, <2>6, CalendarAssumption
    <3> HIDE DEF S, e, rest
    <3>2. {e} \subseteq Int \cup {None} /\ {e} # {None} /\ {e} # {}
          /\ \A x \in {e} \ {None} : e <= x
      BY <3>1
    <3>3. Least({e}) \in {e} \ {None}
      BY <3>1, <3>2, LeastIsIn
    <3> QED
      BY <1>2, <3>1, <3>3 DEF e
  <2> HIDE DEF rest, S
  <2>8. rest \in Nat /\ rest # None
    BY <2>3, <2>4, <2>7, CalendarAssumption
  <2>9. SUFFICES ASSUME n <= rest
                 PROVE  (Windows(p, PolicyDay(s)) # {} /\ Current(p, s) = {})
                          <=> n >= rest
    BY <2>8 DEF rest
  <2>10. CASE n < rest
    <3>1. Runs(m, s)
      BY <2>3, <2>4, <2>7, <2>10 DEF Runs
    <3>2. Current(p, s) # {}
      BY <1>1, <2>2, <3>1 DEF Current
    <3> QED
      BY <1>1, <2>8, <2>10, <3>2
  <2>11. CASE n = rest
    <3>1. s = m.end
      BY <2>3, <2>7, <2>11
    <3>2. Current(p, s) = {}
      BY <1>1, <2>5, <3>1 DEF Current
    <3> QED
      BY <1>1, <1>4, <2>8, <2>11, <3>2
  <2> QED
    BY <2>8, <2>9, <2>10, <2>11
<1> QED
  BY <1>3, <1>4

\* What is left is the least of three rests, each of which lasts as long as it
\* says: no more and no less.
LEMMA TimeLeftHolds == TypeOK => TimeLeftIsExact
<1> SUFFICES ASSUME TypeOK, policy # None, Verdict.remaining # None,
                    NEW n \in 0 .. Verdict.remaining,
                    PolicyDay(now + n) = PolicyDay(now)
             PROVE  Evaluate(policy, Used(usage, n), now + n).reason = "none"
                      <=> n < Verdict.remaining
  BY DEF TimeLeftIsExact
<1>1. policy \in Policies /\ now \in Int /\ usage \in Snapshots
  BY FiguresAre DEF TypeOK
<1> DEFINE p == policy
           t == now
           s == now + n
           v == Used(usage, n)
           reason == Reason(p, usage, t)
           left == Verdict.remaining
           D == DailyRemaining(p, usage, t)
           W == WeeklyRemaining(p, usage)
           C == WindowRemaining(p, t)
<1>2. left = IF reason # "none" THEN 0
             ELSE IF ~p.enforcement THEN None ELSE Least({D, W, C})
  BY DEF Verdict, Evaluate
<1>3. SUFFICES Reason(p, v, s) = "none" <=> n < left
  BY DEF Evaluate
<1>4. /\ usage.day \in Nat /\ usage.week \in Nat /\ usage.bonus \in Nat
      /\ v.day = usage.day + n /\ v.week = usage.week + n
      /\ v.bonus = usage.bonus
      /\ v = [day |-> usage.day + n, week |-> usage.week + n,
              bonus |-> usage.bonus]
      /\ usage = [day |-> usage.day, week |-> usage.week,
                  bonus |-> usage.bonus]
  BY <1>1 DEF Used, Snapshots
<1>5. None \notin Int
  BY CalendarAssumption
<1>6. CASE reason # "none"
  <2>1. left = 0 /\ n = 0
    <3>1. left = 0
      BY <1>2, <1>6
    <3>2. n \in 0 .. left
      OBVIOUS
    <3> HIDE DEF left
    <3> QED
      BY <3>1, <3>2
  <2>2. v = usage /\ s = t
    BY <1>1, <1>4, <2>1
  <2> HIDE DEF left, v, s
  <2> QED
    BY <1>6, <2>1, <2>2
<1>7. CASE reason = "none"
  <2>1. p.enforcement
    <3>1. left # None
      OBVIOUS
    <3> HIDE DEF left, p
    <3> QED
      BY <1>2, <1>7, <3>1
  <2>2. left = Least({D, W, C})
    BY <1>2, <1>7, <2>1
  <2>3. /\ Windows(p, PolicyDay(t)) = {} \/ Current(p, t) # {}
        /\ D # 0 /\ W # 0
    BY <1>7, <2>1 DEF Reason
  <2>4. Reason(p, v, s) = "none" <=>
          /\ ~(Windows(p, PolicyDay(s)) # {} /\ Current(p, s) = {})
          /\ DailyRemaining(p, v, s) # 0
          /\ WeeklyRemaining(p, v) # 0
    BY <2>1 DEF Reason
  <2> DEFINE limit == Get(p.daily, PolicyDay(t))
  <2>5. p.weekly \in {None} \cup Nat /\ limit \in {None} \cup Nat
    BY <1>1, PolicyIs
  <2>6. n \in Nat
    <3>1. n \in 0 .. left
      OBVIOUS
    <3> HIDE DEF left
    <3> QED
      BY <3>1
  <2>7. C \in {None} \cup Nat
    BY <1>1, <2>3, <2>6, WindowLasts
  <2>8. /\ D \in {None} \cup Nat
        /\ DailyRemaining(p, v, s) = 0 <=> D # None /\ n >= D
    <3>1. /\ D = IF limit = None THEN None
                 ELSE Minus(limit + usage.bonus, usage.day)
          /\ DailyRemaining(p, v, s) =
               IF limit = None THEN None
               ELSE Minus(limit + usage.bonus, usage.day + n)
      BY <1>4 DEF DailyRemaining
    <3> HIDE DEF D, limit, p, v, s
    <3>2. CASE limit = None
      BY <1>5, <3>1, <3>2
    <3>3. CASE limit # None
      <4>1. limit + usage.bonus \in Nat
        BY <1>4, <2>5, <3>3
      <4>2. Minus(limit + usage.bonus, usage.day) # 0
        BY <2>3, <3>1, <3>3
      <4> QED
        BY <1>4, <1>5, <2>6, <3>1, <3>3, <4>1, <4>2, QuotaLasts
    <3> QED
      BY <3>2, <3>3
  <2>9. /\ W \in {None} \cup Nat
        /\ WeeklyRemaining(p, v) = 0 <=> W # None /\ n >= W
    <3>1. /\ W = IF p.weekly = None THEN None
                 ELSE Minus(p.weekly, usage.week)
          /\ WeeklyRemaining(p, v) =
               IF p.weekly = None THEN None
               ELSE Minus(p.weekly, usage.week + n)
      BY <1>4 DEF WeeklyRemaining
    <3> HIDE DEF W, p, v
    <3>2. CASE p.weekly = None
      BY <1>5, <3>1, <3>2
    <3>3. CASE p.weekly # None
      BY <1>4, <1>5, <2>3, <2>5, <2>6, <3>1, <3>3, QuotaLasts
    <3> QED
      BY <3>2, <3>3
  <2>10. /\ left \in {D, W, C} /\ left \in Nat
         /\ \A rest \in {D, W, C} \ {None} : left <= rest
    <3> DEFINE S == {D, W, C}
    <3>1. S \subseteq {None} \cup Nat
      BY <2>7, <2>8, <2>9
    <3>2. left # None
      OBVIOUS
    <3> HIDE DEF S, D, W, C, left
    <3>3. S # {None}
      BY <2>2, <3>2 DEF Least, S
    <3>4. S # {}
      BY DEF S
    <3> DEFINE low == 0
    <3>5. /\ low \in Int
          /\ S \subseteq Int \cup {None} /\ \A x \in S \ {None} : low <= x
      BY <3>1
    <3> HIDE DEF low
    <3>6. /\ Least(S) \in S \ {None}
          /\ \A x \in S \ {None} : Least(S) <= x
      BY <3>3, <3>4, <3>5, LeastIsIn
    <3> QED
      BY <2>2, <3>1, <3>6 DEF S
  <2>11. n <= left
    <3>1. n \in 0 .. left
      OBVIOUS
    <3> HIDE DEF left
    <3> QED
      BY <2>10, <3>1
  <2>12. C # None => n <= C
    <3> HIDE DEF C, D, W, left
    <3> QED
      BY <2>6, <2>7, <2>10, <2>11
  <2>13. (Windows(p, PolicyDay(s)) # {} /\ Current(p, s) = {})
           <=> C # None /\ n >= C
    BY <1>1, <2>3, <2>6, <2>12, WindowLasts
  <2>14. Reason(p, v, s) = "none" <=> \A rest \in {D, W, C} \ {None} : n < rest
    <3> HIDE DEF C, D, W, p, v, s
    <3> QED
      BY <2>4, <2>6, <2>7, <2>8, <2>9, <2>13
  <2> HIDE DEF C, D, W, left
  <2> QED
    BY <1>5, <2>6, <2>7, <2>8, <2>9, <2>10, <2>14
<1> QED
  BY <1>6, <1>7

-----------------------------------------------------------------------------

\* A moment lies in what a policy day's windows are merged into exactly if it
\* lies in one of the windows: no rule a parent wrote is lost or widened by
\* the merging.
THEOREM MergingKeepsTheTime ==
  ASSUME NEW p \in Policies, NEW d \in Int, NEW t \in Int
  PROVE  (\E m \in ConcreteWindows(p, d) : Runs(m, t))
           <=> (\E w \in Windows(p, d) : Runs(Pinned(d, w), t))
<1> DEFINE I == PinnedOf(p, d)
<1>1. /\ At(d, DayStart) \in Int /\ At(d + 1, DayStart) + HoursPerDay \in Int
      /\ Spans(I, At(d, DayStart), At(d + 1, DayStart) + HoursPerDay)
  BY PinnedSpan
<1>2. ConcreteWindows(p, d) = Merged(I)
  BY DEF ConcreteWindows, PinnedOf
<1>3. (\E i \in I : Runs(i, t)) <=> \E w \in Windows(p, d) : Runs(Pinned(d, w), t)
  BY DEF PinnedOf
<1> HIDE DEF I
<1>4. (\E m \in Merged(I) : Runs(m, t)) <=> (\E i \in I : Runs(i, t))
  BY <1>1, MergedCovers
<1> QED
  BY <1>2, <1>3, <1>4

\* Coming back before the instant a refusal names is in vain, and at that
\* instant its reason is gone.
THEOREM ComingEarlierIsVain == Spec => []VainBeforeRetry
  BY TypeCorrect, VainHolds, PTL

\* The time left is exact to the unit within the policy day.
THEOREM TimeLeftIsTrue == Spec => []TimeLeftIsExact
  BY TypeCorrect, TimeLeftHolds, PTL

\* The words of a refusal mean the instant they were made from, wherever the
\* machine's calendar shows the date of the policy's, and also where it does
\* not, unless it has passed the retry's date already.
THEOREM SentencesAreUnderstood == Spec => []SentenceMeansRetry
  BY TypeCorrect, SentenceHolds, PTL
=============================================================================
