----------------------------- MODULE TickerProofs -----------------------------
(***************************************************************************)
(* Proofs about Ticker for every number of sessions, every grace period,   *)
(* every set of rules and every failure of logind and the database: its    *)
(* types, that nobody is ended unannounced, that locking is an edge, and   *)
(* that the ladder of Escalation is kept.                                  *)
(***************************************************************************)
EXTENDS TickerEscalation, TLAPS

-----------------------------------------------------------------------------
(***************************************************************************)
(* The strengthening: the grace period runs from a notice on record and    *)
(* the wall clock is never ahead of it but for what it was set forward by, *)
(* and a notice on record is a step away from Running.                     *)
(***************************************************************************)
GraceRunsFromNotice == phase = "Grace" => notice # None /\ waited <= notice

NoticeLeavesRunning == phase = "Running" => notice = None

IInv ==
  /\ TypeOK
  /\ GraceRunsFromNotice
  /\ NoticeLeavesRunning

(***************************************************************************)
(* Counting ticks stays within the grace period.                           *)
(***************************************************************************)
LEMMA LaterInRange ==
  ASSUME NEW low \in Int, NEW t \in low .. LongestGrace
  PROVE  Later(t) \in low .. LongestGrace
BY TickerAssumption DEF TickerAssumption, Later, Capped

LEMMA LaterKeepsOrder ==
  ASSUME NEW a \in Int, NEW b \in Int, a <= b, b <= LongestGrace
  PROVE  Later(a) <= Later(b)
<1>1. LongestGrace \in Nat
  BY TickerAssumption DEF TickerAssumption
<1>2. a + 1 \in Int /\ b + 1 \in Int /\ a + 1 <= b + 1
  OBVIOUS
<1>3. QED
  BY <1>1, <1>2 DEF Later, Capped

(***************************************************************************)
(* Setting the clock forward moves the wait and the notice alike.          *)
(***************************************************************************)
LEMMA StepsKeepOrder ==
  ASSUME NEW w \in Int, NEW n \in Nat, NEW v \in Int,
         w <= n, w < v, v <= LongestGrace, n <= LongestGrace
  PROVE  /\ v <= Capped(n + (v - w))
         /\ Capped(n + (v - w)) \in n .. LongestGrace
<1>1. LongestGrace \in Nat
  BY TickerAssumption DEF TickerAssumption
<1>2. n + (v - w) \in Int /\ n <= n + (v - w) /\ v <= n + (v - w)
  OBVIOUS
<1>3. QED
  BY <1>1, <1>2 DEF Capped

LEMMA ForwardMovesBoth ==
  ASSUME TypeOK, notice # None, waited <= notice, ClockSetForward
  PROVE  /\ waited' \in (-ClockBack) .. LongestGrace
         /\ notice' \in notice .. LongestGrace
         /\ waited' <= notice'
<1>1. /\ LongestGrace \in Nat /\ ClockBack \in Nat
      /\ waited \in Int /\ -ClockBack <= waited
      /\ notice \in Nat /\ notice <= LongestGrace
  BY TickerAssumption DEF TickerAssumption, TypeOK
<1>2. waited' \in (waited + 1) .. LongestGrace
  BY DEF ClockSetForward
<1>3. waited' \in Int /\ waited < waited' /\ waited' <= LongestGrace
  BY <1>1, <1>2
<1>4. notice' = Capped(notice + (waited' - waited))
  BY DEF ClockSetForward
<1>5. /\ waited' <= Capped(notice + (waited' - waited))
      /\ Capped(notice + (waited' - waited)) \in notice .. LongestGrace
  BY <1>1, <1>3, StepsKeepOrder
<1>6. waited' \in (-ClockBack) .. LongestGrace
  BY <1>1, <1>3
<1>7. QED
  BY <1>4, <1>5, <1>6

(***************************************************************************)
(* Whether or not logind refuses some requests, only targets are reached.  *)
(***************************************************************************)
LEMMA ReachedIsWithin ==
  ASSUME NEW targets, NEW mayFail \in BOOLEAN,
         NEW sent \in Reached(targets, mayFail)
  PROVE  sent \subseteq targets
BY DEF Reached

(***************************************************************************)
(* Reading the list of sessions invents none, and takes none for unlocked  *)
(* whose LockedHint it gets.                                               *)
(***************************************************************************)
LEMMA ViewsAreNoFiction ==
  ASSUME NEW view \in Views, NEW s \in Session
  PROVE  /\ view[s] # "gone" => session[s] # "gone"
         /\ s \notin Unreadable => view[s] = session[s]
BY DEF Views, Reads

(***************************************************************************)
(* A tick takes exactly one of the paths through tick_user.                *)
(***************************************************************************)
Acts(view) ==
  \/ CloseSession(view) \/ GraceGoesOn(view)
  \/ EndSessions(view) \/ LockStrays(view)

LEMMA TickCases ==
  ASSUME Tick
  PROVE  /\ UNCHANGED world
         /\ \/ Skipped
            \/ Restore
            \/ Managed /\ \E view \in Views : Acts(view)
<1>1. UNCHANGED world
  BY DEF Tick
<1>2. CASE Skipped
  BY <1>1, <1>2
<1>3. CASE Managed /\ \E view \in Views : \E atWork \in AtWork(view) :
                        IF MustClose(atWork) THEN Enforce(view) ELSE Restore
  <2>1. PICK view \in Views : \E atWork \in AtWork(view) :
               IF MustClose(atWork) THEN Enforce(view) ELSE Restore
    BY <1>3
  <2>2. Enforce(view) \/ Restore
    BY <2>1
  <2>3. Acts(view) \/ Restore
    BY <2>2 DEF Enforce, NobodyThere, Acts
  <2>4. QED
    BY <1>1, <1>3, <2>3
<1>4. QED
  BY <1>2, <1>3 DEF Tick

-----------------------------------------------------------------------------
LEMMA InitEstablishes ==
  ASSUME Init
  PROVE  IInv
<1>1. /\ LongestGrace \in Nat /\ ClockBack \in Nat
      /\ Policies \subseteq Policy \cup {None}
  BY TickerAssumption DEF TickerAssumption
<1>2. did \in [notice : BOOLEAN, locks : SUBSET Session, ends : SUBSET Session]
  BY DEF Init, Nothing
<1>3. /\ policy \in Policy \cup {None}
      /\ member \in BOOLEAN /\ flag \in BOOLEAN
      /\ timeUp \in BOOLEAN /\ silent \in BOOLEAN
  BY <1>1 DEF Init
<1>4. waited \in (-ClockBack) .. LongestGrace
  BY <1>1 DEF Init
<1>5. session \in [Session -> SessionState]
  BY DEF Init, SessionState
<1>6. TypeOK
  BY <1>2, <1>3, <1>4, <1>5 DEF Init, TypeOK
<1>7. QED
  BY <1>6 DEF Init, IInv, GraceRunsFromNotice, NoticeLeavesRunning

(***************************************************************************)
(* A tick keeps the invariant, path by path.                               *)
(***************************************************************************)
LEMMA TickKeeps ==
  ASSUME IInv, Tick
  PROVE  IInv'
<1> USE DEF IInv
<1>w. UNCHANGED world
  BY TickCases
<1>a. /\ LongestGrace \in Nat /\ ClockBack \in Nat /\ None \notin Nat
      /\ {LockMayFail, TerminateMayFail} \subseteq BOOLEAN
  BY TickerAssumption DEF TickerAssumption
<1>l. Later(waited) \in (-ClockBack) .. LongestGrace
  BY <1>a, LaterInRange DEF TypeOK
<1>n. notice # None => Later(notice) \in 0 .. LongestGrace
  BY LaterInRange DEF TypeOK
<1>o. phase = "Grace" => notice # None /\ Later(waited) <= Later(notice)
  BY <1>a, LaterKeepsOrder DEF TypeOK, GraceRunsFromNotice
<1>1. CASE Skipped
  BY <1>1, <1>w, <1>a, <1>l, <1>n, <1>o
     DEF Skipped, GraceAges, NoticeAges, Nothing, TypeOK, GraceRunsFromNotice,
         NoticeLeavesRunning, desktop, world
<1>2. CASE Restore
  BY <1>2, <1>w, <1>a
     DEF Restore, Nothing, TypeOK, GraceRunsFromNotice, NoticeLeavesRunning,
         desktop, world
<1>3. ASSUME Managed, NEW view \in Views, CloseSession(view)
      PROVE  IInv'
  <2>1. PICK sent \in Reached(ToClose(view), LockMayFail) :
          /\ SendLocks(sent)
          /\ did' = [notice |-> TRUE, locks |-> sent, ends |-> {}]
    BY <1>3 DEF CloseSession
  <2>2. \A s \in sent : s \in Session /\ session[s] # "gone"
    BY <2>1, <1>a, ReachedIsWithin, ViewsAreNoFiction DEF ToClose, Lockable
  <2>3. TypeOK'
    BY <1>3, <1>w, <1>a, <2>1, <2>2
       DEF CloseSession, SendLocks, TypeOK, world
  <2>4. /\ phase' = "Grace" => notice' = 0 /\ waited' = 0
        /\ phase' = "Running" => notice' = None
    BY <1>3 DEF CloseSession, NoticeLeavesRunning
  <2>5. QED
    BY <1>a, <2>3, <2>4 DEF GraceRunsFromNotice, NoticeLeavesRunning
<1>4. ASSUME NEW view \in Views, GraceGoesOn(view)
      PROVE  IInv'
  BY <1>4, <1>w, <1>a, <1>l, <1>n, <1>o
     DEF GraceGoesOn, GraceAges, NoticeAges, Nothing, TypeOK,
         GraceRunsFromNotice, NoticeLeavesRunning, desktop, world
<1>5. ASSUME NEW view \in Views, EndSessions(view)
      PROVE  IInv'
  <2>1. PICK ended \in Reached(Lockable(view), TerminateMayFail) :
          /\ session' = [s \in Session |->
                           IF s \in ended THEN "gone" ELSE session[s]]
          /\ asked' = asked \ ended
          /\ did' = [notice |-> FALSE, locks |-> {}, ends |-> ended]
    BY <1>5 DEF EndSessions, End
  <2>2. ended \subseteq Session
    BY <2>1, <1>a, ReachedIsWithin DEF Lockable
  <2>3. /\ phase' = "Enforced" /\ waited' = 0
        /\ notice' \in 0 .. LongestGrace \cup {None}
    BY <1>5, <1>n DEF EndSessions, NoticeAges, GraceRunsFromNotice
  <2>4. TypeOK'
    BY <1>w, <1>a, <2>1, <2>2, <2>3 DEF TypeOK, SessionState, world
  <2>5. QED
    BY <2>3, <2>4 DEF GraceRunsFromNotice, NoticeLeavesRunning
<1>6. ASSUME NEW view \in Views, LockStrays(view)
      PROVE  IInv'
  <2>1. PICK sent \in Reached(Strays(view), LockMayFail) :
          /\ SendLocks(sent)
          /\ did' = [notice |-> FALSE, locks |-> sent, ends |-> {}]
    BY <1>6 DEF LockStrays
  <2>2. \A s \in sent : s \in Session /\ session[s] # "gone"
    BY <2>1, <1>a, ReachedIsWithin, ViewsAreNoFiction
       DEF Strays, ToClose, Lockable
  <2>3. TypeOK'
    BY <1>6, <1>w, <1>a, <1>n, <2>1, <2>2
       DEF LockStrays, NoticeAges, SendLocks, TypeOK, world
  <2>4. QED
    BY <1>6, <2>3 DEF LockStrays, GraceRunsFromNotice, NoticeLeavesRunning
<1>7. QED
  BY <1>1, <1>2, <1>3, <1>4, <1>5, <1>6, TickCases DEF Acts

(***************************************************************************)
(* So does everything that happens between ticks: it does not touch the    *)
(* phase, or starts over with nothing announced.                           *)
(***************************************************************************)
LEMMA BetweenKeeps ==
  ASSUME IInv,
         \/ \E s \in Session :
              Login(s) \/ Logout(s) \/ Unlock(s) \/ LockSelf(s) \/ Obey(s)
         \/ WorldChanges
         \/ Suspend
         \/ ClockSetBack \/ ClockSetForward
         \/ TickerLost
  PROVE  IInv'
<1> USE DEF IInv
<1>a. /\ LongestGrace \in Nat /\ ClockBack \in Nat /\ None \notin Nat
      /\ Policies \subseteq Policy \cup {None}
  BY TickerAssumption DEF TickerAssumption
<1>1. ASSUME NEW s \in Session,
             Login(s) \/ Logout(s) \/ Unlock(s) \/ LockSelf(s) \/ Obey(s)
      PROVE  IInv'
  <2>1. /\ session' \in [Session -> SessionState]
        /\ asked' \subseteq Session
        /\ \A d \in asked' : session'[d] # "gone" /\ d \notin Console
    BY <1>1 DEF Login, Logout, Unlock, LockSelf, Obey, Between, TypeOK,
                SessionState
  <2>2. UNCHANGED <<daemon, world, notice>> /\ did' = Nothing
    BY <1>1 DEF Login, Logout, Unlock, LockSelf, Obey, Between
  <2>3. QED
    BY <2>1, <2>2
       DEF daemon, world, Nothing, TypeOK, GraceRunsFromNotice,
           NoticeLeavesRunning
<1>2. CASE WorldChanges
  BY <1>2, <1>a
     DEF WorldChanges, daemon, desktop, Nothing, TypeOK, GraceRunsFromNotice,
         NoticeLeavesRunning
<1>3. CASE Suspend
  BY <1>3, <1>a
     DEF Suspend, desktop, world, Nothing, TypeOK, GraceRunsFromNotice,
         NoticeLeavesRunning
<1>4. CASE TickerLost
  BY <1>4, <1>a
     DEF TickerLost, Fresh, desktop, world, Nothing, TypeOK,
         GraceRunsFromNotice, NoticeLeavesRunning
<1>5. CASE ClockSetBack
  BY <1>5, <1>a
     DEF ClockSetBack, desktop, world, Nothing, TypeOK, GraceRunsFromNotice,
         NoticeLeavesRunning
<1>6. CASE ClockSetForward
  <2>1. notice # None /\ waited <= notice
    BY <1>6 DEF ClockSetForward, GraceRunsFromNotice
  <2>2. notice \in Nat
    BY <2>1 DEF TypeOK
  <2>3. /\ waited' \in (-ClockBack) .. LongestGrace
        /\ notice' \in 0 .. LongestGrace /\ waited' <= notice'
    BY <1>6, <1>a, <2>1, <2>2, ForwardMovesBoth
  <2>4. QED
    BY <1>6, <1>a, <2>3
       DEF ClockSetForward, desktop, world, Nothing, TypeOK,
           GraceRunsFromNotice, NoticeLeavesRunning
<1>7. QED
  BY <1>1, <1>2, <1>3, <1>4, <1>5, <1>6

LEMMA StepKeeps ==
  ASSUME IInv, [Next]_vars
  PROVE  IInv'
<1>1. CASE Tick
  BY <1>1, TickKeeps
<1>2. CASE UNCHANGED vars
  BY <1>2
     DEF vars, daemon, desktop, world, history, IInv, TypeOK,
         GraceRunsFromNotice, NoticeLeavesRunning
<1>3. QED
  BY <1>1, <1>2, BetweenKeeps DEF Next

(***************************************************************************)
(* The invariant holds in every reachable state.                           *)
(***************************************************************************)
THEOREM Invariance == Spec => []IInv
BY InitEstablishes, StepKeeps, PTL DEF Spec

(***************************************************************************)
(* The state of a user and of the sessions is always well formed.          *)
(***************************************************************************)
THEOREM TypeCorrect == Spec => []TypeOK
<1>1. IInv => TypeOK
  BY DEF IInv
<1>2. QED
  BY <1>1, Invariance, PTL

-----------------------------------------------------------------------------
(***************************************************************************)
(* Only a tick acts on a session; everything else leaves `did' empty.      *)
(***************************************************************************)
LEMMA OnlyTicksAct ==
  ASSUME Next, ~Tick
  PROVE  did' = Nothing
BY DEF Next, Login, Logout, Unlock, LockSelf, Obey, Between, WorldChanges,
       Suspend, ClockSetBack, ClockSetForward, TickerLost

(***************************************************************************)
(* When the wait is over by the clock, it is over since the notice.        *)
(***************************************************************************)
LEMMA WaitIsReal ==
  ASSUME TypeOK, notice # None, waited <= notice, policy \in Policy,
         Elapsed >= policy.grace
  PROVE  Later(notice) >= policy.grace
<1>1. /\ LongestGrace \in Nat /\ ClockBack \in Nat
      /\ waited \in Int /\ notice \in 0 .. LongestGrace
      /\ policy.grace \in Nat
  BY TickerAssumption DEF TickerAssumption, TypeOK, Policy
<1>2. Later(waited) <= Later(notice)
  BY <1>1, LaterKeepsOrder
<1>3. Later(notice) \in 0 .. LongestGrace /\ Later(waited) \in Int
  BY <1>1 DEF Later, Capped
<1>4. QED
  BY <1>1, <1>2, <1>3 DEF Elapsed

LEMMA EndingIsAnnounced ==
  ASSUME IInv, [Next]_vars
  PROVE  [did'.ends # {} =>
            notice # None /\ Later(notice) >= policy.grace]_vars
<1> SUFFICES ASSUME Next, did'.ends # {}
             PROVE  notice # None /\ Later(notice) >= policy.grace
  OBVIOUS
<1>1. Tick
  BY OnlyTicksAct DEF Nothing
<1>2. Managed /\ \E view \in Views : EndSessions(view)
  BY <1>1, TickCases
     DEF Skipped, Restore, Acts, CloseSession, GraceGoesOn, LockStrays, Nothing
<1>3. /\ notice # None /\ waited <= notice
      /\ policy \in Policy /\ Elapsed >= policy.grace
  BY <1>2
     DEF EndSessions, GraceOver, Managed, IInv, GraceRunsFromNotice, TypeOK
<1>4. QED
  BY <1>3, WaitIsReal DEF IInv

(***************************************************************************)
(* Nobody is thrown out unannounced, or before the grace period of the     *)
(* rules in force is over by a clock that runs or is set forward.          *)
(***************************************************************************)
THEOREM NobodyEndedUnannounced == Spec => EndedOnlyAfterGrace
BY Invariance, EndingIsAnnounced, PTL DEF Spec, EndedOnlyAfterGrace

LEMMA StepIsAnEdge ==
  ASSUME IInv, [Next]_vars
  PROVE  [notice # None => /\ ~did'.notice
                           /\ \A s \in did'.locks \ Unreadable :
                                session[s] = "unlocked"]_vars
<1> SUFFICES ASSUME Next, notice # None
             PROVE  /\ ~did'.notice
                    /\ \A s \in did'.locks \ Unreadable :
                         session[s] = "unlocked"
  OBVIOUS
<1>1. CASE did' = Nothing
  BY <1>1 DEF Nothing
<1>2. CASE \E view \in Views : EndSessions(view)
  BY <1>2 DEF EndSessions, End
<1>3. ASSUME NEW view \in Views, LockStrays(view)
      PROVE  /\ ~did'.notice
             /\ \A s \in did'.locks \ Unreadable : session[s] = "unlocked"
  <2>1. PICK sent \in Reached(Strays(view), LockMayFail) :
          did' = [notice |-> FALSE, locks |-> sent, ends |-> {}]
    BY <1>3 DEF LockStrays
  <2>2. sent \subseteq Strays(view)
    BY <2>1, TickerAssumption, ReachedIsWithin DEF TickerAssumption
  <2>3. \A s \in sent : s \in Session /\ view[s] = "unlocked"
    BY <2>2 DEF Strays, ToClose, Lockable
  <2>4. QED
    BY <2>1, <2>3, ViewsAreNoFiction
<1>4. ~\E view \in Views : CloseSession(view)
  BY DEF IInv, NoticeLeavesRunning, CloseSession
<1>5. QED
  BY <1>1, <1>2, <1>3, <1>4, OnlyTicksAct, TickCases
     DEF Skipped, Restore, Acts, GraceGoesOn

(***************************************************************************)
(* Once its notice is on record, a lockout is not announced again and a    *)
(* locked session is not sent another request.                             *)
(***************************************************************************)
THEOREM LockingIsAnEdge == Spec => LockIsAnEdge
BY Invariance, StepIsAnEdge, PTL DEF Spec, LockIsAnEdge

-----------------------------------------------------------------------------
(***************************************************************************)
(* A step of the tick loop is a step of the diagram.                       *)
(***************************************************************************)
setting == IF policy = None THEN "Lock" ELSE policy.onExhausted

grace == IF policy = None THEN 0 ELSE policy.grace

LEMMA TickClimbs ==
  ASSUME IInv, Tick
  PROVE  Ladder!Next
<1>t. /\ LongestGrace \in Nat /\ ClockBack \in Nat /\ None \notin Nat
      /\ {LockMayFail, TerminateMayFail} \subseteq BOOLEAN
  BY TickerAssumption DEF TickerAssumption
<1>w. UNCHANGED <<setting, grace>>
  BY TickCases DEF world, setting, grace
<1>q. Ladder!Quiet = Nothing
  BY DEF Ladder!Quiet, Nothing
<1>n. phase = "Grace" => notice \in 0 .. LongestGrace /\ waited <= notice
  BY DEF IInv, TypeOK, GraceRunsFromNotice
<1>g. phase = "Grace" /\ NoticeAges =>
        notice' = Later(notice) /\ notice' \in notice .. LongestGrace
  BY <1>t, <1>n DEF NoticeAges, Later, Capped, IInv, GraceRunsFromNotice
<1>1. CASE (Skipped \/ \E view \in Views : GraceGoesOn(view)) /\ phase = "Grace"
  <2>1. phase' = "Grace" /\ did' = Nothing /\ NoticeAges
    BY <1>1 DEF Skipped, GraceGoesOn
  <2>2. Ladder!Wait
    BY <1>1, <1>q, <1>g, <2>1 DEF Ladder!Wait
  <2>3. QED
    BY <2>2, <1>w DEF Ladder!Next, Ladder!rules, setting, grace
<1>2. CASE Skipped /\ phase # "Grace"
  <2>1. Ladder!Rest
    BY <1>2, <1>q DEF Skipped, Ladder!Rest
  <2>2. QED
    BY <2>1, <1>w DEF Ladder!Next, Ladder!rules, setting, grace
<1>3. CASE Restore
  <2>1. Ladder!Back
    BY <1>3, <1>q DEF Restore, Ladder!Back
  <2>2. QED
    BY <2>1, <1>w DEF Ladder!Next, Ladder!rules, setting, grace
<1>4. ASSUME Managed, NEW view \in Views, CloseSession(view)
      PROVE  Ladder!Next
  <2>1. PICK sent \in Reached(ToClose(view), LockMayFail) :
          did' = [notice |-> TRUE, locks |-> sent, ends |-> {}]
    BY <1>4 DEF CloseSession
  <2>2. sent \subseteq Session /\ (setting = "Terminate" => sent = {})
    BY <1>4, <1>t, <2>1, ReachedIsWithin DEF ToClose, Lockable, Managed, setting
  <2>3. did' \in [notice : {TRUE}, locks : SUBSET Session, ends : {{}}]
    BY <2>1, <2>2
  <2>4. setting = "Lock" <=> ~Terminates
    BY <1>4 DEF Managed, Terminates, setting, IInv, TypeOK, Policy, LockAction
  <2>5. phase' = "Grace" => notice' = 0
    BY <1>4 DEF CloseSession
  <2>6. Ladder!Close
    BY <1>4, <2>2, <2>3, <2>4, <2>5, <2>1
       DEF CloseSession, Ladder!Close, setting
  <2>7. QED
    BY <2>6, <1>w DEF Ladder!Next, Ladder!rules, setting, grace
<1>6. ASSUME Managed, NEW view \in Views, EndSessions(view)
      PROVE  Ladder!Next
  <2>1. PICK ended \in Reached(Lockable(view), TerminateMayFail) :
          did' = [notice |-> FALSE, locks |-> {}, ends |-> ended]
    BY <1>6 DEF EndSessions, End
  <2>2. ended \subseteq Session
    BY <1>t, <2>1, ReachedIsWithin DEF Lockable
  <2>3. /\ phase = "Grace" /\ phase' = "Enforced"
        /\ policy \in Policy /\ Elapsed >= policy.grace
    BY <1>6 DEF EndSessions, GraceOver, Managed, IInv, TypeOK
  <2>7. notice \in Nat /\ notice # None /\ waited <= notice
    BY <1>n, <2>3 DEF IInv, GraceRunsFromNotice
  <2>4. Later(notice) >= policy.grace
    BY <2>3, <2>7, WaitIsReal DEF IInv
  <2>9. grace = policy.grace /\ grace \in 0 .. LongestGrace
    BY <1>6, <2>3 DEF Managed, Policy, grace
  <2>8. notice + 1 >= grace
    BY <1>t, <2>4, <2>7, <2>9 DEF Later, Capped
  <2>5. did' \in [notice : {FALSE}, locks : {{}}, ends : SUBSET Session]
    BY <2>1, <2>2
  <2>6. Ladder!Expire
    BY <2>3, <2>8, <2>5 DEF Ladder!Expire, grace
  <2>10. QED
    BY <2>6, <1>w DEF Ladder!Next, Ladder!rules, setting, grace
<1>7. ASSUME Managed, NEW view \in Views, LockStrays(view)
      PROVE  Ladder!Next
  <2>1. PICK sent \in Reached(Strays(view), LockMayFail) :
          did' = [notice |-> FALSE, locks |-> sent, ends |-> {}]
    BY <1>7 DEF LockStrays
  <2>2. sent \subseteq Session /\ (setting = "Terminate" => sent = {})
    BY <1>7, <1>t, <2>1, ReachedIsWithin
       DEF Strays, ToClose, Lockable, Managed, setting
  <2>3. did' \in [notice : {FALSE}, locks : SUBSET Session, ends : {{}}]
    BY <2>1, <2>2
  <2>4. UNCHANGED phase /\ phase = "Enforced"
    BY <1>7 DEF LockStrays
  <2>5. CASE setting = "Terminate"
    BY <1>w, <2>1, <2>2, <2>4, <2>5
       DEF Ladder!Next, Ladder!rules, Ladder!Rest, Ladder!Quiet, setting,
           grace
  <2>6. CASE setting # "Terminate"
    BY <1>w, <2>3, <2>4, <2>6 
       DEF Ladder!Next, Ladder!rules, Ladder!LockAgain, setting, grace
  <2>7. QED
    BY <2>5, <2>6
<1>8. QED
  BY <1>1, <1>2, <1>3, <1>4, <1>6, <1>7, TickCases DEF Acts, GraceGoesOn

(***************************************************************************)
(* Between ticks only the clock moves, or the rules; the daemon starting   *)
(* over takes the user back to the beginning.                              *)
(***************************************************************************)
LEMMA BetweenClimbs ==
  ASSUME IInv, Next, ~Tick
  PROVE  Ladder!Next
<1>a. /\ LongestGrace \in Nat /\ None \notin Nat
      /\ Policies \subseteq Policy \cup {None}
  BY TickerAssumption DEF TickerAssumption
<1>q. did' = Nothing /\ Ladder!Quiet = Nothing
  BY OnlyTicksAct DEF Ladder!Quiet, Nothing
<1>1. CASE Suspend
  <2>1. Ladder!Wait
    BY <1>1, <1>q, <1>a
       DEF Suspend, Ladder!Wait, IInv, TypeOK, GraceRunsFromNotice
  <2>2. QED
    BY <1>1, <2>1 DEF Ladder!Next, Ladder!rules, Suspend, world
<1>6. CASE ClockSetForward
  <2>2. notice' \in notice .. LongestGrace
    BY <1>6, ForwardMovesBoth DEF ClockSetForward, IInv, GraceRunsFromNotice
  <2>3. Ladder!Wait
    BY <1>6, <1>q, <2>2 DEF ClockSetForward, Ladder!Wait
  <2>4. QED
    BY <1>6, <2>3 DEF Ladder!Next, Ladder!rules, ClockSetForward, world
<1>2. CASE TickerLost
  <2>1. Ladder!Back
    BY <1>2, <1>q DEF TickerLost, Fresh, Ladder!Back
  <2>2. QED
    BY <1>2, <2>1 DEF Ladder!Next, Ladder!rules, TickerLost, world
<1>3. CASE WorldChanges
  <2>1. Ladder!Rest
    BY <1>3, <1>q DEF WorldChanges, daemon, Ladder!Rest
  <2>2. policy' \in Policy \cup {None}
    BY <1>3, <1>a DEF WorldChanges, IInv, TypeOK
  <2>3. setting' \in Ladder!Setting /\ grace' \in 0 .. LongestGrace
    BY <1>a, <2>2 DEF setting, grace, Policy, LockAction, Ladder!Setting
  <2>4. QED
    BY <2>1, <2>3 DEF Ladder!Next, Ladder!rules, setting, grace
<1>4. CASE UNCHANGED <<phase, notice, policy>>
  <2>1. Ladder!Rest
    BY <1>4, <1>q DEF Ladder!Rest
  <2>2. QED
    BY <1>4, <2>1 DEF Ladder!Next, Ladder!rules
<1>5. QED
  BY <1>1, <1>2, <1>3, <1>4, <1>6
     DEF Next, Login, Logout, Unlock, LockSelf, Obey, Between, ClockSetBack,
         daemon, world

LEMMA StepClimbs ==
  ASSUME IInv, [Next]_vars
  PROVE  [Ladder!Next]_Ladder!vars
<1>1. CASE UNCHANGED vars
  BY <1>1 DEF vars, daemon, world, history, Ladder!vars, Ladder!rules
<1>2. CASE Next
  BY <1>2, TickClimbs, BetweenClimbs
<1>3. QED
  BY <1>1, <1>2

(***************************************************************************)
(* The tick loop implements the escalation ladder of docs/architecture.md, *)
(* whatever becomes of the rules meanwhile.                                *)
(***************************************************************************)
THEOREM TickerClimbsTheLadder == Spec => EscalationKept
<1>1. Init => Ladder!Init
  BY TickerAssumption
     DEF TickerAssumption, Init, Ladder!Init, Ladder!Setting, Nothing,
         Ladder!Quiet, Policy, LockAction
<1>2. QED
  BY <1>1, StepClimbs, Invariance, PTL DEF Spec, EscalationKept, Ladder!Spec
=============================================================================
