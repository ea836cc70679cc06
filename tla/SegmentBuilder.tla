---------------------------- MODULE SegmentBuilder ----------------------------
(***************************************************************************)
(* One user's SegmentBuilder over the life of the daemon: ticks, a shut-   *)
(* down that flushes, a crash or a lost logind connection that does not,   *)
(* a store that may refuse a row, and a wall clock that may step back.     *)
(*                                                                         *)
(* Ticker::tick_user (crates/tb-daemon/src/tick.rs) decides which ticks    *)
(* the builder is given; their shape is all that matters here.             *)
(***************************************************************************)
EXTENDS UsageSegments

CONSTANTS
  MaxStepBack,   \* how far one correction may set the wall clock back
  MaxCorrections,\* bound: how often the wall clock is set back in a run
  StoreMayFail,  \* whether insert_segment may return an error
  Horizon        \* bound: the last second of a run

ASSUME EnvironmentAssumption ==
  /\ MaxStepBack \in Nat
  /\ MaxCorrections \in Nat
  /\ StoreMayFail \in BOOLEAN
  /\ Horizon \in Nat

VARIABLES
  open,   \* SegmentBuilder.open
  rows,   \* the table usage_segment, in insertion order
  clock,  \* the wall clock when the daemon last did something
  seen,   \* history: every active tick given to the builder
  setBack \* history: how often the wall clock was set back

vars == <<open, rows, clock, seen, setBack>>

TypeOK ==
  /\ open \in OpenSegment \cup {None}
  /\ rows \in Seq(Segment)
  /\ clock \in Nat
  /\ seen \subseteq Tick
  /\ setBack \in Nat

Init ==
  /\ open = None
  /\ rows = << >>
  /\ clock = 0
  /\ seen = {}
  /\ setBack = 0

-----------------------------------------------------------------------------
(***************************************************************************)
(* The rest of tick_user that touches the builder.  A row the store        *)
(* refuses is gone: observe() has already let go of it, and tick_user      *)
(* returns with the error.                                                 *)
(***************************************************************************)
Observe(now, tick) ==
  /\ open' = NextOpen(open, tick)
  /\ \/ rows' = rows \o Closed(open, tick)
     \/ StoreMayFail /\ UNCHANGED rows
  /\ clock' = now
  /\ seen' = IF tick.app = None THEN seen ELSE seen \cup {tick}

(***************************************************************************)
(* Instants the next tick can come at.  run_ticks sleeps a whole interval  *)
(* after each pass, so two passes are never closer than that; a restarted  *)
(* daemon ticks at once.  A suspend only makes the instant later.          *)
(***************************************************************************)
NextTick ==
  IF open = None THEN clock + 1 .. Horizon
  ELSE clock + TickInterval .. Horizon

ActiveTick ==
  /\ \E now \in NextTick, app \in App :
       Observe(now, [at |-> now, app |-> app])
  /\ UNCHANGED setBack

(***************************************************************************)
(* An idle tick is dated back to the moment the inactivity began, but not  *)
(* before the previous tick (build_tick).                                  *)
(***************************************************************************)
IdleTick ==
  /\ \E now \in NextTick : \E at \in clock .. now :
       Observe(now, [at |-> at, app |-> None])
  /\ UNCHANGED setBack

(***************************************************************************)
(* A tick after the wall clock was set back.  An idle tick is clamped to   *)
(* the previous one, which is now in the future.                           *)
(***************************************************************************)
ClockStepsBack ==
  /\ setBack < MaxCorrections
  /\ \E now \in {t \in 0 .. clock - 1 : clock - t <= MaxStepBack} :
       \/ \E app \in App : Observe(now, [at |-> now, app |-> app])
       \/ Observe(now, [at |-> clock, app |-> None])
  /\ setBack' = setBack + 1

(***************************************************************************)
(* The end of run_ticks: Ticker::flush, and the process exits.  A failing  *)
(* insert is only logged.                                                  *)
(***************************************************************************)
Shutdown ==
  \E at \in clock + 1 .. Horizon :
    /\ open' = None
    /\ \/ rows' = rows \o Flushed(open, at)
       \/ StoreMayFail /\ UNCHANGED rows
    /\ clock' = at
    /\ UNCHANGED <<seen, setBack>>

(***************************************************************************)
(* A crash, or a tick that lost logind: run_ticks drops the Ticker and     *)
(* every open segment with it.                                             *)
(***************************************************************************)
TickerDropped ==
  /\ open # None
  /\ open' = None
  /\ UNCHANGED <<rows, clock, seen, setBack>>

(***************************************************************************)
(* The bounded run ends at the horizon.                                    *)
(***************************************************************************)
Done ==
  /\ clock + TickInterval > Horizon
  /\ UNCHANGED vars

Next ==
  \/ ActiveTick
  \/ IdleTick
  \/ ClockStepsBack
  \/ Shutdown
  \/ TickerDropped
  \/ Done

Spec == Init /\ [][Next]_vars

-----------------------------------------------------------------------------
(***************************************************************************)
(* No second is credited twice and none out of order: each row begins      *)
(* where the one before it has ended, and the open segment after all of    *)
(* them.  SUM over the rows (Store::usage_between) is then the length of a *)
(* union of disjoint intervals.  It holds as long as the wall clock was     *)
(* never set back.                                                         *)
(***************************************************************************)
Chronological ==
  setBack = 0 =>
    /\ \A i, j \in DOMAIN rows : i < j => rows[i].end <= rows[j].start
    /\ open # None => \A i \in DOMAIN rows : rows[i].end <= open.start

(***************************************************************************)
(* Time the machine spent asleep, or the daemon spent stopped, is never    *)
(* credited: every credited second is within MaxGap of an active tick      *)
(* in the same application, at or before it.                               *)
(***************************************************************************)
OnlyObservedTimeCredited ==
  \A i \in DOMAIN rows : \A t \in rows[i].start .. rows[i].end - 1 :
    \E tick \in seen : /\ tick.app = rows[i].app
                       /\ tick.at <= t
                       /\ t < tick.at + MaxGap

(***************************************************************************)
(* What a crash can cost is bounded: the time held only in memory stays    *)
(* below MaxSegment, and a stored row is below MaxSegment plus the one gap *)
(* that closed it.                                                         *)
(***************************************************************************)
LossBounded ==
  /\ open # None => open.lastSeen - open.start < MaxSegment
  /\ \A i \in DOMAIN rows :
       /\ rows[i].start < rows[i].end
       /\ rows[i].end - rows[i].start < MaxSegment + MaxGap
=============================================================================
