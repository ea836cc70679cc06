---------------------------- MODULE UsageSegments ----------------------------
(***************************************************************************)
(* Turning observations into usage segments: the decisions of              *)
(* SegmentBuilder in crates/tb-core/src/usage.rs, as operators on the open *)
(* segment and one tick.  SegmentBuilder.tla runs them as a state machine, *)
(* TickAccounting.tla runs them inside the daemon's loop.                  *)
(*                                                                         *)
(* Time is counted in whole seconds, the resolution Store::insert_segment  *)
(* keeps.  The window title and the provenance of the application name are *)
(* left out: no decision reads them.  A segment's UUID is its position in  *)
(* the sequence of rows.                                                   *)
(***************************************************************************)
EXTENDS Integers, Sequences

CONSTANTS
  App,           \* the applications a tick can be attributed to
  None,          \* Rust's None: no open segment, nobody at work
  TickInterval,  \* SegmentConfig.tick_interval
  MaxGap,        \* SegmentConfig.max_gap, six intervals in Ticker::new
  MaxSegment     \* SegmentConfig.max_segment

ASSUME SegmentConfigAssumption ==
  /\ TickInterval \in Nat \ {0}
  /\ MaxGap \in Nat
  /\ TickInterval <= MaxGap
  /\ MaxSegment \in Nat \ {0}

(***************************************************************************)
(* Tick::Active { at, app } and Tick::Idle { at }: nobody works in the     *)
(* application None.                                                       *)
(***************************************************************************)
Tick == [at : Nat, app : App \cup {None}]

OpenSegment == [app : App, start : Nat, lastSeen : Nat]

Segment == [app : App, start : Nat, end : Nat]

ASSUME NoneAssumption ==
  /\ None \notin App
  /\ None \notin Nat
  /\ None \notin OpenSegment

-----------------------------------------------------------------------------
(***************************************************************************)
(* Mutant of Start: an idle tick opens a segment too.                      *)
(***************************************************************************)
StartEvenIfIdle(tick) ==
  [app |-> tick.app, start |-> tick.at, lastSeen |-> tick.at]

(***************************************************************************)
(* start_if_active: what is open once the previous segment is out of the   *)
(* way.                                                                    *)
(***************************************************************************)
Start(tick) ==
  IF tick.app = None THEN None
  ELSE [app |-> tick.app, start |-> tick.at, lastSeen |-> tick.at]

(***************************************************************************)
(* Mutant of EndOf: every segment is rounded up by one tick, not only the  *)
(* ones that would be empty.                                               *)
(***************************************************************************)
EndOfRoundedUp(open, at) ==
  (IF at > open.lastSeen THEN at ELSE open.lastSeen) + TickInterval

(***************************************************************************)
(* The end close() gives a segment asked to end at `at`: never before the  *)
(* last tick observed, and one tick long when that would leave it empty.   *)
(* close(None) is asking for the last tick itself.                         *)
(***************************************************************************)
EndOf(open, at) ==
  LET end == IF at > open.lastSeen THEN at ELSE open.lastSeen
  IN IF end <= open.start THEN open.start + TickInterval ELSE end

(***************************************************************************)
(* close(): the finished segment, as zero or one rows for the store.  With *)
(* a tick interval of at least a second the segment is never empty.        *)
(***************************************************************************)
Close(open, at) ==
  <<[app |-> open.app, start |-> open.start, end |-> EndOf(open, at)]>>

(***************************************************************************)
(* What observe() makes of a tick while a segment is open, in the order    *)
(* the code asks.  The names are the variants of CloseReason.              *)
(***************************************************************************)
ClockWentBackwards(open, tick) == tick.at < open.lastSeen

Gap(open, tick) == tick.at - open.lastSeen > MaxGap

BecameIdle(open, tick) == tick.app = None

AppChanged(open, tick) == tick.app # open.app

MaxLength(open, tick) == tick.at - open.start >= MaxSegment

(***************************************************************************)
(* The instants between the last tick and this one were not usage.         *)
(***************************************************************************)
Unobserved(open, tick) ==
  ClockWentBackwards(open, tick) \/ Gap(open, tick)

(***************************************************************************)
(* Mutant of Continues: the maximum length is not looked at.               *)
(***************************************************************************)
ContinuesIgnoringLength(open, tick) ==
  /\ ~Unobserved(open, tick)
  /\ ~BecameIdle(open, tick)
  /\ ~AppChanged(open, tick)

(***************************************************************************)
(* Same application, still focused: the open segment is extended.          *)
(***************************************************************************)
Continues(open, tick) ==
  /\ ~Unobserved(open, tick)
  /\ ~BecameIdle(open, tick)
  /\ ~AppChanged(open, tick)
  /\ ~MaxLength(open, tick)

(***************************************************************************)
(* SegmentBuilder::observe, first half: the segment open afterwards.       *)
(***************************************************************************)
NextOpen(open, tick) ==
  IF open # None /\ Continues(open, tick)
  THEN [open EXCEPT !.lastSeen = tick.at]
  ELSE Start(tick)

(***************************************************************************)
(* Mutant of Closed: the segment a gap closes ends at the tick after it.   *)
(***************************************************************************)
ClosedAtTick(open, tick) ==
  IF open = None \/ Continues(open, tick) THEN << >>
  ELSE Close(open, tick.at)

(***************************************************************************)
(* SegmentBuilder::observe, second half: the rows the tick closes.         *)
(***************************************************************************)
Closed(open, tick) ==
  IF open = None \/ Continues(open, tick) THEN << >>
  ELSE IF Unobserved(open, tick) THEN Close(open, open.lastSeen)
  ELSE Close(open, tick.at)

(***************************************************************************)
(* Mutant of Flushed: the flush does not look for a gap.                   *)
(***************************************************************************)
FlushedAcrossGap(open, at) ==
  IF open = None THEN << >> ELSE Close(open, at)

(***************************************************************************)
(* SegmentBuilder::flush, on shutdown: up to the instant of the flush, or  *)
(* to the last tick when that is a gap away.                               *)
(***************************************************************************)
Flushed(open, at) ==
  IF open = None THEN << >>
  ELSE IF at - open.lastSeen <= MaxGap THEN Close(open, at)
  ELSE Close(open, open.lastSeen)
=============================================================================
