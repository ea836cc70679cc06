------------------------- MODULE SegmentBuilderProofs -------------------------
(***************************************************************************)
(* Proofs, for every set of applications, every configuration and every    *)
(* horizon, of the invariants SegmentBuilder.cfg checks on a small         *)
(* instance, and that the segments implement the abstract ledger.          *)
(***************************************************************************)
EXTENDS SegmentLedger, FoldLemmas, SequenceTheorems

USE NoneAssumption, SegmentConfigAssumption, EnvironmentAssumption

-----------------------------------------------------------------------------
(***************************************************************************)
(* The inductive invariant: an open segment ends at the last thing the     *)
(* daemon did, it is short, and it lies behind every row.                  *)
(***************************************************************************)
OpenInv ==
  open # None =>
    /\ open.lastSeen = clock
    /\ open.start <= open.lastSeen
    /\ open.lastSeen - open.start < MaxSegment

RowsBounded ==
  \A i \in DOMAIN rows :
    /\ rows[i].start < rows[i].end
    /\ rows[i].end - rows[i].start < MaxSegment + MaxGap

RowsInOrder ==
  setBack = 0 =>
    /\ \A i, j \in DOMAIN rows : i < j => rows[i].end <= rows[j].start
    /\ \A i \in DOMAIN rows : rows[i].end <= clock
    /\ open # None => \A i \in DOMAIN rows : rows[i].end <= open.start

(***************************************************************************)
(* The tick that vouches for second t in application app.                  *)
(***************************************************************************)
Vouched(app, t, ticks) ==
  \E tick \in ticks : tick.app = app /\ tick.at <= t /\ t < tick.at + MaxGap

OpenVouched ==
  open # None =>
    /\ \A t \in open.start .. open.lastSeen - 1 : Vouched(open.app, t, seen)
    /\ \E tick \in seen : tick.app = open.app /\ tick.at = open.lastSeen
    /\ \E tick \in seen : tick.app = open.app /\ tick.at = open.start

RowsVouched ==
  \A i \in DOMAIN rows : \A t \in rows[i].start .. rows[i].end - 1 :
    Vouched(rows[i].app, t, seen)

IInv ==
  /\ TypeOK
  /\ OpenInv
  /\ RowsBounded
  /\ RowsInOrder
  /\ OpenVouched
  /\ RowsVouched

-----------------------------------------------------------------------------
(***************************************************************************)
(* What close() returns: the segment begins where it was opened, is not    *)
(* empty, and ends at the instant asked for, at the last tick, or one tick *)
(* after its start.                                                        *)
(***************************************************************************)
LEMMA EndOfFacts ==
  ASSUME NEW o \in OpenSegment, NEW at \in Nat, o.start <= o.lastSeen
  PROVE  /\ EndOf(o, at) \in Nat
         /\ o.start < EndOf(o, at)
         /\ \/ EndOf(o, at) = o.start + TickInterval /\ o.start = o.lastSeen
                                                     /\ at <= o.lastSeen
            \/ EndOf(o, at) = at /\ o.lastSeen < at
            \/ EndOf(o, at) = o.lastSeen /\ at <= o.lastSeen
  BY DEF EndOf, OpenSegment

LEMMA RowsGrow ==
  ASSUME NEW r \in Seq(Segment), NEW s \in Segment
  PROVE  /\ r \o << >> = r
         /\ r \o <<s>> = Append(r, s)
         /\ Append(r, s) \in Seq(Segment)
         /\ DOMAIN r = 1 .. Len(r)
         /\ DOMAIN Append(r, s) = 1 .. Len(r) + 1
         /\ \A i \in 1 .. Len(r) : Append(r, s)[i] = r[i]
         /\ Append(r, s)[Len(r) + 1] = s
  BY ConcatEmptySeq, AppendProperties, LenProperties

-----------------------------------------------------------------------------
(***************************************************************************)
(* A row worth storing: of legal length, and every second of it vouched    *)
(* for by a tick.                                                          *)
(***************************************************************************)
GoodRow(row) ==
  /\ row \in Segment
  /\ row.start < row.end
  /\ row.end - row.start < MaxSegment + MaxGap
  /\ \A t \in row.start .. row.end - 1 : Vouched(row.app, t, seen)

(***************************************************************************)
(* Closing the open segment no later than a gap after its last tick gives  *)
(* such a row.                                                             *)
(***************************************************************************)
LEMMA ClosedRowIsGood ==
  ASSUME TypeOK, OpenInv, OpenVouched, open # None,
         NEW at \in Nat, at - open.lastSeen <= MaxGap,
         NEW row, row = [app |-> open.app, start |-> open.start,
                         end |-> EndOf(open, at)]
  PROVE  GoodRow(row)
<1>1. /\ open \in OpenSegment
      /\ open.app \in App /\ open.start \in Nat /\ open.lastSeen \in Nat
      /\ open.start <= open.lastSeen
      /\ open.lastSeen - open.start < MaxSegment
  BY DEF TypeOK, OpenInv, OpenSegment
<1>2. /\ row.app = open.app /\ row.start = open.start
      /\ row.end = EndOf(open, at)
  OBVIOUS
<1>3. /\ row.end \in Nat /\ row.start < row.end
      /\ \/ /\ row.end = open.start + TickInterval
            /\ open.start = open.lastSeen
         \/ row.end = at /\ open.lastSeen < at
         \/ row.end = open.lastSeen
  BY <1>1, <1>2, EndOfFacts
<1>4. row \in Segment
  BY <1>1, <1>2, <1>3 DEF Segment
<1>5. row.end <= open.lastSeen + MaxGap
  BY <1>1, <1>3
<1>6. row.end - row.start < MaxSegment + MaxGap
  BY <1>1, <1>2, <1>3, <1>5
<1>7. ASSUME NEW t \in row.start .. row.end - 1
      PROVE  Vouched(row.app, t, seen)
  <2>1. CASE t \in open.start .. open.lastSeen - 1
    BY <1>2, <2>1 DEF OpenVouched
  <2>2. CASE t \notin open.start .. open.lastSeen - 1
    <3>1. t \in Int /\ open.lastSeen <= t /\ t < open.lastSeen + MaxGap
      BY <1>1, <1>2, <1>3, <1>5, <2>2
    <3>2. PICK tick \in seen : tick.app = open.app /\ tick.at = open.lastSeen
      BY DEF OpenVouched
    <3>3. QED
      BY <1>2, <3>1, <3>2 DEF Vouched
  <2>3. QED
    BY <2>1, <2>2
<1>8. QED
  BY <1>3, <1>4, <1>6, <1>7 DEF GoodRow

(***************************************************************************)
(* The rows of a step: none, or one good row that begins where the open    *)
(* segment did and, while the wall clock is trusted, ends by now.          *)
(***************************************************************************)
RowsStep ==
  \/ rows' = rows
  \/ /\ open # None
     /\ \E row \in Segment :
          /\ GoodRow(row)
          /\ row.start = open.start
          /\ setBack' = 0 => row.end <= clock'
          /\ rows' = Append(rows, row)

(***************************************************************************)
(* Such a step keeps everything the invariant says of the rows, provided   *)
(* the segment open afterwards is new or was open before.                  *)
(***************************************************************************)
LEMMA RowsKept ==
  ASSUME IInv, RowsStep,
         clock' \in Nat, seen \subseteq seen',
         setBack' = 0 => setBack = 0 /\ clock <= clock',
         open' \in OpenSegment \cup {None},
         open' # None =>
           \/ open'.start = clock'
           \/ open # None /\ open'.start = open.start /\ rows' = rows
  PROVE  /\ rows' \in Seq(Segment)
         /\ RowsBounded'
         /\ RowsInOrder'
         /\ RowsVouched'
<1>1. /\ rows \in Seq(Segment) /\ clock \in Nat
      /\ RowsBounded /\ RowsInOrder /\ RowsVouched
      /\ DOMAIN rows = 1 .. Len(rows)
      /\ Len(rows) \in Nat
      /\ \A i \in DOMAIN rows : rows[i] \in Segment
  BY LenProperties, ElementOfSeq DEF IInv, TypeOK
<1>2. \A app, t : Vouched(app, t, seen) => Vouched(app, t, seen')
  BY DEF Vouched
<1>3. CASE rows' = rows
  <2>1. RowsBounded'
    BY <1>1, <1>3 DEF RowsBounded
  <2>2. RowsVouched'
    BY <1>1, <1>2, <1>3 DEF RowsVouched
  <2>3. RowsInOrder'
    <3> SUFFICES ASSUME setBack' = 0
                 PROVE  /\ \A i, j \in DOMAIN rows :
                             i < j => rows[i].end <= rows[j].start
                        /\ \A i \in DOMAIN rows : rows[i].end <= clock'
                        /\ open' # None =>
                             \A i \in DOMAIN rows : rows[i].end <= open'.start
      BY <1>3 DEF RowsInOrder
    <3>1. \A i \in DOMAIN rows : rows[i].end <= clock'
      BY <1>1 DEF RowsInOrder, Segment
    <3>2. QED
      BY <1>1, <3>1 DEF RowsInOrder
  <2>4. QED
    BY <1>1, <1>3, <2>1, <2>2, <2>3
<1>4. CASE rows' # rows
  <2>1. PICK row \in Segment :
          /\ open # None
          /\ GoodRow(row)
          /\ row.start = open.start
          /\ setBack' = 0 => row.end <= clock'
          /\ rows' = Append(rows, row)
    BY <1>4 DEF RowsStep
  <2>2. /\ rows' \in Seq(Segment)
        /\ DOMAIN rows' = 1 .. Len(rows) + 1
        /\ \A i \in 1 .. Len(rows) : rows'[i] = rows[i]
        /\ rows'[Len(rows) + 1] = row
    BY <1>1, <2>1, RowsGrow
  <2> DEFINE n == Len(rows)
  <2>a. \A i \in DOMAIN rows' : \/ i \in DOMAIN rows /\ rows'[i] = rows[i]
                                \/ rows'[i] = row
    <3> SUFFICES ASSUME NEW i \in 1 .. n + 1
                 PROVE  \/ i \in 1 .. n /\ rows'[i] = rows[i]
                        \/ rows'[i] = row
      BY <1>1, <2>2
    <3>1. i \in 1 .. n \/ i = n + 1
      BY <1>1
    <3>2. QED
      BY <2>2, <3>1
  <2>3. RowsBounded'
    BY <1>1, <2>1, <2>a DEF RowsBounded, GoodRow
  <2>4. RowsVouched'
    <3> SUFFICES ASSUME NEW i \in DOMAIN rows',
                        NEW t \in rows'[i].start .. rows'[i].end - 1
                 PROVE  Vouched(rows'[i].app, t, seen')
      BY DEF RowsVouched
    <3>1. CASE i \in DOMAIN rows /\ rows'[i] = rows[i]
      BY <1>1, <1>2, <3>1 DEF RowsVouched
    <3>2. CASE rows'[i] = row
      BY <1>2, <2>1, <3>2 DEF GoodRow
    <3>3. QED
      BY <2>a, <3>1, <3>2
  <2>5. RowsInOrder'
    <3> SUFFICES ASSUME setBack' = 0
                 PROVE  /\ \A i, j \in DOMAIN rows' :
                             i < j => rows'[i].end <= rows'[j].start
                        /\ \A i \in DOMAIN rows' : rows'[i].end <= clock'
                        /\ open' # None =>
                             \A i \in DOMAIN rows' : rows'[i].end <= open'.start
      BY DEF RowsInOrder
    <3>1. /\ \A i, j \in DOMAIN rows : i < j => rows[i].end <= rows[j].start
          /\ \A i \in DOMAIN rows : rows[i].end <= clock /\ rows[i].end \in Nat
          /\ \A i \in DOMAIN rows : rows[i].end <= row.start
          /\ row.end <= clock'
      BY <1>1, <2>1 DEF RowsInOrder, Segment
    <3>2. \A i \in DOMAIN rows' : rows'[i].end <= clock'
      BY <1>1, <2>2, <3>1
    <3>3. \A i, j \in DOMAIN rows' : i < j => rows'[i].end <= rows'[j].start
      BY <1>1, <2>2, <3>1
    <3>4. QED
      BY <1>4, <3>2, <3>3
  <2>6. QED
    BY <2>2, <2>3, <2>4, <2>5
<1>5. QED
  BY <1>3, <1>4

-----------------------------------------------------------------------------
(***************************************************************************)
(* observe() on a tick no earlier than the last one, or on the first tick  *)
(* after the wall clock was set back.                                      *)
(***************************************************************************)
LEMMA ObserveKeeps ==
  ASSUME IInv,
         NEW now \in Nat, NEW tick \in Tick, Observe(now, tick),
         tick.app # None => tick.at = now,
         setBack' = setBack => clock + 1 <= now /\ tick.at <= now
                               /\ (open # None => clock + TickInterval <= now),
         setBack' \in {setBack, setBack + 1}, setBack' = setBack \/ setBack' # 0
  PROVE  IInv'
<1>1. /\ open \in OpenSegment \cup {None} /\ rows \in Seq(Segment)
      /\ clock \in Nat /\ seen \subseteq Tick /\ setBack \in Nat
      /\ OpenInv /\ OpenVouched
      /\ tick.at \in Nat /\ tick.app \in App \cup {None}
  BY DEF IInv, TypeOK, Tick
<1>2. clock' = now /\ seen \subseteq seen' /\ seen' \subseteq Tick
  BY <1>1 DEF Observe
<1>3. CASE open # None /\ Continues(open, tick)
  <2>a. /\ tick.app # None
        /\ tick.app = open.app
        /\ open.lastSeen <= tick.at
        /\ tick.at - open.lastSeen <= MaxGap
        /\ tick.at - open.start < MaxSegment
        /\ open \in OpenSegment
    BY <1>1, <1>3 DEF Continues, Unobserved, ClockWentBackwards, Gap,
         BecameIdle, AppChanged, MaxLength, OpenSegment
  <2>b. /\ open' = [open EXCEPT !.lastSeen = tick.at]
        /\ rows' = rows \o << >> \/ rows' = rows
        /\ seen' = seen \cup {tick}
    BY <1>3, <2>a DEF Observe, NextOpen, Closed
  <2>1. /\ open' = [open EXCEPT !.lastSeen = tick.at]
        /\ rows' = rows \o << >> \/ rows' = rows
        /\ seen' = seen \cup {tick}
        /\ tick.app = open.app
        /\ tick.at = now
        /\ open.lastSeen <= now
        /\ now - open.lastSeen <= MaxGap
        /\ now - open.start < MaxSegment
    BY <2>a, <2>b
  <2>2. rows' = rows
    BY <1>1, <2>1, ConcatEmptySeq
  <2>3. /\ open \in OpenSegment
        /\ open.app \in App /\ open.start \in Nat /\ open.lastSeen \in Nat
        /\ open.start <= open.lastSeen
    BY <1>1, <1>3 DEF OpenInv, OpenSegment
  <2>4. /\ open' \in OpenSegment
        /\ open'.app = open.app /\ open'.start = open.start
        /\ open'.lastSeen = now
    BY <1>1, <2>1, <2>3 DEF OpenSegment
  <2>5. OpenInv'
    BY <1>2, <2>1, <2>3, <2>4 DEF OpenInv
  <2>6. OpenVouched'
    <3>1. ASSUME NEW t \in open'.start .. open'.lastSeen - 1
          PROVE  Vouched(open'.app, t, seen')
      <4>1. CASE t \in open.start .. open.lastSeen - 1
        BY <1>1, <1>2, <1>3, <2>4, <4>1 DEF OpenVouched, Vouched
      <4>2. CASE t \notin open.start .. open.lastSeen - 1
        <5>1. t \in Int /\ open.lastSeen <= t /\ t < open.lastSeen + MaxGap
          BY <2>1, <2>3, <2>4, <4>2
        <5>2. PICK o \in seen : o.app = open.app /\ o.at = open.lastSeen
          BY <1>1, <1>3 DEF OpenVouched
        <5>3. QED
          BY <1>2, <2>4, <5>1, <5>2 DEF Vouched
      <4>3. QED
        BY <4>1, <4>2
    <3>2. tick \in seen' /\ tick.app = open'.app /\ tick.at = open'.lastSeen
      BY <2>1, <2>4
    <3>3. \E o \in seen' : o.app = open'.app /\ o.at = open'.start
      BY <1>1, <1>2, <1>3, <2>4 DEF OpenVouched
    <3>4. QED
      BY <3>1, <3>2, <3>3 DEF OpenVouched
  <2>7. RowsStep
    BY <2>2 DEF RowsStep
  <2>8. setBack' = 0 => setBack = 0 /\ clock <= clock'
    BY <1>1, <1>2
  <2>9. /\ rows' \in Seq(Segment)
        /\ RowsBounded' /\ RowsInOrder' /\ RowsVouched'
    BY <1>2, <1>3, <2>2, <2>4, <2>7, <2>8, RowsKept
  <2>10. QED
    BY <1>1, <1>2, <2>4, <2>5, <2>6, <2>9 DEF IInv, TypeOK
<1>4. CASE ~(open # None /\ Continues(open, tick))
  <2>1. /\ open' = Start(tick)
        /\ seen' = IF tick.app = None THEN seen ELSE seen \cup {tick}
    BY <1>4 DEF Observe, NextOpen
  <2>2. /\ open' \in OpenSegment \cup {None}
        /\ open' # None => /\ open'.start = clock' /\ open'.lastSeen = clock'
                           /\ open'.app = tick.app /\ tick.at = clock'
                           /\ tick \in seen'
    BY <1>1, <1>2, <2>1 DEF Start, OpenSegment
  <2>3. OpenInv'
    BY <1>2, <2>2 DEF OpenInv
  <2>4. OpenVouched'
    BY <1>2, <2>2 DEF OpenVouched
  <2>5. setBack' = 0 => setBack = 0 /\ clock <= clock'
    BY <1>1, <1>2
  <2>6. RowsStep
    <3>1. CASE rows' = rows
      BY <3>1 DEF RowsStep
    <3>2. CASE open = None
      <4>1. rows' = rows \o << >> \/ rows' = rows
        BY <3>2 DEF Observe, Closed
      <4>2. QED
        BY <1>1, <4>1, ConcatEmptySeq DEF RowsStep
    <3>3. CASE open # None /\ rows' # rows
      <4> DEFINE at == IF Unobserved(open, tick) THEN open.lastSeen ELSE tick.at
                 row == [app |-> open.app, start |-> open.start,
                         end |-> EndOf(open, at)]
      <4>1. /\ open \in OpenSegment
            /\ open.app \in App /\ open.start \in Nat /\ open.lastSeen \in Nat
            /\ open.start <= open.lastSeen
            /\ open.lastSeen = clock
        BY <1>1, <3>3 DEF OpenInv, OpenSegment
      <4>2. at \in Nat /\ at - open.lastSeen <= MaxGap
        BY <1>1, <4>1 DEF Unobserved, Gap
      <4>3. rows' = rows \o <<row>>
        BY <1>4, <3>3 DEF Observe, Closed, Close
      <4>4. GoodRow(row)
        <5> HIDE DEF at
        <5> QED
          BY <1>1, <3>3, <4>2, ClosedRowIsGood DEF IInv
      <4>5. row \in Segment
        BY <4>4 DEF GoodRow
      <4>6. rows' = Append(rows, row)
        <5> HIDE DEF row
        <5> QED
          BY <1>1, <4>3, <4>5, RowsGrow
      <4>7. ASSUME setBack' = 0
            PROVE  row.end <= clock'
        <5>1. /\ clock + TickInterval <= now /\ tick.at <= now
          BY <1>1, <3>3, <4>7
        <5>2. at <= now
          BY <1>1, <4>1, <5>1
        <5>3. row.end = EndOf(open, at)
          OBVIOUS
        <5>4. row.end <= now
          <6> HIDE DEF at, row
          <6>1. \/ /\ row.end = open.start + TickInterval
                   /\ open.start = open.lastSeen
                \/ row.end = at
                \/ row.end = open.lastSeen
            BY <4>1, <4>2, <5>3, EndOfFacts
          <6>2. QED
            BY <1>1, <4>1, <4>2, <5>1, <5>2, <6>1
        <5>5. QED
          BY <1>2, <5>4
      <4>8. row.start = open.start
        OBVIOUS
      <4>9. QED
        <5> HIDE DEF row
        <5> QED
          BY <3>3, <4>4, <4>5, <4>6, <4>7, <4>8 DEF RowsStep
    <3>4. QED
      BY <3>1, <3>2, <3>3
  <2>7. /\ rows' \in Seq(Segment)
        /\ RowsBounded' /\ RowsInOrder' /\ RowsVouched'
    BY <1>2, <2>2, <2>5, <2>6, RowsKept
  <2>8. QED
    BY <1>1, <1>2, <2>2, <2>3, <2>4, <2>7 DEF IInv, TypeOK
<1>5. QED
  BY <1>3, <1>4

(***************************************************************************)
(* A shutdown, whether or not its last row reaches the store.              *)
(***************************************************************************)
LEMMA ShutdownKeeps ==
  ASSUME IInv, Shutdown
  PROVE  IInv'
<1>1. PICK now \in clock + 1 .. Horizon :
        /\ open' = None
        /\ rows' = rows \o Flushed(open, now) \/ rows' = rows
        /\ clock' = now
        /\ seen' = seen /\ setBack' = setBack
  BY DEF Shutdown
<1>2. /\ open \in OpenSegment \cup {None} /\ rows \in Seq(Segment)
      /\ clock \in Nat /\ seen \subseteq Tick /\ setBack \in Nat
      /\ OpenInv /\ OpenVouched
      /\ now \in Nat /\ clock < now
  BY <1>1 DEF IInv, TypeOK
<1>3. RowsStep
  <2>1. CASE open = None \/ rows' = rows
    <3>1. rows' = rows \o << >> \/ rows' = rows
      BY <1>1, <2>1 DEF Flushed
    <3>2. QED
      BY <1>2, <3>1, ConcatEmptySeq DEF RowsStep
  <2>2. CASE open # None /\ rows' # rows
    <3> DEFINE at == IF now - open.lastSeen <= MaxGap THEN now ELSE open.lastSeen
               row == [app |-> open.app, start |-> open.start,
                       end |-> EndOf(open, at)]
    <3>1. /\ open \in OpenSegment
          /\ open.app \in App /\ open.start \in Nat /\ open.lastSeen \in Nat
          /\ open.start <= open.lastSeen
          /\ open.lastSeen = clock
      BY <1>2, <2>2 DEF OpenInv, OpenSegment
    <3>2. /\ at \in Nat /\ at - open.lastSeen <= MaxGap /\ at <= now
          /\ at = open.lastSeen => open.lastSeen + TickInterval <= now
      BY <1>2, <3>1
    <3>3. rows' = rows \o <<row>>
      BY <1>1, <2>2 DEF Flushed, Close
    <3>4. row.end = EndOf(open, at) /\ row.start = open.start
      OBVIOUS
    <3>5. GoodRow(row)
      <4> HIDE DEF at
      <4> QED
        BY <1>2, <2>2, <3>2, ClosedRowIsGood DEF IInv
    <3> HIDE DEF at, row
    <3>6. row \in Segment
      BY <3>5 DEF GoodRow
    <3>7. rows' = Append(rows, row)
      BY <1>2, <3>3, <3>6, RowsGrow
    <3>8. row.end <= clock'
      <4>1. \/ /\ row.end = open.start + TickInterval
               /\ open.start = open.lastSeen
               /\ at <= open.lastSeen
            \/ row.end = at
            \/ row.end = open.lastSeen
        BY <3>1, <3>2, <3>4, EndOfFacts
      <4>2. QED
        BY <1>1, <1>2, <3>1, <3>2, <4>1 DEF at
    <3>9. QED
      BY <2>2, <3>4, <3>5, <3>6, <3>7, <3>8 DEF RowsStep
  <2>3. QED
    BY <2>1, <2>2
<1>4. /\ rows' \in Seq(Segment)
      /\ RowsBounded' /\ RowsInOrder' /\ RowsVouched'
  BY <1>1, <1>2, <1>3, RowsKept
<1>5. OpenInv' /\ OpenVouched'
  BY <1>1 DEF OpenInv, OpenVouched
<1>6. QED
  BY <1>1, <1>2, <1>4, <1>5 DEF IInv, TypeOK

LEMMA TickerDroppedKeeps ==
  ASSUME IInv, TickerDropped
  PROVE  IInv'
<1>1. /\ open' = None /\ rows' = rows /\ clock' = clock
      /\ seen' = seen /\ setBack' = setBack
  BY DEF TickerDropped
<1>2. QED
  BY <1>1 DEF IInv, TypeOK, OpenInv, RowsBounded, RowsInOrder, OpenVouched,
       RowsVouched

-----------------------------------------------------------------------------
LEMMA InitEstablishes ==
  ASSUME Init
  PROVE  IInv
<1>1. DOMAIN rows = {} /\ rows \in Seq(Segment)
  BY EmptySeq DEF Init
<1>2. QED
  BY <1>1 DEF Init, IInv, TypeOK, OpenInv, RowsBounded, RowsInOrder,
       OpenVouched, RowsVouched

LEMMA StepKeeps ==
  ASSUME IInv, [Next]_vars
  PROVE  IInv'
<1>1. CASE ActiveTick
  <2>1. PICK now \in NextTick, app \in App :
          Observe(now, [at |-> now, app |-> app])
    BY <1>1 DEF ActiveTick
  <2>2. setBack' = setBack /\ setBack \in Nat
    BY <1>1 DEF ActiveTick, IInv, TypeOK
  <2>3. /\ now \in Nat /\ clock + 1 <= now
        /\ open # None => clock + TickInterval <= now
    BY DEF NextTick, IInv, TypeOK
  <2> DEFINE tick == [at |-> now, app |-> app]
  <2>4. tick \in Tick /\ tick.at = now
    BY <2>3 DEF Tick
  <2> HIDE DEF tick
  <2>5. Observe(now, tick)
    BY <2>1 DEF tick
  <2>6. QED
    BY <2>2, <2>3, <2>4, <2>5, ObserveKeeps
<1>2. CASE IdleTick
  <2>1. PICK now \in NextTick : \E at \in clock .. now :
          Observe(now, [at |-> at, app |-> None])
    BY <1>2 DEF IdleTick
  <2>2. PICK at \in clock .. now : Observe(now, [at |-> at, app |-> None])
    BY <2>1
  <2>3. setBack' = setBack /\ setBack \in Nat
    BY <1>2 DEF IdleTick, IInv, TypeOK
  <2>4. /\ now \in Nat /\ clock + 1 <= now /\ at \in Nat /\ at <= now
        /\ open # None => clock + TickInterval <= now
    BY DEF NextTick, IInv, TypeOK
  <2> DEFINE tick == [at |-> at, app |-> None]
  <2>5. tick \in Tick /\ tick.at = at /\ tick.app = None
    BY <2>4 DEF Tick
  <2> HIDE DEF tick
  <2>6. Observe(now, tick)
    BY <2>2 DEF tick
  <2>7. QED
    BY <2>3, <2>4, <2>5, <2>6, ObserveKeeps
<1>3. CASE ClockStepsBack
  <2>1. /\ setBack' = setBack + 1 /\ setBack \in Nat /\ clock \in Nat
    BY <1>3 DEF ClockStepsBack, IInv, TypeOK
  <2>2. /\ setBack' # setBack
        /\ setBack' \in {setBack, setBack + 1}
        /\ setBack' = setBack \/ setBack' # 0
    BY <2>1
  <2>3. PICK now \in 0 .. clock - 1 :
          \/ \E app \in App : Observe(now, [at |-> now, app |-> app])
          \/ Observe(now, [at |-> clock, app |-> None])
    BY <1>3 DEF ClockStepsBack
  <2>4. now \in Nat
    BY <2>1
  <2>5. CASE \E app \in App : Observe(now, [at |-> now, app |-> app])
    <3>1. PICK app \in App : Observe(now, [at |-> now, app |-> app])
      BY <2>5
    <3> DEFINE tick == [at |-> now, app |-> app]
    <3>2. tick \in Tick /\ tick.at = now
      BY <2>4 DEF Tick
    <3> HIDE DEF tick
    <3>3. Observe(now, tick)
      BY <3>1 DEF tick
    <3>4. QED
      BY <2>2, <2>4, <3>2, <3>3, ObserveKeeps
  <2>6. CASE Observe(now, [at |-> clock, app |-> None])
    <3> DEFINE tick == [at |-> clock, app |-> None]
    <3>1. tick \in Tick /\ tick.app = None
      BY <2>1 DEF Tick
    <3>2. QED
      <4>1. Observe(now, tick)
        BY <2>6
      <4> HIDE DEF tick
      <4>2. QED
        BY <2>2, <2>4, <3>1, <4>1, ObserveKeeps
  <2>7. QED
    BY <2>3, <2>5, <2>6
<1>4. CASE Done \/ UNCHANGED vars
  <2>1. /\ open' = open /\ rows' = rows /\ clock' = clock
        /\ seen' = seen /\ setBack' = setBack
    BY <1>4 DEF Done, vars
  <2>2. QED
    BY <2>1 DEF IInv, TypeOK, OpenInv, RowsBounded, RowsInOrder,
         OpenVouched, RowsVouched
<1>5. QED
  BY <1>1, <1>2, <1>3, <1>4, ShutdownKeeps, TickerDroppedKeeps DEF Next

(***************************************************************************)
(* The inductive invariant holds throughout.                               *)
(***************************************************************************)
THEOREM Invariance == Spec => []IInv
<1>1. Init => IInv
  BY InitEstablishes
<1>2. IInv /\ [Next]_vars => IInv'
  BY StepKeeps
<1>3. QED
  BY <1>1, <1>2, PTL DEF Spec

(***************************************************************************)
(* Every variable of the segment builder stays well typed.                 *)
(***************************************************************************)
THEOREM TypeCorrect == Spec => []TypeOK
<1>1. IInv => TypeOK
  BY DEF IInv
<1>2. QED
  BY <1>1, Invariance, PTL

(***************************************************************************)
(* Unless the wall clock is set back, the rows the builder stores are      *)
(* disjoint and in order, whatever sleeps, restarts and store errors occur *)
(* (SegmentBuilder::observe, close and flush).                             *)
(***************************************************************************)
THEOREM RowsAreChronological == Spec => []Chronological
<1>1. IInv => Chronological
  BY DEF IInv, RowsInOrder, Chronological
<1>2. QED
  BY <1>1, Invariance, PTL

(***************************************************************************)
(* No second the machine slept through, or the daemon was stopped for, is  *)
(* ever credited, even when the wall clock is set back.                    *)
(***************************************************************************)
THEOREM SleepIsNotUsage == Spec => []OnlyObservedTimeCredited
<1>1. IInv => OnlyObservedTimeCredited
  BY DEF IInv, RowsVouched, Vouched, OnlyObservedTimeCredited
<1>2. QED
  BY <1>1, Invariance, PTL

(***************************************************************************)
(* A crash costs less than MaxSegment, and no row is longer than that plus *)
(* the gap that closed it.                                                 *)
(***************************************************************************)
THEOREM LossIsBounded == Spec => []LossBounded
<1>1. IInv => LossBounded
  BY DEF IInv, OpenInv, RowsBounded, LossBounded
<1>2. QED
  BY <1>1, Invariance, PTL

-----------------------------------------------------------------------------
(***************************************************************************)
(* The refinement.  What the ledger has stored is the sum over the rows,   *)
(* and a new row adds its length.                                          *)
(***************************************************************************)
TotalOf(s) == FoldLeft(LAMBDA sum, row : sum + (row.end - row.start), 0, s)

LEMMA TotalIsSum ==
  ASSUME NEW s \in Seq(Segment)
  PROVE  \E p : /\ Sums(p, [i \in 1 .. Len(s) |-> s[i].end - s[i].start], Len(s))
                /\ TotalOf(s) = p[Len(s)]
<1> DEFINE n == Len(s)
           d == [i \in 1 .. n |-> s[i].end - s[i].start]
<1>1. n \in Nat /\ DOMAIN s = 1 .. n /\ \A i \in 1 .. n : s[i] \in Segment
  BY LenProperties, ElementOfSeq
<1>2. d \in [1 .. n -> Int]
  <2>1. \A i \in 1 .. n : s[i].end - s[i].start \in Int
    BY <1>1 DEF Segment
  <2>2. QED
    BY <2>1
<1> DEFINE IsIter(it) ==
             it = [t \in SUBSET DOMAIN s |->
                     IF t = {} THEN 0
                     ELSE it[t \ {Max(t)}] + (s[Max(t)].end - s[Max(t)].start)]
           iter == CHOOSE it : IsIter(it)
<1>3. ASSUME NEW t \in SUBSET (1 .. n), t # {}
      PROVE  d[Max(t)] = s[Max(t)].end - s[Max(t)].start
  <2>1. Max(t) \in 1 .. n
    BY <1>1, <1>3, MaxIsLast
  <2>2. QED
    BY <2>1
<1>4. TotalOf(s) = iter[DOMAIN s]
  BY DEF TotalOf, FoldLeft, MapThenFoldSet
<1> HIDE DEF n, d
<1>5. \E it : IsIter(it)
  <2>1. PICK it : it = [t \in SUBSET (1 .. n) |->
                          IF t = {} THEN 0 ELSE it[t \ {Max(t)}] + d[Max(t)]]
    BY <1>1, <1>2, SumExists
  <2>2. IsIter(it)
    BY <1>1, <1>3, <2>1
  <2>3. QED
    BY <2>2
<1>6. IsIter(iter)
  <2> HIDE DEF IsIter
  <2> QED
    BY <1>5
<1>7. iter = [t \in SUBSET (1 .. n) |->
                IF t = {} THEN 0 ELSE iter[t \ {Max(t)}] + d[Max(t)]]
  <2> HIDE DEF iter
  <2> QED
    BY <1>1, <1>3, <1>6
<1>8. \E p : Sums(p, d, n) /\ p[n] = iter[1 .. n]
  <2> HIDE DEF iter
  <2> QED
    BY <1>1, <1>2, <1>7, SumsOfFold
<1>9. QED
  BY <1>1, <1>4, <1>8 DEF n, d

LEMMA TotalType ==
  ASSUME NEW s \in Seq(Segment)
  PROVE  TotalOf(s) \in Int
<1>1. PICK p : /\ Sums(p, [i \in 1 .. Len(s) |-> s[i].end - s[i].start], Len(s))
               /\ TotalOf(s) = p[Len(s)]
  BY TotalIsSum
<1>2. Len(s) \in 0 .. Len(s)
  BY LenProperties
<1>3. QED
  BY <1>1, <1>2 DEF Sums

LEMMA TotalAppend ==
  ASSUME NEW s \in Seq(Segment), NEW row \in Segment
  PROVE  TotalOf(Append(s, row)) = TotalOf(s) + (row.end - row.start)
<1> DEFINE n == Len(s)
           t == Append(s, row)
           d == [i \in 1 .. n |-> s[i].end - s[i].start]
           e == [i \in 1 .. Len(t) |-> t[i].end - t[i].start]
<1>1. /\ n \in Nat /\ t \in Seq(Segment) /\ Len(t) = n + 1
      /\ \A i \in 1 .. n : t[i] = s[i]
      /\ t[n + 1] = row
  BY LenProperties, AppendProperties
<1>2. /\ \A i \in 1 .. n : d[i] = e[i]
      /\ e[n + 1] = row.end - row.start
  BY <1>1
<1>3. d \in [1 .. n -> Int] /\ e \in [1 .. n + 1 -> Int]
  <2>1. /\ \A i \in 1 .. n : s[i] \in Segment
        /\ \A i \in 1 .. n + 1 : t[i] \in Segment
    BY <1>1, ElementOfSeq
  <2>2. \A r \in Segment : r.end - r.start \in Int
    BY DEF Segment
  <2> HIDE DEF n, t
  <2>3. /\ \A i \in 1 .. n : s[i].end - s[i].start \in Int
        /\ \A i \in 1 .. n + 1 : t[i].end - t[i].start \in Int
    BY <2>1, <2>2
  <2>4. QED
    BY <1>1, <2>3
<1>4. PICK p : Sums(p, d, n) /\ TotalOf(s) = p[n]
  BY TotalIsSum
<1>5. PICK q : Sums(q, e, n + 1) /\ TotalOf(t) = q[n + 1]
  BY <1>1, TotalIsSum
<1> HIDE DEF n, d, e, t
<1>6. q[n + 1] = p[n] + e[n + 1]
  <2> DEFINE m == n + 1
  <2>1. /\ n \in Nat /\ m \in Nat /\ n < m /\ m <= n + 1
        /\ d \in [1 .. n -> Int] /\ e \in [1 .. m -> Int]
        /\ Sums(p, d, n) /\ Sums(q, e, m)
        /\ \A i \in 1 .. n : d[i] = e[i]
    BY <1>1, <1>2, <1>3, <1>4, <1>5
  <2> HIDE DEF m
  <2>2. q[m] = p[n] + e[m]
    BY <2>1, SumsAppend
  <2>3. QED
    BY <2>2 DEF m
<1>7. QED
  BY <1>2, <1>4, <1>5, <1>6 DEF t

LEMMA TotalEmpty == TotalOf(<< >>) = 0
<1>1. << >> \in Seq(Segment) /\ Len(<< >>) = 0
  BY EmptySeq
<1>2. PICK p : /\ Sums(p, [i \in 1 .. 0 |-> << >>[i].end - << >>[i].start], 0)
               /\ TotalOf(<< >>) = p[0]
  BY <1>1, TotalIsSum
<1>3. QED
  BY <1>2 DEF Sums

-----------------------------------------------------------------------------
(***************************************************************************)
(* The ledger's names for what is in memory.                               *)
(***************************************************************************)
heldNow == IF open = None THEN 0 ELSE open.lastSeen - open.start

presentNow == IF open = None THEN None ELSE open.lastSeen

DueAt(at) ==
  IF open = None THEN 0
  ELSE IF clock < at /\ at <= clock + MaxGap THEN at - clock
  ELSE IF heldNow = 0 THEN TickInterval
  ELSE 0

LEMMA LedgerNames ==
  /\ total = TotalOf(rows) /\ total' = TotalOf(rows')
  /\ Ledger!Init <=> total = 0 /\ heldNow = 0 /\ presentNow = None
  /\ IInv => \A at \in 0 .. Horizon : Ledger!Due(at) = DueAt(at)
<1>1. total = TotalOf(rows) /\ total' = TotalOf(rows')
  BY DEF total, TotalOf, FoldLeft, MapThenFoldSet
<1>2. Ledger!Init <=> total = 0 /\ heldNow = 0 /\ presentNow = None
  BY DEF Ledger!Init, heldNow, presentNow
<1>3. ASSUME IInv, NEW at \in 0 .. Horizon
      PROVE  Ledger!Due(at) = DueAt(at)
  <2>1. CASE open = None
    BY <2>1 DEF Ledger!Due, DueAt
  <2>2. CASE open # None
    <3>1. /\ open.lastSeen \in Nat /\ open.lastSeen = clock /\ MaxGap \in Nat
          /\ open.lastSeen # None
      BY <1>3, <2>2 DEF IInv, TypeOK, OpenInv, OpenSegment
    <3>2. Ledger!Close(at) <=> clock < at /\ at <= clock + MaxGap
      BY <2>2, <3>1 DEF Ledger!Close
    <3>3. QED
      BY <2>2, <3>1, <3>2 DEF Ledger!Due, DueAt, heldNow
  <2>3. QED
    BY <2>1, <2>2
<1>4. QED
  BY <1>1, <1>2, <1>3

(***************************************************************************)
(* The clock stays within the run, so every instant is one of the          *)
(* ledger's.                                                               *)
(***************************************************************************)
ClockInv == clock \in 0 .. Horizon

LEMMA ClockInRun == Spec => []ClockInv
<1>1. Init => ClockInv
  BY DEF Init, ClockInv
<1>2. ClockInv /\ [Next]_vars => ClockInv'
  <2> SUFFICES ASSUME clock \in 0 .. Horizon, [Next]_vars
               PROVE  clock' \in 0 .. Horizon
    BY DEF ClockInv
  <2>1. CASE ActiveTick
    BY <2>1 DEF ActiveTick, Observe, NextTick
  <2>2. CASE IdleTick
    BY <2>2 DEF IdleTick, Observe, NextTick
  <2>3. CASE ClockStepsBack
    <3>1. PICK now \in 0 .. clock - 1 : clock' = now
      BY <2>3 DEF ClockStepsBack, Observe
    <3>2. QED
      BY <3>1
  <2>4. CASE Shutdown
    BY <2>4 DEF Shutdown
  <2>5. CASE TickerDropped
    BY <2>5 DEF TickerDropped
  <2>6. CASE Done \/ UNCHANGED vars
    BY <2>6 DEF Done, vars
  <2>7. QED
    BY <2>1, <2>2, <2>3, <2>4, <2>5, <2>6 DEF Next
<1>3. QED
  BY <1>1, <1>2, PTL DEF Spec

(***************************************************************************)
(* The length close() gives a segment is exactly what is held and what the *)
(* instant of the observation adds to it.                                  *)
(***************************************************************************)
LEMMA ClosedLength ==
  ASSUME IInv, open # None, NEW at \in Nat,
         NEW end, end = EndOf(open, IF clock <= at /\ at - clock <= MaxGap
                                    THEN at ELSE open.lastSeen)
  PROVE  /\ end \in Nat
         /\ end - open.start = heldNow + DueAt(at)
<1>1. /\ open \in OpenSegment /\ open.start \in Nat /\ open.lastSeen \in Nat
      /\ open.lastSeen = clock /\ open.start <= clock
      /\ TickInterval \in Nat /\ TickInterval >= 1 /\ MaxGap \in Nat
  BY DEF IInv, TypeOK, OpenInv, OpenSegment
<1>2. heldNow = clock - open.start
  BY <1>1 DEF heldNow
<1>3. CASE clock < at /\ at - clock <= MaxGap
  <2>1. end = at
    BY <1>1, <1>3 DEF EndOf
  <2>2. DueAt(at) = at - clock
    BY <1>1, <1>3 DEF DueAt
  <2>3. QED
    BY <1>1, <1>2, <2>1, <2>2
<1>4. CASE ~(clock < at /\ at - clock <= MaxGap)
  <2>1. end = IF clock = open.start THEN open.start + TickInterval ELSE clock
    BY <1>1, <1>4 DEF EndOf
  <2>2. DueAt(at) = IF clock = open.start THEN TickInterval ELSE 0
    BY <1>1, <1>2, <1>4 DEF DueAt
  <2>3. QED
    BY <1>1, <1>2, <2>1, <2>2
<1>5. QED
  BY <1>3, <1>4

(***************************************************************************)
(* Letting go of the open segment settles it when the row is stored and    *)
(* loses it when not.  `at' is the instant of the observation or flush.    *)
(***************************************************************************)
LEMMA ClosingMaps ==
  ASSUME IInv, NEW at \in 0 .. Horizon,
         heldNow' = 0, presentNow' \in {at, None},
         \/ rows' = rows
         \/ /\ open # None
            /\ rows' = rows \o
                 Close(open, IF clock <= at /\ at - clock <= MaxGap
                             THEN at ELSE open.lastSeen)
  PROVE  Ledger!Next
<1>1. CASE rows' = rows
  <2>1. total' = total
    BY <1>1, LedgerNames
  <2>2. Ledger!Lose
    BY <2>1 DEF Ledger!Lose, heldNow, presentNow
  <2>3. QED
    BY <2>2 DEF Ledger!Next
<1>2. CASE /\ open # None
           /\ rows' = rows \o
                Close(open, IF clock <= at /\ at - clock <= MaxGap
                            THEN at ELSE open.lastSeen)
  <2> DEFINE end == EndOf(open, IF clock <= at /\ at - clock <= MaxGap
                                THEN at ELSE open.lastSeen)
             row == [app |-> open.app, start |-> open.start, end |-> end]
  <2>1. rows' = rows \o <<row>>
    BY <1>2 DEF Close
  <2>2. end \in Nat /\ end - open.start = heldNow + DueAt(at)
    <3>1. open # None
      BY <1>2
    <3>2. QED
      BY <3>1, ClosedLength
  <2>3. open.app \in App /\ open.start \in Nat /\ rows \in Seq(Segment)
    BY <1>2 DEF IInv, TypeOK, OpenSegment
  <2> HIDE DEF end
  <2>4. row \in Segment /\ row.start = open.start /\ row.end = end
    BY <2>2, <2>3 DEF Segment
  <2> HIDE DEF row
  <2>5. rows' = Append(rows, row)
    BY <2>1, <2>3, <2>4, RowsGrow
  <2>6. total' = total + (end - open.start)
    <3>1. total = TotalOf(rows) /\ total' = TotalOf(rows')
      BY LedgerNames
    <3>2. QED
      BY <2>3, <2>4, <2>5, <3>1, TotalAppend
  <2>7. total \in Int
    <3>1. total = TotalOf(rows)
      BY LedgerNames
    <3>2. QED
      BY <2>3, <3>1, TotalType
  <2>8. heldNow \in Int /\ DueAt(at) \in Int
    BY <1>2 DEF heldNow, DueAt, IInv, TypeOK, OpenSegment
  <2>9. total' = total + heldNow + Ledger!Due(at)
    <3>1. Ledger!Due(at) = DueAt(at)
      BY LedgerNames
    <3>2. total' = total + (heldNow + DueAt(at))
      BY <2>2, <2>6
    <3>3. QED
      BY <2>7, <2>8, <3>1, <3>2
  <2>10. Ledger!Settle
    BY <2>9 DEF Ledger!Settle, heldNow, presentNow
  <2>11. QED
    BY <2>10 DEF Ledger!Next
<1>3. QED
  BY <1>1, <1>2

(***************************************************************************)
(* observe(): a segment that goes on is held, all else lets go of it.      *)
(***************************************************************************)
LEMMA ObserveMaps ==
  ASSUME IInv, clock \in 0 .. Horizon,
         NEW now \in 0 .. Horizon, NEW tick \in Tick, Observe(now, tick),
         tick.at \in 0 .. Horizon,
         tick.app # None => tick.at = now,
         now < clock /\ tick.app = None => tick.at = clock,
         clock <= now => clock < now /\ clock <= tick.at /\ tick.at <= now
  PROVE  Ledger!Next
<1>1. /\ rows \in Seq(Segment) /\ clock \in Nat
      /\ open \in OpenSegment \cup {None} /\ tick.app \in App \cup {None}
      /\ now \in Nat /\ tick.at \in Nat /\ MaxGap \in Nat /\ Horizon \in Nat
      /\ open # None => /\ open.start \in Nat /\ open.lastSeen \in Nat
                        /\ open.lastSeen = clock /\ open.start <= clock
  BY DEF IInv, TypeOK, OpenInv, OpenSegment, Tick
<1>2. CASE open # None /\ Continues(open, tick)
  <2>1. /\ tick.app # None /\ tick.at = now /\ clock <= now
        /\ now - clock <= MaxGap /\ now - open.start < MaxSegment
    BY <1>1, <1>2 DEF Continues, Unobserved, ClockWentBackwards, Gap,
       BecameIdle, MaxLength
  <2>2. /\ open' = [open EXCEPT !.lastSeen = now]
        /\ rows' = rows
    <3>1. rows' = rows \o << >> \/ rows' = rows
      BY <1>2 DEF Observe, Closed
    <3>2. open' = [open EXCEPT !.lastSeen = now]
      BY <1>2, <2>1 DEF Observe, NextOpen
    <3>3. QED
      BY <1>1, <3>1, <3>2, ConcatEmptySeq
  <2>3. /\ open' # None /\ open'.lastSeen = now /\ open'.start = open.start
    <3>1. open' \in OpenSegment
      BY <1>1, <1>2, <2>2 DEF OpenSegment
    <3>2. open' # None
      BY <3>1
    <3>3. QED
      BY <1>1, <1>2, <2>2, <3>2 DEF OpenSegment
  <2>4. /\ clock < now /\ DueAt(now) = now - clock
    BY <1>1, <1>2, <2>1 DEF DueAt
  <2>5. /\ heldNow' = heldNow + DueAt(now) /\ heldNow + DueAt(now) < MaxSegment
        /\ presentNow' = now /\ total' = total
    <3>1. heldNow = clock - open.start
      BY <1>1, <1>2 DEF heldNow
    <3>2. heldNow' = now - open.start
      BY <2>3 DEF heldNow
    <3>3. presentNow' = now
      BY <2>3 DEF presentNow
    <3>4. total = TotalOf(rows) /\ total' = TotalOf(rows')
      BY DEF total, TotalOf, FoldLeft, MapThenFoldSet
    <3>5. total' = total
      BY <2>2, <3>4
    <3>6. /\ open.start \in Nat /\ clock \in Nat /\ now \in Nat
          /\ MaxSegment \in Nat
      BY <1>1, <1>2, SegmentConfigAssumption
    <3>7. /\ now - open.start = (clock - open.start) + (now - clock)
          /\ now - open.start < MaxSegment
      BY <2>1, <3>6
    <3>8. QED
      BY <2>4, <3>1, <3>2, <3>3, <3>5, <3>7
  <2>6. /\ presentNow # None /\ Ledger!Close(now) /\ Ledger!Due(now) = DueAt(now)
    <3>1. presentNow = clock /\ clock # None
      BY <1>1, <1>2 DEF presentNow
    <3>2. Ledger!Close(now)
      BY <1>1, <1>2, <2>1, <2>4 DEF Ledger!Close
    <3>3. QED
      BY <3>1, <3>2, LedgerNames
  <2>7. Ledger!Hold
    BY <2>5, <2>6 DEF Ledger!Hold, heldNow, presentNow
  <2>8. QED
    BY <2>7 DEF Ledger!Next
<1>3. CASE ~(open # None /\ Continues(open, tick))
  <2>1. open' = Start(tick)
    BY <1>3 DEF Observe, NextOpen
  <2>2. /\ heldNow' = 0
        /\ presentNow' \in {tick.at, None}
    <3>1. CASE tick.app = None
      BY <2>1, <3>1 DEF Start, heldNow, presentNow
    <3>2. CASE tick.app # None
      <4>1. open' = [app |-> tick.app, start |-> tick.at, lastSeen |-> tick.at]
        BY <2>1, <3>2 DEF Start
      <4>2. open'.lastSeen = tick.at /\ open'.start = tick.at
        BY <4>1
      <4>3. QED
        BY <1>1, <4>2 DEF heldNow, presentNow
    <3>3. QED
      BY <3>1, <3>2
  <2>3. \/ rows' = rows
        \/ /\ open # None
           /\ rows' = rows \o
                Close(open, IF clock <= tick.at /\ tick.at - clock <= MaxGap
                            THEN tick.at ELSE open.lastSeen)
    <3>1. CASE open = None
      <4>1. rows' = rows \o << >> \/ rows' = rows
        BY <3>1 DEF Observe, Closed
      <4>2. QED
        BY <1>1, <4>1, ConcatEmptySeq
    <3>2. CASE open # None
      <4>1. Unobserved(open, tick)
              <=> ~(clock <= tick.at /\ tick.at - clock <= MaxGap)
        BY <1>1, <3>2 DEF Unobserved, ClockWentBackwards, Gap
      <4>2. rows' = rows \o Closed(open, tick) \/ rows' = rows
        BY DEF Observe
      <4>3. QED
        BY <1>3, <3>2, <4>1, <4>2 DEF Closed
    <3>3. QED
      BY <3>1, <3>2
  <2>4. QED
    BY <2>2, <2>3, ClosingMaps
<1>4. QED
  BY <1>2, <1>3

LEMMA ShutdownMaps ==
  ASSUME IInv, Shutdown
  PROVE  Ledger!Next
<1>1. PICK at \in clock + 1 .. Horizon :
        /\ open' = None
        /\ rows' = rows \o Flushed(open, at) \/ rows' = rows
  BY DEF Shutdown
<1>2. clock \in Nat /\ rows \in Seq(Segment) /\ at \in 0 .. Horizon /\ clock < at
  BY DEF IInv, TypeOK
<1>3. heldNow' = 0 /\ presentNow' = None
  BY <1>1 DEF heldNow, presentNow
<1>4. \/ rows' = rows
      \/ /\ open # None
         /\ rows' = rows \o Close(open, IF clock <= at /\ at - clock <= MaxGap
                                        THEN at ELSE open.lastSeen)
  <2>1. CASE open = None
    BY <1>1, <1>2, <2>1, ConcatEmptySeq DEF Flushed
  <2>2. CASE open # None
    <3>1. open.lastSeen = clock /\ clock <= at
      BY <1>2, <2>2 DEF IInv, OpenInv
    <3>2. QED
      BY <1>1, <2>2, <3>1 DEF Flushed
  <2>3. QED
    BY <2>1, <2>2
<1>5. QED
  BY <1>2, <1>3, <1>4, ClosingMaps

LEMMA StepMaps ==
  ASSUME IInv, clock \in 0 .. Horizon, [Next]_vars
  PROVE  [Ledger!Next]_<<total, heldNow, presentNow>>
<1>1. CASE ActiveTick
  <2>1. PICK now \in NextTick, app \in App :
          Observe(now, [at |-> now, app |-> app])
    BY <1>1 DEF ActiveTick
  <2>2. now \in 0 .. Horizon /\ clock < now
    BY DEF NextTick
  <2> DEFINE tick == [at |-> now, app |-> app]
  <2>3. tick \in Tick /\ tick.at = now /\ tick.app # None
    BY <2>2 DEF Tick
  <2>4. Observe(now, tick)
    BY <2>1
  <2> HIDE DEF tick
  <2>5. QED
    BY <2>2, <2>3, <2>4, ObserveMaps
<1>2. CASE IdleTick
  <2>1. PICK now \in NextTick : \E at \in clock .. now :
          Observe(now, [at |-> at, app |-> None])
    BY <1>2 DEF IdleTick
  <2>2. PICK at \in clock .. now : Observe(now, [at |-> at, app |-> None])
    BY <2>1
  <2>3. now \in 0 .. Horizon /\ clock < now /\ at \in 0 .. Horizon
          /\ clock <= at /\ at <= now
    BY DEF NextTick
  <2> DEFINE tick == [at |-> at, app |-> None]
  <2>4. tick \in Tick /\ tick.at = at /\ tick.app = None
    BY <2>3 DEF Tick
  <2>5. Observe(now, tick)
    BY <2>2
  <2> HIDE DEF tick
  <2>6. ~(now < clock)
    BY <2>3
  <2>7. QED
    BY <2>3, <2>4, <2>5, <2>6, ObserveMaps
<1>3. CASE ClockStepsBack
  <2>1. PICK now \in {t \in 0 .. clock - 1 : clock - t <= MaxStepBack} :
          \/ \E app \in App : Observe(now, [at |-> now, app |-> app])
          \/ Observe(now, [at |-> clock, app |-> None])
    BY <1>3 DEF ClockStepsBack
  <2>2. now \in 0 .. Horizon /\ now < clock /\ ~(clock <= now)
    OBVIOUS
  <2>3. PICK tick \in Tick :
          /\ Observe(now, tick)
          /\ tick.at \in 0 .. Horizon
          /\ tick.app # None => tick.at = now
          /\ tick.app = None => tick.at = clock
    <3>1. CASE \E app \in App : Observe(now, [at |-> now, app |-> app])
      <4>1. PICK app \in App : Observe(now, [at |-> now, app |-> app])
        BY <3>1
      <4> DEFINE tick == [at |-> now, app |-> app]
      <4>2. tick \in Tick /\ tick.at = now /\ tick.app # None
        BY <2>2 DEF Tick
      <4>3. Observe(now, tick)
        BY <4>1
      <4> HIDE DEF tick
      <4>4. QED
        BY <2>2, <4>2, <4>3
    <3>2. CASE Observe(now, [at |-> clock, app |-> None])
      <4> DEFINE tick == [at |-> clock, app |-> None]
      <4>1. tick \in Tick /\ tick.at = clock /\ tick.app = None
        BY DEF Tick
      <4>2. Observe(now, tick)
        BY <3>2
      <4> HIDE DEF tick
      <4>3. QED
        BY <4>1, <4>2
    <3>3. QED
      BY <2>1, <3>1, <3>2
  <2>4. QED
    BY <2>2, <2>3, ObserveMaps
<1>4. CASE Shutdown
  BY <1>4, ShutdownMaps
<1>5. CASE TickerDropped
  <2>1. open' = None /\ rows' = rows
    BY <1>5 DEF TickerDropped
  <2>2. total' = total /\ heldNow' = 0 /\ presentNow' = None
    BY <2>1, LedgerNames DEF heldNow, presentNow
  <2>3. Ledger!Lose
    BY <2>2 DEF Ledger!Lose, heldNow, presentNow
  <2>4. QED
    BY <2>3 DEF Ledger!Next
<1>6. CASE Done \/ UNCHANGED vars
  BY <1>6, LedgerNames DEF Done, vars, heldNow, presentNow
<1>7. QED
  BY <1>1, <1>2, <1>3, <1>4, <1>5, <1>6 DEF Next

(***************************************************************************)
(* Segments are an implementation of the ledger: whatever ticks, sleeps,   *)
(* restarts, clock corrections and refused rows do, the stored and held    *)
(* totals move only as UsageLedger allows (SegmentBuilder::observe and     *)
(* flush, usage::total).                                                   *)
(***************************************************************************)
THEOREM SegmentsKeepTheLedger == Spec => LedgerKept
<1>1. Init => Ledger!Init
  <2>1. Init => total = 0
    BY TotalEmpty, LedgerNames DEF Init
  <2>2. QED
    BY <2>1 DEF Init, Ledger!Init
<1>2. IInv /\ ClockInv /\ [Next]_vars
        => [Ledger!Next]_<<total, heldNow, presentNow>>
  BY StepMaps DEF ClockInv
<1>3. QED
  BY <1>1, <1>2, Invariance, ClockInRun, PTL
     DEF Spec, LedgerKept, Ledger!Spec, heldNow, presentNow
=============================================================================
