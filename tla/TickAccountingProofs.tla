------------------------ MODULE TickAccountingProofs ------------------------
(***************************************************************************)
(* Proofs, for every quota, day length, configuration and horizon, of the  *)
(* properties TickAccounting.cfg checks on a small instance.               *)
(***************************************************************************)
EXTENDS TickAccounting, FoldLemmas, SequenceTheorems

USE NoneAssumption, SegmentConfigAssumption

-----------------------------------------------------------------------------
(***************************************************************************)
(* The inductive invariant.  What is open ends at the last tick and is     *)
(* short.                                                                  *)
(***************************************************************************)
OpenInv ==
  open # None =>
    /\ open.lastSeen = clock
    /\ open.start <= open.lastSeen
    /\ open.lastSeen - open.start < MaxSegment

(***************************************************************************)
(* The idle clock says what the compositor knows, or nothing at all.       *)
(***************************************************************************)
Trusted == watching \/ idled = None

WorkIsOpen == Trusted /\ active => open # None

(***************************************************************************)
(* The part of the open segment that lies in the policy day.               *)
(***************************************************************************)
OpenToday ==
  IF open = None THEN 0
  ELSE open.lastSeen - Larger(open.start, DayStart(clock))

(***************************************************************************)
(* Every second worked today is stored, open, or went with a lost segment. *)
(***************************************************************************)
Accounted ==
  Trusted => worked <= UsedToday(rows, clock) + OpenToday
                         + losses * (MaxSegment + MaxGap)

(***************************************************************************)
(* The verdict is still true of the rows it was reached on.                *)
(***************************************************************************)
Judged ==
  /\ verdict = "Denied" => Remaining(rows, clock) = 0
  /\ verdict = "Allowed" => Remaining(rows, clock) # 0

(***************************************************************************)
(* The running ticker gave its warnings today and has marked all           *)
(* thresholds they crossed.                                                *)
(***************************************************************************)
MarkedAreSaid ==
  \A i \in DOMAIN said : renewed < i =>
    /\ warnedOn = Today(clock)
    /\ \A w \in Warnings : said[i].left <= w => w \in warned

(***************************************************************************)
(* What a warning or a denial of the day found used is still used.         *)
(***************************************************************************)
SaidIsUsed ==
  \A i \in DOMAIN said :
    said[i].limit - said[i].left <= UsedToday(rows, clock)

RefusedIsUsed == refused # None => refused <= UsedToday(rows, clock)

IInv ==
  /\ TypeOK
  /\ OpenInv
  /\ WorkIsOpen
  /\ Accounted
  /\ Judged
  /\ MarkedAreSaid
  /\ SaidIsUsed
  /\ RefusedIsUsed
  /\ WarningsEscalate

-----------------------------------------------------------------------------
LEMMA Constants ==
  /\ Quota \in Nat /\ IdleThreshold \in Nat /\ NotifyAfter \in Nat
  /\ BonusAmount \in Nat /\ MaxGrants \in Nat /\ MaxLosses \in Nat
  /\ Horizon \in Nat
  /\ AgentMayFail \in BOOLEAN /\ Warnings \subseteq Nat
  /\ DayLength \in Nat /\ DayLength >= 1
  /\ TickInterval \in Nat /\ TickInterval >= 1 /\ MaxGap \in Nat
  /\ TickInterval <= MaxGap /\ MaxSegment \in Nat /\ MaxSegment >= 1
  BY AccountingAssumption

(***************************************************************************)
(* Policy days partition time, and instants know their order across them.  *)
(***************************************************************************)
LEMMA DayFacts ==
  ASSUME NEW now \in Nat
  PROVE  /\ Today(now) \in Nat
         /\ DayStart(now) \in Nat
         /\ DayStart(now) <= now
         /\ now < DayStart(now) + DayLength
<1>1. DayLength \in Nat /\ DayLength > 0
  BY Constants
<1>2. Today(now) \in Nat /\ Today(now) * DayLength <= now
        /\ now < Today(now) * DayLength + DayLength
  BY <1>1 DEF Today
<1>3. Today(now) * DayLength \in Nat
  BY <1>1, <1>2
<1>4. QED
  BY <1>2, <1>3 DEF DayStart

LEMMA DayOrder ==
  ASSUME NEW a \in Nat, NEW b \in Nat, a <= b
  PROVE  /\ Today(a) <= Today(b)
         /\ Today(a) # Today(b) => a < DayStart(b)
<1>1. /\ Today(a) \in Nat /\ Today(b) \in Nat
      /\ DayStart(a) \in Nat /\ DayStart(b) \in Nat
      /\ DayStart(a) <= a /\ a < DayStart(a) + DayLength
      /\ DayStart(b) <= b /\ b < DayStart(b) + DayLength
      /\ DayLength \in Nat
  BY DayFacts, Constants
<1>2. ASSUME NEW i \in Nat, NEW j \in Nat, i < j
      PROVE  i * DayLength + DayLength <= j * DayLength
  <2>1. j = i + 1 + (j - i - 1) /\ j - i - 1 \in Nat
    BY <1>2
  <2>2. (j - i - 1) * DayLength >= 0
    BY <1>1, <2>1
  <2>3. j * DayLength = i * DayLength + DayLength + (j - i - 1) * DayLength
    BY <1>1, <2>1
  <2>4. QED
    BY <1>1, <2>1, <2>2, <2>3
<1>3. Today(a) <= Today(b)
  <2>1. SUFFICES ASSUME Today(b) < Today(a)
                 PROVE  FALSE
    BY <1>1
  <2>2. DayStart(b) + DayLength <= DayStart(a)
    BY <1>1, <1>2, <2>1 DEF DayStart
  <2>3. QED
    BY <1>1, <2>2
<1>4. ASSUME Today(a) # Today(b)
      PROVE  a < DayStart(b)
  <2>1. Today(a) < Today(b)
    BY <1>1, <1>3, <1>4
  <2>2. DayStart(a) + DayLength <= DayStart(b)
    BY <1>1, <1>2, <2>1 DEF DayStart
  <2>3. QED
    BY <1>1, <2>2
<1>5. QED
  BY <1>3, <1>4

LEMMA LimitType ==
  ASSUME NEW now \in Nat, now <= Horizon
  PROVE  /\ Today(now) \in Days
         /\ TypeOK => Limit(now) \in Nat
<1>1. Horizon \in Nat /\ Quota \in Nat
  BY Constants
<1>2. /\ Today(now) \in Nat /\ Today(Horizon) \in Nat
      /\ Today(now) <= Today(Horizon)
  BY <1>1, DayFacts, DayOrder
<1>3. Today(now) \in Days
  BY <1>2 DEF Days, Today
<1>4. QED
  BY <1>1, <1>3 DEF Limit, TypeOK

-----------------------------------------------------------------------------
(***************************************************************************)
(* What usage_between counts of one row, and that UsedToday sums it.       *)
(***************************************************************************)
Counted(row, now) ==
  Larger(0, Smaller(row.end, now) - Larger(row.start, DayStart(now)))

LEMMA CountedFacts ==
  ASSUME NEW row \in Segment, NEW now \in Nat
  PROVE  /\ Counted(row, now) \in Nat
         /\ Counted(row, now) >= Smaller(row.end, now)
                                   - Larger(row.start, DayStart(now))
         /\ row.start <= row.end => Counted(row, now) <= row.end - row.start
  BY DayFacts DEF Counted, Segment, Larger, Smaller

LEMMA UsedIsSum ==
  ASSUME NEW s \in Seq(Segment), NEW now \in Nat
  PROVE  \E p : /\ Sums(p, [i \in 1 .. Len(s) |-> Counted(s[i], now)], Len(s))
                /\ UsedToday(s, now) = p[Len(s)]
<1> DEFINE n == Len(s)
           d == [i \in 1 .. n |-> Counted(s[i], now)]
<1>1. n \in Nat /\ DOMAIN s = 1 .. n /\ \A i \in 1 .. n : s[i] \in Segment
  BY LenProperties, ElementOfSeq
<1>2. d \in [1 .. n -> Int]
  BY <1>1, CountedFacts
<1> DEFINE IsIter(it) ==
             it = [t \in SUBSET DOMAIN s |->
                     IF t = {} THEN 0
                     ELSE it[t \ {Max(t)}]
                            + Larger(0, Smaller(s[Max(t)].end, now)
                                - Larger(s[Max(t)].start, DayStart(now)))]
           iter == CHOOSE it : IsIter(it)
<1>3. ASSUME NEW t \in SUBSET (1 .. n), t # {}
      PROVE  d[Max(t)] = Larger(0, Smaller(s[Max(t)].end, now)
                                     - Larger(s[Max(t)].start, DayStart(now)))
  <2>1. Max(t) \in 1 .. n
    BY <1>1, <1>3, MaxIsLast
  <2>2. QED
    BY <2>1 DEF Counted
<1>4. UsedToday(s, now) = iter[DOMAIN s]
  BY DEF UsedToday, FoldLeft, MapThenFoldSet
<1> HIDE DEF n, d
<1>5. \E it : IsIter(it)
  <2>1. PICK it : it = [t \in SUBSET (1 .. n) |->
                          IF t = {} THEN 0 ELSE it[t \ {Max(t)}] + d[Max(t)]]
    BY <1>1, <1>2, SumExists
  <2>2. IsIter(it)
    BY <1>1, <1>3, <2>1
  <2>3. QED
    BY <2>2
<1>6. IsIter(iter)
  <2> HIDE DEF IsIter
  <2> QED
    BY <1>5
<1>7. iter = [t \in SUBSET (1 .. n) |->
                IF t = {} THEN 0 ELSE iter[t \ {Max(t)}] + d[Max(t)]]
  <2> HIDE DEF iter
  <2> QED
    BY <1>1, <1>3, <1>6
<1>8. \E p : Sums(p, d, n) /\ p[n] = iter[1 .. n]
  <2> HIDE DEF iter
  <2> QED
    BY <1>1, <1>2, <1>7, SumsOfFold
<1>9. QED
  BY <1>1, <1>4, <1>8 DEF n, d

(***************************************************************************)
(* The sum is a number of seconds, a new row adds what counts of it, and   *)
(* while the policy day lasts the same rows never count for less.          *)
(***************************************************************************)
LEMMA UsedType ==
  ASSUME NEW s \in Seq(Segment), NEW now \in Nat
  PROVE  UsedToday(s, now) \in Nat
<1> DEFINE n == Len(s)
           d == [i \in 1 .. n |-> Counted(s[i], now)]
           zero == [i \in 1 .. n |-> 0]
           none == [i \in 0 .. n |-> 0]
<1>1. n \in Nat /\ \A i \in 1 .. n : s[i] \in Segment
  BY LenProperties, ElementOfSeq
<1>2. d \in [1 .. n -> Int] /\ zero \in [1 .. n -> Int]
        /\ \A i \in 1 .. n : zero[i] <= d[i]
  <2>1. \A i \in 1 .. n : Counted(s[i], now) \in Nat
    BY <1>1, CountedFacts
  <2>2. QED
    BY <2>1
<1>3. Sums(none, zero, n)
  BY <1>1 DEF Sums
<1>4. none[n] = 0
  BY <1>1
<1>5. PICK p : Sums(p, d, n) /\ UsedToday(s, now) = p[n]
  BY UsedIsSum
<1> HIDE DEF n, d, zero, none
<1>6. none[n] <= p[n]
  BY <1>1, <1>2, <1>3, <1>5, SumsGrow
<1>7. p[n] \in Int
  BY <1>1, <1>5 DEF Sums
<1>8. QED
  BY <1>4, <1>5, <1>6, <1>7

LEMMA UsedAppend ==
  ASSUME NEW s \in Seq(Segment), NEW row \in Segment, NEW now \in Nat
  PROVE  UsedToday(Append(s, row), now) = UsedToday(s, now) + Counted(row, now)
<1> DEFINE n == Len(s)
           d == [i \in 1 .. n |-> Counted(s[i], now)]
           e == [i \in 1 .. Len(Append(s, row)) |->
                   Counted(Append(s, row)[i], now)]
<1>1. /\ n \in Nat /\ Append(s, row) \in Seq(Segment)
      /\ Len(Append(s, row)) = n + 1
      /\ \A i \in 1 .. n : Append(s, row)[i] = s[i]
      /\ Append(s, row)[n + 1] = row
  BY LenProperties, AppendProperties
<1>2. /\ \A i \in 1 .. n : d[i] = e[i]
      /\ e[n + 1] = Counted(row, now)
  BY <1>1
<1>a. d \in [1 .. n -> Int] /\ e \in [1 .. n + 1 -> Int]
  <2>1. /\ \A i \in 1 .. n : Counted(s[i], now) \in Nat
        /\ \A i \in 1 .. n + 1 : Counted(Append(s, row)[i], now) \in Nat
    BY <1>1, ElementOfSeq, LenProperties, CountedFacts
  <2>2. QED
    BY <1>1, <2>1
<1>3. PICK p : Sums(p, d, n) /\ UsedToday(s, now) = p[n]
  BY UsedIsSum
<1>b. \E q : /\ Sums(q, e, Len(Append(s, row)))
             /\ UsedToday(Append(s, row), now) = q[Len(Append(s, row))]
  <2>1. Append(s, row) \in Seq(Segment)
    BY <1>1
  <2>2. QED
    BY <2>1, UsedIsSum
<1>4. PICK q : Sums(q, e, n + 1) /\ UsedToday(Append(s, row), now) = q[n + 1]
  <2> HIDE DEF n, e
  <2>1. QED
    BY <1>1, <1>b
<1> HIDE DEF n, d, e
<1>5. q[n + 1] = p[n] + e[n + 1]
  <2> DEFINE m == n + 1
  <2>1. /\ n \in Nat /\ m \in Nat /\ n < m /\ m <= n + 1
        /\ d \in [1 .. n -> Int] /\ e \in [1 .. m -> Int]
        /\ Sums(p, d, n) /\ Sums(q, e, m)
        /\ \A i \in 1 .. n : d[i] = e[i]
    BY <1>1, <1>2, <1>3, <1>4, <1>a
  <2> HIDE DEF m
  <2>2. q[m] = p[n] + e[m]
    BY <2>1, SumsAppend
  <2>3. QED
    BY <2>2 DEF m
<1>6. QED
  BY <1>2, <1>3, <1>4, <1>5

LEMMA UsedGrows ==
  ASSUME NEW s \in Seq(Segment), NEW a \in Nat, NEW b \in Nat,
         a <= b, Today(a) = Today(b)
  PROVE  UsedToday(s, a) <= UsedToday(s, b)
<1> DEFINE n == Len(s)
           d == [i \in 1 .. n |-> Counted(s[i], a)]
           e == [i \in 1 .. n |-> Counted(s[i], b)]
<1>1. n \in Nat /\ \A i \in 1 .. n : s[i] \in Segment
  BY LenProperties, ElementOfSeq
<1>2. d \in [1 .. n -> Int] /\ e \in [1 .. n -> Int]
  <2>1. \A i \in 1 .. n : Counted(s[i], a) \in Nat /\ Counted(s[i], b) \in Nat
    BY <1>1, CountedFacts
  <2>2. QED
    BY <2>1
<1>3. DayStart(a) = DayStart(b) /\ DayStart(a) \in Nat
  BY DayFacts DEF DayStart
<1>4. ASSUME NEW row \in Segment
      PROVE  Counted(row, a) <= Counted(row, b)
  BY <1>3 DEF Counted, Segment, Larger, Smaller
<1>5. \A i \in 1 .. n : d[i] <= e[i]
  BY <1>1, <1>4
<1>6. PICK p : Sums(p, d, n) /\ UsedToday(s, a) = p[n]
  BY UsedIsSum
<1>7. PICK q : Sums(q, e, n) /\ UsedToday(s, b) = q[n]
  BY UsedIsSum
<1> HIDE DEF n, d, e
<1>8. p[n] <= q[n]
  BY <1>1, <1>2, <1>5, <1>6, <1>7, SumsGrow
<1>9. QED
  BY <1>6, <1>7, <1>8

-----------------------------------------------------------------------------
(***************************************************************************)
(* What close() returns: the segment begins where it was opened, is not    *)
(* empty, and ends at the instant asked for, at the last tick, or one tick *)
(* after its start.                                                        *)
(***************************************************************************)
LEMMA EndOfFacts ==
  ASSUME NEW o \in OpenSegment, NEW at \in Nat, o.start <= o.lastSeen
  PROVE  /\ EndOf(o, at) \in Nat
         /\ o.start < EndOf(o, at)
         /\ o.lastSeen <= EndOf(o, at)
         /\ o.lastSeen < at => EndOf(o, at) = at
         /\ at <= o.lastSeen => EndOf(o, at) <= o.lastSeen + TickInterval
  BY Constants DEF EndOf, OpenSegment

(***************************************************************************)
(* What build_tick makes of a report: a tick at work is a tick of now, and *)
(* an idle one is not dated back behind the last tick.                     *)
(***************************************************************************)
LEMMA ObservationFacts ==
  ASSUME TypeOK, OpenInv,
         NEW now \in Nat, clock < now, NEW atWork \in BOOLEAN, NEW app \in App,
         NEW idle, idle # None => idle \in Int,
         NEW o, o = Observation(now, atWork, idle, app)
  PROVE  /\ o.app \in App \cup {None}
         /\ o.app # None => o.at = now
         /\ atWork /\ (idle # None => idle < IdleThreshold) => o.app = app
         /\ open # None => o.at \in Nat /\ clock <= o.at
<1>1. clock \in Nat /\ IdleThreshold \in Nat
  BY Constants DEF TypeOK
<1>2. CASE ~atWork
  BY <1>1, <1>2 DEF Observation
<1>3. CASE atWork /\ idle # None /\ idle >= IdleThreshold
  <2>1. o = [at |-> IdleSince(now - idle), app |-> None]
    BY <1>3 DEF Observation
  <2>2. open # None => lastTick # None /\ lastTick = clock
    BY DEF TypeOK
  <2>3. open # None => IdleSince(now - idle) \in Nat
                         /\ clock <= IdleSince(now - idle)
    BY <1>1, <1>3, <2>2 DEF IdleSince, Larger
  <2>4. o.app = None /\ o.at = IdleSince(now - idle)
    BY <2>1
  <2>5. ~(idle < IdleThreshold)
    BY <1>1, <1>3
  <2>6. QED
    BY <1>3, <2>3, <2>4, <2>5
<1>4. CASE atWork /\ ~(idle # None /\ idle >= IdleThreshold)
  <2>1. o = [at |-> now, app |-> app]
    BY <1>4 DEF Observation
  <2>2. QED
    BY <1>1, <2>1
<1>5. QED
  BY <1>2, <1>3, <1>4

(***************************************************************************)
(* The open segment after a tick.                                          *)
(***************************************************************************)
LEMMA NextOpenFacts ==
  ASSUME TypeOK, OpenInv,
         NEW now \in Nat, clock < now, NEW o,
         o.app \in App \cup {None}, o.app # None => o.at = now,
         open # None => o.at \in Nat /\ clock <= o.at,
         NEW next, next = NextOpen(open, o)
  PROVE  /\ next \in OpenSegment \cup {None}
         /\ o.app # None => next # None
         /\ next # None => /\ next.lastSeen = now
                           /\ next.start <= now
                           /\ now - next.start < MaxSegment
         /\ \/ next # None => next.start = now
            \/ /\ open # None /\ next # None /\ Continues(open, o)
               /\ next.start = open.start
<1>1. clock \in Nat /\ open \in OpenSegment \cup {None} /\ MaxSegment \in Nat
        /\ MaxSegment >= 1
  BY Constants DEF TypeOK
<1>2. CASE open # None /\ Continues(open, o)
  <2>1. /\ o.app # None /\ o.at = now /\ now - open.start < MaxSegment
        /\ open \in OpenSegment /\ open.start \in Nat
        /\ open.lastSeen = clock /\ open.start <= open.lastSeen
    BY <1>1, <1>2 DEF Continues, BecameIdle, MaxLength, OpenInv, OpenSegment
  <2>2. next = [open EXCEPT !.lastSeen = now]
    BY <1>2, <2>1 DEF NextOpen
  <2>3. /\ next \in OpenSegment /\ next.lastSeen = now
        /\ next.start = open.start
    BY <2>1, <2>2 DEF OpenSegment
  <2>4. next # None
    BY <2>3
  <2>5. QED
    BY <1>1, <1>2, <2>1, <2>3, <2>4
<1>3. CASE ~(open # None /\ Continues(open, o))
  <2>1. next = Start(o)
    BY <1>3 DEF NextOpen
  <2>2. CASE o.app = None
    BY <1>1, <2>1, <2>2 DEF Start
  <2>3. CASE o.app # None
    <3>1. next = [app |-> o.app, start |-> now, lastSeen |-> now]
      BY <2>1, <2>3 DEF Start
    <3>2. next \in OpenSegment /\ next.start = now /\ next.lastSeen = now
      BY <2>3, <3>1 DEF OpenSegment
    <3>3. next # None
      BY <3>2
    <3>4. QED
      BY <1>1, <3>2, <3>3
  <2>4. QED
    BY <2>2, <2>3
<1>4. QED
  BY <1>2, <1>3

(***************************************************************************)
(* The rows a tick stores: none, or the open segment, which then ends no   *)
(* earlier than it was last seen, no later than a gap after, and now if    *)
(* somebody was at work throughout.                                        *)
(***************************************************************************)
Stores(now, o, stored) ==
  \/ /\ stored = rows
     /\ open = None \/ Continues(open, o)
  \/ /\ open # None /\ ~Continues(open, o)
     /\ \E row \in Segment :
          /\ stored = Append(rows, row)
          /\ row.start = open.start
          /\ open.lastSeen <= row.end
          /\ row.end - row.start < MaxSegment + MaxGap
          /\ o.app # None /\ now - clock <= MaxGap => row.end = now

LEMMA StoredFacts ==
  ASSUME TypeOK, OpenInv,
         NEW now \in Nat, clock < now, NEW o,
         o.app \in App \cup {None}, o.app # None => o.at = now,
         open # None => o.at \in Nat /\ clock <= o.at,
         NEW stored, stored = rows \o Closed(open, o)
  PROVE  Stores(now, o, stored)
<1>1. /\ clock \in Nat /\ open \in OpenSegment \cup {None}
      /\ rows \in Seq(Segment)
      /\ MaxSegment \in Nat /\ MaxGap \in Nat /\ TickInterval <= MaxGap
      /\ TickInterval \in Nat
  BY Constants DEF TypeOK
<1>2. CASE open = None \/ Continues(open, o)
  <2>1. stored = rows \o << >>
    BY <1>2 DEF Closed
  <2>2. QED
    BY <1>1, <1>2, <2>1, ConcatEmptySeq DEF Stores
<1>3. CASE open # None /\ ~Continues(open, o)
  <2> DEFINE at == IF Unobserved(open, o) THEN open.lastSeen ELSE o.at
             row == [app |-> open.app, start |-> open.start,
                     end |-> EndOf(open, at)]
  <2>1. /\ open \in OpenSegment /\ open.app \in App
        /\ open.start \in Nat /\ open.lastSeen \in Nat
        /\ open.lastSeen = clock /\ open.start <= open.lastSeen
        /\ open.lastSeen - open.start < MaxSegment
        /\ o.at \in Nat /\ clock <= o.at
    BY <1>1, <1>3 DEF OpenInv, OpenSegment
  <2>2. /\ at \in Nat /\ open.lastSeen <= at /\ at - open.lastSeen <= MaxGap
        /\ o.app # None /\ now - clock <= MaxGap => at = now
    BY <1>1, <2>1 DEF Unobserved, ClockWentBackwards, Gap
  <2>3. stored = rows \o <<row>>
    BY <1>3 DEF Closed, Close
  <2>4. row.start = open.start /\ row.end = EndOf(open, at) /\ row.app = open.app
    OBVIOUS
  <2> HIDE DEF at
  <2>5. /\ row.end \in Nat /\ open.lastSeen <= row.end
        /\ open.lastSeen < at => row.end = at
        /\ at <= open.lastSeen => row.end <= open.lastSeen + TickInterval
    BY <2>1, <2>2, <2>4, EndOfFacts
  <2>6. row \in Segment
    BY <2>1, <2>4, <2>5 DEF Segment
  <2>7. row.end - row.start < MaxSegment + MaxGap
    BY <1>1, <2>1, <2>2, <2>4, <2>5
  <2>8. o.app # None /\ now - clock <= MaxGap => row.end = now
    BY <1>1, <2>1, <2>2, <2>5
  <2>9. stored = Append(rows, row)
    <3> HIDE DEF row
    <3> QED
      BY <1>1, <2>3, <2>6, AppendIsConcat
  <2> HIDE DEF row
  <2>10. QED
    BY <1>3, <2>4, <2>5, <2>6, <2>7, <2>8, <2>9 DEF Stores
<1>4. QED
  BY <1>2, <1>3

-----------------------------------------------------------------------------
(***************************************************************************)
(* A tick with its instant, its observation and the rows it has to store   *)
(* named.                                                                  *)
(***************************************************************************)
TickOf(now, atWork, touched, o, stored) ==
  /\ clock < now /\ now <= Horizon
  /\ touched \in {typed, now}
  /\ o.app \in App \cup {None}
  /\ o.app # None => o.at = now
  /\ open # None => o.at \in Nat /\ clock <= o.at
  /\ Trusted' /\ atWork /\ now - touched < IdleThreshold => o.app # None
  /\ stored = rows \o Closed(open, o)
  /\ open' = NextOpen(open, o)
  /\ \/ rows' = stored /\ Decide(stored, now, atWork) /\ losses' = losses
     \/ /\ losses < MaxLosses /\ losses' = losses + 1
        /\ rows' \in {rows, stored}
        /\ RecordOnly(now)
  /\ Watch(now, atWork, touched)
  /\ clock' = now /\ lastTick' = now /\ typed' = touched
  /\ renewed' = RenewedToday(now)
  /\ idled' = Idled(now, touched)
  /\ bonus' = bonus /\ watching' = watching

LEMMA TickCases ==
  ASSUME TypeOK, OpenInv, TickUser
  PROVE  \E now \in Nat, atWork \in BOOLEAN, touched \in Nat :
           \E o, stored : TickOf(now, atWork, touched, o, stored)
<1>0. PICK now \in NextTick, atWork \in BOOLEAN, app \in App,
           silent \in {FALSE, AgentMayFail} :
        \E touched \in {typed, now} :
        /\ LET since == Idled(now, touched)
               idle == IF silent THEN None ELSE IdleSecs(now, since)
               observation == Observation(now, atWork, idle, app)
               stored == rows \o Closed(open, observation)
           IN /\ idled' = since
              /\ open' = NextOpen(open, observation)
              /\ \/ /\ rows' = stored
                    /\ Decide(stored, now, atWork)
                    /\ UNCHANGED losses
                 \/ Fail(stored, now)
        /\ Watch(now, atWork, touched)
        /\ renewed' = RenewedToday(now)
        /\ clock' = now
        /\ lastTick' = now
        /\ typed' = touched
        /\ UNCHANGED <<bonus, watching>>
  BY DEF TickUser
<1>1. PICK touched \in {typed, now} :
        /\ LET since == Idled(now, touched)
               idle == IF silent THEN None ELSE IdleSecs(now, since)
               observation == Observation(now, atWork, idle, app)
               stored == rows \o Closed(open, observation)
           IN /\ idled' = since
              /\ open' = NextOpen(open, observation)
              /\ \/ /\ rows' = stored
                    /\ Decide(stored, now, atWork)
                    /\ UNCHANGED losses
                 \/ Fail(stored, now)
        /\ Watch(now, atWork, touched)
        /\ renewed' = RenewedToday(now)
        /\ clock' = now
        /\ lastTick' = now
        /\ typed' = touched
        /\ UNCHANGED <<bonus, watching>>
  BY <1>0
<1>2. /\ now \in Nat /\ clock < now /\ now <= Horizon /\ touched \in Nat
      /\ clock \in Nat /\ typed \in Nat /\ touched <= now
      /\ NotifyAfter \in Nat /\ IdleThreshold \in Nat
  BY Constants DEF TypeOK, NextTick
<1> DEFINE since == Idled(now, touched)
           idle == IF silent THEN None ELSE IdleSecs(now, since)
           o == Observation(now, atWork, idle, app)
           stored == rows \o Closed(open, o)
<1>3. /\ idled' = since
      /\ open' = NextOpen(open, o)
      /\ \/ rows' = stored /\ Decide(stored, now, atWork) /\ losses' = losses
         \/ Fail(stored, now)
      /\ Watch(now, atWork, touched)
      /\ renewed' = RenewedToday(now)
      /\ clock' = now /\ lastTick' = now /\ typed' = touched
      /\ bonus' = bonus /\ watching' = watching
  BY <1>1
<1>4. since \in Nat \cup {None}
  BY <1>2 DEF Idled, TypeOK
<1>5. idle # None => idle \in Int
  BY <1>2, <1>4 DEF IdleSecs
<1>6. ASSUME Trusted', now - touched < IdleThreshold, idle # None
      PROVE  idle < IdleThreshold
  <2>1. watching \/ since = None
    BY <1>3, <1>6 DEF Trusted
  <2>2. since = None \/ since = touched + NotifyAfter
    BY <2>1 DEF Idled
  <2>3. 0 < IdleThreshold
    BY <1>2, <1>6
  <2>4. idle = IdleSecs(now, since)
    BY <1>6
  <2>5. CASE since = None
    BY <2>3, <2>4, <2>5 DEF IdleSecs
  <2>6. CASE since # None
    <3>1. since = touched + NotifyAfter
      BY <2>2, <2>6
    <3>2. idle = NotifyAfter + (now - since)
      BY <2>4, <2>6 DEF IdleSecs
    <3> HIDE DEF since, idle
    <3>3. idle = now - touched
      BY <1>2, <3>1, <3>2
    <3>4. QED
      BY <1>6, <3>3
  <2>7. QED
    BY <2>5, <2>6
<1> HIDE DEF since, idle
<1>7. /\ o.app \in App \cup {None}
      /\ o.app # None => o.at = now
      /\ atWork /\ (idle # None => idle < IdleThreshold) => o.app = app
      /\ open # None => o.at \in Nat /\ clock <= o.at
  <2> HIDE DEF o
  <2>1. o = Observation(now, atWork, idle, app)
    BY DEF o
  <2>2. QED
    BY <1>2, <1>5, <2>1, ObservationFacts
<1>8. Trusted' /\ atWork /\ now - touched < IdleThreshold => o.app # None
  <2> HIDE DEF o
  <2> QED
    BY <1>6, <1>7
<1> HIDE DEF o
<1>9. TickOf(now, atWork, touched, o, stored)
  BY <1>1, <1>2, <1>3, <1>7, <1>8 DEF TickOf, Fail, since
<1>10. QED
  BY <1>2, <1>9

(***************************************************************************)
(* What a tick has to store, of the rows and of the segment that is open.  *)
(***************************************************************************)
LEMMA TickStores ==
  ASSUME TypeOK, OpenInv,
         NEW now \in Nat, NEW atWork, NEW touched, NEW o, NEW stored,
         TickOf(now, atWork, touched, o, stored)
  PROVE  /\ stored = rows \/ \E row \in Segment : stored = Append(rows, row)
         /\ open = None \/ Continues(open, o) => rows' = rows
<1>1. /\ o.app \in App \cup {None}
      /\ o.app # None => o.at = now
      /\ open # None => o.at \in Nat /\ clock <= o.at
      /\ clock < now /\ stored = rows \o Closed(open, o)
      /\ rows' \in {rows, stored}
  BY DEF TickOf
<1>2. \/ stored = rows /\ (open = None \/ Continues(open, o))
      \/ /\ open # None /\ ~Continues(open, o)
         /\ \E row \in Segment : stored = Append(rows, row)
  <2>1. Stores(now, o, stored)
    BY <1>1, StoredFacts
  <2>2. QED
    BY <2>1 DEF Stores
<1>3. QED
  BY <1>1, <1>2

(***************************************************************************)
(* A tick, conjunct by conjunct.                                           *)
(***************************************************************************)
LEMMA TickTyped ==
  ASSUME TypeOK, OpenInv,
         NEW now \in Nat, NEW atWork \in BOOLEAN, NEW touched \in Nat,
         NEW o, NEW stored, TickOf(now, atWork, touched, o, stored)
  PROVE  /\ TypeOK' /\ OpenInv'
         /\ stored \in Seq(Segment) /\ rows' \in Seq(Segment)
<1>1. /\ clock \in Nat /\ clock < now /\ now <= Horizon /\ clock' = now
      /\ lastTick' = now /\ typed' = touched /\ touched \in {typed, now}
      /\ idled' = Idled(now, touched) /\ bonus' = bonus /\ watching' = watching
      /\ Horizon \in Nat /\ NotifyAfter \in Nat /\ touched <= now
  BY Constants DEF TypeOK, TickOf
<1>2. /\ open' \in OpenSegment \cup {None}
      /\ open' # None => /\ open'.lastSeen = now
                         /\ open'.start <= now
                         /\ now - open'.start < MaxSegment
  BY NextOpenFacts DEF TickOf
<1>3. OpenInv'
  BY <1>1, <1>2 DEF OpenInv
<1>4. stored \in Seq(Segment)
  <2>1. CASE stored = rows
    BY <2>1 DEF TypeOK
  <2>2. CASE \E row \in Segment : stored = Append(rows, row)
    BY <2>2, AppendProperties DEF TypeOK
  <2>3. QED
    BY <2>1, <2>2, TickStores
<1>5. rows' \in Seq(Segment)
  BY <1>4 DEF TickOf, TypeOK
<1>6. idled' \in 0 .. now \cup {None}
  BY <1>1 DEF Idled, TypeOK
<1>7. losses' \in 0 .. MaxLosses
  BY Constants DEF TickOf, TypeOK
<1>8. Today(now) \in Days
  BY <1>1, LimitType
<1>9. worked' \in Nat /\ active' \in BOOLEAN
  <2>1. DayStart(now) \in Nat /\ DayStart(now) <= now
    BY DayFacts
  <2>2. SinceLastTick(now) \in Nat
    BY <1>1, <2>1 DEF SinceLastTick, Larger
  <2>3. worked \in Nat
    BY DEF TypeOK
  <2>4. active' \in BOOLEAN
    BY DEF TickOf, Watch
  <2>5. worked' \in Nat
    BY <2>2, <2>3 DEF TickOf, Watch
  <2>6. QED
    BY <2>4, <2>5
<1>l. Remaining(stored, now) \in Nat /\ Limit(now) \in Nat
  <2>1. UsedToday(stored, now) \in Nat
    BY <1>4, UsedType
  <2>2. Limit(now) \in Nat
    BY <1>1, LimitType
  <2>3. QED
    BY <2>1, <2>2 DEF Remaining, Larger
<1>s. /\ SaidToday(now) \in Seq(Warning)
      /\ RenewedToday(now) \in 0 .. Len(SaidToday(now))
      /\ RefusedToday(now) \in Nat \cup {None}
  <2>1. CASE DayGoesOn(now)
    BY <2>1 DEF SaidToday, RenewedToday, RefusedToday, TypeOK
  <2>2. CASE ~DayGoesOn(now)
    BY <2>2, EmptySeq DEF SaidToday, RenewedToday, RefusedToday
  <2>3. QED
    BY <2>1, <2>2
<1>10. /\ verdict' \in {"Allowed", "Denied", None}
       /\ warned' \subseteq Warnings /\ warnedOn' \in Days \cup {None}
       /\ said' \in Seq(Warning) /\ renewed' \in 0 .. Len(said')
       /\ refused' \in Nat \cup {None}
  <2>r. renewed' = RenewedToday(now)
    BY DEF TickOf
  <2>1. CASE verdict' \in {"Denied", None} /\ warned' = warned
               /\ warnedOn' = warnedOn /\ said' = SaidToday(now)
               /\ refused' \in {Limit(now), RefusedToday(now)}
    BY <1>l, <1>s, <2>r, <2>1 DEF TypeOK
  <2>2. CASE Allow(now, Remaining(stored, now), atWork)
    <3>2. /\ verdict' = "Allowed" /\ warnedOn' = Today(now)
          /\ refused' = RefusedToday(now)
      BY <2>2 DEF Allow
    <3>3. warned' \subseteq Warnings
      BY <2>2 DEF Allow, Crossed, TypeOK
    <3>4. said' \in Seq(Warning) /\ renewed' \in 0 .. Len(said')
      <4> DEFINE warning ==
                   [left |-> Remaining(stored, now), limit |-> Limit(now)]
                 before == SaidToday(now)
      <4>1. warning \in Warning
        BY <1>l DEF Warning
      <4>2. said' \in {before, Append(before, warning)}
        BY <2>2 DEF Allow
      <4>3. before \in Seq(Warning) /\ renewed' \in 0 .. Len(before)
        BY <1>s, <2>r
      <4> HIDE DEF before, warning
      <4>4. /\ Append(before, warning) \in Seq(Warning)
            /\ Len(Append(before, warning)) = Len(before) + 1
            /\ Len(before) \in Nat
        BY <4>1, <4>3, AppendProperties, LenProperties
      <4>5. QED
        BY <4>2, <4>3, <4>4
    <3>5. QED
      BY <1>8, <1>s, <3>2, <3>3, <3>4
  <2>3. QED
    BY <2>1, <2>2 DEF TickOf, Decide, Deny, RecordOnly
<1>11. TypeOK'
  <2>1. /\ clock' \in 0 .. Horizon /\ lastTick' \in 0 .. Horizon \cup {None}
        /\ typed' \in 0 .. clock' /\ idled' \in 0 .. clock' \cup {None}
        /\ lastTick' = clock' /\ lastTick' # None
    BY <1>1, <1>6, NoneAssumption
  <2>2. bonus' \in [Days -> Nat] /\ watching' \in BOOLEAN
    BY <1>1 DEF TypeOK
  <2>3. open' \in OpenSegment \cup {None} /\ rows' \in Seq(Segment)
    BY <1>2, <1>5
  <2>4. QED
    BY <1>7, <1>9, <1>10, <2>1, <2>2, <2>3 DEF TypeOK
<1>12. QED
  BY <1>3, <1>4, <1>5, <1>11

(***************************************************************************)
(* The second conjunct of the ledger: what a tick adds to the work seen    *)
(* today it also adds to what is stored or open, or loses.                 *)
(***************************************************************************)
LEMMA TickAccounted ==
  ASSUME TypeOK, OpenInv, WorkIsOpen, Accounted,
         NEW now \in Nat, NEW atWork \in BOOLEAN, NEW touched \in Nat,
         NEW o, NEW stored, TickOf(now, atWork, touched, o, stored)
  PROVE  WorkIsOpen' /\ Accounted'
<1> DEFINE Loss == losses * (MaxSegment + MaxGap)
           day == DayStart(now)
           sameDay == Today(clock) = Today(now)
           before == IF sameDay THEN worked ELSE 0
           works == atWork /\ now - touched < IdleThreshold
           counts == active /\ works /\ now - clock <= MaxGap
           used == UsedToday(rows, now)
<1>1. /\ clock \in Nat /\ clock < now /\ clock' = now
      /\ worked \in Nat /\ losses \in Nat
      /\ MaxSegment \in Nat /\ MaxGap \in Nat
      /\ rows \in Seq(Segment) /\ open \in OpenSegment \cup {None}
      /\ active \in BOOLEAN
  BY Constants DEF TypeOK, TickOf
<1>2. /\ DayStart(clock) \in Nat /\ DayStart(clock) <= clock
      /\ day \in Nat /\ day <= now
      /\ sameDay => day = DayStart(clock)
      /\ ~sameDay => clock < day
  <2>1. clock <= now
    BY <1>1
  <2>2. QED
    BY <1>1, <2>1, DayFacts, DayOrder DEF DayStart
<1>3. /\ used \in Nat
      /\ sameDay => UsedToday(rows, clock) <= used
      /\ UsedToday(rows, clock) \in Nat
  <2>1. used \in Nat /\ UsedToday(rows, clock) \in Nat
    <3>1. \A t \in Nat : UsedToday(rows, t) \in Nat
      BY <1>1, UsedType
    <3>2. QED
      BY <1>1, <3>1
  <2>2. sameDay => UsedToday(rows, clock) <= used
    BY <1>1, UsedGrows
  <2>3. QED
    BY <2>1, <2>2
<1>4. Loss \in Nat
        /\ (losses + 1) * (MaxSegment + MaxGap) = Loss + MaxSegment + MaxGap
  BY <1>1
<1>5. Trusted' => Trusted
  BY DEF TickOf, Trusted, Idled
<1>6. WorkIsOpen'
  <2>1. SUFFICES ASSUME Trusted', active'
                 PROVE  open' # None
    BY DEF WorkIsOpen
  <2>2. works
    BY <2>1 DEF TickOf, Watch
  <2>3. o.app # None
    BY <2>1, <2>2 DEF TickOf
  <2>4. QED
    BY <2>3, NextOpenFacts DEF TickOf
<1>7. Accounted'
  <2>1. SUFFICES ASSUME Trusted'
                 PROVE  worked' <= UsedToday(rows', now) + OpenToday'
                                     + losses' * (MaxSegment + MaxGap)
    BY <1>1 DEF Accounted
  <2>2. Trusted
    BY <1>5, <2>1
  <2>3. worked' = before + IF counts THEN now - Larger(clock, day) ELSE 0
    BY DEF TickOf, Watch, SinceLastTick, DayGoesOn
  <2>4. /\ counts => o.app # None /\ open # None
        /\ counts => now - clock <= MaxGap
    BY <2>1, <2>2 DEF TickOf, WorkIsOpen
  <2>5. sameDay => worked <= used + OpenToday + Loss
    <3>1. worked <= UsedToday(rows, clock) + OpenToday + Loss
      BY <2>2 DEF Accounted
    <3>2. OpenToday \in Int
      BY <1>1, <1>2 DEF OpenToday, OpenSegment, Larger
    <3> HIDE DEF Loss, used, day
    <3>3. QED
      BY <1>1, <1>3, <1>4, <3>1, <3>2
  <2>6. open # None =>
          /\ open.lastSeen = clock /\ open.start \in Nat /\ open.start <= clock
          /\ OpenToday = clock - Larger(open.start, DayStart(clock))
    BY <1>1 DEF OpenInv, OpenToday, OpenSegment
  <2>7. losses' = losses \/ losses' = losses + 1
    BY DEF TickOf
  <2>8. losses' * (MaxSegment + MaxGap)
          = IF losses' = losses THEN Loss ELSE Loss + MaxSegment + MaxGap
    BY <1>1, <1>4, <2>7
  <2>9. /\ open' # None => open'.lastSeen = now
        /\ \/ open' # None => open'.start = now
           \/ /\ open # None /\ open' # None /\ Continues(open, o)
              /\ open'.start = open.start
    BY NextOpenFacts DEF TickOf
  <2>10. OpenToday' = IF open' = None THEN 0 ELSE now - Larger(open'.start, day)
    BY <1>1, <2>9 DEF OpenToday
  <2> HIDE DEF Loss, used, day, counts
  <2>11. CASE open # None /\ Continues(open, o)
    <3>1. /\ open'.start = open.start \/ open'.start = now
          /\ open' # None
      <4>1. o.app # None
        BY <2>11 DEF Continues, BecameIdle
      <4>2. QED
        BY <2>9, <4>1, NextOpenFacts DEF TickOf
    <3>2. open'.start = open.start
      BY <2>11 DEF TickOf, NextOpen, Continues, OpenSegment, TypeOK
    <3>3. rows' = rows
      BY <2>11, TickStores
    <3>4. OpenToday' = now - Larger(open.start, day)
      BY <2>10, <3>1, <3>2
    <3>5. worked' <= used + OpenToday' + Loss
      <4>1. CASE sameDay
        <5>1. day = DayStart(clock) /\ worked' <= worked + (now - clock)
          <6>1. day = DayStart(clock)
            BY <1>2, <4>1
          <6>2. Larger(clock, day) = clock
            BY <1>1, <1>2, <6>1 DEF Larger
          <6>3. QED
            BY <1>1, <2>3, <4>1, <6>1, <6>2
        <5>2. OpenToday' = OpenToday + (now - clock)
          <6>1. /\ OpenToday = clock - Larger(open.start, day)
                /\ OpenToday' = now - Larger(open.start, day)
            BY <2>6, <2>11, <3>4, <5>1
          <6>2. Larger(open.start, day) \in Int
            BY <1>2, <2>6, <2>11 DEF Larger
          <6>3. QED
            BY <1>1, <6>1, <6>2
        <5>3. OpenToday \in Int
          BY <1>1, <1>2, <2>6, <2>11 DEF Larger
        <5>4. QED
          BY <1>1, <1>3, <1>4, <2>3, <2>5, <4>1, <5>1, <5>2, <5>3
      <4>2. CASE ~sameDay
        <5>1. worked' <= now - day
          BY <1>1, <1>2, <2>3, <4>2 DEF Larger
        <5>2. OpenToday' = now - day
          BY <1>1, <1>2, <2>6, <2>11, <3>4, <4>2 DEF Larger
        <5>3. QED
          BY <1>1, <1>2, <1>3, <1>4, <2>3, <4>2, <5>1, <5>2
      <4>3. QED
        BY <4>1, <4>2
    <3>6. OpenToday' \in Int
      BY <1>1, <1>2, <2>6, <2>11, <3>4 DEF Larger
    <3>7. QED
      BY <1>1, <1>3, <1>4, <2>3, <2>8, <3>3, <3>5, <3>6 DEF used
  <2>12. CASE open = None
    <3>1. rows' = rows
      BY <2>12, TickStores
    <3>2. OpenToday' = 0
      BY <1>1, <1>2, <2>9, <2>10, <2>12 DEF Larger
    <3>3. OpenToday = 0
      BY <2>12 DEF OpenToday
    <3>4. worked' = before
      BY <1>1, <2>3, <2>4, <2>12
    <3>5. QED
      BY <1>1, <1>3, <1>4, <2>5, <2>8, <3>1, <3>2, <3>3, <3>4 DEF used
  <2>13. CASE open # None /\ ~Continues(open, o)
    <3>1. PICK row \in Segment :
            /\ stored = Append(rows, row)
            /\ row.start = open.start
            /\ open.lastSeen <= row.end
            /\ row.end - row.start < MaxSegment + MaxGap
            /\ o.app # None /\ now - clock <= MaxGap => row.end = now
      <4>1. /\ o.app \in App \cup {None}
            /\ o.app # None => o.at = now
            /\ open # None => o.at \in Nat /\ clock <= o.at
            /\ clock < now /\ stored = rows \o Closed(open, o)
        BY DEF TickOf
      <4>2. QED
        <5>1. Stores(now, o, stored)
          BY <4>1, StoredFacts
        <5>2. QED
          BY <2>13, <5>1 DEF Stores
    <3>2. OpenToday' = 0
      BY <1>1, <1>2, <2>9, <2>10, <2>13 DEF Larger
    <3> DEFINE c == Counted(row, now)
    <3>3. /\ c \in Nat
          /\ c >= Smaller(row.end, now) - Larger(row.start, day)
          /\ c <= MaxSegment + MaxGap
          /\ row.end \in Nat
      <4>1. row.start <= row.end /\ row.start \in Nat /\ row.end \in Nat
        BY <1>1, <2>6, <2>13, <3>1 DEF Segment
      <4>2. /\ c \in Nat
            /\ c >= Smaller(row.end, now) - Larger(row.start, day)
            /\ c <= row.end - row.start
        BY <4>1, CountedFacts DEF day
      <4> HIDE DEF c
      <4>3. QED
        BY <1>1, <3>1, <4>1, <4>2
    <3>4. UsedToday(stored, now) = used + c
      BY <1>1, <3>1, UsedAppend DEF used
    <3> HIDE DEF c
    <3>5. worked' <= used + c + Loss
      <4>1. CASE counts
        <5>1. row.end = now
          BY <2>4, <3>1, <4>1
        <5>2. c >= now - Larger(open.start, day)
          BY <1>1, <3>1, <3>3, <5>1 DEF Smaller
        <5>3. CASE sameDay
          <6>1. worked' = worked + (now - clock)
            BY <1>1, <1>2, <2>3, <4>1, <5>3 DEF Larger
          <6>2. OpenToday = clock - Larger(open.start, day)
            BY <1>2, <2>6, <2>13, <5>3
          <6>3. Larger(open.start, day) \in Int
            BY <1>2, <2>6, <2>13 DEF Larger
          <6> QED
            BY <1>1, <1>3, <1>4, <2>5, <3>3, <5>2, <5>3, <6>1, <6>2, <6>3
        <5>4. CASE ~sameDay
          <6>1. worked' = now - day
            BY <1>1, <1>2, <2>3, <4>1, <5>4 DEF Larger
          <6>2. Larger(open.start, day) = day
            BY <1>1, <1>2, <2>6, <2>13, <5>4 DEF Larger
          <6> QED
            BY <1>1, <1>2, <1>3, <1>4, <3>3, <5>2, <6>1, <6>2
        <5>5. QED
          BY <5>3, <5>4
      <4>2. CASE ~counts
        <5>1. worked' = before
          BY <1>1, <2>3, <4>2
        <5>2. sameDay => c >= OpenToday
          BY <1>1, <1>2, <2>6, <2>13, <3>1, <3>3 DEF Smaller, Larger
        <5>3. OpenToday \in Int
          BY <1>1, <1>2, <2>6, <2>13 DEF Larger
        <5>4. QED
          BY <1>1, <1>3, <1>4, <2>5, <3>3, <5>1, <5>2, <5>3
      <4>3. QED
        BY <4>1, <4>2
    <3>6. CASE rows' = stored
      BY <1>1, <1>3, <1>4, <2>3, <2>8, <3>2, <3>3, <3>4, <3>5, <3>6
    <3>7. CASE rows' = rows /\ losses' = losses + 1
      BY <1>1, <1>3, <1>4, <2>3, <2>8, <3>2, <3>3, <3>5, <3>7 DEF used
    <3>8. QED
      BY <3>6, <3>7 DEF TickOf
  <2>14. QED
    BY <2>11, <2>12, <2>13
<1>8. QED
  BY <1>6, <1>7

(***************************************************************************)
(* Third: rows only accumulate while the day lasts.                        *)
(***************************************************************************)
LEMMA TickAccumulates ==
  ASSUME TypeOK, OpenInv,
         NEW now \in Nat, NEW atWork \in BOOLEAN, NEW touched \in Nat,
         NEW o, NEW stored, TickOf(now, atWork, touched, o, stored)
  PROVE  /\ clock \in Nat /\ clock' = now
         /\ rows \in Seq(Segment) /\ stored \in Seq(Segment)
         /\ UsedToday(rows, clock) \in Nat
         /\ UsedToday(rows', now) \in Nat /\ UsedToday(stored, now) \in Nat
         /\ Limit(now) \in Nat /\ Limit(now)' = Limit(now)
         /\ DayGoesOn(now) => UsedToday(rows, clock) <= UsedToday(rows', now)
<1>1. /\ clock \in Nat /\ clock <= now /\ now <= Horizon /\ clock' = now
      /\ bonus' = bonus /\ rows' \in {rows, stored}
      /\ rows \in Seq(Segment) /\ stored \in Seq(Segment)
  <2>1. stored \in Seq(Segment)
    BY TickTyped
  <2>2. QED
    BY <2>1 DEF TickOf, TypeOK
<1>2. Limit(now) \in Nat /\ Limit(now)' = Limit(now)
  BY <1>1, LimitType DEF Limit
<1>3. /\ UsedToday(rows, clock) \in Nat /\ UsedToday(rows, now) \in Nat
      /\ UsedToday(rows', now) \in Nat /\ UsedToday(stored, now) \in Nat
  BY <1>1, UsedType
<1>4. DayGoesOn(now) => UsedToday(rows, clock) <= UsedToday(rows, now)
  BY <1>1, UsedGrows DEF DayGoesOn
<1>5. UsedToday(rows, now) <= UsedToday(stored, now)
  <2>1. CASE stored = rows
    BY <1>3, <2>1
  <2>2. CASE \E row \in Segment : stored = Append(rows, row)
    <3>1. PICK row \in Segment : stored = Append(rows, row)
      BY <2>2
    <3>2. Counted(row, now) \in Nat
      BY CountedFacts
    <3>3. UsedToday(stored, now) = UsedToday(rows, now) + Counted(row, now)
      BY <1>1, <3>1, UsedAppend
    <3>4. QED
      BY <1>3, <3>2, <3>3
  <2>3. QED
    BY <2>1, <2>2, TickStores
<1>6. UsedToday(rows, now) <= UsedToday(rows', now)
  BY <1>1, <1>3, <1>5
<1>7. QED
  BY <1>1, <1>2, <1>3, <1>4, <1>6

(***************************************************************************)
(* Fourth: the verdict is that of the rows, and a denial stands.           *)
(***************************************************************************)
LEMMA TickJudged ==
  ASSUME TypeOK, OpenInv, RefusedIsUsed,
         NEW now \in Nat, NEW atWork \in BOOLEAN, NEW touched \in Nat,
         NEW o, NEW stored, TickOf(now, atWork, touched, o, stored)
  PROVE  Judged' /\ RefusedIsUsed'
<1>1. /\ clock \in Nat /\ clock' = now /\ bonus' = bonus
      /\ UsedToday(rows, clock) \in Nat /\ UsedToday(rows', now) \in Nat
      /\ UsedToday(stored, now) \in Nat /\ Limit(now) \in Nat
      /\ Limit(now)' = Limit(now)
      /\ DayGoesOn(now) => UsedToday(rows, clock) <= UsedToday(rows', now)
  BY TickAccumulates DEF TickOf
<1>2. Judged'
  <2>1. Remaining(stored, now)' = Remaining(stored', now')
    BY <1>1 DEF Remaining
  <2>2. CASE verdict' = "Denied" /\ Remaining(stored, now) = 0 /\ rows' = stored
    BY <1>1, <2>2 DEF Judged, Remaining
  <2>3. CASE verdict' = "Allowed" /\ Remaining(stored, now) # 0 /\ rows' = stored
    BY <1>1, <2>3 DEF Judged, Remaining
  <2>4. CASE verdict' = None
    BY AccountingAssumption, <2>4 DEF Judged
  <2>5. QED
    BY <2>2, <2>3, <2>4 DEF TickOf, Decide, Deny, Allow, RecordOnly
<1>3. UsedToday(rows, clock)' = UsedToday(rows', now)
  BY <1>1
<1>4. RefusedIsUsed'
  <2>1. CASE refused' = RefusedToday(now)
    <3>1. CASE DayGoesOn(now) /\ refused # None
      <4>1. refused \in Nat /\ refused <= UsedToday(rows, clock)
        BY <3>1 DEF RefusedIsUsed, TypeOK
      <4>2. refused <= UsedToday(rows', now)
        BY <1>1, <3>1, <4>1
      <4>3. QED
        BY <1>3, <2>1, <3>1, <4>2 DEF RefusedIsUsed, RefusedToday
    <3>2. CASE ~DayGoesOn(now) \/ refused = None
      BY <2>1, <3>2 DEF RefusedIsUsed, RefusedToday
    <3>3. QED
      BY <3>1, <3>2
  <2>2. CASE refused' = Limit(now) /\ Remaining(stored, now) = 0 /\ rows' = stored
    <3>1. Limit(now) <= UsedToday(stored, now)
      BY <1>1, <2>2 DEF Remaining, Larger
    <3>2. QED
      BY <1>3, <2>2, <3>1 DEF RefusedIsUsed
  <2>3. QED
    BY <2>1, <2>2 DEF TickOf, Decide, Deny, Allow, RecordOnly
<1>5. QED
  BY <1>2, <1>4

(***************************************************************************)
(* Fifth: the warnings that the day goes on with.                          *)
(***************************************************************************)
Escalating(warnings, seam) ==
  \A i, j \in DOMAIN warnings : i < j =>
    \/ warnings[j].left < warnings[i].left
    \/ /\ i <= seam
       /\ warnings[j].left - warnings[j].limit
            <= warnings[i].left - warnings[i].limit

UsedBy(warnings, used) ==
  \A i \in DOMAIN warnings : warnings[i].limit - warnings[i].left <= used

Marked(warnings, seam, marks) ==
  \A i \in DOMAIN warnings : seam < i =>
    \A w \in Warnings : warnings[i].left <= w => w \in marks

LEMMA DayCarries ==
  ASSUME TypeOK, OpenInv, MarkedAreSaid, SaidIsUsed, WarningsEscalate,
         NEW now \in Nat, NEW atWork \in BOOLEAN, NEW touched \in Nat,
         NEW o, NEW stored, TickOf(now, atWork, touched, o, stored)
  PROVE  /\ SaidToday(now) \in Seq(Warning) /\ RenewedToday(now) \in Nat
         /\ Escalating(SaidToday(now), RenewedToday(now))
         /\ UsedBy(SaidToday(now), UsedToday(rows', now))
         /\ \A i \in DOMAIN SaidToday(now) : RenewedToday(now) < i =>
              warnedOn = Today(now)
         /\ Marked(SaidToday(now), RenewedToday(now), warned)
<1>1. CASE ~DayGoesOn(now)
  <2>1. SaidToday(now) = << >> /\ RenewedToday(now) = 0
    BY <1>1 DEF SaidToday, RenewedToday
  <2>2. << >> \in Seq(Warning) /\ DOMAIN << >> = {}
    BY EmptySeq
  <2>3. QED
    BY <2>1, <2>2 DEF Escalating, UsedBy, Marked
<1>2. CASE DayGoesOn(now)
  <2>1. SaidToday(now) = said /\ RenewedToday(now) = renewed
    BY <1>2 DEF SaidToday, RenewedToday
  <2>2. said \in Seq(Warning) /\ renewed \in Nat
    BY LenProperties DEF TypeOK
  <2>3. \A i \in DOMAIN said : said[i].limit \in Nat /\ said[i].left \in Nat
    <3>1. DOMAIN said = 1 .. Len(said)
      BY <2>2, LenProperties
    <3>2. \A i \in 1 .. Len(said) : said[i] \in Warning
      BY <2>2, ElementOfSeq
    <3>3. QED
      BY <3>1, <3>2 DEF Warning
  <2>4. /\ UsedToday(rows, clock) \in Nat /\ UsedToday(rows', now) \in Nat
        /\ UsedToday(rows, clock) <= UsedToday(rows', now)
    BY <1>2, TickAccumulates
  <2>5. UsedBy(said, UsedToday(rows', now))
    BY <2>3, <2>4 DEF UsedBy, SaidIsUsed
  <2>6. QED
    BY <1>2, <2>1, <2>2, <2>5
       DEF Escalating, WarningsEscalate, MarkedAreSaid, Marked, DayGoesOn
<1>3. QED
  BY <1>1, <1>2

(***************************************************************************)
(* A warning more, of less than marked any threshold before: strictly less *)
(* than the same ticker said, of no less used than anybody did.            *)
(***************************************************************************)
LEMMA WarningAdded ==
  ASSUME NEW warnings \in Seq(Warning), NEW seam \in Nat,
         NEW marks \in SUBSET Warnings, NEW new \in Warning,
         Escalating(warnings, seam), Marked(warnings, seam, marks),
         UsedBy(warnings, new.limit - new.left),
         NEW w \in Warnings, new.left <= w, w \notin marks,
         NEW after, after = Append(warnings, new)
  PROVE  /\ Escalating(after, seam)
         /\ UsedBy(after, new.limit - new.left)
         /\ Marked(after, seam, marks \cup {v \in Warnings : new.left <= v})
<1> DEFINE n == Len(warnings)
<1>1. /\ n \in Nat /\ DOMAIN warnings = 1 .. n
      /\ \A i \in 1 .. n : warnings[i].left \in Nat /\ warnings[i].limit \in Nat
  <2>1. n \in Nat /\ DOMAIN warnings = 1 .. n
    BY LenProperties
  <2>2. \A i \in 1 .. n : warnings[i] \in Warning
    BY ElementOfSeq
  <2>3. QED
    BY <2>1, <2>2 DEF Warning
<1>2. /\ DOMAIN after = 1 .. n + 1
      /\ \A i \in 1 .. n : after[i] = warnings[i]
      /\ after[n + 1] = new
  BY <1>1, AppendProperties, LenProperties
<1>3. new.left \in Nat /\ new.limit \in Nat /\ w \in Nat
  BY Constants DEF Warning
<1> HIDE DEF n
<1>4. \A i \in DOMAIN after : i \in 1 .. n \/ i = n + 1
  BY <1>1, <1>2
<1>5. ASSUME NEW i \in 1 .. n
      PROVE  \/ new.left < warnings[i].left
             \/ /\ i <= seam
                /\ new.left - new.limit <= warnings[i].left - warnings[i].limit
  <2>1. CASE i <= seam
    <3>1. warnings[i].limit - warnings[i].left <= new.limit - new.left
      BY <1>1 DEF UsedBy
    <3>2. QED
      BY <1>1, <1>3, <2>1, <3>1
  <2>2. CASE seam < i
    <3>1. ~(warnings[i].left <= w)
      BY <1>1, <2>2 DEF Marked
    <3>2. QED
      BY <1>1, <1>3, <3>1
  <2>3. QED
    BY <1>1, <2>1, <2>2
<1>6. Escalating(after, seam)
  <2> SUFFICES ASSUME NEW i \in DOMAIN after, NEW j \in DOMAIN after, i < j
               PROVE  \/ after[j].left < after[i].left
                      \/ /\ i <= seam
                         /\ after[j].left - after[j].limit
                              <= after[i].left - after[i].limit
    BY DEF Escalating
  <2>1. i \in 1 .. n
    BY <1>1, <1>2
  <2>2. CASE j = n + 1
    BY <1>2, <1>5, <2>1, <2>2
  <2>3. CASE j \in 1 .. n
    BY <1>1, <1>2, <2>1, <2>3 DEF Escalating
  <2>4. QED
    BY <1>4, <2>2, <2>3
<1>7. UsedBy(after, new.limit - new.left)
  <2> SUFFICES ASSUME NEW i \in DOMAIN after
               PROVE  after[i].limit - after[i].left <= new.limit - new.left
    BY DEF UsedBy
  <2>1. CASE i \in 1 .. n
    BY <1>1, <1>2, <2>1 DEF UsedBy
  <2>2. CASE i = n + 1
    BY <1>2, <1>3, <2>2
  <2>3. QED
    BY <1>4, <2>1, <2>2
<1>8. Marked(after, seam, marks \cup {v \in Warnings : new.left <= v})
  <2> SUFFICES ASSUME NEW i \in DOMAIN after, seam < i,
                      NEW v \in Warnings, after[i].left <= v
               PROVE  v \in marks \cup {u \in Warnings : new.left <= u}
    BY DEF Marked
  <2>1. CASE i \in 1 .. n
    BY <1>1, <1>2, <2>1 DEF Marked
  <2>2. CASE i = n + 1
    BY <1>2, <2>2
  <2>3. QED
    BY <1>4, <2>1, <2>2
<1>9. QED
  BY <1>6, <1>7, <1>8

LEMMA TickWarns ==
  ASSUME TypeOK, OpenInv, MarkedAreSaid, SaidIsUsed, WarningsEscalate,
         NEW now \in Nat, NEW atWork \in BOOLEAN, NEW touched \in Nat,
         NEW o, NEW stored, TickOf(now, atWork, touched, o, stored)
  PROVE  MarkedAreSaid' /\ SaidIsUsed' /\ WarningsEscalate'
<1> DEFINE earlier == SaidToday(now)
           seam == RenewedToday(now)
           used == UsedToday(rows', now)
<1>1. /\ earlier \in Seq(Warning) /\ seam \in Nat
      /\ Escalating(earlier, seam) /\ UsedBy(earlier, used)
      /\ \A i \in DOMAIN earlier : seam < i => warnedOn = Today(now)
      /\ Marked(earlier, seam, warned)
  BY DayCarries
<1>2. renewed' = seam /\ clock' = now
  BY DEF TickOf
<1> HIDE DEF earlier, seam, used
<1>3. ASSUME Escalating(said', seam), UsedBy(said', used),
             \A i \in DOMAIN said' : seam < i => warnedOn' = Today(now),
             Marked(said', seam, warned')
      PROVE  MarkedAreSaid' /\ SaidIsUsed' /\ WarningsEscalate'
  BY <1>2, <1>3
     DEF MarkedAreSaid, SaidIsUsed, WarningsEscalate, Escalating, UsedBy,
         Marked, used
<1>4. CASE warned' = warned /\ warnedOn' = warnedOn /\ said' = earlier
  BY <1>1, <1>3, <1>4
<1>5. CASE /\ Allow(now, Remaining(stored, now), atWork)
           /\ Remaining(stored, now) # 0 /\ rows' = stored
  <2> DEFINE before == IF warnedOn = Today(now) THEN warned ELSE {}
             remaining == Remaining(stored, now)
             crossed == IF atWork THEN Crossed(remaining, before) ELSE {}
             warning == [left |-> remaining, limit |-> Limit(now)]
  <2>1. /\ warned' = before \cup crossed /\ warnedOn' = Today(now)
        /\ said' = IF crossed = {} THEN earlier ELSE Append(earlier, warning)
    BY <1>5 DEF Allow, earlier
  <2>2. Marked(earlier, seam, before) /\ before \in SUBSET Warnings
    BY <1>1 DEF Marked, TypeOK
  <2>3. /\ remaining \in Nat /\ Limit(now) \in Nat /\ used \in Nat
        /\ used = UsedToday(stored, now)
        /\ Limit(now) - remaining = used
    <3>1. /\ UsedToday(stored, now) \in Nat /\ Limit(now) \in Nat
      BY TickAccumulates
    <3>2. QED
      BY <1>5, <3>1 DEF Remaining, Larger, used
  <2>4. CASE crossed = {}
    <3>1. said' = earlier /\ warned' = before
      BY <2>1, <2>4
    <3>2. QED
      BY <1>1, <1>3, <2>1, <2>2, <3>1
  <2>5. CASE crossed # {}
    <3>1. crossed = {v \in Warnings : remaining <= v} \ before
      BY <2>5 DEF Crossed
    <3>2. PICK w \in Warnings : remaining <= w /\ w \notin before
      BY <2>5, <3>1
    <3>3. /\ warning \in Warning
          /\ warning.left = remaining /\ warning.limit = Limit(now)
      BY <2>3 DEF Warning
    <3>4. /\ said' = Append(earlier, warning)
          /\ warned' = before \cup {v \in Warnings : remaining <= v}
      BY <2>1, <2>5, <3>1
    <3> HIDE DEF warning, before, remaining, crossed
    <3>5. /\ Escalating(said', seam) /\ UsedBy(said', used)
          /\ Marked(said', seam, warned')
      <4>1. UsedBy(earlier, warning.limit - warning.left)
        BY <1>1, <2>3, <3>3
      <4>2. /\ Escalating(said', seam)
            /\ UsedBy(said', warning.limit - warning.left)
            /\ Marked(said', seam,
                      before \cup {v \in Warnings : warning.left <= v})
        BY <1>1, <2>2, <3>2, <3>3, <3>4, <4>1, WarningAdded
      <4>3. QED
        BY <2>3, <3>3, <3>4, <4>2
    <3>6. QED
      BY <1>3, <2>1, <3>5
  <2>6. QED
    BY <2>4, <2>5
<1>6. QED
  BY <1>4, <1>5 DEF TickOf, Decide, Deny, RecordOnly, earlier

-----------------------------------------------------------------------------
LEMMA InitEstablishes ==
  ASSUME Init
  PROVE  IInv
<1>1. /\ rows \in Seq(Segment) /\ said \in Seq(Warning) /\ DOMAIN said = {}
      /\ Len(said) = 0 /\ renewed = 0 /\ refused = None /\ clock \in Nat
  BY EmptySeq DEF Init
<1>a. UsedToday(rows, clock) \in Nat
  BY <1>1, UsedType
<1>2. TypeOK
  <2>1. 0 \in 0 .. Horizon /\ 0 \in 0 .. MaxLosses
    BY Constants
  <2>2. watching \in BOOLEAN
    BY Constants DEF Init, Supported
  <2>3. bonus \in [Days -> Nat]
    BY DEF Init
  <2>4. typed \in 0 .. clock /\ idled \in 0 .. clock \cup {None}
    BY DEF Init
  <2>5. QED
    BY <1>1, <2>1, <2>2, <2>3, <2>4 DEF Init, TypeOK
<1>3. /\ OpenInv /\ WorkIsOpen /\ MarkedAreSaid /\ SaidIsUsed
      /\ RefusedIsUsed /\ WarningsEscalate
  BY <1>1 DEF Init, OpenInv, WorkIsOpen, MarkedAreSaid, SaidIsUsed,
     RefusedIsUsed, WarningsEscalate
<1>4. Judged
  BY AccountingAssumption DEF Init, Judged
<1>5. Accounted
  <2>1. worked = 0 /\ OpenToday = 0 /\ losses * (MaxSegment + MaxGap) = 0
    BY Constants DEF Init, OpenToday
  <2>2. QED
    BY <1>a, <2>1 DEF Accounted
<1>6. QED
  BY <1>2, <1>3, <1>4, <1>5 DEF IInv

LEMMA TickKeeps ==
  ASSUME IInv, TickUser
  PROVE  IInv'
<1>0. PICK now \in Nat, atWork \in BOOLEAN, touched \in Nat :
        \E o, stored : TickOf(now, atWork, touched, o, stored)
  BY TickCases DEF IInv
<1>1. PICK o, stored : TickOf(now, atWork, touched, o, stored)
  BY <1>0
<1>3. TypeOK' /\ OpenInv'
  BY <1>1, TickTyped DEF IInv
<1>4. WorkIsOpen' /\ Accounted'
  BY <1>1, TickAccounted DEF IInv
<1>5. Judged' /\ RefusedIsUsed'
  BY <1>1, TickJudged DEF IInv
<1>6. MarkedAreSaid' /\ SaidIsUsed' /\ WarningsEscalate'
  BY <1>1, TickWarns DEF IInv
<1>7. QED
  BY <1>3, <1>4, <1>5, <1>6 DEF IInv

LEMMA GrantKeeps ==
  ASSUME IInv, GrantBonus
  PROVE  IInv'
<1>1. /\ open' = open /\ rows' = rows /\ clock' = clock /\ verdict' = None
      /\ lastTick' = lastTick /\ warned' = warned /\ warnedOn' = warnedOn
      /\ typed' = typed /\ idled' = idled /\ watching' = watching
      /\ worked' = worked /\ active' = active /\ said' = said
      /\ renewed' = renewed /\ refused' = refused
      /\ losses' = losses
      /\ bonus' = [bonus EXCEPT ![Today(clock)] = @ + BonusAmount]
  BY DEF GrantBonus, accounts, user, input, history, told
<1>2. bonus' \in [Days -> Nat]
  <2>1. bonus \in [Days -> Nat] /\ BonusAmount \in Nat
    BY Constants DEF IInv, TypeOK
  <2>2. \A d \in Days : bonus[d] + BonusAmount \in Nat
    BY <2>1
  <2>3. QED
    BY <1>1, <2>1, <2>2
<1>3. TypeOK'
  BY <1>1, <1>2 DEF IInv, TypeOK
<1>4. /\ OpenInv' /\ WorkIsOpen' /\ Accounted' /\ MarkedAreSaid'
      /\ SaidIsUsed' /\ RefusedIsUsed' /\ WarningsEscalate'
  BY <1>1 DEF IInv, OpenInv, WorkIsOpen, Accounted, Trusted, OpenToday,
     MarkedAreSaid, SaidIsUsed, RefusedIsUsed, WarningsEscalate
<1>5. Judged'
  BY <1>1, AccountingAssumption DEF Judged
<1>6. QED
  BY <1>3, <1>4, <1>5 DEF IInv

(***************************************************************************)
(* What a lost ticker takes with it was less than a segment.               *)
(***************************************************************************)
LEMMA LossKeeps ==
  ASSUME IInv, TickerLost
  PROVE  IInv'
<1>1. /\ open' = None /\ rows' = rows /\ clock' = clock /\ verdict' = None
      /\ lastTick' = None /\ warned' = {} /\ warnedOn' = None
      /\ typed' = typed /\ idled' = idled /\ watching' = watching
      /\ worked' = worked /\ active' = FALSE /\ said' = said
      /\ renewed' = Len(said) /\ refused' = refused
      /\ losses' = losses + 1 /\ losses < MaxLosses
      /\ bonus' = bonus
  BY DEF TickerLost, input
<1>2. /\ DOMAIN said = 1 .. Len(said) /\ Len(said) \in Nat
      /\ renewed \in 0 .. Len(said)
  BY LenProperties DEF IInv, TypeOK
<1>3. TypeOK'
  <2>1. losses' \in 0 .. MaxLosses
    BY <1>1, Constants DEF IInv, TypeOK
  <2>2. renewed' \in 0 .. Len(said')
    BY <1>1, <1>2
  <2>3. QED
    BY <1>1, <2>1, <2>2 DEF IInv, TypeOK
<1>4. /\ OpenInv' /\ WorkIsOpen' /\ MarkedAreSaid'
      /\ SaidIsUsed' /\ RefusedIsUsed'
  BY <1>1, <1>2
     DEF IInv, OpenInv, WorkIsOpen, MarkedAreSaid, SaidIsUsed, RefusedIsUsed
<1>8. WarningsEscalate'
  BY <1>1, <1>2 DEF IInv, WarningsEscalate
<1>5. Judged'
  BY <1>1, AccountingAssumption DEF Judged
<1>6. Accounted'
  <2>1. SUFFICES ASSUME Trusted
                 PROVE  worked <= UsedToday(rows, clock)
                                    + (losses + 1) * (MaxSegment + MaxGap)
    <3>1. OpenToday' = 0
      BY <1>1 DEF OpenToday
    <3>2. UsedToday(rows, clock) \in Nat
      <4>1. rows \in Seq(Segment) /\ clock \in Nat
        BY Constants DEF IInv, TypeOK
      <4>2. QED
        BY <4>1, UsedType
    <3>3. /\ (losses + 1) * (MaxSegment + MaxGap) \in Int
      BY Constants DEF IInv, TypeOK
    <3>4. Trusted' = Trusted
      BY <1>1 DEF Trusted
    <3>5. QED
      BY <1>1, <3>1, <3>2, <3>3, <3>4 DEF Accounted
  <2> DEFINE Loss == losses * (MaxSegment + MaxGap)
  <2>2. /\ losses \in Nat /\ MaxSegment \in Nat /\ MaxGap \in Nat
        /\ worked \in Nat /\ UsedToday(rows, clock) \in Nat
    <3>1. /\ losses \in Nat /\ worked \in Nat
          /\ rows \in Seq(Segment) /\ clock \in Nat
      BY Constants DEF IInv, TypeOK
    <3>2. UsedToday(rows, clock) \in Nat
      BY <3>1, UsedType
    <3>3. QED
      BY <3>1, <3>2, Constants
  <2>3. Loss \in Nat
          /\ (losses + 1) * (MaxSegment + MaxGap) = Loss + MaxSegment + MaxGap
    BY <2>2
  <2>4. OpenToday \in Int /\ OpenToday <= MaxSegment
    <3>1. CASE open = None
      BY <2>2, <3>1 DEF OpenToday
    <3>2. CASE open # None
      <4>1. /\ open.start \in Nat /\ open.lastSeen \in Nat
            /\ open.lastSeen - open.start < MaxSegment
            /\ DayStart(clock) \in Nat
        BY <3>2, DayFacts DEF IInv, TypeOK, OpenInv, OpenSegment
      <4>2. QED
        BY <2>2, <3>2, <4>1 DEF OpenToday, Larger
    <3>3. QED
      BY <3>1, <3>2
  <2>5. worked <= UsedToday(rows, clock) + OpenToday + Loss
    BY <2>1 DEF IInv, Accounted
  <2> HIDE DEF Loss
  <2>6. QED
    BY <2>2, <2>3, <2>4, <2>5
<1>7. QED
  BY <1>3, <1>4, <1>5, <1>6, <1>8 DEF IInv

LEMMA ListenerKeeps ==
  ASSUME IInv, ListenerEnds
  PROVE  IInv'
<1>1. /\ open' = open /\ rows' = rows /\ clock' = clock /\ verdict' = verdict
      /\ lastTick' = lastTick /\ warned' = warned /\ warnedOn' = warnedOn
      /\ typed' = typed /\ idled' = idled /\ watching /\ watching' = FALSE
      /\ worked' = worked /\ active' = active /\ said' = said
      /\ renewed' = renewed /\ refused' = refused
      /\ losses' = losses /\ bonus' = bonus
  BY DEF ListenerEnds, accounts, user, history, told
<1>2. TypeOK'
  BY <1>1 DEF IInv, TypeOK
<1>3. /\ OpenInv' /\ Judged' /\ MarkedAreSaid' /\ SaidIsUsed'
      /\ RefusedIsUsed' /\ WarningsEscalate'
  BY <1>1 DEF IInv, OpenInv, Judged, Remaining, Limit, MarkedAreSaid,
     SaidIsUsed, RefusedIsUsed, WarningsEscalate
<1>4. WorkIsOpen' /\ Accounted'
  BY <1>1 DEF IInv, WorkIsOpen, Accounted, Trusted, OpenToday
<1>5. QED
  BY <1>1, <1>2, <1>3, <1>4 DEF IInv

LEMMA StutterKeeps ==
  ASSUME IInv, UNCHANGED vars
  PROVE  IInv'
<1>1. /\ open' = open /\ rows' = rows /\ clock' = clock /\ verdict' = verdict
      /\ lastTick' = lastTick /\ warned' = warned /\ warnedOn' = warnedOn
      /\ typed' = typed /\ idled' = idled /\ watching' = watching
      /\ worked' = worked /\ active' = active /\ said' = said
      /\ renewed' = renewed /\ refused' = refused
      /\ losses' = losses /\ bonus' = bonus
  BY DEF vars, accounts, user, input, history, told
<1>2. TypeOK'
  BY <1>1 DEF IInv, TypeOK
<1>3. QED
  BY <1>1, <1>2 DEF IInv, OpenInv, WorkIsOpen, Accounted, Trusted, OpenToday,
     Judged, Remaining, Limit, MarkedAreSaid, SaidIsUsed, RefusedIsUsed,
     WarningsEscalate

LEMMA StepKeeps ==
  ASSUME IInv, [Next]_vars
  PROVE  IInv'
<1>1. CASE TickUser
  BY <1>1, TickKeeps
<1>2. CASE GrantBonus
  BY <1>2, GrantKeeps
<1>3. CASE TickerLost
  BY <1>3, LossKeeps
<1>4. CASE ListenerEnds
  BY <1>4, ListenerKeeps
<1>5. CASE Done \/ UNCHANGED vars
  BY <1>5, StutterKeeps DEF Done
<1>6. QED
  BY <1>1, <1>2, <1>3, <1>4, <1>5 DEF Next

(***************************************************************************)
(* The inductive invariant holds throughout.                               *)
(***************************************************************************)
THEOREM Invariance == Spec => []IInv
<1>1. Init => IInv
  BY InitEstablishes
<1>2. IInv /\ [Next]_vars => IInv'
  BY StepKeeps
<1>3. QED
  BY <1>1, <1>2, PTL DEF Spec

(***************************************************************************)
(* Every variable of the accounting stays well typed: ticks move forward,  *)
(* and nothing is open or marked while no ticker runs.                     *)
(***************************************************************************)
THEOREM TypeCorrect == Spec => []TypeOK
<1>1. IInv => TypeOK
  BY DEF IInv
<1>2. QED
  BY <1>1, Invariance, PTL

(***************************************************************************)
(* While ticks allow more, the time worked today exceeds the limit by less *)
(* than the open segment and what was lost with crashes and failed writes  *)
(* (Ticker::tick_user, Store::usage_between, tb_core::evaluate).           *)
(***************************************************************************)
THEOREM OverrunIsBounded == Spec => []OverrunBounded
<1>1. IInv => OverrunBounded
  <2>1. SUFFICES ASSUME IInv, verdict = "Allowed", Trusted
                 PROVE  worked < Limit(clock) + MaxSegment
                                   + losses * (MaxSegment + MaxGap)
    BY DEF OverrunBounded, Trusted
  <2> DEFINE Loss == losses * (MaxSegment + MaxGap)
  <2>2. /\ clock \in Nat /\ worked \in Nat /\ rows \in Seq(Segment)
        /\ MaxSegment \in Nat /\ MaxSegment >= 1
        /\ UsedToday(rows, clock) \in Nat /\ DayStart(clock) \in Nat
        /\ Loss \in Nat
    <3>1. /\ clock \in Nat /\ worked \in Nat /\ rows \in Seq(Segment)
          /\ losses \in Nat
      BY <2>1, Constants DEF IInv, TypeOK
    <3>2. /\ MaxSegment \in Nat /\ MaxSegment >= 1 /\ MaxGap \in Nat
      BY Constants
    <3>3. Loss \in Nat
      BY <3>1, <3>2
    <3>4. UsedToday(rows, clock) \in Nat /\ DayStart(clock) \in Nat
      BY <3>1, UsedType, DayFacts
    <3> HIDE DEF Loss
    <3>5. QED
      BY <3>1, <3>2, <3>3, <3>4
  <2>3. Limit(clock) \in Nat
    BY <2>1, LimitType, Constants DEF IInv, TypeOK
  <2>4. UsedToday(rows, clock) < Limit(clock)
    BY <2>1, <2>2, <2>3 DEF IInv, Judged, Remaining, Larger
  <2>5. OpenToday \in Int /\ OpenToday < MaxSegment
    <3>1. CASE open = None
      BY <2>2, <3>1 DEF OpenToday
    <3>2. CASE open # None
      <4>1. /\ open.start \in Nat /\ open.lastSeen \in Nat
            /\ open.lastSeen - open.start < MaxSegment
        BY <2>1, <3>2 DEF IInv, TypeOK, OpenInv, OpenSegment
      <4>2. QED
        BY <2>2, <3>2, <4>1 DEF OpenToday, Larger
    <3>3. QED
      BY <3>1, <3>2
  <2>6. worked <= UsedToday(rows, clock) + OpenToday + Loss
    BY <2>1 DEF IInv, Accounted
  <2> HIDE DEF Loss
  <2>7. worked < Limit(clock) + MaxSegment + Loss
    BY <2>2, <2>3, <2>4, <2>5, <2>6
  <2>8. QED
    BY <2>7 DEF Loss
<1>2. QED
  BY <1>1, Invariance, PTL

(***************************************************************************)
(* Through a policy day each warning of one ticker names less than those   *)
(* before, and one repeated after a restart counts no less as used,        *)
(* whatever bonus is granted in between (Ticker::apply_verdict).           *)
(***************************************************************************)
THEOREM WarningsOnlyEscalate == Spec => []WarningsEscalate
<1>1. IInv => WarningsEscalate
  BY DEF IInv
<1>2. QED
  BY <1>1, Invariance, PTL

(***************************************************************************)
(* Once a tick has denied, no later tick of the policy day allows, past    *)
(* skipped and failed ticks and restarts, until a bonus is granted         *)
(* (tb_core::evaluate over Store::usage_between).                          *)
(***************************************************************************)
THEOREM DenialStands == Spec => []DenialLasts
<1>1. IInv => DenialLasts
  <2>1. SUFFICES ASSUME IInv, verdict = "Allowed", refused # None
                 PROVE  refused < Limit(clock)
    BY DEF DenialLasts
  <2>2. /\ clock \in Nat /\ clock <= Horizon /\ rows \in Seq(Segment)
        /\ refused \in Nat
    BY <2>1, Constants DEF IInv, TypeOK
  <2>3. UsedToday(rows, clock) \in Nat /\ Limit(clock) \in Nat
    BY <2>1, <2>2, UsedType, LimitType DEF IInv
  <2>4. UsedToday(rows, clock) < Limit(clock)
    BY <2>1, <2>3 DEF IInv, Judged, Remaining, Larger
  <2>5. refused <= UsedToday(rows, clock)
    BY <2>1 DEF IInv, RefusedIsUsed
  <2>6. QED
    BY <2>2, <2>3, <2>4, <2>5
<1>2. QED
  BY <1>1, Invariance, PTL
=============================================================================
