--------------------------- MODULE ScanHistoryProofs ---------------------------
(***************************************************************************)
(* Theorems about ScanHistory, for any suites, checks and bounds.          *)
(***************************************************************************)
EXTENDS ScanHistory, SequenceTheorems, WellFoundedInduction, TLAPS

----------------------------------------------------------------------------
(* The newest suite *)

\* A set of times that is not empty has a newest one.
LEMMA NewestExists ==
    ASSUME NEW T, T \subseteq Time, T # {}
    PROVE  \E t \in T : \A u \in T : u <= t
<1> DEFINE Below == {MaxTime - t : t \in T}
<1>1. Below \subseteq Nat /\ Below # {}
  <2>1. \A t \in T : MaxTime - t \in Nat
    BY BoundsAssumption DEF Time
  <2> QED
    BY <2>1
<1>2. PICK x \in Below : \A y \in Below : ~(<<y, x>> \in OpToRel(<, Nat))
  <2> HIDE DEF Below
  <2> QED
    BY <1>1, WFMin, NatLessThanWellFounded, Zenon
<1>3. \A y \in Below : x <= y
  <2> HIDE DEF Below
  <2>0. x \in Nat /\ \A y \in Below : y \in Nat
    BY <1>1
  <2>1. SUFFICES ASSUME NEW y \in Below, y < x PROVE FALSE
    BY <2>0
  <2>2. x \in Nat /\ y \in Nat
    BY <1>1
  <2>3. <<y, x>> \in Nat \X Nat /\ <<y, x>>[1] < <<y, x>>[2]
    BY <2>1, <2>2
  <2>4. <<y, x>> \in OpToRel(<, Nat)
    BY <2>3, Zenon DEF OpToRel
  <2> QED
    BY <1>2, <2>4
<1>4. PICK t \in T : x = MaxTime - t
  OBVIOUS
<1>5. \A u \in T : u <= t
  BY <1>3, <1>4, BoundsAssumption DEF Time
<1> QED
  BY <1>5

LEMMA LatestIs ==
    ASSUME NEW c \in Baseline, suite \in [Suites -> Suite], c.selected # {}
    PROVE  /\ \E s \in c.selected : Latest(c) = suite[s].latest
           /\ \A s \in c.selected : suite[s].latest <= Latest(c)
           /\ Latest(c) \in Time
<1> DEFINE T == {suite[s].latest : s \in c.selected}
<1>1. c.selected \subseteq Suites
  BY DEF Baseline
<1>2. T \subseteq Time /\ T # {}
  BY <1>1 DEF Suite
<1>3. \E t \in T : \A s \in c.selected : suite[s].latest <= t
  <2>1. PICK t \in T : \A u \in T : u <= t
    <3> HIDE DEF T
    <3> QED
      BY <1>2, NewestExists
  <2> QED
    BY <2>1
<1>4. Latest(c) \in T /\ \A s \in c.selected : suite[s].latest <= Latest(c)
  BY <1>3 DEF Latest
<1> QED
  BY <1>2, <1>4

----------------------------------------------------------------------------
(* Rings *)

LEMMA SnapshotIs ==
    ASSUME NEW ring \in Ring, NEW i \in 1 .. Len(ring)
    PROVE  ring[i] \in Snapshot /\ ring[i].time \in Time /\ ring[i].score \in Score
<1>1. ring[i] \in Snapshot
  BY DEF Ring
<1> QED
  BY <1>1 DEF Snapshot

LEMMA ModeOfNoScore == NoScore \notin Score
BY DEF NoScore, Score, Modes

\* What a ring becomes when a point is appended: all points, or all but the
\* oldest, and the new one.
LEMMA AppendedPoints ==
    ASSUME NEW ring \in Ring, NEW p \in Snapshot
    PROVE  /\ Appended(ring, p) \in Ring
           /\ Len(ring) <= HistoryMax => Len(Appended(ring, p)) <= HistoryMax
           /\ \E k \in {0, 1} :
                 /\ Len(Appended(ring, p)) = Len(ring) + 1 - k
                 /\ \A i \in 1 .. Len(ring) - k :
                        i + k \in 1 .. Len(ring) /\ Appended(ring, p)[i] = ring[i + k]
                 /\ k <= Len(ring)
                 /\ Appended(ring, p)[Len(ring) + 1 - k] = p
<1> DEFINE longer == Append(ring, p)
<1>1. /\ longer \in Seq(Snapshot) /\ Len(longer) = Len(ring) + 1 /\ Len(ring) \in Nat
      /\ longer[Len(ring) + 1] = p
      /\ \A i \in 1 .. Len(ring) : longer[i] = ring[i]
  BY DEF Ring
<1>2. CASE Len(longer) > HistoryMax
  <2>1. Appended(ring, p) = Tail(longer)
    BY <1>2 DEF Appended
  <2> HIDE DEF longer
  <2>2. longer # <<>> /\ Len(ring) >= 1
    BY <1>1, <1>2, BoundsAssumption
  <2>3. /\ Tail(longer) \in Seq(Snapshot) /\ Len(Tail(longer)) = Len(ring)
        /\ \A i \in 1 .. Len(ring) : Tail(longer)[i] = longer[i + 1]
    BY <1>1, <2>2
  <2> QED
    BY <1>1, <2>1, <2>2, <2>3 DEF Ring
<1>3. CASE ~(Len(longer) > HistoryMax)
  BY <1>1, <1>3, BoundsAssumption DEF Appended, Ring
<1> QED
  BY <1>2, <1>3

LEMMA AppendedOrdered ==
    ASSUME NEW ring \in Ring, NEW p \in Snapshot, NEW last \in Time,
           Ordered(ring, last), last <= p.time, p.time # 0,
           ring # <<>> => ring[Len(ring)].time # p.time
    PROVE  Ordered(Appended(ring, p), p.time)
<1> DEFINE new == Appended(ring, p)
<1>1. /\ new \in Ring /\ Len(new) <= HistoryMax
  BY AppendedPoints DEF Ordered
<1>2. PICK k \in {0, 1} :
          /\ Len(new) = Len(ring) + 1 - k
          /\ \A i \in 1 .. Len(ring) - k : i + k \in 1 .. Len(ring) /\ new[i] = ring[i + k]
          /\ k <= Len(ring)
          /\ new[Len(ring) + 1 - k] = p
  BY AppendedPoints
<1> HIDE DEF new
<1>3. p.time \in Nat /\ last \in Nat /\ Len(ring) \in Nat
  BY BoundsAssumption DEF Snapshot, Time, Ring
<1>4. \A i \in 1 .. Len(ring) : ring[i].time \in Nat /\ ring[i].time >= 1 /\ ring[i].time <= p.time
  BY <1>3 DEF Ordered
<1>5. ring # <<>> => ring[Len(ring)].time < p.time
  <2>1. ring # <<>> => Len(ring) \in 1 .. Len(ring)
    BY <1>3 DEF Ring
  <2> QED
    BY <1>3, <1>4, <2>1
<1>6. \A i \in 1 .. Len(new) : new[i].time \in 1 .. p.time
  BY <1>2, <1>3, <1>4
<1>7. ASSUME NEW i \in 1 .. Len(new) - 1
      PROVE  new[i].time < new[i + 1].time
  <2>1. i \in 1 .. Len(ring) - k /\ new[i] = ring[i + k] /\ ring # <<>> /\ i + k \in 1 .. Len(ring)
    BY <1>2, <1>3 DEF Ring
  <2>2. CASE i = Len(ring) - k
    BY <1>2, <1>3, <1>5, <2>1, <2>2
  <2>3. CASE i # Len(ring) - k
    <3>1. i + 1 \in 1 .. Len(ring) - k /\ i + k \in 1 .. Len(ring) - 1
      BY <1>2, <1>3, <2>1, <2>3
    <3>2. new[i + 1] = ring[(i + 1) + k] /\ (i + 1) + k = (i + k) + 1
      BY <1>2, <3>1
    <3> QED
      BY <2>1, <3>1, <3>2 DEF Ordered
  <2> QED
    BY <2>2, <2>3
<1> QED
  BY <1>1, <1>6, <1>7 DEF Ordered, new

\* The four outcomes of a refresh of a ring.
LEMMA SyncedCases ==
    ASSUME NEW ring \in Ring, NEW t \in Time, NEW score \in Score \union {NoScore}
    PROVE  \/ Synced(ring, t, score) = ring
           \/ /\ ring # <<>> /\ ring[Len(ring)].time = t
              /\ Synced(ring, t, score) = SubSeq(ring, 1, Len(ring) - 1)
           \/ /\ score \in Score /\ ring # <<>> /\ ring[Len(ring)].time = t
              /\ Synced(ring, t, score) = [ring EXCEPT ![Len(ring)].score = score]
           \/ /\ score \in Score /\ (ring # <<>> => ring[Len(ring)].time # t)
              /\ Synced(ring, t, score) = Appended(ring, [time |-> t, score |-> score])
BY DEF Synced, Front

LEMMA FrontPoints ==
    ASSUME NEW ring \in Ring, ring # <<>>
    PROVE  /\ SubSeq(ring, 1, Len(ring) - 1) \in Ring
           /\ Len(SubSeq(ring, 1, Len(ring) - 1)) = Len(ring) - 1
           /\ \A i \in 1 .. Len(ring) - 1 : SubSeq(ring, 1, Len(ring) - 1)[i] = ring[i]
           /\ Len(ring) \in Nat \ {0}
<1>1. Len(ring) \in Nat \ {0} /\ \A i \in 1 .. Len(ring) : ring[i] \in Snapshot
  BY DEF Ring
<1>2. /\ SubSeq(ring, 1, Len(ring) - 1) \in Seq(Snapshot)
      /\ Len(SubSeq(ring, 1, Len(ring) - 1)) =
            IF 1 <= Len(ring) - 1 THEN (Len(ring) - 1) - 1 + 1 ELSE 0
      /\ \A i \in 1 .. (Len(ring) - 1) - 1 + 1 :
            SubSeq(ring, 1, Len(ring) - 1)[i] = ring[1 + i - 1]
  <2>1. 1 \in Int /\ Len(ring) - 1 \in Int /\ \A i \in 1 .. Len(ring) - 1 : ring[i] \in Snapshot
    BY <1>1
  <2> QED
    BY <2>1, SubSeqProperties
<1>3. Len(SubSeq(ring, 1, Len(ring) - 1)) = Len(ring) - 1
  <2> DEFINE n == Len(ring) - 1
             new == SubSeq(ring, 1, n)
  <2>1. n \in Nat /\ Len(new) = IF 1 <= n THEN n - 1 + 1 ELSE 0
    BY <1>1, <1>2
  <2> HIDE DEF n, new
  <2>2. Len(new) = n
    BY <2>1
  <2> QED
    BY <2>2 DEF n, new
<1>4. \A i \in 1 .. Len(ring) - 1 : SubSeq(ring, 1, Len(ring) - 1)[i] = ring[i]
  <2>1. \A i \in 1 .. Len(ring) - 1 : i \in 1 .. (Len(ring) - 1) - 1 + 1 /\ 1 + i - 1 = i
    BY <1>1
  <2> QED
    BY <1>2, <2>1
<1> QED
  BY <1>1, <1>2, <1>3, <1>4 DEF Ring

LEMMA RescoredPoints ==
    ASSUME NEW ring \in Ring, ring # <<>>, NEW score \in Score,
           NEW new, new = [ring EXCEPT ![Len(ring)].score = score]
    PROVE  /\ new \in Ring /\ Len(new) = Len(ring) /\ Len(ring) \in Nat \ {0}
           /\ \A i \in 1 .. Len(ring) : new[i].time = ring[i].time
           /\ \A i \in 1 .. Len(ring) : new[i].score = IF i = Len(ring) THEN score ELSE ring[i].score
<1>1. Len(ring) \in Nat \ {0} /\ ring \in [1 .. Len(ring) -> Snapshot]
  BY DEF Ring
<1>2. Len(ring) \in 1 .. Len(ring)
  BY <1>1
<1>3. new = [ring EXCEPT ![Len(ring)] = [ring[Len(ring)] EXCEPT !.score = score]]
  BY <1>1
<1>4. ring[Len(ring)] \in Snapshot
  BY <1>1, <1>2
<1>5. [ring[Len(ring)] EXCEPT !.score = score] \in Snapshot
  BY <1>4 DEF Snapshot
<1>6. new \in [1 .. Len(ring) -> Snapshot]
  BY <1>1, <1>3, <1>5
<1>7. new \in Seq(Snapshot) /\ Len(new) = Len(ring)
  BY <1>1, <1>6
<1>8. /\ new[Len(ring)].time = ring[Len(ring)].time /\ new[Len(ring)].score = score
      /\ \A i \in 1 .. Len(ring) : i # Len(ring) => new[i] = ring[i]
  BY <1>1, <1>2, <1>3, <1>4 DEF Snapshot
<1> QED
  BY <1>1, <1>7, <1>8 DEF Ring

LEMMA SyncedType ==
    ASSUME NEW ring \in Ring, NEW t \in Time, NEW score \in Score \union {NoScore}
    PROVE  Synced(ring, t, score) \in Ring
<1>1. score \in Score => [time |-> t, score |-> score] \in Snapshot
  BY DEF Snapshot
<1>2. ring # <<>> => SubSeq(ring, 1, Len(ring) - 1) \in Ring
  BY FrontPoints
<1>3. ring # <<>> /\ score \in Score => [ring EXCEPT ![Len(ring)].score = score] \in Ring
  BY RescoredPoints
<1>4. score \in Score => Appended(ring, [time |-> t, score |-> score]) \in Ring
  BY <1>1, AppendedPoints
<1>5. CASE score \in Score
           /\ Synced(ring, t, score) = Appended(ring, [time |-> t, score |-> score])
  BY <1>4, <1>5
<1> QED
  BY <1>2, <1>3, <1>5, SyncedCases

LEMMA SyncedOrdered ==
    ASSUME NEW ring \in Ring, NEW t \in Time, NEW score \in Score \union {NoScore},
           NEW last \in Time, Ordered(ring, last), last <= t, t # 0
    PROVE  Ordered(Synced(ring, t, score), t)
<1>1. t \in Nat /\ last \in Nat /\ Len(ring) \in Nat
  BY BoundsAssumption DEF Time, Ring
<1>2. CASE Synced(ring, t, score) = ring
  BY <1>1, <1>2 DEF Ordered
<1>3. CASE ring # <<>> /\ Synced(ring, t, score) = SubSeq(ring, 1, Len(ring) - 1)
  BY <1>1, <1>3, FrontPoints, BoundsAssumption DEF Ordered
<1>4. CASE ring # <<>> /\ score \in Score
           /\ Synced(ring, t, score) = [ring EXCEPT ![Len(ring)].score = score]
  <2> DEFINE new == Synced(ring, t, score)
  <2>1. Len(new) = Len(ring) /\ \A i \in 1 .. Len(ring) : new[i].time = ring[i].time
    BY <1>4, RescoredPoints
  <2> HIDE DEF new
  <2>2. \A i \in 1 .. Len(ring) - 1 : i \in 1 .. Len(ring) /\ i + 1 \in 1 .. Len(ring)
    BY <1>1
  <2>3. \A i \in 1 .. Len(new) : new[i].time \in 1 .. t
    BY <1>1, <2>1 DEF Ordered
  <2>4. ASSUME NEW i \in 1 .. Len(new) - 1
        PROVE  new[i].time < new[i + 1].time
    BY <2>1, <2>2 DEF Ordered
  <2>5. Len(new) <= HistoryMax
    BY <2>1 DEF Ordered
  <2> QED
    BY <2>3, <2>4, <2>5 DEF Ordered, new
<1>5. CASE /\ score \in Score /\ (ring # <<>> => ring[Len(ring)].time # t)
           /\ Synced(ring, t, score) = Appended(ring, [time |-> t, score |-> score])
  <2>1. [time |-> t, score |-> score] \in Snapshot
    BY <1>5 DEF Snapshot
  <2> QED
    BY <1>5, <2>1, AppendedOrdered
<1> QED
  BY <1>2, <1>3, <1>4, <1>5, SyncedCases

\* All points of a ring carry one scoring mode.
OfMode(ring, mode) == \A i \in 1 .. Len(ring) : ring[i].score.mode = mode

LEMMA SyncedMode ==
    ASSUME NEW ring \in Ring, NEW t \in Time, NEW score \in Score \union {NoScore},
           NEW mode, OfMode(ring, mode), score \in Score => score.mode = mode
    PROVE  OfMode(Synced(ring, t, score), mode)
<1>1. CASE Synced(ring, t, score) = ring
  BY <1>1
<1>2. CASE ring # <<>> /\ Synced(ring, t, score) = SubSeq(ring, 1, Len(ring) - 1)
  BY <1>2, FrontPoints DEF OfMode
<1>3. CASE ring # <<>> /\ score \in Score
           /\ Synced(ring, t, score) = [ring EXCEPT ![Len(ring)].score = score]
  <2>1. \A i \in 1 .. Len(ring) :
            Synced(ring, t, score)[i].score = IF i = Len(ring) THEN score ELSE ring[i].score
    BY <1>3, RescoredPoints
  <2>2. Len(Synced(ring, t, score)) = Len(ring)
    BY <1>3, RescoredPoints
  <2>3. \A i \in 1 .. Len(ring) : Synced(ring, t, score)[i].score.mode = mode
    BY <1>3, <2>1 DEF OfMode
  <2> QED
    BY <2>2, <2>3 DEF OfMode
<1>4. CASE score \in Score
           /\ Synced(ring, t, score) = Appended(ring, [time |-> t, score |-> score])
  <2> DEFINE p == [time |-> t, score |-> score]
             new == Appended(ring, p)
  <2>1. p \in Snapshot /\ p.score.mode = mode
    BY <1>4 DEF Snapshot
  <2>2. PICK k \in {0, 1} :
            /\ Len(new) = Len(ring) + 1 - k
            /\ \A i \in 1 .. Len(ring) - k : i + k \in 1 .. Len(ring) /\ new[i] = ring[i + k]
            /\ new[Len(ring) + 1 - k] = p
    BY <2>1, AppendedPoints
  <2> HIDE DEF new, p
  <2>3. Len(ring) \in Nat
    BY DEF Ring
  <2>4. ASSUME NEW i \in 1 .. Len(new)
        PROVE  new[i].score.mode = mode
    <3>1. i = Len(ring) + 1 - k \/ i \in 1 .. Len(ring) - k
      BY <2>2, <2>3
    <3> QED
      BY <2>1, <2>2, <3>1 DEF OfMode
  <2> QED
    BY <1>4, <2>4 DEF OfMode, new, p
<1> QED
  BY <1>1, <1>2, <1>3, <1>4, SyncedCases

----------------------------------------------------------------------------
(* What recordHistory makes of a ClusterBaseline *)

LEMMA BaselineFields ==
    ASSUME NEW c \in Baseline
    PROVE  /\ c.mode \in Modes /\ c.selected \in SUBSET Suites
           /\ c.stamp \in Modes \union {""} /\ c.status \in Status
           /\ c.status.history \in Ring /\ c.status.profiles \in [Suites -> Ring]
           /\ c.status.last \in Time /\ c.status.baseTime \in Time
           /\ c.status.previous \in SUBSET Checks /\ c.status.base \in SUBSET Checks
           /\ c.status.newlyFailed \in SUBSET Checks /\ c.status.fixed \in SUBSET Checks
BY DEF Baseline, Status

LEMMA ZeroTime == 0 \in Time
BY BoundsAssumption DEF Time

LEMMA NoRingsType == <<>> \in Ring /\ NoRings \in [Suites -> Ring]
BY DEF Ring, NoRings

LEMMA ScoreOfType ==
    ASSUME NEW S, NEW mode \in Modes
    PROVE  /\ ScoreOf(S, mode) \in Score \union {NoScore}
           /\ ScoreOf(S, mode) \in Score => ScoreOf(S, mode).mode = mode
<1>1. Tallied(S, "PASS") \in SUBSET Checks /\ Tallied(S, "FAIL") \in SUBSET Checks
  BY DEF Tallied
<1> QED
  BY <1>1, ModeOfNoScore DEF ScoreOf, Score

LEMMA FailingType ==
    ASSUME NEW c
    PROVE  Failing(c) \in SUBSET Checks
BY DEF Failing, Tallied

LEMMA RefreshedIs ==
    ASSUME NEW c \in Baseline, NEW t \in Time
    PROVE  /\ Refreshed(c, t) =
                 [c.status EXCEPT !.history = Refreshed(c, t).history,
                                  !.profiles = Refreshed(c, t).profiles]
           /\ Refreshed(c, t).history = Synced(c.status.history, t, ScoreOf(c.selected, c.mode))
           /\ \A s \in Suites :
                 Refreshed(c, t).profiles[s] =
                     IF s \in c.selected
                     THEN Synced(c.status.profiles[s], t, ScoreOf({s}, c.mode))
                     ELSE c.status.profiles[s]
           /\ Refreshed(c, t).history \in Ring
           /\ Refreshed(c, t).profiles \in [Suites -> Ring]
           /\ Refreshed(c, t) \in Status
<1> DEFINE H == Synced(c.status.history, t, ScoreOf(c.selected, c.mode))
           P == [s \in Suites |-> IF s \in c.selected
                     THEN Synced(c.status.profiles[s], t, ScoreOf({s}, c.mode))
                     ELSE c.status.profiles[s]]
<1>1. Refreshed(c, t) = [c.status EXCEPT !.history = H, !.profiles = P]
  BY BaselineFields DEF Refreshed, Status
<1>2. H \in Ring
  BY BaselineFields, ScoreOfType, SyncedType
<1>3. ASSUME NEW s \in Suites
      PROVE  P[s] \in Ring
  BY BaselineFields, ScoreOfType, SyncedType
<1>4. P \in [Suites -> Ring]
  BY <1>3
<1>5. \A s \in Suites : P[s] = IF s \in c.selected
                               THEN Synced(c.status.profiles[s], t, ScoreOf({s}, c.mode))
                               ELSE c.status.profiles[s]
  OBVIOUS
<1>6. c.status \in Status
  BY BaselineFields
<1> HIDE DEF H, P
<1>7. /\ Refreshed(c, t) = [c.status EXCEPT !.history = H, !.profiles = P]
      /\ Refreshed(c, t).history = H /\ Refreshed(c, t).profiles = P
      /\ Refreshed(c, t) \in Status
  BY <1>1, <1>2, <1>4, <1>6 DEF Status
<1>8. Refreshed(c, t).history = Synced(c.status.history, t, ScoreOf(c.selected, c.mode))
  BY <1>7 DEF H
<1> QED
  BY <1>2, <1>4, <1>5, <1>7, <1>8

LEMMA RefreshedKeeps ==
    ASSUME NEW c \in Baseline, NEW t \in Time
    PROVE  LET new == Refreshed(c, t) IN
           /\ new.last = c.status.last /\ new.previous = c.status.previous
           /\ new.base = c.status.base /\ new.baseTime = c.status.baseTime
           /\ new.newlyFailed = c.status.newlyFailed /\ new.fixed = c.status.fixed
<1> DEFINE new == Refreshed(c, t)
<1>1. c.status \in Status
  BY BaselineFields
<1>2. new = [c.status EXCEPT !.history = new.history, !.profiles = new.profiles]
  BY RefreshedIs
<1> HIDE DEF new
<1> QED
  BY <1>1, <1>2 DEF Status, new

\* A status whose rings all carry one scoring mode, and one whose rings are in
\* order.
AllOf(status, mode) ==
    OfMode(status.history, mode) /\ \A s \in Suites : OfMode(status.profiles[s], mode)
AllOrdered(status, last) ==
    Ordered(status.history, last) /\ \A s \in Suites : Ordered(status.profiles[s], last)

LEMMA RefreshedMode ==
    ASSUME NEW c \in Baseline, NEW t \in Time, AllOf(c.status, c.mode)
    PROVE  AllOf(Refreshed(c, t), c.mode)
<1>1. c.mode \in Modes /\ c.status.history \in Ring /\ \A s \in Suites : c.status.profiles[s] \in Ring
  BY BaselineFields
<1>2. OfMode(Refreshed(c, t).history, c.mode)
  <2> DEFINE score == ScoreOf(c.selected, c.mode)
  <2>1. score \in Score \union {NoScore} /\ (score \in Score => score.mode = c.mode)
    BY <1>1, ScoreOfType
  <2> HIDE DEF score
  <2>2. OfMode(Synced(c.status.history, t, score), c.mode)
    BY <1>1, <2>1, SyncedMode DEF AllOf
  <2> QED
    BY <2>2, RefreshedIs DEF score
<1>3. ASSUME NEW s \in Suites
      PROVE  OfMode(Refreshed(c, t).profiles[s], c.mode)
  <2> DEFINE score == ScoreOf({s}, c.mode)
  <2>1. score \in Score \union {NoScore} /\ (score \in Score => score.mode = c.mode)
    BY <1>1, ScoreOfType
  <2> HIDE DEF score
  <2>2. c.status.profiles[s] \in Ring /\ OfMode(c.status.profiles[s], c.mode)
    BY <1>1 DEF AllOf
  <2>3. OfMode(Synced(c.status.profiles[s], t, score), c.mode)
    BY <2>1, <2>2, SyncedMode
  <2> QED
    BY <2>2, <2>3, RefreshedIs DEF score
<1> QED
  BY <1>2, <1>3 DEF AllOf

LEMMA RefreshedOrdered ==
    ASSUME NEW c \in Baseline, NEW t \in Time, AllOrdered(c.status, c.status.last),
           c.status.last <= t, t # 0
    PROVE  AllOrdered(Refreshed(c, t), t)
<1>1. /\ c.mode \in Modes /\ c.status.history \in Ring /\ c.status.last \in Time
      /\ \A s \in Suites : c.status.profiles[s] \in Ring
  BY BaselineFields
<1>2. Ordered(Refreshed(c, t).history, t)
  <2> DEFINE score == ScoreOf(c.selected, c.mode)
  <2>1. score \in Score \union {NoScore}
    BY <1>1, ScoreOfType
  <2> HIDE DEF score
  <2>2. Ordered(Synced(c.status.history, t, score), t)
    BY <1>1, <2>1, SyncedOrdered DEF AllOrdered
  <2> QED
    BY <2>2, RefreshedIs DEF score
<1>3. ASSUME NEW s \in Suites
      PROVE  Ordered(Refreshed(c, t).profiles[s], t)
  <2> DEFINE score == ScoreOf({s}, c.mode)
  <2>1. score \in Score \union {NoScore}
    BY <1>1, ScoreOfType
  <2> HIDE DEF score
  <2>2. c.status.profiles[s] \in Ring /\ Ordered(c.status.profiles[s], c.status.last)
    BY <1>1 DEF AllOrdered
  <2>3. Ordered(Synced(c.status.profiles[s], t, score), t)
    BY <1>1, <2>1, <2>2, SyncedOrdered
  <2>4. Ordered(c.status.profiles[s], t)
    <3>1. c.status.last \in Nat /\ t \in Nat
      BY <1>1, BoundsAssumption DEF Time
    <3> QED
      BY <2>2, <3>1 DEF Ordered
  <2> QED
    BY <2>3, <2>4, RefreshedIs DEF score
<1> QED
  BY <1>2, <1>3 DEF AllOrdered

\* A stamp that matches the scoring mode is that mode, or no point exists.
LEMMA MatchingMode ==
    ASSUME NEW c \in Baseline, Matches(c), AllOf(c.status, c.stamp)
    PROVE  AllOf(c.status, c.mode)
<1>1. CASE c.stamp = c.mode
  BY <1>1
<1>2. CASE c.stamp = ""
  <2>1. \A ring \in Ring : OfMode(ring, "") => OfMode(ring, c.mode)
    <3>1. \A ring \in Ring : \A i \in 1 .. Len(ring) : ring[i].score.mode \in Modes
      BY SnapshotIs DEF Score
    <3>2. "" \notin Modes
      BY DEF Modes
    <3> QED
      BY <3>1, <3>2 DEF OfMode
  <2> QED
    BY <1>2, <2>1, BaselineFields DEF AllOf
<1> QED
  BY <1>1, <1>2 DEF Matches

LEMMA ComparedIs ==
    ASSUME NEW status \in Status, NEW current \in SUBSET Checks
    PROVE  LET new == Compared(status, current) IN
           /\ new \in Status
           /\ new.newlyFailed = current \ status.base /\ new.fixed = status.base \ current
           /\ new.history = status.history /\ new.profiles = status.profiles
           /\ new.last = status.last /\ new.previous = status.previous
           /\ new.base = status.base /\ new.baseTime = status.baseTime
BY DEF Compared, Status

LEMMA LateResultsIs ==
    ASSUME NEW c \in Baseline
    PROVE  LET kept == IF Matches(c) THEN Refreshed(c, c.status.last) ELSE c.status
               new  == LateResults(c)
           IN  /\ new \in Baseline /\ new.mode = c.mode /\ new.selected = c.selected
               /\ new.stamp = IF Matches(c) THEN c.mode ELSE c.stamp
               /\ new.status.history = kept.history /\ new.status.profiles = kept.profiles
               /\ new.status.last = c.status.last
               /\ new.status.base = c.status.base /\ new.status.baseTime = c.status.baseTime
               /\ new.status.previous = Failing(c)
               /\ new.status.newlyFailed = IF c.status.baseTime = c.status.last
                      THEN Failing(c) \ c.status.base ELSE c.status.newlyFailed
               /\ new.status.fixed = IF c.status.baseTime = c.status.last
                      THEN c.status.base \ Failing(c) ELSE c.status.fixed
<1> DEFINE t    == c.status.last
           kept == IF Matches(c) THEN Refreshed(c, t) ELSE c.status
           diff == IF kept.baseTime = t THEN Compared(kept, Failing(c)) ELSE kept
           new  == LateResults(c)
<1>1. t \in Time /\ c.status \in Status /\ Failing(c) \in SUBSET Checks
  BY BaselineFields, FailingType
<1>2. kept \in Status
  BY <1>1, RefreshedIs
<1>3. /\ kept.last = c.status.last /\ kept.base = c.status.base
      /\ kept.baseTime = c.status.baseTime /\ kept.newlyFailed = c.status.newlyFailed
      /\ kept.fixed = c.status.fixed
  BY <1>1, RefreshedKeeps
<1>4. new = [c EXCEPT !.status = [diff EXCEPT !.previous = Failing(c)],
                      !.stamp  = IF Matches(c) THEN c.mode ELSE @]
  BY DEF LateResults
<1> HIDE DEF kept
<1>5. /\ diff \in Status
      /\ diff.history = kept.history /\ diff.profiles = kept.profiles
      /\ diff.last = kept.last /\ diff.base = kept.base /\ diff.baseTime = kept.baseTime
      /\ diff.newlyFailed = IF kept.baseTime = t THEN Failing(c) \ kept.base ELSE kept.newlyFailed
      /\ diff.fixed = IF kept.baseTime = t THEN kept.base \ Failing(c) ELSE kept.fixed
  <2>1. CASE kept.baseTime = t
    BY <1>1, <1>2, <2>1, ComparedIs
  <2>2. CASE kept.baseTime # t
    BY <1>2, <2>2
  <2> QED
    BY <2>1, <2>2
<1> HIDE DEF diff
<1>6. [diff EXCEPT !.previous = Failing(c)] \in Status
  BY <1>1, <1>5 DEF Status
<1>7. new \in Baseline /\ new.mode = c.mode /\ new.selected = c.selected
  BY <1>4, <1>6 DEF Baseline
<1>8. /\ new.stamp = IF Matches(c) THEN c.mode ELSE c.stamp
      /\ new.status = [diff EXCEPT !.previous = Failing(c)]
  BY <1>4 DEF Baseline
<1>9. /\ new.status.history = kept.history /\ new.status.profiles = kept.profiles
      /\ new.status.last = kept.last /\ new.status.base = kept.base
      /\ new.status.baseTime = kept.baseTime /\ new.status.previous = Failing(c)
      /\ new.status.newlyFailed = diff.newlyFailed /\ new.status.fixed = diff.fixed
  BY <1>5, <1>8 DEF Status
<1> QED
  BY <1>3, <1>5, <1>7, <1>8, <1>9 DEF kept

LEMMA NewScanIs ==
    ASSUME NEW c \in Baseline, NEW t \in Time
    PROVE  LET from == IF Matches(c) THEN c ELSE Emptied(c)
               new  == NewScan(c, t)
           IN  /\ from \in Baseline /\ new \in Baseline
               /\ new.mode = c.mode /\ new.selected = c.selected /\ new.stamp = c.mode
               /\ new.status.history = Refreshed(from, t).history
               /\ new.status.profiles = Refreshed(from, t).profiles
               /\ new.status.last = t /\ new.status.previous = Failing(c)
               /\ c.status.last # 0 =>
                     /\ new.status.base = c.status.previous /\ new.status.baseTime = t
                     /\ new.status.newlyFailed = Failing(c) \ c.status.previous
                     /\ new.status.fixed = c.status.previous \ Failing(c)
               /\ c.status.last = 0 =>
                     new.status.newlyFailed = {} /\ new.status.fixed = {}
<1> DEFINE from  == IF Matches(c) THEN c ELSE Emptied(c)
           rings == Refreshed(from, t)
           based == [rings EXCEPT !.base = rings.previous, !.baseTime = t]
           moved == IF c.status.last # 0 THEN Compared(based, Failing(c))
                    ELSE [rings EXCEPT !.base = {}, !.baseTime = 0,
                                       !.newlyFailed = {}, !.fixed = {}]
           new   == NewScan(c, t)
<1>1. c.status \in Status /\ Failing(c) \in SUBSET Checks
  BY BaselineFields, FailingType
<1>2. from \in Baseline /\ from.status.previous = c.status.previous
  BY <1>1, NoRingsType DEF Emptied, Baseline, Status
<1>3. new = [c EXCEPT !.status = [moved EXCEPT !.last = t, !.previous = Failing(c)],
                      !.stamp  = c.mode]
  BY DEF NewScan
<1> HIDE DEF from
<1>4. rings \in Status /\ rings.previous = c.status.previous
  BY <1>2, RefreshedIs, RefreshedKeeps
<1> HIDE DEF rings
<1>5. /\ based \in Status /\ based.history = rings.history /\ based.profiles = rings.profiles
      /\ based.base = c.status.previous /\ based.baseTime = t
  BY <1>4 DEF Status
<1> HIDE DEF based
<1>6. /\ moved \in Status /\ moved.history = rings.history /\ moved.profiles = rings.profiles
      /\ c.status.last # 0 =>
            /\ moved.base = c.status.previous /\ moved.baseTime = t
            /\ moved.newlyFailed = Failing(c) \ c.status.previous
            /\ moved.fixed = c.status.previous \ Failing(c)
      /\ c.status.last = 0 => moved.newlyFailed = {} /\ moved.fixed = {}
  <2>1. CASE c.status.last # 0
    BY <1>1, <1>5, <2>1, ComparedIs
  <2>2. CASE c.status.last = 0
    BY <1>4, <2>2, ZeroTime DEF Status
  <2> QED
    BY <2>1, <2>2
<1> HIDE DEF moved
<1>7. [moved EXCEPT !.last = t, !.previous = Failing(c)] \in Status
  BY <1>1, <1>6 DEF Status
<1>8. /\ new \in Baseline /\ new.mode = c.mode /\ new.selected = c.selected /\ new.stamp = c.mode
      /\ new.status = [moved EXCEPT !.last = t, !.previous = Failing(c)]
  BY <1>3, <1>7 DEF Baseline
<1>9. /\ new.status.history = rings.history /\ new.status.profiles = rings.profiles
      /\ new.status.last = t /\ new.status.previous = Failing(c)
      /\ new.status.base = moved.base /\ new.status.baseTime = moved.baseTime
      /\ new.status.newlyFailed = moved.newlyFailed /\ new.status.fixed = moved.fixed
  BY <1>6, <1>8 DEF Status
<1> QED
  BY <1>2, <1>6, <1>8, <1>9 DEF from, rings

----------------------------------------------------------------------------
(* What recordHistory promises *)

\* The end times of a suite that is complete are times, in order.
SuitesOrdered ==
    \A s \in Suites : /\ suite[s].earliest <= suite[s].latest
                      /\ suite[s].phase = "DONE" => suite[s].latest # 0

\* How a status follows another one: the scan does not go back, the base of the
\* comparison is what the scan before ended with, and no scan changes its mode.
Later(old, new) == new = NoStatus \/ new.last >= old.last
NextBase(old, new) ==
    new.last # old.last /\ old.last # 0 /\ new # NoStatus
        => new.base = old.previous /\ new.baseTime = new.last
Frozen(old, new) ==
    \A i \in 1 .. Len(old.history), j \in 1 .. Len(new.history) :
        old.history[i].time = new.history[j].time
            => old.history[i].score.mode = new.history[j].score.mode

LEMMA SameMode ==
    ASSUME NEW old, NEW new, NEW mode, AllOf(old, mode), AllOf(new, mode)
    PROVE  Frozen(old, new)
BY DEF AllOf, OfMode, Frozen

LEMMA NoPoints ==
    ASSUME NEW mode, NEW last
    PROVE  OfMode(<<>>, mode) /\ Ordered(<<>>, last)
BY BoundsAssumption DEF OfMode, Ordered

LEMMA EmptiedIs ==
    ASSUME NEW c \in Baseline
    PROVE  LET new == Emptied(c) IN
           /\ new \in Baseline /\ new.mode = c.mode /\ new.selected = c.selected
           /\ new.status.history = <<>> /\ new.status.profiles = NoRings
           /\ new.status.last = c.status.last
BY NoRingsType DEF Emptied, Baseline, Status

LEMMA FirstPoint ==
    ASSUME NEW t \in Time, NEW score \in Score \union {NoScore},
           NEW j \in 1 .. Len(Synced(<<>>, t, score))
    PROVE  Synced(<<>>, t, score)[j].time = t
<1>1. <<>> \in Ring /\ Len(<<>>) = 0
  BY DEF Ring
<1>2. CASE Synced(<<>>, t, score) = <<>>
  BY <1>2
<1>3. CASE score \in Score
           /\ Synced(<<>>, t, score) = Appended(<<>>, [time |-> t, score |-> score])
  <2> DEFINE p == [time |-> t, score |-> score]
  <2>1. p \in Snapshot
    BY <1>3 DEF Snapshot
  <2>2. PICK k \in {0, 1} :
            /\ Len(Appended(<<>>, p)) = Len(<<>>) + 1 - k /\ k <= Len(<<>>)
            /\ Appended(<<>>, p)[Len(<<>>) + 1 - k] = p
    BY <1>1, <2>1, AppendedPoints
  <2>3. k = 0
    BY <1>1, <2>2
  <2>4. Len(<<>>) + 1 - k = 1
    BY <1>1, <2>3
  <2>5. Len(Appended(<<>>, p)) = 1 /\ Appended(<<>>, p)[1] = p
    BY <2>2, <2>4
  <2> QED
    BY <1>3, <2>5
<1> QED
  BY <1>1, <1>2, <1>3, SyncedCases

LEMMA LateResultsKeeps ==
    ASSUME NEW c \in Baseline, c.status.last # 0,
           Honest(c.status), AllOrdered(c.status, c.status.last)
    PROVE  LET new == LateResults(c) IN
           /\ new \in Baseline
           /\ Honest(new.status) /\ AllOrdered(new.status, new.status.last)
           /\ new.status.last = c.status.last
           /\ AllOf(c.status, c.stamp) =>
                 AllOf(new.status, new.stamp) /\ Frozen(c.status, new.status)
<1> DEFINE new == LateResults(c)
<1>1. new \in Baseline /\ new.status.last = c.status.last
  BY LateResultsIs
<1>2. Honest(new.status)
  <2>1. /\ new.status.previous = Failing(c) /\ new.status.base = c.status.base
        /\ new.status.baseTime = c.status.baseTime
        /\ new.status.newlyFailed = IF c.status.baseTime = c.status.last
               THEN Failing(c) \ c.status.base ELSE c.status.newlyFailed
        /\ new.status.fixed = IF c.status.baseTime = c.status.last
               THEN c.status.base \ Failing(c) ELSE c.status.fixed
    BY LateResultsIs
  <2> HIDE DEF new
  <2>2. CASE c.status.baseTime = c.status.last
    BY <1>1, <2>1, <2>2 DEF Honest
  <2>3. CASE c.status.baseTime # c.status.last
    BY <1>1, <2>1, <2>3 DEF Honest
  <2> QED
    BY <2>2, <2>3
<1>3. CASE Matches(c)
  <2>1. /\ new.status.history = Refreshed(c, c.status.last).history
        /\ new.status.profiles = Refreshed(c, c.status.last).profiles
        /\ new.stamp = c.mode
    BY <1>3, LateResultsIs
  <2> HIDE DEF new
  <2>2. c.status.last \in Time /\ c.status.last <= c.status.last
    <3>1. c.status.last \in Time
      BY BaselineFields
    <3> QED
      BY <3>1, BoundsAssumption DEF Time
  <2>3. AllOrdered(Refreshed(c, c.status.last), c.status.last)
    BY <2>2, RefreshedOrdered
  <2>4. AllOrdered(new.status, new.status.last)
    BY <1>1, <2>1, <2>3 DEF AllOrdered
  <2>5. ASSUME AllOf(c.status, c.stamp)
        PROVE  AllOf(new.status, new.stamp) /\ Frozen(c.status, new.status)
    <3>1. AllOf(c.status, c.mode)
      BY <1>3, <2>5, MatchingMode
    <3>2. AllOf(Refreshed(c, c.status.last), c.mode)
      BY <2>2, <3>1, RefreshedMode
    <3>3. AllOf(new.status, c.mode)
      BY <2>1, <3>2 DEF AllOf
    <3> QED
      BY <2>1, <3>1, <3>3, SameMode
  <2> QED
    BY <1>1, <1>2, <2>4, <2>5 DEF new
<1>4. CASE ~Matches(c)
  <2>1. /\ new.status.history = c.status.history /\ new.status.profiles = c.status.profiles
        /\ new.stamp = c.stamp
    BY <1>4, LateResultsIs
  <2> HIDE DEF new
  <2>2. AllOrdered(new.status, new.status.last)
    BY <1>1, <2>1 DEF AllOrdered
  <2>3. AllOf(c.status, c.stamp) => AllOf(new.status, c.stamp)
    BY <2>1 DEF AllOf
  <2> QED
    BY <1>1, <1>2, <2>1, <2>2, <2>3, SameMode DEF new
<1> QED
  BY <1>3, <1>4

LEMMA NewScanKeeps ==
    ASSUME NEW c \in Baseline, NEW t \in Time, t # 0,
           c.status.last = 0 \/ c.status.last < t,
           AllOrdered(c.status, c.status.last)
    PROVE  LET new == NewScan(c, t) IN
           /\ new \in Baseline
           /\ Honest(new.status) /\ AllOrdered(new.status, new.status.last)
           /\ new.status.last = t /\ NextBase(c.status, new.status)
           /\ AllOf(c.status, c.stamp) =>
                 AllOf(new.status, new.stamp) /\ Frozen(c.status, new.status)
<1> DEFINE new  == NewScan(c, t)
           from == IF Matches(c) THEN c ELSE Emptied(c)
<1>1. /\ from \in Baseline /\ new \in Baseline /\ new.stamp = c.mode
      /\ new.status.history = Refreshed(from, t).history
      /\ new.status.profiles = Refreshed(from, t).profiles
      /\ new.status.last = t /\ new.status.previous = Failing(c)
      /\ c.status.last # 0 =>
            /\ new.status.base = c.status.previous /\ new.status.baseTime = t
            /\ new.status.newlyFailed = Failing(c) \ c.status.previous
            /\ new.status.fixed = c.status.previous \ Failing(c)
      /\ c.status.last = 0 => new.status.newlyFailed = {} /\ new.status.fixed = {}
  BY NewScanIs
<1> HIDE DEF new
<1>2. Honest(new.status) /\ NextBase(c.status, new.status)
  BY <1>1 DEF Honest, NextBase
<1>3. c.status.last \in Nat /\ t \in Nat /\ c.status.last < t
  <2>1. c.status.last \in Time
    BY BaselineFields
  <2> QED
    BY <2>1, BoundsAssumption DEF Time
<1>4. /\ from.mode = c.mode /\ from.status.last = c.status.last
      /\ AllOrdered(from.status, c.status.last)
  BY EmptiedIs, NoPoints DEF AllOrdered, NoRings
<1>5. AllOrdered(new.status, t)
  <2>1. AllOrdered(Refreshed(from, t), t)
    BY <1>1, <1>3, <1>4, RefreshedOrdered
  <2> QED
    BY <1>1, <2>1 DEF AllOrdered
<1>6. ASSUME AllOf(c.status, c.stamp)
      PROVE  AllOf(new.status, c.mode) /\ Frozen(c.status, new.status)
  <2>1. AllOf(from.status, c.mode)
    <3>1. CASE Matches(c)
      BY <1>6, <3>1, MatchingMode
    <3>2. CASE ~Matches(c)
      BY <3>2, EmptiedIs, NoPoints DEF AllOf, NoRings
    <3> QED
      BY <3>1, <3>2
  <2>2. AllOf(Refreshed(from, t), c.mode)
    BY <1>1, <1>4, <2>1, RefreshedMode
  <2>3. AllOf(new.status, c.mode)
    BY <1>1, <2>2 DEF AllOf
  <2>4. CASE Matches(c)
    BY <2>1, <2>3, <2>4, SameMode
  <2>5. CASE ~Matches(c)
    <3>1. \A i \in 1 .. Len(c.status.history) : c.status.history[i].time < t
      <4>1. \A i \in 1 .. Len(c.status.history) : c.status.history[i].time \in 1 .. c.status.last
        BY DEF AllOrdered, Ordered
      <4> QED
        BY <1>3, <4>1
    <3> DEFINE score == ScoreOf(from.selected, from.mode)
    <3>2. score \in Score \union {NoScore}
      BY <1>1, BaselineFields, ScoreOfType
    <3>3. new.status.history = Synced(<<>>, t, score)
      <4>1. from = Emptied(c) /\ from.status.history = <<>>
        BY <2>5, EmptiedIs
      <4>2. Refreshed(from, t).history = Synced(from.status.history, t, score)
        BY <1>1, RefreshedIs
      <4> QED
        BY <1>1, <4>1, <4>2
    <3> HIDE DEF score
    <3>4. \A j \in 1 .. Len(new.status.history) : new.status.history[j].time = t
      BY <3>2, <3>3, FirstPoint
    <3> QED
      BY <1>3, <2>3, <3>1, <3>4 DEF Frozen
  <2> QED
    BY <2>3, <2>4, <2>5
<1> QED
  BY <1>1, <1>2, <1>5, <1>6 DEF new

Sound(status)     == Honest(status) /\ AllOrdered(status, status.last)
Follows(old, new) == Sound(new) /\ Later(old, new) /\ NextBase(old, new)

LEMMA RecordedKeeps ==
    ASSUME NEW c \in Baseline, suite \in [Suites -> Suite], SuitesOrdered,
           c.selected # {}, Sound(c.status)
    PROVE  /\ Recorded(c) \in Baseline
           /\ Follows(c.status, Recorded(c).status)
           /\ AllOf(c.status, c.stamp) =>
                 AllOf(Recorded(c).status, Recorded(c).stamp) /\ Frozen(c.status, Recorded(c).status)
<1>1. c.selected \in SUBSET Suites /\ c.status.last \in Nat /\ c.status.last \in Time
  <2>1. c.selected \in SUBSET Suites /\ c.status.last \in Time
    BY BaselineFields
  <2> QED
    BY <2>1, BoundsAssumption DEF Time
<1>2. /\ \E s \in c.selected : Latest(c) = suite[s].latest
      /\ \A s \in c.selected : suite[s].latest <= Latest(c)
      /\ Latest(c) \in Time /\ Latest(c) \in Nat
  BY LatestIs, BoundsAssumption DEF Time
<1>3. CASE Recorded(c) = c
  <2>1. Later(c.status, c.status) /\ NextBase(c.status, c.status)
    BY <1>1 DEF Later, NextBase
  <2>2. AllOf(c.status, c.stamp) => Frozen(c.status, c.status)
    BY SameMode
  <2> QED
    BY <1>3, <2>1, <2>2 DEF Follows
<1>4. CASE Complete(c) /\ c.status.last # 0 /\ Recorded(c) = LateResults(c)
  <2>1. LET new == LateResults(c) IN
        /\ new \in Baseline
        /\ Honest(new.status) /\ AllOrdered(new.status, new.status.last)
        /\ new.status.last = c.status.last
        /\ AllOf(c.status, c.stamp) =>
              AllOf(new.status, new.stamp) /\ Frozen(c.status, new.status)
    BY <1>4, LateResultsKeeps DEF Sound
  <2> QED
    BY <1>1, <1>4, <2>1 DEF Follows, Sound, Later, NextBase
<1>5. CASE Complete(c) /\ Advanced(c) /\ Recorded(c) = NewScan(c, Latest(c))
  <2>1. Latest(c) # 0
    BY <1>1, <1>2, <1>5 DEF Complete, SuitesOrdered
  <2>2. c.status.last = 0 \/ c.status.last < Latest(c)
    <3>1. CASE c.status.last # 0
      <4>1. PICK s \in c.selected : suite[s].latest = Latest(c)
        BY <1>2
      <4>2. /\ s \in Suites /\ suite[s].earliest > c.status.last
            /\ suite[s].earliest <= suite[s].latest /\ suite[s].earliest \in Nat
        BY <1>1, <1>5, <3>1, BoundsAssumption DEF Advanced, SuitesOrdered, Suite, Time
      <4> QED
        BY <1>1, <1>2, <4>1, <4>2
    <3> QED
      BY <3>1
  <2>3. LET new == NewScan(c, Latest(c)) IN
        /\ new \in Baseline
        /\ Honest(new.status) /\ AllOrdered(new.status, new.status.last)
        /\ new.status.last = Latest(c) /\ NextBase(c.status, new.status)
        /\ AllOf(c.status, c.stamp) =>
              AllOf(new.status, new.stamp) /\ Frozen(c.status, new.status)
    BY <1>2, <2>1, <2>2, NewScanKeeps DEF Sound
  <2>4. Later(c.status, NewScan(c, Latest(c)).status)
    BY <1>1, <1>2, <2>2, <2>3 DEF Later
  <2> QED
    BY <1>5, <2>3, <2>4 DEF Follows, Sound
<1> QED
  BY <1>3, <1>4, <1>5 DEF Recorded

\* recordHistory leaves the stamp, or makes it the mode it scores in.
LEMMA RecordedStamp ==
    ASSUME NEW c \in Baseline
    PROVE  Recorded(c).mode = c.mode /\ Recorded(c).stamp \in {c.stamp, c.mode}
<1>1. LateResults(c).mode = c.mode /\ LateResults(c).stamp \in {c.stamp, c.mode}
  BY DEF LateResults, Baseline
<1>2. \A t : NewScan(c, t).mode = c.mode /\ NewScan(c, t).stamp = c.mode
  BY DEF NewScan, Baseline
<1> QED
  BY <1>1, <1>2 DEF Recorded

LEMMA RolledKeeps ==
    ASSUME NEW c \in Baseline, Sound(c.status)
    PROVE  LET new == Rolled(c) IN
           /\ new \in Baseline /\ new.selected = c.selected /\ new.stamp = c.stamp
           /\ Sound(new.status)
           /\ new.status.last = c.status.last /\ new.status.previous = c.status.previous
           /\ new.status.history = c.status.history
           /\ \A mode : AllOf(c.status, mode) => AllOf(new.status, mode)
<1> DEFINE new == Rolled(c)
           P   == [s \in Suites |-> IF s \in c.selected THEN c.status.profiles[s] ELSE <<>>]
           newlyFailed == IF c.selected = {} THEN {} ELSE c.status.newlyFailed
           fixed == IF c.selected = {} THEN {} ELSE c.status.fixed
<1>1. P \in [Suites -> Ring] /\ newlyFailed \in SUBSET Checks /\ fixed \in SUBSET Checks
  BY BaselineFields, NoRingsType
<1>2. \A s \in Suites : P[s] = c.status.profiles[s] \/ P[s] = <<>>
  OBVIOUS
<1>3. new = [c EXCEPT !.status = [c.status EXCEPT !.profiles = P,
                                                  !.newlyFailed = newlyFailed,
                                                  !.fixed = fixed]]
  BY BaselineFields DEF Rolled, Baseline, Status
<1>4. \/ newlyFailed = {} /\ fixed = {}
      \/ newlyFailed = c.status.newlyFailed /\ fixed = c.status.fixed
  OBVIOUS
<1> HIDE DEF P, newlyFailed, fixed
<1>5. /\ new \in Baseline /\ new.selected = c.selected /\ new.stamp = c.stamp
      /\ new.status.profiles = P /\ new.status.history = c.status.history
      /\ new.status.last = c.status.last /\ new.status.previous = c.status.previous
      /\ new.status.base = c.status.base /\ new.status.baseTime = c.status.baseTime
      /\ new.status.newlyFailed = newlyFailed /\ new.status.fixed = fixed
  <2> DEFINE status == [c.status EXCEPT !.profiles = P, !.newlyFailed = newlyFailed,
                                        !.fixed = fixed]
  <2>1. c.status \in Status
    BY BaselineFields
  <2>2. /\ status \in Status
        /\ status.profiles = P /\ status.history = c.status.history
        /\ status.last = c.status.last /\ status.previous = c.status.previous
        /\ status.base = c.status.base /\ status.baseTime = c.status.baseTime
        /\ status.newlyFailed = newlyFailed /\ status.fixed = fixed
    BY <1>1, <2>1 DEF Status
  <2> HIDE DEF status
  <2>3. new = [c EXCEPT !.status = status]
    BY <1>3 DEF status
  <2>4. /\ new \in Baseline /\ new.selected = c.selected /\ new.stamp = c.stamp
        /\ new.status = status
    BY <2>2, <2>3 DEF Baseline
  <2> QED
    BY <2>2, <2>4
<1> HIDE DEF new
<1>6. Honest(new.status)
  BY <1>4, <1>5 DEF Honest, Sound
<1>7. AllOrdered(new.status, new.status.last)
  BY <1>2, <1>5, NoPoints DEF Sound, AllOrdered
<1>8. \A mode : AllOf(c.status, mode) => AllOf(new.status, mode)
  BY <1>2, <1>5, NoPoints DEF AllOf
<1> QED
  BY <1>5, <1>6, <1>7, <1>8 DEF Sound, new

----------------------------------------------------------------------------
(* The inductive invariant *)

\* Where a reconcile has a copy of the status that it may still write.
Pending == pc \in {"results", "suites", "status"}

\* Before recordHistory the copy has the scan and the points that are stored.
CopyCurrent ==
    pc \in {"results", "suites"} =>
        /\ cb.stamp = cr.stamp
        /\ cb.status.last = cr.status.last /\ cb.status.previous = cr.status.previous
        /\ cb.status.history = cr.status.history

\* A stamp that is due is the mode this reconcile scores in.
StampIsMode == pc = "status" => cb.stamp \in {cr.stamp, cb.mode}

\* As long as every stamp was written, and in the mode of its rings, all points
\* carry one mode: that of the stamp, or of the stamp that is about to follow.
OneMode ==
    /\ pc # "stamp" => AllOf(cr.status, cr.stamp)
    /\ pc = "stamp" => AllOf(cr.status, cb.mode)
    /\ Pending => AllOf(cb.status, cb.stamp) /\ Frozen(cr.status, cb.status)

HistInv ==
    /\ TypeOK /\ SuitesOrdered
    /\ Sound(cr.status)
    /\ CopyCurrent /\ StampIsMode
    /\ pc = "suites" => cb.selected # {}
    /\ Pending => Follows(cr.status, cb.status)
    /\ WellStamped => OneMode

LEMMA NoStatusType == NoStatus \in Status
BY NoRingsType, ZeroTime DEF NoStatus, Status

LEMMA NewBaselineType == NewBaseline \in Baseline
BY NoStatusType DEF NewBaseline, Baseline, Modes

LEMMA NoResultsType == NoResults \in [Checks -> Results]
BY DEF NoResults, Results

LEMMA NoStatusSound ==
    ASSUME NEW c \in Baseline
    PROVE  /\ Follows(c.status, NoStatus)
           /\ \A mode : AllOf(NoStatus, mode)
           /\ Frozen(c.status, NoStatus)
<1>1. \A mode : AllOf(NoStatus, mode)
  BY NoPoints DEF AllOf, NoStatus, NoRings
<1>2. AllOrdered(NoStatus, NoStatus.last)
  BY NoPoints DEF AllOrdered, NoStatus, NoRings
<1>3. Frozen(c.status, NoStatus)
  BY DEF Frozen, NoStatus
<1> QED
  BY <1>1, <1>2, <1>3 DEF Follows, Sound, Honest, Later, NextBase, NoStatus

LEMMA HistInvInit ==
    ASSUME Init
    PROVE  HistInv
<1>1. TypeOK
  BY NewBaselineType, NoResultsType, ZeroTime, BoundsAssumption
     DEF Init, TypeOK, Suite, NoSuite
<1>2. SuitesOrdered
  BY DEF Init, SuitesOrdered, NoSuite
<1>3. NewBaseline.status = NoStatus /\ NewBaseline.stamp = ""
  BY DEF NewBaseline
<1>4. Sound(cr.status) /\ OneMode
  BY <1>3, NewBaselineType, NoStatusSound DEF Init, Follows, OneMode, Pending
<1> QED
  BY <1>1, <1>2, <1>4 DEF Init, HistInv, CopyCurrent, StampIsMode, Pending

----------------------------------------------------------------------------
(* The steps *)

\* Nothing of the status, the stamp and the reconcile changes.
LEMMA OutsideKeeps ==
    ASSUME HistInv, TypeOK', SuitesOrdered', UNCHANGED <<pc, cb, stamps>>,
           cr'.status = cr.status, cr'.stamp = cr.stamp
    PROVE  HistInv'
BY DEF HistInv, CopyCurrent, StampIsMode, Pending, OneMode, WellStamped, stamps

LEMMA FinishKeeps ==
    ASSUME HistInv, TypeOK', UNCHANGED suite, Finish, Sound(cr'.status),
           WellStamped' => AllOf(cr'.status, cr'.stamp)
    PROVE  HistInv'
<1>1. SuitesOrdered'
  BY DEF HistInv, SuitesOrdered
<1>2. WellStamped' => OneMode'
  BY DEF OneMode, Finish, Pending
<1> QED
  BY <1>1, <1>2 DEF HistInv, Finish, CopyCurrent, StampIsMode, Pending

LEMMA FinishType ==
    ASSUME TypeOK, Finish, cr' \in Baseline, UNCHANGED <<cluster, moves>>,
           disruptions' \in Nat, lost' \in BOOLEAN, ahead' \in BOOLEAN
    PROVE  TypeOK'
BY NewBaselineType, NoResultsType DEF TypeOK, Finish, cluster

LEMMA DisruptType ==
    ASSUME TypeOK, Disrupt \/ Quiet
    PROVE  disruptions' \in Nat
BY DEF TypeOK, Disrupt, Quiet

LEMMA BeginKeeps ==
    ASSUME HistInv, Begin
    PROVE  HistInv'
<1>1. TypeOK' /\ SuitesOrdered'
  BY DEF HistInv, Begin, TypeOK, SuitesOrdered, cluster, stamps
<1>2. cr.status.last \in Nat
  <2>1. cr.status.last \in Time
    BY BaselineFields DEF HistInv, TypeOK
  <2> QED
    BY <2>1, BoundsAssumption DEF Time
<1>3. Follows(cr.status, cr.status)
  BY <1>2 DEF HistInv, Follows, Later, NextBase
<1>4. WellStamped => AllOf(cr.status, cr.stamp) /\ Frozen(cr.status, cr.status)
  BY SameMode DEF HistInv, OneMode, Begin
<1>5. WellStamped' => WellStamped
  BY DEF Begin, WellStamped, stamps
<1> QED
  BY <1>1, <1>3, <1>4, <1>5 DEF HistInv, Begin, CopyCurrent, StampIsMode, Pending, OneMode

\* The copy of the status changes, what is stored does not.
LEMMA CopyKeeps ==
    ASSUME HistInv, UNCHANGED <<cr, cluster, rvOK, stamps, moves>>,
           cb' \in Baseline, tally' \in [Checks -> Results], disruptions' \in Nat,
           pc' \in {"suites", "status"}, pc # "stamp",
           pc' = "suites" => /\ cb'.selected # {} /\ cb'.stamp = cr.stamp
                             /\ cb'.status.last = cr.status.last
                             /\ cb'.status.previous = cr.status.previous
                             /\ cb'.status.history = cr.status.history,
           cb'.stamp \in {cr.stamp, cb'.mode}, Follows(cr.status, cb'.status),
           WellStamped => AllOf(cb'.status, cb'.stamp) /\ Frozen(cr.status, cb'.status)
    PROVE  HistInv'
<1>1. TypeOK' /\ SuitesOrdered'
  BY DEF HistInv, TypeOK, SuitesOrdered, cluster, stamps
<1>2. WellStamped' => OneMode'
  BY DEF HistInv, OneMode, WellStamped, stamps
<1> QED
  BY <1>1, <1>2 DEF HistInv, CopyCurrent, StampIsMode, Pending

LEMMA ReadResultsKeeps ==
    ASSUME HistInv, ReadResults
    PROVE  HistInv'
<1>1. /\ cb \in Baseline /\ cr \in Baseline /\ cb.stamp = cr.stamp
      /\ cb.status.last = cr.status.last /\ cb.status.previous = cr.status.previous
      /\ cb.status.history = cr.status.history
      /\ Follows(cr.status, cb.status) /\ Sound(cb.status) /\ pc = "results"
      /\ WellStamped => AllOf(cb.status, cb.stamp) /\ Frozen(cr.status, cb.status)
      /\ result \in [Checks -> Results] /\ tally \in [Checks -> Results]
  BY DEF HistInv, ReadResults, Pending, Follows, TypeOK, CopyCurrent, OneMode
<1>2. disruptions' \in Nat /\ UNCHANGED <<cr, cluster, rvOK, stamps, moves>>
  BY DisruptType DEF HistInv, ReadResults
<1>3. CASE /\ tally' = result /\ cb' = Rolled(cb)
           /\ pc' = IF cb.selected = {} THEN "status" ELSE "suites"
  <2>1. LET new == Rolled(cb) IN
        /\ new \in Baseline /\ new.selected = cb.selected /\ new.stamp = cb.stamp
        /\ Sound(new.status)
        /\ new.status.last = cb.status.last /\ new.status.previous = cb.status.previous
        /\ new.status.history = cb.status.history
        /\ \A mode : AllOf(cb.status, mode) => AllOf(new.status, mode)
    BY <1>1, RolledKeeps
  <2>2. Follows(cr.status, cb'.status)
    <3>1. cr.status.last \in Time
      BY <1>1, BaselineFields
    <3>2. cr.status.last \in Nat
      BY <3>1, BoundsAssumption DEF Time
    <3> QED
      BY <1>1, <1>3, <2>1, <3>2 DEF Follows, Later, NextBase
  <2>3. Frozen(cr.status, cb.status) => Frozen(cr.status, cb'.status)
    BY <1>3, <2>1 DEF Frozen
  <2>4. pc' \in {"suites", "status"} /\ (pc' = "suites" => cb.selected # {})
    BY <1>3
  <2> QED
    BY <1>1, <1>2, <1>3, <2>1, <2>2, <2>3, <2>4, CopyKeeps
<1>4. CASE cb' = [cb EXCEPT !.status = NoStatus] /\ pc' = "status" /\ UNCHANGED tally
  <2>1. cb' \in Baseline /\ cb'.status = NoStatus /\ cb'.stamp = cb.stamp
    BY <1>1, <1>4, NoStatusType DEF Baseline
  <2>2. /\ Follows(cr.status, NoStatus) /\ AllOf(NoStatus, cb'.stamp)
        /\ Frozen(cr.status, NoStatus)
    BY <1>1, NoStatusSound
  <2> QED
    BY <1>1, <1>2, <1>4, <2>1, <2>2, CopyKeeps
<1>5. CASE pc' = "status" /\ UNCHANGED <<cb, tally>>
  BY <1>1, <1>2, <1>5, CopyKeeps
<1> QED
  BY <1>3, <1>4, <1>5 DEF ReadResults

LEMMA ReadSuitesKeeps ==
    ASSUME HistInv, ReadSuites
    PROVE  HistInv'
<1>1. /\ cb \in Baseline /\ cr \in Baseline /\ cb.stamp = cr.stamp
      /\ cb.status.last = cr.status.last /\ cb.status.previous = cr.status.previous
      /\ cb.status.history = cr.status.history
      /\ Follows(cr.status, cb.status) /\ Sound(cb.status) /\ pc = "suites"
      /\ cb.selected # {} /\ suite \in [Suites -> Suite] /\ SuitesOrdered
      /\ WellStamped => AllOf(cb.status, cb.stamp) /\ Frozen(cr.status, cb.status)
  BY DEF HistInv, ReadSuites, Pending, Follows, TypeOK, CopyCurrent, OneMode
<1>2. /\ disruptions' \in Nat /\ UNCHANGED <<cr, cluster, rvOK, stamps, moves>>
      /\ pc' = "status" /\ tally' \in [Checks -> Results]
  BY DisruptType, NoResultsType DEF HistInv, ReadSuites
<1>3. CASE cb' = Recorded(cb)
  <2>1. /\ Recorded(cb) \in Baseline
        /\ Follows(cb.status, Recorded(cb).status)
        /\ AllOf(cb.status, cb.stamp) =>
              /\ AllOf(Recorded(cb).status, Recorded(cb).stamp)
              /\ Frozen(cb.status, Recorded(cb).status)
    BY <1>1, RecordedKeeps
  <2>0. Recorded(cb).stamp \in {cr.stamp, Recorded(cb).mode}
    BY <1>1, RecordedStamp
  <2>2. Follows(cr.status, cb'.status)
    BY <1>1, <1>3, <2>1 DEF Follows, Later, NextBase
  <2>3. Frozen(cb.status, Recorded(cb).status) => Frozen(cr.status, cb'.status)
    BY <1>1, <1>3 DEF Frozen
  <2> QED
    BY <1>1, <1>2, <1>3, <2>0, <2>1, <2>2, <2>3, CopyKeeps
<1>4. CASE UNCHANGED cb
  BY <1>1, <1>2, <1>4, CopyKeeps
<1> QED
  BY <1>3, <1>4 DEF ReadSuites

\* The status in memory becomes the one that is stored.
LEMMA WrittenIs ==
    ASSUME HistInv, pc = "status", NEW written, written = [cr EXCEPT !.status = cb.status]
    PROVE  /\ written \in Baseline /\ written.status = cb.status /\ written.stamp = cr.stamp
           /\ written.mode = cr.mode
           /\ Sound(written.status)
           /\ WellStamped => AllOf(written.status, cb.stamp)
           /\ cb.stamp \in {cr.stamp, cb.mode}
<1>1. cr \in Baseline /\ cb \in Baseline /\ cb.status \in Status
  BY BaselineFields DEF HistInv, TypeOK
<1>2. Sound(cb.status) /\ (WellStamped => AllOf(cb.status, cb.stamp))
  BY DEF HistInv, Pending, Follows, OneMode
<1>3. /\ written \in Baseline /\ written.status = cb.status /\ written.stamp = cr.stamp
      /\ written.mode = cr.mode
  BY <1>1 DEF Baseline
<1> QED
  BY <1>1, <1>2, <1>3 DEF HistInv, StampIsMode

LEMMA StatusWriteKeeps ==
    ASSUME HistInv, StatusWrite
    PROVE  HistInv'
<1> DEFINE written == [cr EXCEPT !.status = cb.status]
<1>1. /\ TypeOK /\ pc = "status" /\ disruptions' \in Nat /\ UNCHANGED <<cluster, moves>>
      /\ UNCHANGED suite
  BY DisruptType DEF HistInv, StatusWrite, cluster
<1>2. /\ written \in Baseline /\ written.status = cb.status /\ written.stamp = cr.stamp
      /\ written.mode = cr.mode
      /\ Sound(written.status)
      /\ WellStamped => AllOf(written.status, cb.stamp)
      /\ cb.stamp \in {cr.stamp, cb.mode}
  BY <1>1, WrittenIs
<1>3. /\ cr \in Baseline /\ Sound(cr.status) /\ lost \in BOOLEAN /\ ahead \in BOOLEAN
      /\ WellStamped => AllOf(cr.status, cr.stamp)
  BY <1>1 DEF HistInv, TypeOK, OneMode
<1> HIDE DEF written
<1>4. CASE UNCHANGED <<cr, stamps>> /\ Finish
  <2>1. TypeOK'
    BY <1>1, <1>3, <1>4, FinishType DEF stamps
  <2>2. WellStamped' => WellStamped
    BY <1>4 DEF WellStamped, stamps
  <2> QED
    BY <1>1, <1>3, <1>4, <2>1, <2>2, FinishKeeps
<1>5. CASE cr' = written /\ Finish /\ lost' = (lost \/ cb.stamp # cr.stamp) /\ UNCHANGED ahead
  <2>1. TypeOK'
    BY <1>1, <1>2, <1>3, <1>5, FinishType
  <2>2. WellStamped' => WellStamped /\ cb.stamp = cr.stamp
    BY <1>3, <1>5 DEF WellStamped
  <2> QED
    BY <1>1, <1>2, <1>3, <1>5, <2>1, <2>2, FinishKeeps
<1>6. CASE cb.stamp = cr.stamp /\ cr' = written /\ Finish /\ UNCHANGED stamps
  <2>1. TypeOK'
    BY <1>1, <1>2, <1>3, <1>6, FinishType DEF stamps
  <2>2. WellStamped' => WellStamped
    BY <1>6 DEF WellStamped, stamps
  <2> QED
    BY <1>1, <1>2, <1>3, <1>6, <2>1, <2>2, FinishKeeps
<1>7. CASE /\ cb.stamp # cr.stamp /\ cr' = written /\ pc' = "stamp" /\ cb' = written
           /\ ahead' = (ahead \/ written.mode # cb.mode) /\ UNCHANGED <<tally, rvOK, lost>>
  <2>1. TypeOK' /\ SuitesOrdered'
    BY <1>1, <1>2, <1>3, <1>7 DEF TypeOK, SuitesOrdered, HistInv, cluster
  <2>2. WellStamped' => WellStamped /\ written.mode = cb.mode
    BY <1>3, <1>7 DEF WellStamped
  <2>3. WellStamped' => AllOf(cr'.status, cb'.mode)
    BY <1>2, <1>7, <2>2
  <2> QED
    BY <1>2, <1>7, <2>1, <2>3 DEF HistInv, CopyCurrent, StampIsMode, Pending, OneMode
<1> QED
  BY <1>4, <1>5, <1>6, <1>7 DEF StatusWrite, written

LEMMA StampWriteKeeps ==
    ASSUME HistInv, StampWrite
    PROVE  HistInv'
<1>1. /\ TypeOK /\ disruptions' \in Nat /\ UNCHANGED <<cluster, moves>> /\ UNCHANGED suite
      /\ cr \in Baseline /\ cb \in Baseline /\ Finish /\ pc = "stamp"
      /\ lost \in BOOLEAN /\ ahead' = ahead /\ ahead \in BOOLEAN
  BY DisruptType DEF HistInv, StampWrite, cluster, TypeOK
<1>2. /\ Stamped(cb.mode) \in Baseline /\ Stamped(cb.mode).status = cr.status
      /\ Stamped(cb.mode).stamp = cb.mode
  BY <1>1, BaselineFields DEF Stamped, Baseline
<1>3. Sound(cr.status) /\ (WellStamped => AllOf(cr.status, cb.mode))
  BY <1>1 DEF HistInv, OneMode
<1>4. CASE cr' = Stamped(cb.mode) /\ lost' = lost
  <2>1. TypeOK'
    BY <1>1, <1>2, <1>4, FinishType
  <2>2. WellStamped' => WellStamped
    BY <1>1, <1>4 DEF WellStamped
  <2> QED
    BY <1>1, <1>2, <1>3, <1>4, <2>1, <2>2, FinishKeeps
<1>5. CASE cr' = cr /\ lost' = TRUE
  <2>1. TypeOK'
    BY <1>1, <1>5, FinishType
  <2>2. ~WellStamped'
    BY <1>5 DEF WellStamped
  <2> QED
    BY <1>1, <1>3, <1>5, <2>1, <2>2, FinishKeeps
<1> QED
  BY <1>4, <1>5 DEF StampWrite

LEMMA CrashKeeps ==
    ASSUME HistInv, Crash
    PROVE  HistInv'
<1>1. /\ TypeOK /\ disruptions' \in Nat /\ UNCHANGED <<cluster, moves>> /\ UNCHANGED suite
      /\ cr \in Baseline /\ Finish /\ cr' = cr
      /\ lost \in BOOLEAN /\ ahead' = ahead /\ ahead \in BOOLEAN /\ lost' = (lost \/ pc = "stamp")
  BY DisruptType DEF HistInv, Crash, cluster, TypeOK
<1>2. WellStamped' => WellStamped /\ pc # "stamp"
  BY <1>1 DEF WellStamped
<1>3. Sound(cr.status) /\ (WellStamped' => AllOf(cr.status, cr.stamp))
  BY <1>2 DEF HistInv, OneMode
<1>4. TypeOK'
  BY <1>1, FinishType
<1> QED
  BY <1>1, <1>3, <1>4, FinishKeeps

LEMMA BatchWritesKeeps ==
    ASSUME HistInv, BatchWrites
    PROVE  HistInv'
<1>1. TypeOK' /\ SuitesOrdered'
  BY DEF HistInv, BatchWrites, TypeOK, SuitesOrdered, cluster, stamps
<1> QED
  BY <1>1, OutsideKeeps DEF BatchWrites

LEMMA EditKeeps ==
    ASSUME HistInv, NEW new \in Baseline, Edit(new),
           new.status = cr.status, new.stamp = cr.stamp
    PROVE  HistInv'
<1>1. TypeOK' /\ SuitesOrdered'
  <2>1. moves' \in Nat
    BY DEF HistInv, Edit, Move, TypeOK
  <2> QED
    BY <2>1 DEF HistInv, Edit, Reconciler, TypeOK, SuitesOrdered, cluster, stamps
<1> QED
  BY <1>1, OutsideKeeps DEF Edit, Reconciler

LEMMA RescoreKeeps ==
    ASSUME HistInv, Rescore
    PROVE  HistInv'
<1>1. PICK mode \in Modes : Edit([cr EXCEPT !.mode = mode])
  BY DEF Rescore
<1>2. /\ [cr EXCEPT !.mode = mode] \in Baseline
      /\ [cr EXCEPT !.mode = mode].status = cr.status
      /\ [cr EXCEPT !.mode = mode].stamp = cr.stamp
  BY DEF HistInv, TypeOK, Baseline
<1> QED
  BY <1>1, <1>2, EditKeeps

LEMMA SelectKeeps ==
    ASSUME HistInv, Select
    PROVE  HistInv'
<1>1. PICK s \in Suites :
          Edit([cr EXCEPT !.selected = IF s \in @ THEN @ \ {s} ELSE @ \union {s}])
  BY DEF Select
<1> DEFINE new == [cr EXCEPT !.selected = IF s \in @ THEN @ \ {s} ELSE @ \union {s}]
<1>2. new \in Baseline /\ new.status = cr.status /\ new.stamp = cr.stamp
  BY DEF HistInv, TypeOK, Baseline
<1> QED
  BY <1>1, <1>2, EditKeeps

\* Scans, results and CRDs change, nothing of the operator does.
LEMMA ClusterKeeps ==
    ASSUME HistInv, Outside, suite' \in [Suites -> Suite], SuitesOrdered',
           result' \in [Checks -> Results], crds' \in BOOLEAN, now' \in Time, moves' \in Nat
    PROVE  HistInv'
<1>1. TypeOK'
  BY DEF HistInv, Outside, Reconciler, TypeOK, stamps
<1> QED
  BY <1>1, OutsideKeeps DEF Outside, Reconciler

LEMMA ScanStartsKeeps ==
    ASSUME HistInv, NEW s \in Suites, ScanStarts(s)
    PROVE  HistInv'
<1>1. suite \in [Suites -> Suite] /\ suite[s] \in Suite
  BY DEF HistInv, TypeOK
<1>2. suite' = [suite EXCEPT ![s] = [suite[s] EXCEPT !.phase = "running"]]
  BY <1>1 DEF ScanStarts
<1>3. suite' \in [Suites -> Suite]
  BY <1>1, <1>2 DEF Suite
<1>4. SuitesOrdered'
  BY <1>1, <1>2 DEF HistInv, SuitesOrdered, Suite
<1> QED
  BY <1>3, <1>4, ClusterKeeps DEF ScanStarts, HistInv, TypeOK

LEMMA ScanEndsKeeps ==
    ASSUME HistInv, NEW s \in Suites, ScanEnds(s)
    PROVE  HistInv'
<1>1. /\ suite \in [Suites -> Suite] /\ suite[s].earliest \in Time /\ suite[s].latest \in Time
      /\ suite[s].earliest <= suite[s].latest /\ result \in [Checks -> Results]
      /\ crds \in BOOLEAN /\ moves \in Nat
  BY DEF HistInv, TypeOK, SuitesOrdered, Suite
<1>2. /\ now' \in Time /\ now' > suite[s].latest /\ now' # 0
      /\ suite[s].latest \in Nat /\ suite[s].earliest \in Nat /\ now' \in Nat
  BY <1>1, BoundsAssumption DEF ScanEnds, Time
<1>3. PICK e \in {now', suite[s].earliest} :
          suite' = [suite EXCEPT ![s] = [phase |-> "DONE", earliest |-> e, latest |-> now']]
  BY DEF ScanEnds
<1>4. e \in Time /\ e <= now'
  BY <1>1, <1>2
<1>5. suite' \in [Suites -> Suite]
  BY <1>1, <1>2, <1>3, <1>4 DEF Suite
<1>6. SuitesOrdered'
  BY <1>1, <1>2, <1>3, <1>4 DEF HistInv, SuitesOrdered
<1>7. result' \in [Checks -> Results]
  <2>1. PICK r \in [Checks -> {"PASS", "FAIL"}] :
            result' = [c \in Checks |-> IF SuiteOf[c] = s THEN r[c] ELSE result[c]]
    BY DEF ScanEnds
  <2> QED
    BY <1>1, <2>1 DEF Results
<1>8. Outside /\ UNCHANGED <<crds, moves>>
  BY DEF ScanEnds
<1> QED
  BY <1>1, <1>2, <1>5, <1>6, <1>7, <1>8, ClusterKeeps

LEMMA ResultArrivesKeeps ==
    ASSUME HistInv, NEW c \in Checks, ResultArrives(c)
    PROVE  HistInv'
<1>1. result' \in [Checks -> Results] /\ moves' \in Nat
  BY DEF HistInv, TypeOK, ResultArrives, Move
<1>2. SuitesOrdered'
  BY DEF HistInv, SuitesOrdered, ResultArrives
<1> QED
  BY <1>1, <1>2, ClusterKeeps DEF HistInv, TypeOK, ResultArrives

LEMMA SuiteVanishesKeeps ==
    ASSUME HistInv, NEW s \in Suites, SuiteVanishes(s)
    PROVE  HistInv'
<1>1. suite \in [Suites -> Suite] /\ suite' = [suite EXCEPT ![s] = NoSuite]
  BY DEF HistInv, TypeOK, SuiteVanishes
<1>2. suite' \in [Suites -> Suite]
  BY <1>1, ZeroTime DEF Suite, NoSuite
<1>3. SuitesOrdered'
  BY <1>1 DEF HistInv, SuitesOrdered, NoSuite
<1>4. result' \in [Checks -> Results] /\ moves' \in Nat
  BY DEF HistInv, TypeOK, SuiteVanishes, Move, Results
<1> QED
  BY <1>2, <1>3, <1>4, ClusterKeeps DEF HistInv, TypeOK, SuiteVanishes

LEMMA CRDsChangeKeeps ==
    ASSUME HistInv, CRDsChange
    PROVE  HistInv'
<1>1. suite' = [s \in Suites |-> NoSuite] /\ NoSuite \in Suite
  BY ZeroTime DEF CRDsChange, Suite, NoSuite
<1>2. suite' \in [Suites -> Suite] /\ SuitesOrdered'
  BY <1>1 DEF SuitesOrdered, NoSuite
<1>3. result' \in [Checks -> Results] /\ moves' \in Nat /\ crds' \in BOOLEAN
  BY NoResultsType DEF HistInv, TypeOK, CRDsChange, Move
<1> QED
  BY <1>2, <1>3, ClusterKeeps DEF HistInv, TypeOK, CRDsChange

LEMMA HistInvStep ==
    ASSUME HistInv, [Next]_vars
    PROVE  HistInv'
<1>1. CASE Operator
  BY <1>1, BeginKeeps, ReadResultsKeeps, ReadSuitesKeeps, StatusWriteKeeps, StampWriteKeeps
     DEF Operator
<1>2. CASE BatchWrites
  BY <1>2, BatchWritesKeeps
<1>3. CASE Crash
  BY <1>3, CrashKeeps
<1>4. CASE Environment
  BY <1>4, RescoreKeeps, SelectKeeps, CRDsChangeKeeps, ScanStartsKeeps, ScanEndsKeeps,
     SuiteVanishesKeeps, ResultArrivesKeeps
     DEF Environment
<1>5. CASE UNCHANGED vars
  <2>1. TypeOK' /\ SuitesOrdered'
    BY <1>5 DEF vars, HistInv, TypeOK, SuitesOrdered
  <2> QED
    BY <1>5, <2>1, OutsideKeeps DEF vars, stamps
<1> QED
  BY <1>1, <1>2, <1>3, <1>4, <1>5 DEF Next

----------------------------------------------------------------------------
(* Theorems *)

\* The invariant holds: what the next reconcile starts from, and what a running
\* one may still write, keep the promises of recordHistory.
THEOREM HistoryHolds == Spec => []HistInv
<1>1. Init => HistInv
  BY HistInvInit
<1>2. HistInv /\ [Next]_vars => HistInv'
  BY HistInvStep
<1> QED
  BY <1>1, <1>2, PTL DEF Spec

\* Every variable keeps to its type.
THEOREM HistoryTyped == Spec => []TypeOK
<1>1. HistInv => TypeOK
  BY DEF HistInv
<1> QED
  BY <1>1, HistoryHolds, PTL

\* Every ring has one point for a scan, in the order of the scans, and no more
\* points than it may have.
THEOREM PointsAreOrdered == Spec => []PointsOrdered
<1>1. HistInv => PointsOrdered
  BY DEF HistInv, Sound, AllOrdered, PointsOrdered, Rings
<1> QED
  BY <1>1, HistoryHolds, PTL

\* The reported regressions and fixes are the difference of the newest scan to
\* the one before, or nothing.
THEOREM DiffIsHonest == Spec => []DiffHonest
<1>1. HistInv => DiffHonest
  BY DEF HistInv, Sound, DiffHonest
<1> QED
  BY <1>1, HistoryHolds, PTL

\* While every stamp was written, and in the mode of its rings, no ring has
\* scores of two scoring modes.
THEOREM RingsStayUniform == Spec => []UniformWhileStamped
<1>1. ASSUME HistInv, WellStamped, NEW ring \in Rings(cr)
      PROVE  Uniform(ring)
  <2>1. PICK mode : AllOf(cr.status, mode)
    BY <1>1 DEF HistInv, OneMode
  <2>2. OfMode(ring, mode)
    BY <1>1, <2>1 DEF AllOf, Rings
  <2> QED
    BY <2>2 DEF OfMode, Uniform
<1>2. HistInv => UniformWhileStamped
  BY <1>1 DEF UniformWhileStamped, RingsUniform
<1> QED
  BY <1>2, HistoryHolds, PTL

\* Without batches, a resourceVersion that is current means that nothing was
\* edited since the reconcile began, and that a stamp that is due is the mode of
\* the rings.
UneditedInv ==
    /\ TypeOK
    /\ Pending /\ rvOK => cb.mode = cr.mode
    /\ ~ahead

LEMMA UneditedStep ==
    ASSUME Batches = FALSE, UneditedInv, TypeOK', [Next]_vars
    PROVE  UneditedInv'
<1>0. cb \in Baseline /\ cr \in Baseline
  BY DEF UneditedInv, TypeOK
<1>1. CASE Begin
  BY <1>1 DEF Begin, UneditedInv, Pending, stamps
<1>2. CASE ReadResults \/ ReadSuites
  <2>1. Rolled(cb).mode = cb.mode /\ [cb EXCEPT !.status = NoStatus].mode = cb.mode
    BY <1>0 DEF Rolled, Baseline
  <2>2. cb'.mode = cb.mode /\ UNCHANGED <<cr, rvOK, stamps>> /\ Pending
    BY <1>0, <1>2, <2>1, RecordedStamp DEF ReadResults, ReadSuites, Pending
  <2> QED
    BY <2>2 DEF UneditedInv, stamps
<1>3. CASE StatusWrite
  <2>1. [cr EXCEPT !.status = cb.status].mode = cr.mode
    BY <1>0 DEF Baseline
  <2>2. pc' \in {"idle", "stamp"}
    BY <1>3 DEF StatusWrite, Finish
  <2>3. /\ ahead' = ahead \/ ahead' = (ahead \/ [cr EXCEPT !.status = cb.status].mode # cb.mode)
        /\ ahead' # ahead => rvOK
        /\ ahead' \in BOOLEAN /\ ahead \in BOOLEAN /\ pc = "status"
    BY <1>3 DEF StatusWrite, UneditedInv, TypeOK, stamps
  <2>4. ~ahead'
    BY <2>1, <2>3 DEF UneditedInv, Pending
  <2> QED
    BY <2>2, <2>4 DEF UneditedInv, Pending
<1>4. CASE StampWrite \/ Crash
  BY <1>4 DEF StampWrite, Crash, Finish, UneditedInv, Pending
<1>5. CASE Rescore \/ Select
  BY <1>5 DEF Rescore, Select, Edit, Reconciler, stamps, UneditedInv
<1>6. CASE UNCHANGED <<cr, cb, pc, rvOK, stamps>>
  BY <1>6 DEF UneditedInv, Pending, stamps
<1> QED
  BY <1>1, <1>2, <1>3, <1>4, <1>5, <1>6
     DEF Next, vars, stamps, Operator, BatchWrites, Environment, CRDsChange, ScanStarts, ScanEnds,
         SuiteVanishes, ResultArrives, Outside, Reconciler

\* Without batches no stamp is written in another mode than its rings: it never
\* leads the history it guards.
THEOREM StampNeverLeads == ASSUME Batches = FALSE PROVE Spec => []~ahead
<1>1. Init => UneditedInv
  BY HistInvInit DEF HistInv, UneditedInv, Init, Pending
<1>2. UneditedInv /\ TypeOK' /\ [Next]_vars => UneditedInv'
  BY UneditedStep
<1>3. UneditedInv => ~ahead
  BY DEF UneditedInv
<1> QED
  BY <1>1, <1>2, <1>3, HistoryTyped, PTL DEF Spec

\* A stamp is lost only by a failed call or a crash.
LEMMA LostTakesDisruption == Spec => [](lost => disruptions < MaxDisruptions)
<1> DEFINE Inv == disruptions <= MaxDisruptions /\ (lost => disruptions < MaxDisruptions)
<1>1. Init => Inv
  BY BoundsAssumption DEF Init
<1>2. TypeOK /\ Inv /\ [Next]_vars => Inv'
  <2> SUFFICES ASSUME TypeOK, Inv, [Next]_vars PROVE Inv'
    OBVIOUS
  <2>1. disruptions \in Nat /\ MaxDisruptions \in Nat
    BY BoundsAssumption DEF TypeOK
  <2>2. CASE Disrupt
    BY <2>1, <2>2 DEF Disrupt
  <2>3. CASE Quiet /\ UNCHANGED lost
    BY <2>1, <2>3 DEF Quiet
  <2> QED
    BY <2>2, <2>3
       DEF Next, vars, stamps, Quiet, Operator, Begin, ReadResults, ReadSuites, StatusWrite,
           StampWrite, BatchWrites, Crash, Environment, Rescore, Select, Edit, CRDsChange,
           ScanStarts, ScanEnds, SuiteVanishes, ResultArrives, Outside, Reconciler
<1>3. Inv => (lost => disruptions < MaxDisruptions)
  OBVIOUS
<1> HIDE DEF Inv
<1> QED
  BY <1>1, <1>2, <1>3, HistoryTyped, PTL DEF Spec

\* Without batches, and as long as no call failed and nothing crashed, no ring
\* mixes scoring modes, with no further condition.
THEOREM UndisturbedIsUniform ==
    ASSUME Batches = FALSE
    PROVE  Spec => [](disruptions = MaxDisruptions => RingsUniform)
<1>1. ~ahead /\ UniformWhileStamped /\ (lost => disruptions < MaxDisruptions)
          => (disruptions = MaxDisruptions => RingsUniform)
  BY BoundsAssumption DEF UniformWhileStamped, WellStamped
<1> QED
  BY <1>1, StampNeverLeads, RingsStayUniform, LostTakesDisruption, PTL

\* The stored status changes only by a status write, and follows the one before.
LEMMA StatusSteps ==
    ASSUME HistInv, [Next]_vars
    PROVE  \/ cr'.status = cr.status
           \/ /\ Follows(cr.status, cr'.status)
              /\ WellStamped' => Frozen(cr.status, cr'.status)
<1>1. cr \in Baseline
  BY DEF HistInv, TypeOK
<1>2. CASE StatusWrite
  <2>1. /\ cr' \in {cr, [cr EXCEPT !.status = cb.status]} /\ pc = "status"
        /\ WellStamped' => WellStamped
    BY <1>2 DEF StatusWrite, stamps, WellStamped, HistInv, TypeOK
  <2>2. Follows(cr.status, cb.status) /\ (WellStamped => Frozen(cr.status, cb.status))
    BY <2>1 DEF HistInv, Pending, OneMode
  <2>3. [cr EXCEPT !.status = cb.status].status = cb.status
    BY <1>1 DEF Baseline
  <2> QED
    BY <2>1, <2>2, <2>3
<1>3. CASE StampWrite
  BY <1>1, <1>3 DEF StampWrite, Stamped, Baseline
<1>4. CASE Rescore \/ Select
  BY <1>1, <1>4 DEF Rescore, Select, Edit, Baseline
<1>5. CASE UNCHANGED cr
  BY <1>5
<1> QED
  BY <1>2, <1>3, <1>4, <1>5
     DEF Next, vars, Operator, Begin, ReadResults, ReadSuites, BatchWrites, Crash, Environment,
         CRDsChange, ScanStarts, ScanEnds, SuiteVanishes, ResultArrives, Outside

\* The time of the last scan goes back only when the whole history is cleared.
THEOREM TimeIsForward == Spec => TimeForward
<1>1. HistInv /\ [Next]_vars => [cr'.status = NoStatus \/ cr'.status.last >= cr.status.last]_vars
  <2> SUFFICES ASSUME HistInv, [Next]_vars
               PROVE  cr'.status = NoStatus \/ cr'.status.last >= cr.status.last
    OBVIOUS
  <2>1. cr.status.last \in Time
    BY BaselineFields DEF HistInv, TypeOK
  <2>2. cr.status.last \in Nat
    BY <2>1, BoundsAssumption DEF Time
  <2> QED
    BY <2>2, StatusSteps DEF Follows, Later
<1> QED
  BY <1>1, HistoryHolds, PTL DEF Spec, TimeForward

\* A new scan is compared with what the scan before ended up with.
THEOREM BaseFollows == Spec => BaseIsScanBefore
<1>1. HistInv /\ [Next]_vars =>
          [cr'.status.last # cr.status.last /\ cr.status.last # 0 /\ cr'.status # NoStatus
             => cr'.status.base = cr.status.previous /\ cr'.status.baseTime = cr'.status.last]_vars
  BY StatusSteps DEF Follows, NextBase
<1> QED
  BY <1>1, HistoryHolds, PTL DEF Spec, BaseIsScanBefore

LEMMA WellStampedBefore ==
    ASSUME HistInv, [Next]_vars, WellStamped'
    PROVE  WellStamped
<1>0. lost \in BOOLEAN /\ ahead \in BOOLEAN
  BY DEF HistInv, TypeOK
<1>1. CASE UNCHANGED stamps
  BY <1>1 DEF WellStamped, stamps
<1>2. CASE StatusWrite \/ StampWrite \/ Crash
  BY <1>0, <1>2 DEF StatusWrite, StampWrite, Crash, WellStamped, stamps
<1> QED
  BY <1>1, <1>2
     DEF Next, vars, stamps, Operator, Begin, ReadResults, ReadSuites, BatchWrites,
         Environment, Rescore, Select, Edit, CRDsChange, ScanStarts, ScanEnds,
         SuiteVanishes, ResultArrives, Outside, Reconciler

\* While every stamp was written, and in the mode of its rings, no recorded scan
\* is recomputed in the other mode.
THEOREM ScoresStayFrozen == Spec => ScoresFrozen
<1>1. ASSUME HistInv, [Next]_vars, WellStamped'
      PROVE  Frozen(cr.status, cr'.status)
  <2>1. CASE cr'.status = cr.status
    <3>1. \E mode : AllOf(cr.status, mode)
      BY <1>1, WellStampedBefore DEF HistInv, OneMode
    <3> QED
      BY <2>1, <3>1, SameMode
  <2> QED
    BY <1>1, <2>1, StatusSteps
<1>2. HistInv /\ [Next]_vars =>
          [WellStamped' =>
             \A i \in 1 .. Len(cr.status.history), j \in 1 .. Len(cr'.status.history) :
                 LET p == cr.status.history[i]  q == cr'.status.history[j] IN
                 p.time = q.time => p.score.mode = q.score.mode]_vars
  BY <1>1 DEF Frozen
<1> QED
  BY <1>2, HistoryHolds, PTL DEF Spec, ScoresFrozen

================================================================================
