------------------------------ MODULE ScoreTrend -------------------------------
(***************************************************************************)
(* What the console reads from the score and its history                     *)
(* (console-plugin/src/scoring.ts, overviewTrend.ts): the number in every      *)
(* place that shows one, its band, and the points of the trend.  The operator   *)
(* appends to the history, oldest first; a restored or edited status may hold   *)
(* its points in any order, and points that are no points.                      *)
(*                                                                              *)
(* Simplifications: a score is a number of Unit-ths, so that an edited one need   *)
(* not be whole; times are texts that are instants or not.                        *)
(***************************************************************************)
EXTENDS Lists, Integers, Sequences

CONSTANTS
    Absent,
    Instants,   \* times of history points
    Scores,     \* what a score may be, in Unit-ths: out of range and fractions included
    Unit,       \* parts of a whole score
    MaxPoints   \* bound: points in the history

VARIABLES
    history,    \* status.history, or the one of a profile
    score,      \* status.score
    mode,       \* spec.scoring.mode
    stamped     \* the mode the history was written in, an annotation

vars == <<history, score, mode, stamped>>

BadTime == 0

Points == [time : Instants \union {BadTime}, score : Scores \union {Absent}]

------------------------------------------------------------------------------

\* what is no number is no score; what is out of range is clamped
normalizeScore(v) ==
    CASE v = Absent -> Absent
      [] v # Absent /\ v < 0 -> 0
      [] v # Absent /\ v > 100 * Unit -> 100 * Unit
      [] OTHER -> v

Usable(point) == point.time # BadTime /\ normalizeScore(point.score) # Absent

\* the points of the trend chart, oldest first; those of one instant keep their order
toTrendData ==
    LET kept == Kept(history, {point \in Points : Usable(point)})
        before(i, j) == \/ kept[i].time < kept[j].time
                        \/ kept[i].time = kept[j].time /\ i < j
        order == Ordered(DOMAIN kept, {p \in (DOMAIN kept) \X (DOMAIN kept) : before(p[1], p[2])})
    IN  [i \in DOMAIN kept |->
            [x |-> kept[order[i]].time, y |-> normalizeScore(kept[order[i]].score)]]

\* Math.floor
Floor(v) == (v \div Unit) * Unit

\* the badge of a score card when its results are not there yet
latestSnapshotScore ==
    FoldLeft(LAMBDA latest, point :
                IF Usable(point) /\ point.time >= latest.time
                THEN [time |-> point.time, score |-> Floor(normalizeScore(point.score))]
                ELSE latest,
             [time |-> BadTime, score |-> Absent], history).score

effectiveScoringMode == IF mode = "SeverityWeighted" THEN "SeverityWeighted" ELSE "Flat"

\* the points were scored another way than the next one will be
historyScoringModeMismatch == stamped # Absent /\ stamped # effectiveScoringMode

\* the number a reader sees, and the colour of it
clusterScore == normalizeScore(score)

scoreStatus(v) ==
    CASE v = Absent -> "danger"
      [] v # Absent /\ v < 60 * Unit -> "danger"
      [] v # Absent /\ v >= 60 * Unit /\ v < 90 * Unit -> "warning"
      [] OTHER -> "success"

\* the chart is drawn from two points on, and says when they are not comparable
TrendChart ==
    IF Len(toTrendData) > 1
    THEN [from |-> Head(toTrendData), to |-> Last(toTrendData),
          note |-> historyScoringModeMismatch, colour |-> scoreStatus(clusterScore)]
    ELSE Absent

------------------------------------------------------------------------------
(* steps *)

\* a scan completes: the score is written, and a point with the time of the scan
Scanned ==
    /\ Len(history) < MaxPoints
    /\ \E v \in {n \in Scores : n \in 0..100 * Unit /\ Floor(n) = n}, t \in Instants :
        /\ \A i \in DOMAIN history : history[i].time <= t
        /\ score' = v
        /\ history' = Append(history, [time |-> t, score |-> v])
    /\ stamped' = effectiveScoringMode
    /\ UNCHANGED mode

\* the object is restored, or its status edited
Restored ==
    /\ \/ /\ \E i \in DOMAIN history, p \in Points : history' = [history EXCEPT ![i] = p]
          /\ UNCHANGED score
       \/ score' \in Scores \union {Absent} /\ UNCHANGED history
    /\ UNCHANGED <<mode, stamped>>

ModeChanges == mode' \in {"Flat", "SeverityWeighted", Absent} \ {mode} /\ UNCHANGED <<history, score, stamped>>

Next == Scanned \/ Restored \/ ModeChanges

Init == history = <<>> /\ score = Absent /\ mode = Absent /\ stamped = Absent

Spec == Init /\ [][Next]_vars

------------------------------------------------------------------------------
(* properties *)

\* The badge of a card and the last point of its trend, which two functions find
\* in two ways, are one point, whatever order the history is in and whatever is
\* wrong with its points; the badge rounds its score down, which changes none that
\* the operator wrote.
TrendAgrees ==
    latestSnapshotScore = IF toTrendData = <<>> THEN Absent ELSE Floor(Last(toTrendData).y)
===============================================================================
