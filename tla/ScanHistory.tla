------------------------------ MODULE ScanHistory ------------------------------
(***************************************************************************)
(* The scan history of the ClusterBaseline: score rings, the time of the   *)
(* last scan, the comparison with the scan before it, and the annotation   *)
(* that stamps the scoring mode of the rings (operator/internal/controller *)
(* aggregate.go, history.go, history_reconcile.go and the part of          *)
(* Reconcile that persists their outcome).                                 *)
(*                                                                         *)
(* A reconcile reads the check results, then the suites, and then writes   *)
(* the status and the stamp, one API call after the other; scans, users    *)
(* and crashes come in between.                                            *)
(*                                                                         *)
(* Abstractions:                                                           *)
(*  - every selected profile has one suite of its own name, and tailored   *)
(*    profiles, which the code treats in the same way, are profiles;       *)
(*  - a score is the scoring mode with the counted results it is computed  *)
(*    from; results that do not count are "NONE", waivers are left out;    *)
(*  - times are whole seconds, 0 is a time not set;                        *)
(*  - the steps of a reconcile before the aggregation do nothing here, but *)
(*    the batch may refresh the resourceVersion; an error behind it, in    *)
(*    checkScanStorage, changes nothing: the status is written either way; *)
(*  - the failure lists fit their budget, the informer cache is current.   *)
(***************************************************************************)
EXTENDS Integers, SequencesExt

CONSTANTS
    Suites,          \* profiles that can be selected, and their suites
    Checks,          \* the checks of all suites
    SuiteOf,         \* SuiteOf[c]: the suite check c belongs to
    HistoryMax,      \* the points a ring keeps
    Batches,         \* remediation batches run, and refresh the resourceVersion
    MaxTime,         \* bound: seconds
    MaxMoves,        \* bound: edits of users, changes of results and of suites
    MaxDisruptions   \* bound: failed calls and crashes

ASSUME SuitesAssumption == SuiteOf \in [Checks -> Suites]
ASSUME BoundsAssumption ==
    /\ HistoryMax \in Nat \ {0}
    /\ Batches \in BOOLEAN
    /\ MaxTime \in Nat /\ MaxMoves \in Nat /\ MaxDisruptions \in Nat

VARIABLES
    cr,          \* the stored ClusterBaseline
    suite,       \* the ComplianceSuites
    result,      \* the ComplianceCheckResults
    crds,        \* the compliance CRDs are registered
    now,         \* the time
    pc,          \* the API call the reconciler makes next
    cb,          \* the copy of the ClusterBaseline this reconcile works on
    tally,       \* the results this reconcile has read
    rvOK,        \* no write happened since the resourceVersion in cb
    lost,        \* history: a stamp that was due was not written
    ahead,       \* history: one was due in a newer mode than that of its rings
    moves,       \* steps of the environment still to come
    disruptions  \* failed calls and crashes still to come

vars == <<cr, suite, result, crds, now, pc, cb, tally, rvOK, lost, ahead, moves,
          disruptions>>
cluster == <<suite, result, crds, now>>
stamps  == <<lost, ahead>>

----------------------------------------------------------------------------
(* Values *)

Modes   == {"Flat", "SeverityWeighted"}
Results == {"PASS", "FAIL", "NONE"}
Time    == 0 .. MaxTime

Score    == [mode : Modes, pass : SUBSET Checks, fail : SUBSET Checks]
Snapshot == [time : Time, score : Score]
Ring     == Seq(Snapshot)
NoScore  == [mode |-> "none", pass |-> {}, fail |-> {}]

\* The status fields of the history: History, the History of the profiles,
\* LastScanTime, PreviousFailures, DiffBaseFailures and DiffBaseScanTime,
\* NewlyFailed and Fixed.
Status == [history : Ring, profiles : [Suites -> Ring], last : Time,
           previous : SUBSET Checks, base : SUBSET Checks, baseTime : Time,
           newlyFailed : SUBSET Checks, fixed : SUBSET Checks]

NoRings  == [s \in Suites |-> <<>>]
NoStatus == [history |-> <<>>, profiles |-> NoRings, last |-> 0, previous |-> {},
             base |-> {}, baseTime |-> 0, newlyFailed |-> {}, fixed |-> {}]

\* The parts of the ClusterBaseline the history uses: spec.scoring.mode, the
\* selected profiles, the annotation history-scoring-mode ("" if absent), and
\* the status.
Baseline == [mode : Modes, selected : SUBSET Suites, stamp : Modes \union {""},
             status : Status]

\* A suite and the end times of its oldest and its newest member scan.
Suite   == [phase : {"absent", "running", "DONE"}, earliest : Time, latest : Time]
NoSuite == [phase |-> "absent", earliest |-> 0, latest |-> 0]

----------------------------------------------------------------------------
(* Scores and rings *)

\* historyModeMatches
MatchesAnyway(c) == TRUE
Matches(c) == c.stamp \in {"", c.mode}

\* The score of some suites: score64 over the results that were read.
Tallied(S, r) == {c \in Checks : SuiteOf[c] \in S /\ tally[c] = r}
ScoreOf(S, mode) ==
    IF Tallied(S, "PASS") \union Tallied(S, "FAIL") = {} THEN NoScore
    ELSE [mode |-> mode, pass |-> Tallied(S, "PASS"), fail |-> Tallied(S, "FAIL")]

\* appendHistoryRing with clampHistory, and syncHistorySnapshot.
Appended(ring, point) ==
    LET longer == Append(ring, point) IN
    IF Len(longer) > HistoryMax THEN Tail(longer) ELSE longer

Synced(ring, t, score) ==
    LET same == ring # <<>> /\ ring[Len(ring)].time = t IN
    IF score = NoScore THEN (IF same THEN Front(ring) ELSE ring)
    ELSE IF same THEN [ring EXCEPT ![Len(ring)].score = score]
    ELSE Appended(ring, [time |-> t, score |-> score])

\* The rings of the status with the snapshot of a scan that ended at t
\* (History and syncProfileHistory).
Refreshed(c, t) ==
    [c.status EXCEPT
        !.history  = Synced(@, t, ScoreOf(c.selected, c.mode)),
        !.profiles = [s \in Suites |-> IF s \in c.selected
                         THEN Synced(@[s], t, ScoreOf({s}, c.mode)) ELSE @[s]]]

\* clearHistoryRings
EmptiedOverall(c) == [c EXCEPT !.status.history = <<>>]
Emptied(c) == [c EXCEPT !.status.history = <<>>, !.status.profiles = NoRings]

----------------------------------------------------------------------------
(* recordHistory *)

Failing(c) == Tallied(c.selected, "FAIL")

\* The times of the selected suites, if each of them is complete.
Complete(c) == \A s \in c.selected : suite[s].phase = "DONE"
Latest(c)   == CHOOSE t \in {suite[s].latest : s \in c.selected} :
                   \A s \in c.selected : suite[s].latest <= t

\* syncFailureDiff
ComparedOnward(status, current) ==
    [status EXCEPT !.newlyFailed = current \ status.base,
                   !.fixed = status.base \ current, !.base = current]
Compared(status, current) ==
    [status EXCEPT !.newlyFailed = current \ status.base,
                   !.fixed = status.base \ current]

\* Results that came late for the scan recorded last.
LateResultsKeepDiff(c) ==
    LET kept == IF Matches(c) THEN Refreshed(c, c.status.last) ELSE c.status
    IN  [c EXCEPT !.status = [kept EXCEPT !.previous = Failing(c)],
                  !.stamp  = IF Matches(c) THEN c.mode ELSE @]
LateResults(c) ==
    LET t    == c.status.last
        kept == IF Matches(c) THEN Refreshed(c, t) ELSE c.status
        diff == IF kept.baseTime = t THEN Compared(kept, Failing(c)) ELSE kept
    IN  [c EXCEPT !.status = [diff EXCEPT !.previous = Failing(c)],
                  !.stamp  = IF Matches(c) THEN c.mode ELSE @]

\* Every suite has completed a scan since the one recorded last.
Advanced(c) ==
    \/ c.status.last = 0
    \/ \A s \in c.selected : suite[s].earliest > c.status.last

\* The comparison with the failures of the scan before, if there was one.
NewScan(c, t) ==
    LET rings == Refreshed(IF Matches(c) THEN c ELSE Emptied(c), t)
        moved == IF c.status.last # 0
                 THEN Compared([rings EXCEPT !.base = rings.previous, !.baseTime = t], Failing(c))
                 ELSE [rings EXCEPT !.base = {}, !.baseTime = 0,
                                    !.newlyFailed = {}, !.fixed = {}]
    IN  [c EXCEPT !.status = [moved EXCEPT !.last = t, !.previous = Failing(c)],
                  !.stamp  = c.mode]

RecordedOnce(c) ==
    IF Complete(c) /\ Advanced(c) THEN NewScan(c, Latest(c)) ELSE c
Recorded(c) ==
    IF ~Complete(c) THEN c
    ELSE IF c.status.last # 0 /\ Latest(c) = c.status.last THEN LateResults(c)
    ELSE IF Advanced(c) THEN NewScan(c, Latest(c))
    ELSE c

----------------------------------------------------------------------------
NewBaseline ==
    [mode |-> "Flat", selected |-> Suites, stamp |-> "", status |-> NoStatus]
NoResults == [c \in Checks |-> "NONE"]

Init ==
    /\ cr = NewBaseline
    /\ suite = [s \in Suites |-> NoSuite] /\ result = NoResults
    /\ crds = TRUE /\ now = 0
    /\ pc = "idle" /\ cb = NewBaseline /\ tally = NoResults /\ rvOK = TRUE
    /\ lost = FALSE /\ ahead = FALSE
    /\ moves = MaxMoves /\ disruptions = MaxDisruptions

Quiet   == UNCHANGED disruptions
Disrupt == disruptions > 0 /\ disruptions' = disruptions - 1

----------------------------------------------------------------------------
(* One reconcile *)

Begin ==
    /\ pc = "idle"
    /\ pc' = "results" /\ cb' = cr /\ rvOK' = TRUE
    /\ UNCHANGED <<cr, cluster, tally, stamps, moves, disruptions>>

\* The remediation batch writes its annotations onto the latest object and
\* takes over its resourceVersion, but not its spec.
BatchWrites ==
    /\ Batches /\ pc = "results" /\ ~rvOK
    /\ rvOK' = TRUE
    /\ UNCHANGED <<cr, cluster, pc, cb, tally, stamps, moves, disruptions>>

\* aggregateStatus up to recordHistory: the rings of profiles that are no
\* longer selected go; with nothing selected the comparison is cleared.
Rolled(c) ==
    [c EXCEPT !.status.profiles =
                  [s \in Suites |-> IF s \in c.selected THEN @[s] ELSE <<>>],
              !.status.newlyFailed = IF c.selected = {} THEN {} ELSE @,
              !.status.fixed = IF c.selected = {} THEN {} ELSE @]

\* The results are listed, unless nothing is selected; without the CRD the
\* whole history is cleared; an error leaves it as it was.
ReadResults ==
    /\ pc = "results"
    /\ \/ /\ crds \/ cb.selected = {}
          /\ tally' = result /\ cb' = Rolled(cb)
          /\ pc' = IF cb.selected = {} THEN "status" ELSE "suites"
          /\ Quiet
       \/ /\ ~crds /\ cb.selected # {}
          /\ cb' = [cb EXCEPT !.status = NoStatus]
          /\ pc' = "status" /\ Quiet /\ UNCHANGED tally
       \/ cb.selected # {} /\ Disrupt /\ pc' = "status" /\ UNCHANGED <<cb, tally>>
    /\ UNCHANGED <<cr, cluster, rvOK, stamps, moves>>

\* recordHistory: the suites are listed; an error or a missing CRD ends it.
ReadSuites ==
    /\ pc = "suites"
    /\ pc' = "status" /\ tally' = NoResults
    /\ \/ crds /\ cb' = Recorded(cb) /\ Quiet
       \/ ~crds /\ Quiet /\ UNCHANGED cb
       \/ Disrupt /\ UNCHANGED cb
    /\ UNCHANGED <<cr, cluster, rvOK, stamps, moves>>

\* The reconcile ends and forgets what it read.
Finish == pc' = "idle" /\ cb' = NewBaseline /\ tally' = NoResults /\ rvOK' = TRUE

\* The status is written; the answer replaces the whole object in memory, the
\* spec too, which is a newer one if the batch took over the resourceVersion of
\* an edit.  The stamp follows only if recordHistory changed it, and in the mode
\* of that answer.  A write whose answer is lost is an error: no stamp follows.
StatusWrite ==
    /\ pc = "status"
    /\ LET written == [cr EXCEPT !.status = cb.status]
           due     == cb.stamp # cr.stamp IN
       \/ /\ rvOK /\ due /\ cr' = written /\ Quiet
          /\ pc' = "stamp" /\ cb' = written /\ ahead' = (ahead \/ written.mode # cb.mode)
          /\ UNCHANGED <<tally, rvOK, lost>>
       \/ rvOK /\ ~due /\ cr' = written /\ Quiet /\ Finish /\ UNCHANGED stamps
       \/ ~rvOK /\ Quiet /\ Finish /\ UNCHANGED <<cr, stamps>>
       \/ Disrupt /\ Finish /\ UNCHANGED <<cr, stamps>>
       \/ /\ rvOK /\ Disrupt /\ cr' = written /\ Finish
          /\ lost' = (lost \/ due) /\ UNCHANGED ahead
    /\ UNCHANGED <<cluster, moves>>

\* persistHistoryScoringMode, onto the latest object.
Stamped(mode) == [cr EXCEPT !.stamp = mode]
StampWrite ==
    /\ pc = "stamp"
    /\ \/ cr' = Stamped(cb.mode) /\ (Quiet \/ Disrupt) /\ UNCHANGED lost
       \/ Disrupt /\ UNCHANGED cr /\ lost' = TRUE
    /\ Finish
    /\ UNCHANGED <<cluster, ahead, moves>>

Crash ==
    /\ pc # "idle" /\ Disrupt /\ UNCHANGED cr
    /\ lost' = (lost \/ pc = "stamp")
    /\ Finish
    /\ UNCHANGED <<cluster, ahead, moves>>

Operator == Begin \/ ReadResults \/ ReadSuites \/ StatusWrite \/ StampWrite

----------------------------------------------------------------------------
(* The environment *)

Move == moves > 0 /\ moves' = moves - 1
Reconciler == <<pc, cb, tally, stamps, disruptions>>

\* A user edits the spec.
Edit(new) ==
    /\ Move /\ cr' = new /\ rvOK' = FALSE
    /\ UNCHANGED <<Reconciler, cluster>>
Rescore == \E mode \in Modes \ {cr.mode} : Edit([cr EXCEPT !.mode = mode])
Select  == \E s \in Suites :
               Edit([cr EXCEPT !.selected = IF s \in @ THEN @ \ {s} ELSE @ \union {s}])

Outside == UNCHANGED <<cr, Reconciler, rvOK>>

\* A scan of a suite starts.
ScanStarts(s) ==
    /\ crds /\ suite[s].phase # "running" /\ suite[s].latest < MaxTime
    /\ suite' = [suite EXCEPT ![s].phase = "running"]
    /\ Outside /\ UNCHANGED <<result, crds, now, moves>>

\* It ends, in this second or a later one, with new results: all member scans
\* ran, or only some, so that the oldest end time is one of the run before.
ScanEnds(s) ==
    /\ suite[s].phase = "running"
    /\ now' \in {now, now + 1} \cap (suite[s].latest + 1 .. MaxTime)
    /\ \E e \in {now', suite[s].earliest} \ {0} :
          suite' = [suite EXCEPT ![s] = [phase |-> "DONE", earliest |-> e, latest |-> now']]
    /\ \E r \in [Checks -> {"PASS", "FAIL"}] :
          result' = [c \in Checks |-> IF SuiteOf[c] = s THEN r[c] ELSE result[c]]
    /\ Outside /\ UNCHANGED <<crds, moves>>

\* A result changes during the scan or after its end.
ResultArrives(c) ==
    /\ Move /\ crds /\ suite[SuiteOf[c]].phase # "absent"
    /\ \E r \in Results \ {result[c]} : result' = [result EXCEPT ![c] = r]
    /\ Outside /\ UNCHANGED <<suite, crds, now>>

\* A suite is deleted, with its results.
SuiteVanishes(s) ==
    /\ Move /\ suite[s].phase # "absent"
    /\ suite' = [suite EXCEPT ![s] = NoSuite]
    /\ result' = [c \in Checks |-> IF SuiteOf[c] = s THEN "NONE" ELSE result[c]]
    /\ Outside /\ UNCHANGED <<crds, now>>

\* The CRDs go, with all their objects, or come.
CRDsChange ==
    /\ Move /\ crds' = ~crds
    /\ suite' = [s \in Suites |-> NoSuite] /\ result' = NoResults
    /\ Outside /\ UNCHANGED now

Environment ==
    \/ Rescore \/ Select \/ CRDsChange
    \/ \E s \in Suites : ScanStarts(s) \/ ScanEnds(s) \/ SuiteVanishes(s)
    \/ \E c \in Checks : ResultArrives(c)

Next == Operator \/ BatchWrites \/ Crash \/ Environment

Spec == Init /\ [][Next]_vars

\* The worker keeps reconciling; users and scans need not do anything.
FairSpec == Spec /\ WF_vars(Operator)
----------------------------------------------------------------------------
(* Properties *)

\* Every variable keeps to its type.
TypeOK ==
    /\ cr \in Baseline /\ cb \in Baseline
    /\ suite \in [Suites -> Suite]
    /\ result \in [Checks -> Results] /\ tally \in [Checks -> Results]
    /\ crds \in BOOLEAN /\ now \in Time
    /\ pc \in {"idle", "results", "suites", "status", "stamp"}
    /\ rvOK \in BOOLEAN /\ lost \in BOOLEAN /\ ahead \in BOOLEAN
    /\ moves \in Nat /\ disruptions \in Nat

\* However often a scan is recorded again, after conflicts, crashes and late
\* results, a ring has one point for it: times increase and end with the scan
\* recorded last.
Ordered(ring, last) ==
    /\ Len(ring) <= HistoryMax
    /\ \A i \in 1 .. Len(ring) : ring[i].time \in 1 .. last
    /\ \A i \in 1 .. Len(ring) - 1 : ring[i].time < ring[i + 1].time
Rings(c) == {c.status.history} \union {c.status.profiles[s] : s \in Suites}
PointsOrdered == \A ring \in Rings(cr) : Ordered(ring, cr.status.last)

\* The time of the last scan never goes back, whatever suites come and go,
\* unless the CRDs are gone and everything is cleared.
TimeForward ==
    [][cr'.status = NoStatus \/ cr'.status.last >= cr.status.last]_vars

\* NewlyFailed and Fixed are the comparison of the failures of the newest scan
\* with those of the one before, or are both empty: a first scan, however its
\* results trickle in, reports no regression.
Honest(status) ==
    \/ status.newlyFailed = {} /\ status.fixed = {}
    \/ /\ status.newlyFailed = status.previous \ status.base
       /\ status.fixed = status.base \ status.previous
       /\ status.baseTime = status.last /\ status.last # 0
DiffHonest == Honest(cr.status)

\* A regression is reported against the scan before: only a new scan changes
\* the base, and takes for it what the scan before ended up with.
BaseIsScanBefore ==
    [][cr'.status.last # cr.status.last /\ cr.status.last # 0 /\ cr'.status # NoStatus
          => cr'.status.base = cr.status.previous /\ cr'.status.baseTime = cr'.status.last]_vars

\* All points of a ring were computed under one scoring mode.
Uniform(ring) ==
    \A i, j \in 1 .. Len(ring) : ring[i].score.mode = ring[j].score.mode
RingsUniform == \A ring \in Rings(cr) : Uniform(ring)

\* No stamp was lost, and none was due in another mode than its rings.
WellStamped == ~lost /\ ~ahead

\* No ring mixes scoring modes, whatever fails, crashes, is edited or comes late,
\* but for the two ways the code has to leave rings under a stamp that is not
\* theirs: a stamp that was due is never written (the operator stops before it,
\* its patch fails, or the answer of the status write is lost), or it is written
\* in a mode that an edit set while the reconcile ran, which the batch let pass.
UniformWhileStamped == WellStamped => RingsUniform

\* A change of the scoring mode never recomputes a scan that was recorded
\* under the other mode, with the same two exceptions.
ScoresFrozen ==
    [][WellStamped' =>
         \A i \in 1 .. Len(cr.status.history), j \in 1 .. Len(cr'.status.history) :
             LET p == cr.status.history[i]  q == cr'.status.history[j] IN
             p.time = q.time => p.score.mode = q.score.mode]_vars

\* Whatever is complete is recorded in the end, with the results that came
\* late: the failures for the next comparison are those of the selected checks.
CaughtUp(c) ==
    /\ c.selected # {} /\ c.status.last = Latest(c)
    /\ c.status.previous = {k \in Checks : SuiteOf[k] \in c.selected /\ result[k] = "FAIL"}
Due == /\ crds /\ cr.selected # {} /\ Complete(cr)
       /\ Latest(cr) >= cr.status.last
       /\ Latest(cr) = cr.status.last \/ Advanced(cr)
ScansRecorded == <>[]Due => <>[]CaughtUp(cr)
=============================================================================
