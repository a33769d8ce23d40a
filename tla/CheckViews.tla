------------------------------ MODULE CheckViews -------------------------------
(***************************************************************************)
(* Two programs read the same check results: the operator counts and scores   *)
(* them into the status (aggregate.go, inconsistent.go, scoring.go), and the    *)
(* console shows them as rows, chips, badges, an export and a report            *)
(* (status.ts, scoring.ts, results.ts, report.ts, components/ResultsTab.tsx,    *)
(* components/Overview.tsx).  This module states both readings of one list and  *)
(* compares them; the list, the waivers, the mode and the histories change one    *)
(* at a time.                                                                     *)
(*                                                                              *)
(* Simplifications: both sides read at one instant, from lists that have loaded   *)
(* (WaiverClock is about the time between); the history of a profile is its       *)
(* newest usable point (ScoreTrend finds it, ScanHistory writes it), which a scan, *)
(* a late result or a restore may change to any other; the annotations of an       *)
(* inconsistent check are the set of the tokens in them; texts, titles and their   *)
(* order are left out.                                                             *)
(***************************************************************************)
EXTENDS Integers, FiniteSets, Functions

CONSTANTS
    Names,     \* names of checks; NoName may be one of them
    NoName,    \* a check, or a waiver, whose name is empty
    Rows,      \* what a check result may say, among the records of AllRows
    Tips,      \* scores the newest point of a history may have
    Absent     \* no such result, or score

VARIABLES
    results,   \* the check results, by name
    waivers,   \* spec.waivers: "none", "active" or "expired", by name
    mode,      \* spec.scoring.mode
    tips       \* status.profiles[].history: the score of its newest point, by bucket

vars == <<results, waivers, mode, tips>>

Tokens == {"PASS", "FAIL", "ERROR", "NOT-APPLICABLE", "SKIP", "UNKNOWN"}
Statuses == {"PASS", "FAIL", "MANUAL", "INFO", "ERROR", "SKIP", "NOT-APPLICABLE",
             "WAIVED", "unknown", "missing"}
Severities == {"high", "medium", "low", "info", "missing"}
Buckets == {"cis", "tp-own"}     \* a selected profile and a bound tailored one
Suites == Buckets \union {"foreign"}

AllRows ==
    [status : Statuses, tokens : {{}}, severity : Severities, label : Severities, suite : Suites]
    \union [status : {"INCONSISTENT"}, tokens : SUBSET Tokens, severity : {"high"},
            label : {"missing"}, suite : Suites]

Present == {n \in Names : results[n] # Absent}

\* the list both watch: only the suites of this baseline are selected
Owned == {n \in Present : results[n].suite \in Buckets}
In(bucket) == {n \in Present : results[n].suite = bucket}

------------------------------------------------------------------------------
(* the operator: aggregate.go, inconsistent.go, scoring.go *)

effectiveInconsistentStatus(tokens) ==
    CASE tokens \intersect {"UNKNOWN", "FAIL", "ERROR"} # {} -> "INCONSISTENT"
      [] tokens \subseteq {"PASS", "NOT-APPLICABLE", "SKIP"} /\ "PASS" \in tokens -> "PASS"
      [] tokens # {} /\ tokens \subseteq {"NOT-APPLICABLE", "SKIP"} -> "NOT-APPLICABLE"
      [] OTHER -> "INCONSISTENT"

OperatorWaived == {n \in Names : n # NoName /\ waivers[n] = "active"}

\* the status a result is tallied under
Tallied(n) ==
    LET row == results[n]
        raw == CASE row.status = "WAIVED" -> "ERROR"
                 [] row.status = "INCONSISTENT" -> effectiveInconsistentStatus(row.tokens)
                 [] OTHER -> row.status
    IN  IF raw = "FAIL" /\ n \in OperatorWaived THEN "WAIVED" ELSE raw

\* the counter of ResultCounts a status goes to
CounterOf(status) ==
    CASE status \in {"PASS", "FAIL", "MANUAL", "INFO", "INCONSISTENT", "WAIVED"} -> status
      [] status \in {"SKIP", "NOT-APPLICABLE"} -> "NOT-APPLICABLE"
      [] OTHER -> "ERROR"

ResultCounts(bucket, counter) == Cardinality({n \in In(bucket) : CounterOf(Tallied(n)) = counter})

weightOf(severity) ==
    CASE severity = "high" -> 10 [] severity = "medium" -> 5 [] severity = "low" -> 2 [] OTHER -> 1

OperatorSeverity(row) == IF row.severity # "missing" THEN row.severity ELSE row.label

\* the sum of the weights of checks
Mass(weights) == FoldFunction(+, 0, weights)

Ratio(pass, fail) == IF pass + fail = 0 THEN Absent ELSE (pass * 100) \div (pass + fail)

\* the score of a bucket, as the operator writes it into its history
profileBucketScore(bucket) ==
    LET passed == {n \in In(bucket) : Tallied(n) = "PASS"}
        failed == {n \in In(bucket) : Tallied(n) = "FAIL"}
        weights(names) == [n \in names |-> weightOf(OperatorSeverity(results[n]))]
    IN  IF mode = "SeverityWeighted" THEN Ratio(Mass(weights(passed)), Mass(weights(failed)))
        ELSE Ratio(Cardinality(passed), Cardinality(failed))

------------------------------------------------------------------------------
(* the console *)

activeWaivedNames == {n \in Names : n # NoName /\ waivers[n] = "active"}

\* mutation: a status the console does not know is shown as it is
StatusAsReported(row) ==
    CASE row.status = "SKIP" -> "NOT-APPLICABLE"
      [] row.status = "INCONSISTENT" ->
            IF row.tokens \intersect {"UNKNOWN", "FAIL", "ERROR"} # {} THEN "INCONSISTENT"
            ELSE IF "PASS" \in row.tokens THEN "PASS"
            ELSE IF row.tokens # {} THEN "NOT-APPLICABLE" ELSE "INCONSISTENT"
      [] OTHER -> row.status

effectiveStatus(row) ==
    CASE row.status \in {"PASS", "FAIL", "ERROR", "INFO", "MANUAL", "NOT-APPLICABLE"} -> row.status
      [] row.status = "SKIP" -> "NOT-APPLICABLE"
      [] row.status = "INCONSISTENT" ->
            IF row.tokens \intersect {"UNKNOWN", "FAIL", "ERROR"} # {} THEN "INCONSISTENT"
            ELSE IF "PASS" \in row.tokens THEN "PASS"
            ELSE IF row.tokens # {} THEN "NOT-APPLICABLE" ELSE "INCONSISTENT"
      [] OTHER -> "ERROR"

resultFilterStatus(n) ==
    LET status == effectiveStatus(results[n])
    IN  IF status = "FAIL" /\ n # NoName /\ n \in activeWaivedNames THEN "WAIVED" ELSE status

RESULT_FILTER_STATUSES ==
    {"PASS", "FAIL", "WAIVED", "MANUAL", "ERROR", "INFO", "INCONSISTENT", "NOT-APPLICABLE"}

checkSeverity(row) ==
    CASE row.severity # "missing" -> row.severity
      [] row.severity = "missing" /\ row.label # "missing" -> row.label
      [] OTHER -> "unknown"

\* the rows the table shows under a status chip and a profile chip, which is where
\* the count of a card (resultsHref) leads
Shown(status, profile) ==
    {n \in Owned : /\ status \in {"any", resultFilterStatus(n)}
                   /\ profile \in {"any", results[n].suite}}

\* a row that is not waived but has a waiver says so beside its status
WaiverBadge(n) == resultFilterStatus(n) # "WAIVED" /\ n \in activeWaivedNames

\* the export: one line per row shown, its status, and whether it is waived
resultsCsv(rows) ==
    {[name |-> n, status |-> resultFilterStatus(n),
      waived |-> resultFilterStatus(n) = "WAIVED"] : n \in rows}

flatProfileScore(pass, fail) == Ratio(pass, fail)

\* the badge of a score card; without results, the newest point of its history
profileScore(bucket) ==
    LET passed == {n \in In(bucket) : effectiveStatus(results[n]) = "PASS"}
        failed == {n \in In(bucket) : /\ effectiveStatus(results[n]) = "FAIL"
                                      /\ n \notin activeWaivedNames}
        weights(names) == [n \in names |-> weightOf(checkSeverity(results[n]))]
    IN  IF mode = "SeverityWeighted" /\ In(bucket) # {}
        THEN Ratio(Mass(weights(passed)), Mass(weights(failed)))
        ELSE IF mode = "SeverityWeighted" /\ tips[bucket] # Absent THEN tips[bucket]
        ELSE flatProfileScore(ResultCounts(bucket, "PASS"), ResultCounts(bucket, "FAIL"))

\* the rows of a score card: passes and failures always, the rest when there are any
CountRows(bucket) ==
    {s \in RESULT_FILTER_STATUSES : s \in {"PASS", "FAIL"} \/ ResultCounts(bucket, s) > 0}

\* a segment of the donut
aggregateCounts(counter) == ResultCounts("cis", counter) + ResultCounts("tp-own", counter)

\* the failing checks of the report, and its total
ReportFailing ==
    {n \in Present : /\ results[n].suite \in Buckets
                     /\ effectiveStatus(results[n]) = "FAIL"
                     /\ n \notin activeWaivedNames}

ReportTotal ==
    aggregateCounts("PASS") + aggregateCounts("FAIL") + aggregateCounts("WAIVED")
        + aggregateCounts("MANUAL") + aggregateCounts("ERROR") + aggregateCounts("INFO")
        + aggregateCounts("INCONSISTENT") + aggregateCounts("NOT-APPLICABLE")

------------------------------------------------------------------------------
(* the list changes *)

ResultChanges ==
    /\ \E n \in Names, row \in Rows \union {Absent} : results' = [results EXCEPT ![n] = row]
    /\ UNCHANGED <<waivers, mode, tips>>

WaiverChanges ==
    /\ \E n \in Names, w \in {"none", "active", "expired"} : waivers' = [waivers EXCEPT ![n] = w]
    /\ UNCHANGED <<results, mode, tips>>

ModeChanges ==
    /\ mode' = IF mode = "Flat" THEN "SeverityWeighted" ELSE "Flat"
    /\ UNCHANGED <<results, waivers, tips>>

HistoryChanges ==
    /\ \E bucket \in Buckets, tip \in Tips \union {Absent} : tips' = [tips EXCEPT ![bucket] = tip]
    /\ UNCHANGED <<results, waivers, mode>>

Next == ResultChanges \/ WaiverChanges \/ ModeChanges \/ HistoryChanges

Init ==
    /\ results = [n \in Names |-> Absent]
    /\ waivers = [n \in Names |-> "none"]
    /\ mode = "Flat"
    /\ tips = [bucket \in Buckets |-> Absent]

Spec == Init /\ [][Next]_vars

------------------------------------------------------------------------------
(* properties *)

\* A number of the Overview, written by the operator, is the number of rows its
\* link leads to, of failing checks the report lists: whatever the result says,
\* waived or not; and the export calls waived as many as the operator did.
CountsAgree ==
    /\ \A bucket \in Buckets, s \in RESULT_FILTER_STATUSES :
        ResultCounts(bucket, s) = Cardinality(Shown(s, bucket))
    /\ Cardinality({row \in resultsCsv(Owned) : row.waived}) = aggregateCounts("WAIVED")
    /\ aggregateCounts("FAIL") = Cardinality(ReportFailing)
    /\ ReportTotal = Cardinality(Owned)

\* The badge of a score card, which the console computes, is the score the
\* operator writes for that profile, in both modes.  The exception is a profile
\* without a result under SeverityWeighted: the operator writes no score for it,
\* and its card shows the newest one of its history.
ScoreParity ==
    \A bucket \in Buckets :
        IF mode = "SeverityWeighted" /\ In(bucket) = {}
        THEN profileBucketScore(bucket) = Absent /\ profileScore(bucket) = tips[bucket]
        ELSE profileScore(bucket) = profileBucketScore(bucket)
===============================================================================
