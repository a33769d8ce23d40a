----------------------------- MODULE MCConsolePages -----------------------------
(***************************************************************************)
(* The parts of the console that read, for TLC.                                 *)
(***************************************************************************)
EXTENDS ConsolePages

\* enough check results for every status, severity and annotation to meet every
\* other one that matters to it
MCRows ==
    LET V == INSTANCE CheckViews
            WITH Names <- {}, NoName <- "", Rows <- {}, Tips <- {}, mode <- Absent, waivers <- Absent,
                 results <- Absent, tips <- Absent
    IN  {r \in V!AllRows :
          /\ r.suite = "foreign" => r.status = "FAIL" /\ r.severity = "high" /\ r.label = "low"
          /\ r.suite = "tp-own" =>
                r.status \in {"PASS", "FAIL"} /\ r.severity = "medium" /\ r.label = "missing"
          /\ r.status \notin {"PASS", "FAIL"} => r.severity = "high" /\ r.label = "missing"
          /\ \/ r.severity \in {"high", "missing"}
             \/ r.suite = "tp-own" /\ r.severity = "medium"
          /\ r.label \in {"missing", "low"}
          /\ r.label = "low" => r.severity = "missing" \/ r.suite = "foreign"
          /\ r.tokens \in {{}, {"PASS"}, {"SKIP"}, {"PASS", "NOT-APPLICABLE"}, {"PASS", "FAIL"},
                           {"UNKNOWN"}, {"SKIP", "ERROR"}}}

\* tenths: one the operator writes, one that is no whole score, one out of range
MCScores == {0, 605, 1200}
MCRendered == [kind : {"MachineConfig", "other"}, scan : {"no pool"}]
MCForeignLists == {<<>>, <<1, 1>>, <<2>>, <<0>>}
MCNumeral == <<<<"1">>, <<"2">>>> @@ (0 :> <<"0">>)

\* bound: a history is told apart where the console reads it, in a profile without results
TipsWhereRead ==
    route = "views" =>
        \A bucket \in Views!Buckets : tips[bucket] = Absent \/ Views!In(bucket) = {}
===============================================================================
