---------------------------- MODULE ConsolePatches ----------------------------
(***************************************************************************)
(* The JSON patches the console sends (console-plugin/src/patches.ts) and   *)
(* what the API server does with one.                                       *)
(*                                                                         *)
(* Every builder emits some tests followed by one write, and a JSON patch   *)
(* lands as a whole or not at all, so a patch is a record: the resource     *)
(* version it insists on (0: none), its other tests, its write.  A builder  *)
(* that refuses its input answers NoOps.  An object is the part of a        *)
(* ClusterBaseline the console writes; an optional member that is missing   *)
(* is Absent.                                                               *)
(***************************************************************************)
EXTENDS Integers, Sequences, SequencesExt

CONSTANTS
    Absent,       \* an optional member that is not there
    BadName,      \* stands for every name the validators refuse
    BadCron,      \* stands for every schedule isValidCron refuses
    MaxWaivers,   \* WAIVER_MAX_ITEMS
    MaxTailored,  \* TAILORED_PROFILE_MAX_ITEMS
    MaxNames      \* batchApplyMaxNames

ASSUME LimitsAssumption ==
    MaxWaivers \in Nat \ {0} /\ MaxTailored \in Nat \ {0} /\ MaxNames \in Nat \ {0}

NoOps == [rv |-> 0, tests |-> {}, write |-> Absent]
Empty(patch) == patch.write = Absent

\* mutation: the test is forgotten
WithoutVersionTest(rv, tests, write) == [rv |-> 0, tests |-> tests, write |-> write]

resourceVersionTest(rv, tests, write) ==
    [rv |-> rv, tests |-> tests, write |-> write]

TestMember(field, val) == [field |-> field, at |-> 0, val |-> val]
TestNameAt(field, i, name) == [field |-> field, at |-> i, val |-> name]
Set(field, val)        == [op |-> "set", field |-> field, val |-> val]
SetKey(field, key, val) == [op |-> "setKey", field |-> field, key |-> key, val |-> val]
Put(field, val)        == [op |-> "append", field |-> field, val |-> val]
Rewrite(field, i, val) == [op |-> "replaceAt", field |-> field, at |-> i, val |-> val]
RemoveFrom(field, i)   == [op |-> "removeAt", field |-> field, at |-> i]

------------------------------------------------------------------------------
(* the API server *)

\* a test of the patch holds of the stored object
Holds(object, test) ==
    LET member == object[test.field]
    IN  IF test.at = 0 THEN member = test.val
        ELSE member # Absent /\ test.at \in DOMAIN member /\ member[test.at].name = test.val

\* the write has somewhere to go: appending, or setting a key, needs its parent
Reachable(object, write) ==
    LET member == object[write.field]
    IN  CASE write.op = "set" -> TRUE
          [] write.op \in {"append", "setKey"} -> member # Absent
          [] OTHER -> member # Absent /\ write.at \in DOMAIN member

\* the API server accepts a patch whose every test holds
Accepts(object, patch) ==
    /\ object.there
    /\ patch.rv # 0 => patch.rv = object.rv
    /\ \A test \in patch.tests : Holds(object, test)
    /\ Reachable(object, patch.write)

\* a map with a key set
WithKey(map, key, val) ==
    [k \in DOMAIN map \union {key} |-> IF k = key THEN val ELSE map[k]]

\* the members of the object once the write is done
Patched(object, write) ==
    [object EXCEPT ![write.field] =
        CASE write.op = "set"       -> write.val
          [] write.op = "setKey"    -> WithKey(@, write.key, write.val)
          [] write.op = "append"    -> Append(@, write.val)
          [] write.op = "replaceAt" -> [@ EXCEPT ![write.at] = write.val]
          [] OTHER                  -> RemoveAt(@, write.at)]

------------------------------------------------------------------------------
(* the builders *)

\* where a name stands in a list of entries, 0 when it does not
IndexOf(entries, name) ==
    IF \E i \in DOMAIN entries : entries[i].name = name
    THEN CHOOSE i \in DOMAIN entries :
            /\ entries[i].name = name
            /\ \A j \in DOMAIN entries : entries[j].name = name => i <= j
    ELSE 0

\* mutation: appended to whatever list there is
AppendBlindly(waivers, entry, valid, rv) ==
    CASE ~valid -> NoOps
      [] valid /\ waivers = Absent -> resourceVersionTest(rv, {}, Set("waivers", <<entry>>))
      [] OTHER -> resourceVersionTest(0, {}, Put("waivers", entry))

\* a waiver is created with the list, replaces the entry of its own name, or is
\* appended to exactly the list the administrator saw
addWaiverPatch(waivers, entry, valid, rv) ==
    LET at == IF waivers = Absent THEN 0 ELSE IndexOf(waivers, entry.name)
    IN  CASE ~valid -> NoOps
          [] valid /\ waivers = Absent ->
                resourceVersionTest(rv, {}, Set("waivers", <<entry>>))
          [] valid /\ waivers # Absent /\ at # 0 ->
                resourceVersionTest(rv, {TestNameAt("waivers", at, entry.name)},
                                    Rewrite("waivers", at, entry))
          [] valid /\ waivers # Absent /\ at = 0 /\ Len(waivers) >= MaxWaivers -> NoOps
          [] OTHER -> resourceVersionTest(rv, {TestMember("waivers", waivers)},
                                          Put("waivers", entry))

removeWaiverPatch(i, name, rv) ==
    IF i = 0 THEN NoOps
    ELSE resourceVersionTest(rv, {TestNameAt("waivers", i, name)}, RemoveFrom("waivers", i))

tailoredProfileBindingPatch(current, name, rv) ==
    LET bound   == IF current = Absent THEN <<>> ELSE current
        refused == name = BadName \/ name \in ToSet(bound) \/ Len(bound) >= MaxTailored
    IN  CASE refused -> NoOps
          [] ~refused /\ current = Absent -> resourceVersionTest(rv, {}, Set("tailored", <<name>>))
          [] OTHER -> resourceVersionTest(rv, {TestMember("tailored", current)},
                                          Put("tailored", name))

schedulePatch(cron) ==
    IF cron = BadCron THEN NoOps ELSE resourceVersionTest(0, {}, Set("schedule", cron))

remediationApplyPatch(hasRemediation, automatic) ==
    LET apply == IF automatic THEN "Automatic" ELSE "Manual"
    IN  resourceVersionTest(0, {}, IF hasRemediation
                                   THEN SetKey("remediation", "apply", apply)
                                   ELSE Set("remediation", [apply |-> apply]))

\* the names of a batch: valid, each once, no more than the operator takes
BatchNames(names) ==
    FoldLeft(LAMBDA list, n :
                IF n = BadName \/ n \in ToSet(list) \/ Len(list) >= MaxNames
                THEN list ELSE Append(list, n),
             <<>>, names)

batchApplyPatch(hasAnnotations, names, rv) ==
    LET list == BatchNames(names)
    IN  IF list = <<>> THEN NoOps
        ELSE resourceVersionTest(rv, {}, IF hasAnnotations
                                         THEN SetKey("annotations", "batch", list)
                                         ELSE Set("annotations", [batch |-> list]))

batchApplyRequested(annotations) ==
    annotations # Absent /\ annotations.batch # <<>>

\* the rescan annotation of a scan: creating the map is guarded, adding to it is not
rescanPatch(hasAnnotations, token, rv) ==
    IF hasAnnotations THEN resourceVersionTest(0, {}, SetKey("annotations", "rescan", token))
    ELSE resourceVersionTest(rv, {}, Set("annotations", [rescan |-> token]))

\* a call site that adds the guard a builder leaves to it
WithVersion(patch, rv) == resourceVersionTest(rv, patch.tests, patch.write)
===============================================================================
