--------------------------- MODULE ComplianceInstall ---------------------------
(***************************************************************************)
(* The installation of the Compliance Operator through OLM: its            *)
(* Subscription, OperatorGroup and catalog, what ensureComplianceOperator  *)
(* reports of it in the condition ComplianceOperatorReady and the version, *)
(* and what the rollup makes of an installation that does not finish       *)
(* (operator/internal/controller/compliance_operator.go, conditions.go).   *)
(*                                                                         *)
(* Administrators, OLM, failed calls and crashes come in between any two   *)
(* calls: a Subscription is read before the catalogs that decide about its *)
(* source, and the absence of an installation before it is installed.      *)
(*                                                                         *)
(* Abstractions:                                                           *)
(*  - a spec.complianceCatalogSource that equals the former default is the *)
(*    same as none, and "custom" stands for any other;                     *)
(*  - a ClusterServiceVersion is a place and a version, a greater number   *)
(*    being newer; "pending" is every phase but Succeeded and Failed;      *)
(*  - the pages of a list belong to one snapshot and are not cut off;      *)
(*  - the namespace exists, the contents of the OperatorGroup are left out;*)
(*  - a time stamp is old if the grace of an installation has passed since;*)
(*    no reconcile lasts as long as that;                                  *)
(*  - a read-modify-write is one step, which works on the current object   *)
(*    or fails; a failed call may have taken effect;                       *)
(*  - of the rollup only what depends on this component; the other steps   *)
(*    of the reconcile do nothing, but for the batch, which may refresh    *)
(*    the resourceVersion; the informer cache is current.                  *)
(***************************************************************************)
EXTENDS Integers, FiniteSets

CONSTANTS
    Versions,        \* versions of the Compliance Operator
    MaxMoves,        \* bound: steps of administrators
    MaxDisruptions   \* bound: failed calls and crashes

ASSUME VersionsAssumption == Versions \subseteq Nat \ {0} /\ IsFiniteSet(Versions)
ASSUME BoundsAssumption   == MaxMoves \in Nat /\ MaxDisruptions \in Nat

VARIABLES
    spec,        \* the stored spec of the ClusterBaseline
    status,      \* its stored status
    olm,         \* the APIs of OLM exist
    catalogs,    \* the CatalogSources
    sub,         \* the Subscription of the Compliance Operator
    csv,         \* the phases of its ClusterServiceVersions
    groups,      \* the OperatorGroups of the namespace
    pc,          \* the API call the reconciler makes next
    cb,          \* the copy of the ClusterBaseline this reconcile works on
    seen,        \* the Subscription as this reconcile has read it
    fallback,    \* the phase of the newest unfinished local CSV it has read
    choice,      \* the catalog it has chosen, and whether it is confident
    rvOK,        \* no write happened since the resourceVersion in cb
    lasting,     \* history: CSVs that exist since the reconcile began
    deferring,   \* history: somebody else's OperatorGroup exists since then
    present,     \* history: default catalogs that existed at some time since then
    missing,     \* history: the first of them was missing at some time since then
    moves,       \* steps of administrators still to come
    disruptions  \* failed calls and crashes still to come

cluster == <<olm, catalogs, sub, csv, groups>>
locals  == <<seen, fallback, choice>>
vars    == <<spec, status, cluster, pc, cb, locals, rvOK, lasting, deferring, present,
             missing, moves, disruptions>>

----------------------------------------------------------------------------
(* Values *)

Defaults == {"redhat", "community"}
Catalogs == Defaults \union {"custom"}
Choices  == [install : {"Automatic", "Manual"}, source : {"", "custom"}]

\* The reasons of ComplianceOperatorReady, which is True with CSVSucceeded only;
\* those of an installation that is under way; and those of Degraded.
Unfinished == {"Installing", "CSVNotReady"}
Reasons    == {"none", "CSVSucceeded", "NotInstalled", "CSVFailed"} \union Unfinished
Degraded   == {"AsExpected", "CSVFailed", "InstallStalled", "ReconcileError"}

\* ComplianceOperatorReady: its reason, whether its LastTransitionTime is old,
\* and, not in the code, whether the installation it reports is under way for
\* long; the version; and Degraded.
Status == [reason : Reasons, old : BOOLEAN, long : BOOLEAN,
           version : Versions \union {0}, degraded : Degraded]

CSVs   == {"local", "elsewhere"} \X Versions
Phases == {"absent", "pending", "Succeeded", "Failed"}
Subscription == [source : Catalogs \union {"absent"}, csv : Versions \union {0}]
NoSub  == [source |-> "absent", csv |-> 0]
NoCSVs == [c \in CSVs |-> "absent"]
Choice == [source : Catalogs, confident : BOOLEAN]
NoChoice == [source |-> "redhat", confident |-> FALSE]

Steps == {"idle", "get", "catalog", "community", "sync", "installed", "find", "walk",
          "group", "groupWrite", "create", "status", "errorStatus"}

TypeOK ==
    /\ spec \in Choices /\ status \in Status
    /\ olm \in BOOLEAN /\ catalogs \subseteq Catalogs
    /\ sub \in Subscription /\ seen \in Subscription
    /\ csv \in [CSVs -> Phases] /\ fallback \in Phases \ {"Succeeded"}
    /\ groups \subseteq {"ours", "theirs"}
    /\ pc \in Steps /\ cb \in [spec : Choices, status : Status]
    /\ choice \in Choice /\ rvOK \in BOOLEAN
    /\ lasting \subseteq CSVs /\ deferring \in BOOLEAN
    /\ present \subseteq Defaults /\ missing \in BOOLEAN
    /\ moves \in Nat /\ disruptions \in Nat

NewStatus == [reason |-> "none", old |-> FALSE, long |-> FALSE, version |-> 0,
              degraded |-> "AsExpected"]
NoCopy    == [spec |-> [install |-> "Manual", source |-> ""], status |-> NewStatus]

Init ==
    /\ spec \in Choices /\ status = NewStatus
    /\ olm = TRUE /\ catalogs \in {{"redhat", "community"}, {"community"}}
    /\ sub = NoSub /\ csv = NoCSVs /\ groups = {}
    /\ pc = "idle" /\ cb = NoCopy
    /\ seen = NoSub /\ fallback = "absent" /\ choice = NoChoice
    /\ rvOK = TRUE /\ lasting = {} /\ deferring = FALSE /\ present = {} /\ missing = FALSE
    /\ moves = MaxMoves /\ disruptions = MaxDisruptions

----------------------------------------------------------------------------
(* What is reported *)

\* setCond: the time of the last transition is that of the last change between
\* True and not True.
Noted(s, reason, version) ==
    [s EXCEPT !.reason = reason, !.version = version,
              !.old  = @ /\ s.reason # "none"
                         /\ (s.reason = "CSVSucceeded") = (reason = "CSVSucceeded"),
              !.long = @ /\ s.reason \in Unfinished /\ reason \in Unfinished]

Noting(reason, version) == cb' = [cb EXCEPT !.status = Noted(@, reason, version)]

\* setComplianceOperatorReadyFromCSV
ReasonOf(phase) ==
    CASE phase = "Succeeded" -> "CSVSucceeded"
      [] phase = "Failed"    -> "CSVFailed"
      [] phase = "pending"   -> "CSVNotReady"
      [] phase = "absent"    -> "Installing"
VersionOf(phase, version)     == IF phase = "Succeeded" THEN version ELSE 0

\* setRollupConditions
RolledPatient(s) ==
    [s EXCEPT !.degraded = IF s.reason = "CSVFailed" THEN "CSVFailed" ELSE "AsExpected"]
Rolled(s) ==
    [s EXCEPT !.degraded =
        IF s.reason = "CSVFailed" THEN "CSVFailed"
        ELSE IF s.reason \in Unfinished /\ s.old THEN "InstallStalled" ELSE "AsExpected"]

----------------------------------------------------------------------------
(* The reconcile *)

\* A call fails, or its answer is lost, and reconcileOwned returns the error.
Disrupt == disruptions > 0 /\ disruptions' = disruptions - 1
Fail    == Disrupt /\ pc' = "errorStatus"
Succeed == UNCHANGED disruptions
Refuse  == Succeed /\ pc' = "errorStatus"

Begin ==
    /\ pc = "idle" /\ pc' = "get"
    /\ cb' = [spec |-> spec, status |-> status] /\ rvOK' = TRUE
    /\ Succeed /\ UNCHANGED <<spec, status, cluster, locals, moves>>

\* A running remediation batch refreshes the resourceVersion, not the spec.
BatchWrites ==
    /\ pc = "get" /\ ~rvOK /\ rvOK' = TRUE
    /\ Succeed /\ UNCHANGED <<spec, status, cluster, pc, cb, locals, moves>>

Local == UNCHANGED <<spec, status, rvOK, moves>>

GetSubscription ==
    /\ pc = "get"
    /\ \/ ~olm /\ Noting("NotInstalled", 0) /\ pc' = "status" /\ Succeed /\ UNCHANGED seen
       \/ /\ olm /\ seen' = sub
          /\ pc' = IF sub = NoSub THEN "find"
                   ELSE IF cb.spec.install = "Manual" THEN "installed" ELSE "catalog"
          /\ Succeed /\ UNCHANGED cb
       \/ Fail /\ UNCHANGED <<cb, seen>>
    /\ UNCHANGED <<cluster, fallback, choice>> /\ Local

\* resolveCatalogSource, for the Subscription that was read or for a new one.
Choose(source, confident) ==
    /\ choice' = [source |-> source, confident |-> confident]
    /\ pc' = IF seen = NoSub THEN "create" ELSE "sync"

ResolveSource ==
    /\ pc = "catalog"
    /\ \/ cb.spec.source = "custom" /\ Choose("custom", TRUE) /\ Succeed
       \/ /\ cb.spec.source = ""
          /\ \/ "redhat" \in catalogs /\ Choose("redhat", TRUE) /\ Succeed
             \/ "redhat" \notin catalogs /\ pc' = "community" /\ Succeed /\ UNCHANGED choice
             \/ Disrupt /\ Choose("redhat", FALSE)
    /\ UNCHANGED <<cluster, cb, seen, fallback>> /\ Local

ResolveCommunity ==
    /\ pc = "community"
    /\ \/ "community" \in catalogs /\ Choose("community", TRUE) /\ Succeed
       \/ "community" \notin catalogs /\ Choose("redhat", FALSE) /\ Succeed
       \/ Disrupt /\ Choose("community", FALSE)
    /\ UNCHANGED <<cluster, cb, seen, fallback>> /\ Local

\* syncComplianceSubscriptionSource
KeepsIfPresent   == seen.source \in catalogs \/ ~choice.confident
Keeps            == seen.source = choice.source \/ ~choice.confident

SyncSource ==
    /\ pc = "sync"
    /\ \/ Keeps /\ pc' = "installed" /\ Succeed /\ UNCHANGED sub
       \/ ~Keeps /\ sub = NoSub /\ Refuse /\ UNCHANGED sub
       \/ /\ ~Keeps /\ sub # NoSub /\ sub' = [sub EXCEPT !.source = choice.source]
          /\ \/ pc' = "installed" /\ Succeed
             \/ Fail
       \/ ~Keeps /\ Fail /\ UNCHANGED sub
    /\ UNCHANGED <<olm, catalogs, csv, groups, cb, locals>> /\ Local

\* setComplianceOperatorReady, with the installedCSV that was read in the beginning.
ReadInstalled ==
    /\ pc = "installed"
    /\ \/ seen.csv = 0 /\ Noting("Installing", 0) /\ pc' = "status" /\ Succeed
       \/ /\ seen.csv # 0 /\ olm
          /\ LET phase == csv[<<"local", seen.csv>>] IN
                Noting(ReasonOf(phase), VersionOf(phase, seen.csv))
          /\ pc' = "status" /\ Succeed
       \/ seen.csv # 0 /\ ~olm /\ Refuse /\ UNCHANGED cb
       \/ seen.csv # 0 /\ Fail /\ UNCHANGED cb
    /\ UNCHANGED <<cluster, locals>> /\ Local

\* findComplianceOperatorCSV: the CSVs of some phases, and the newest of them; of
\* two equally new ones the first in the list, which may be either.
InPhase(phases) == {c \in CSVs : csv[c] \in phases}
Finished       == InPhase({"Succeeded"})
StartedPending == InPhase({"pending"})
Started        == InPhase({"pending", "Failed"})
InPlace(S)     == {c \in S : c[1] = "local"}
NewestAny(S)   == S
Newest(S)      == {c \in S : \A d \in S : d[2] <= c[2]}

NotingCSV(S) ==
    \E c \in Newest(S) :
        Noting(ReasonOf(csv[c]), VersionOf(csv[c], c[2])) /\ pc' = "status"

\* Nothing is installed, so that an administrator or the operator has to.
NothingFound ==
    \/ cb.spec.install = "Manual" /\ Noting("NotInstalled", 0) /\ pc' = "status"
    \/ cb.spec.install = "Automatic" /\ pc' = "group" /\ UNCHANGED cb

FindLocal ==
    /\ pc = "find"
    /\ \/ ~olm /\ NothingFound /\ Succeed /\ UNCHANGED fallback
       \/ NotingCSV(InPlace(Finished)) /\ Succeed /\ UNCHANGED fallback
       \/ /\ olm /\ InPlace(Finished) = {}
          /\ fallback' \in {csv[c] : c \in Newest(InPlace(Started))}
                            \union {p \in {"absent"} : InPlace(Started) = {}}
          /\ pc' = "walk" /\ Succeed /\ UNCHANGED cb
       \/ Fail /\ UNCHANGED <<cb, fallback>>
    /\ UNCHANGED <<cluster, seen, choice>> /\ Local

\* What was unfinished in the local list is reported as it was then.
FindAnywhere ==
    /\ pc = "walk"
    /\ \/ NotingCSV(Finished) /\ Succeed
       \/ /\ Finished = {} /\ fallback # "absent"
          /\ Noting(ReasonOf(fallback), 0) /\ pc' = "status" /\ Succeed
       \/ Finished = {} /\ fallback = "absent" /\ NotingCSV(Started) /\ Succeed
       \/ /\ Finished \union Started = {} /\ fallback = "absent"
          /\ NothingFound /\ Succeed
       \/ Fail /\ UNCHANGED cb
    /\ UNCHANGED <<cluster, locals>> /\ Local

\* ensureComplianceOperatorGroup; the version is forgotten behind it.
Forgotten == [cb EXCEPT !.status.version = 0]
Defers      == "theirs" \in groups

ListGroups ==
    /\ pc = "group"
    /\ \/ olm /\ Defers /\ pc' = "catalog" /\ cb' = Forgotten /\ Succeed
       \/ olm /\ ~Defers /\ pc' = "groupWrite" /\ Succeed /\ UNCHANGED cb
       \/ ~olm /\ Refuse /\ UNCHANGED cb
       \/ Fail /\ UNCHANGED cb
    /\ UNCHANGED <<cluster, locals>> /\ Local

WriteGroup ==
    /\ pc = "groupWrite"
    /\ \/ /\ olm /\ groups' = groups \union {"ours"}
          /\ \/ pc' = "catalog" /\ cb' = Forgotten /\ Succeed
             \/ Fail /\ UNCHANGED cb
       \/ ~olm /\ Refuse /\ UNCHANGED <<groups, cb>>
       \/ Fail /\ UNCHANGED <<groups, cb>>
    /\ UNCHANGED <<olm, catalogs, sub, csv, locals>> /\ Local

\* createIfMissing of the Subscription; one that exists by now is left alone.
CreateSubscription ==
    /\ pc = "create"
    /\ \/ /\ olm
          /\ sub' = IF sub = NoSub THEN [NoSub EXCEPT !.source = choice.source] ELSE sub
          /\ \/ Noting("Installing", 0) /\ pc' = "status" /\ Succeed
             \/ Fail /\ UNCHANGED cb
       \/ ~olm /\ Refuse /\ UNCHANGED <<sub, cb>>
       \/ Fail /\ UNCHANGED <<sub, cb>>
    /\ UNCHANGED <<olm, catalogs, csv, groups, locals>> /\ Local

\* The reconcile is over, and its variables are gone.
Return ==
    /\ pc' = "idle" /\ seen' = NoSub /\ fallback' = "absent" /\ choice' = NoChoice
    /\ cb' = NoCopy /\ rvOK' = TRUE
    /\ UNCHANGED <<spec, cluster, moves>>

\* The rollup and the status write; a conflict loses it.
Written ==
    IF pc = "status" THEN Rolled(cb.status)
    ELSE [Rolled(cb.status) EXCEPT !.degraded = "ReconcileError"]

StatusWrite ==
    /\ pc \in {"status", "errorStatus"} /\ Return
    /\ \/ status' = (IF rvOK THEN Written ELSE status) /\ Succeed
       \/ UNCHANGED status /\ Disrupt

Crash == pc # "idle" /\ Return /\ Disrupt /\ UNCHANGED status

Operator ==
    \/ Begin \/ BatchWrites \/ GetSubscription \/ ResolveSource \/ ResolveCommunity
    \/ SyncSource \/ ReadInstalled \/ FindLocal \/ FindAnywhere
    \/ ListGroups \/ WriteGroup \/ CreateSubscription \/ StatusWrite

----------------------------------------------------------------------------
(* OLM, administrators and time *)

Outside == UNCHANGED <<status, pc, cb, locals, disruptions>>

\* OLM resolves the Subscription, to a newer version than it had, if the catalog
\* exists, the namespace has one OperatorGroup and what it had has succeeded.
OlmInstalls ==
    /\ sub.source \in catalogs /\ Cardinality(groups) = 1
    /\ sub.csv # 0 => csv[<<"local", sub.csv>>] = "Succeeded"
    /\ \E v \in Versions :
          /\ v > sub.csv /\ sub' = [sub EXCEPT !.csv = v]
          /\ csv' = [csv EXCEPT ![<<"local", v>>] = IF @ = "absent" THEN "pending" ELSE @]
    /\ Outside /\ UNCHANGED <<spec, olm, catalogs, groups, rvOK, moves>>

OlmFinishes ==
    /\ \E c \in InPhase({"pending"}), phase \in {"Succeeded", "Failed"} :
          csv' = [csv EXCEPT ![c] = phase]
    /\ Outside /\ UNCHANGED <<spec, olm, catalogs, sub, groups, rvOK, moves>>

GracePasses ==
    /\ pc = "idle" /\ ~(status.old /\ status.long)
    /\ status' = [status EXCEPT !.old = TRUE, !.long = TRUE]
    /\ UNCHANGED <<spec, cluster, pc, cb, locals, rvOK, moves, disruptions>>

Move == moves > 0 /\ moves' = moves - 1 /\ Outside

EditSpec ==
    /\ Move /\ spec' \in Choices \ {spec} /\ rvOK' = (pc = "idle") /\ UNCHANGED cluster

ChangeCatalogs ==
    /\ Move
    /\ \E c \in Catalogs : catalogs' \in {catalogs \union {c}, catalogs \ {c}} \ {catalogs}
    /\ UNCHANGED <<spec, olm, sub, csv, groups, rvOK>>

TouchSubscription ==
    /\ Move /\ olm
    /\ \/ sub' = NoSub
       \/ \E source \in Catalogs : sub' = [sub EXCEPT !.source = source]
    /\ UNCHANGED <<spec, olm, catalogs, csv, groups, rvOK>>

TouchCSV ==
    /\ Move /\ olm /\ \E c \in CSVs, phase \in Phases : csv' = [csv EXCEPT ![c] = phase]
    /\ UNCHANGED <<spec, olm, catalogs, sub, groups, rvOK>>

TouchGroups ==
    /\ Move /\ olm /\ groups' \in SUBSET {"ours", "theirs"} \ {groups}
    /\ UNCHANGED <<spec, olm, catalogs, sub, csv, rvOK>>

\* The APIs of OLM disappear with all their objects, or come back.
ToggleOLM ==
    /\ Move /\ olm' = ~olm
    /\ sub' = NoSub /\ csv' = NoCSVs /\ groups' = {} /\ catalogs' = {}
    /\ UNCHANGED <<spec, rvOK>>

Administrator ==
    \/ EditSpec \/ ChangeCatalogs \/ TouchSubscription \/ TouchCSV \/ TouchGroups \/ ToggleOLM

\* What has been there since the reconcile began: all the time, or at times.
Since(before, now, none) == IF pc' = "idle" THEN none ELSE IF pc = "idle" THEN now ELSE before
Observe ==
    LET there == {c \in CSVs : csv'[c] # "absent"} IN
    /\ lasting'   = Since(lasting \intersect there, there, {})
    /\ deferring' = Since(deferring /\ "theirs" \in groups', "theirs" \in groups', FALSE)
    /\ present'   = Since(present \union (catalogs' \intersect Defaults), catalogs' \intersect Defaults, {})
    /\ missing'   = Since(missing \/ "redhat" \notin catalogs', "redhat" \notin catalogs', FALSE)

Next ==
    /\ Operator \/ Crash \/ OlmInstalls \/ OlmFinishes \/ GracePasses \/ Administrator
    /\ Observe

Spec == Init /\ [][Next]_vars

\* The worker goes on, since a requeue follows every reconcile, and time passes
\* between reconciles.
FairSpec == Spec /\ WF_vars(Operator /\ Observe) /\ SF_vars(GracePasses /\ Observe)

----------------------------------------------------------------------------
(* Properties *)

\* A version is shown only next to ComplianceOperatorReady=True, also by the
\* reconcile that gives up halfway: every way to another reason clears it, and
\* every error keeps the pair as it was (compliance_operator.go:499-571).
VersionOnlyWhenReady == status.version # 0 => status.reason = "CSVSucceeded"

ByOperator == moves' = moves

\* The catalog of a Subscription is changed only to one that was verified: to
\* what the spec names, or to a default catalog that existed at some time of this
\* reconcile, and to the second one only if the first was missing at some time
\* (syncComplianceSubscriptionSource). An unanswered call changes nothing.
SourceVerified ==
    [][ByOperator /\ sub # NoSub /\ sub'.source # sub.source =>
          /\ cb.spec.install = "Automatic"
          /\ cb.spec.source = "custom" => sub'.source = "custom"
          /\ cb.spec.source = ""       => sub'.source \in present
          /\ sub'.source = "community" => missing]_vars

\* A Subscription is created only if no CSV of the Compliance Operator, in any
\* namespace and of any phase, was there for the whole reconcile
\* (findComplianceOperatorCSV before the installation).
Installs == ByOperator /\ sub = NoSub /\ sub' # NoSub
NoSecondInstall ==
    [][Installs => cb.spec.install = "Automatic" /\ lasting = {}]_vars

\* An OperatorGroup is not added to a namespace that had somebody else's for the
\* whole reconcile: OLM permits one (ensureComplianceOperatorGroup).
DefersToTheirs ==
    [][ByOperator /\ groups' # groups => ~deferring]_vars

\* An installation that is under way for ever is shown as stalled in the end,
\* whether or not the reconciles in between fail (setRollupConditions).
StallShows ==
    <>[](status.reason \in Unfinished /\ status.degraded # "ReconcileError")
        => <>[](status.degraded = "InstallStalled")

\* Once nobody else writes, a Subscription that is managed gets its catalog from
\* the spec, or else from the first default catalog that exists.
SourceRight ==
    /\ spec.source = "custom" => sub.source = "custom"
    /\ spec.source = "" /\ "redhat" \in catalogs => sub.source = "redhat"
    /\ spec.source = "" /\ catalogs \intersect Defaults = {"community"}
          => sub.source = "community"
SourceInTheEnd == <>[](sub # NoSub /\ spec.install = "Automatic" => SourceRight)

\* Once nobody else writes, the condition and the version are those of the
\* cluster: of the CSV the Subscription names, or without a Subscription of the
\* newest finished CSV anywhere, and else of an unfinished one in place.
Reports(phase, version) ==
    status.reason = ReasonOf(phase) /\ status.version = VersionOf(phase, version)
ReportsNewest(S) == \E c \in S : (\A d \in S : d[2] <= c[2]) /\ Reports(csv[c], c[2])
Reported ==
    /\ sub # NoSub /\ sub.csv = 0 => status.reason = "Installing"
    /\ sub # NoSub /\ sub.csv # 0 => Reports(csv[<<"local", sub.csv>>], sub.csv)
    /\ sub = NoSub =>
          CASE Finished # {} -> ReportsNewest(Finished)
            [] Finished = {} /\ InPlace(Started) # {} -> ReportsNewest(InPlace(Started))
            [] Finished \union InPlace(Started) = {} /\ Started # {} -> ReportsNewest(Started)
            [] OTHER -> status.reason = "NotInstalled" /\ status.version = 0
ReportsInTheEnd == <>[]Reported

\* What the grace is for: Degraded says InstallStalled only of an installation
\* that was reported as under way for the whole grace
\* (clusterbaseline_controller.go:71-73).
StallAfterGrace == status.degraded = "InstallStalled" => status.long

================================================================================
