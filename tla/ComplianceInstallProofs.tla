------------------------ MODULE ComplianceInstallProofs ------------------------
(***************************************************************************)
(* Proofs about ComplianceInstall, for all constants: the types, that a    *)
(* version is shown with a finished installation only, and what the        *)
(* operator may do to a Subscription and to the OperatorGroups.            *)
(***************************************************************************)
EXTENDS ComplianceInstall, TLAPS

\* Without the APIs of OLM there is none of its objects.
Gone == ~olm => sub = NoSub /\ csv = NoCSVs

\* A version goes with a finished installation, in what is stored and in what a
\* reconcile is about to write.
Honest(s)  == s.version # 0 => s.reason = "CSVSucceeded"
HonestCopy == Honest(status) /\ Honest(cb.status)

\* What a reconcile knows on its way: an installation begins where there is no
\* Subscription and no CSV has been there all the time, only if the operator may
\* install; a catalog it is confident of was verified; and its own OperatorGroup
\* comes only where nobody else's has been there all the time.
OnTheWay == pc \in {"group", "groupWrite", "create"}
             \/ (pc \in {"catalog", "community"} /\ seen = NoSub)
Verified(source) ==
    /\ cb.spec.source = "custom" => source = "custom"
    /\ cb.spec.source = ""       => source \in present
    /\ source = "community"      => missing
Route ==
    /\ pc \in {"find", "walk", "group", "groupWrite", "create"} => seen = NoSub
    /\ pc = "sync" => seen # NoSub
    /\ OnTheWay => lasting = {}
    /\ pc \in {"catalog", "community", "sync", "group", "groupWrite", "create"} =>
          cb.spec.install = "Automatic"
    /\ pc = "community" => missing /\ cb.spec.source = ""
    /\ pc = "sync" /\ choice.confident => Verified(choice.source)
    /\ pc = "groupWrite" => ~deferring

InstallInv == TypeOK /\ Gone /\ HonestCopy /\ Route

----------------------------------------------------------------------------
(* Values *)

LEMMA Values ==
    /\ NoSub \in Subscription /\ NoSub.source = "absent" /\ NoSub.csv = 0
    /\ NoChoice \in Choice /\ NoCSVs \in [CSVs -> Phases]
    /\ \A c \in CSVs : NoCSVs[c] = "absent" /\ c[1] \in {"local", "elsewhere"} /\ c[2] \in Versions
    /\ \A v \in Versions : <<"local", v>> \in CSVs
    /\ NewStatus \in Status /\ Honest(NewStatus)
    /\ NoCopy \in [spec : Choices, status : Status] /\ NoCopy.status = NewStatus
BY DEF NoSub, Subscription, NoChoice, Choice, Catalogs, Defaults, NoCSVs, Phases, CSVs,
       NewStatus, Status, Reasons, Degraded, NoCopy, Choices, Honest

\* A reason of a CSV is True only for one that has succeeded, and so is a version.
LEMMA OfPhase ==
    ASSUME NEW phase \in Phases, NEW version \in Versions
    PROVE  /\ ReasonOf(phase) \in Reasons
           /\ VersionOf(phase, version) \in Versions \union {0}
           /\ VersionOf(phase, version) # 0 => ReasonOf(phase) = "CSVSucceeded"
BY DEF Phases, ReasonOf, VersionOf, Reasons, Unfinished

LEMMA NotedStatus ==
    ASSUME NEW s \in Status, NEW reason \in Reasons, NEW version \in Versions \union {0},
           version # 0 => reason = "CSVSucceeded"
    PROVE  Noted(s, reason, version) \in Status /\ Honest(Noted(s, reason, version))
<1> DEFINE old  == s.old /\ s.reason # "none"
                         /\ (s.reason = "CSVSucceeded") = (reason = "CSVSucceeded")
           long == s.long /\ s.reason \in Unfinished /\ reason \in Unfinished
<1>1. old \in BOOLEAN /\ long \in BOOLEAN
  OBVIOUS
<1> HIDE DEF old, long
<1>2. Noted(s, reason, version) =
        [s EXCEPT !.reason = reason, !.version = version, !.old = old, !.long = long]
  BY DEF Noted, old, long
<1> QED
  BY <1>1, <1>2 DEF Status, Honest

LEMMA RolledStatus ==
    ASSUME NEW s \in Status, Honest(s)
    PROVE  Rolled(s) \in Status /\ Honest(Rolled(s))
           /\ [Rolled(s) EXCEPT !.degraded = "ReconcileError"] \in Status
           /\ Honest([Rolled(s) EXCEPT !.degraded = "ReconcileError"])
BY DEF Rolled, Status, Honest, Degraded

LEMMA NotingKeeps ==
    ASSUME TypeOK, HonestCopy, NEW reason \in Reasons, NEW version \in Versions \union {0},
           version # 0 => reason = "CSVSucceeded", Noting(reason, version)
    PROVE  cb' \in [spec : Choices, status : Status] /\ Honest(cb'.status) /\ cb'.spec = cb.spec
<1>1. cb.status \in Status
  BY DEF TypeOK
<1>2. Noted(cb.status, reason, version) \in Status /\ Honest(Noted(cb.status, reason, version))
  BY <1>1, NotedStatus
<1>3. cb' = [cb EXCEPT !.status = Noted(cb.status, reason, version)]
  BY DEF Noting
<1> HIDE DEF Honest
<1> QED
  BY <1>2, <1>3 DEF TypeOK

LEMMA NotingCSVKeeps ==
    ASSUME TypeOK, HonestCopy, NEW S \in SUBSET CSVs, NotingCSV(S)
    PROVE  cb' \in [spec : Choices, status : Status] /\ Honest(cb'.status) /\ cb'.spec = cb.spec
           /\ pc' = "status"
<1>1. PICK c \in CSVs : Noting(ReasonOf(csv[c]), VersionOf(csv[c], c[2])) /\ pc' = "status"
  BY DEF NotingCSV, Newest
<1>2. csv[c] \in Phases /\ c[2] \in Versions
  BY Values DEF TypeOK
<1> QED
  BY <1>1, <1>2, OfPhase, NotingKeeps

LEMMA ForgottenKeeps ==
    ASSUME TypeOK, HonestCopy
    PROVE  Forgotten \in [spec : Choices, status : Status] /\ Honest(Forgotten.status)
           /\ Forgotten.spec = cb.spec
BY DEF Forgotten, TypeOK, Status, Honest

LEMMA InitHolds == Init => InstallInv
<1> SUFFICES ASSUME Init PROVE InstallInv
  OBVIOUS
<1> USE Values DEF Init
<1>1. TypeOK
  BY BoundsAssumption DEF TypeOK, Catalogs, Defaults, Phases, Steps
<1>2. Gone /\ HonestCopy /\ Route
  BY DEF Gone, HonestCopy, Route, OnTheWay
<1> QED
  BY <1>1, <1>2 DEF InstallInv

----------------------------------------------------------------------------
(* Types and honesty *)

LEMMA ObservedTypes ==
    ASSUME TypeOK, Observe
    PROVE  lasting' \subseteq CSVs /\ deferring' \in BOOLEAN
           /\ present' \subseteq Defaults /\ missing' \in BOOLEAN
<1>1. lasting' \subseteq CSVs /\ present' \subseteq Defaults
  BY DEF TypeOK, Observe, Since
<1>2. deferring' \in BOOLEAN
  <2> DEFINE now == "theirs" \in groups'
  <2>1. deferring' = FALSE \/ deferring' = now \/ deferring' = (deferring /\ now)
    BY DEF Observe, Since
  <2>2. deferring \in BOOLEAN /\ now \in BOOLEAN
    BY DEF TypeOK
  <2> HIDE DEF now
  <2> QED
    BY <2>1, <2>2
<1>3. missing' \in BOOLEAN
  <2> DEFINE now == "redhat" \notin catalogs'
  <2>1. missing' = FALSE \/ missing' = now \/ missing' = (missing \/ now)
    BY DEF Observe, Since
  <2> QED
    BY <2>1
<1> QED
  BY <1>1, <1>2, <1>3

LEMMA ChoiceMade ==
    ASSUME NEW source \in Catalogs, NEW confident \in BOOLEAN, Choose(source, confident)
    PROVE  choice' \in Choice /\ choice'.source = source /\ choice'.confident = confident
           /\ pc' = IF seen = NoSub THEN "create" ELSE "sync"
BY DEF Choose, Choice

\* The operator keeps the types, and a version with a finished installation.
LEMMA OperatorTypes ==
    ASSUME TypeOK, HonestCopy, Operator, Observe
    PROVE  TypeOK' /\ HonestCopy'
<1>1. lasting' \subseteq CSVs /\ deferring' \in BOOLEAN
      /\ present' \subseteq Defaults /\ missing' \in BOOLEAN
  BY ObservedTypes
<1> DEFINE CopyOK == cb' \in [spec : Choices, status : Status] /\ Honest(cb'.status)
           RestOK == pc' \in Steps /\ disruptions' \in Nat
<1> USE DEF cluster, locals, Local, Succeed, Fail, Disrupt, Refuse
<1>2. CASE Begin
  BY <1>1, <1>2 DEF Begin, TypeOK, HonestCopy, Steps
<1>3. CASE BatchWrites
  BY <1>1, <1>3 DEF BatchWrites, TypeOK, HonestCopy
<1>4. CASE GetSubscription
  <2>1. CopyOK
    <3>1. CASE Noting("NotInstalled", 0)
      BY <3>1, NotingKeeps DEF Reasons
    <3>2. CASE UNCHANGED cb
      BY <3>2 DEF TypeOK, HonestCopy
    <3> QED
      BY <1>4, <3>1, <3>2 DEF GetSubscription
  <2>2. RestOK /\ seen' \in Subscription
    BY <1>4 DEF GetSubscription, TypeOK, Steps
  <2> QED
    BY <1>1, <1>4, <2>1, <2>2 DEF GetSubscription, TypeOK, HonestCopy
<1>5. CASE ResolveSource
  <2>1. choice' \in Choice
    BY <1>5, ChoiceMade DEF ResolveSource, TypeOK, Catalogs, Defaults
  <2>2. RestOK
    <3>1. pc' \in {"community", "create", "sync"}
      BY <1>5 DEF ResolveSource, Choose
    <3>2. disruptions' \in Nat
      <4>1. disruptions' = disruptions \/ (disruptions > 0 /\ disruptions' = disruptions - 1)
        BY <1>5, Zenon DEF ResolveSource
      <4> QED
        BY <4>1 DEF TypeOK
    <3> QED
      BY <3>1, <3>2 DEF Steps
  <2> QED
    BY <1>1, <1>5, <2>1, <2>2 DEF ResolveSource, TypeOK, HonestCopy
<1>6. CASE ResolveCommunity
  <2>1. choice' \in Choice
    BY <1>6, ChoiceMade DEF ResolveCommunity, TypeOK, Catalogs, Defaults
  <2>2. RestOK
    BY <1>6 DEF ResolveCommunity, Choose, TypeOK, Steps
  <2> QED
    BY <1>1, <1>6, <2>1, <2>2 DEF ResolveCommunity, TypeOK, HonestCopy
<1>7. CASE SyncSource
  <2>1. RestOK /\ sub' \in Subscription
    BY <1>7 DEF SyncSource, TypeOK, Steps, Choice, Subscription
  <2> QED
    BY <1>1, <1>7, <2>1 DEF SyncSource, TypeOK, HonestCopy
<1>8. CASE ReadInstalled
  <2>1. CopyOK
    <3>1. CASE Noting("Installing", 0)
      BY <3>1, NotingKeeps DEF Reasons, Unfinished
    <3>2. CASE seen.csv # 0 /\ Noting(ReasonOf(csv[<<"local", seen.csv>>]),
                                     VersionOf(csv[<<"local", seen.csv>>], seen.csv))
      <4>1. seen.csv \in Versions /\ csv[<<"local", seen.csv>>] \in Phases
        BY <3>2, Values DEF TypeOK, Subscription
      <4> QED
        BY <3>2, <4>1, OfPhase, NotingKeeps
    <3>3. CASE UNCHANGED cb
      BY <3>3 DEF TypeOK, HonestCopy
    <3> QED
      BY <1>8, <3>1, <3>2, <3>3 DEF ReadInstalled
  <2>2. RestOK
    BY <1>8 DEF ReadInstalled, TypeOK, Steps
  <2> QED
    BY <1>1, <1>8, <2>1, <2>2 DEF ReadInstalled, TypeOK, HonestCopy
<1>9. CASE FindLocal
  <2>1. CopyOK
    <3>1. CASE NotingCSV(InPlace(Finished))
      BY <3>1, NotingCSVKeeps DEF InPlace, Finished, InPhase
    <3>2. CASE NothingFound
      BY <3>2, NotingKeeps DEF NothingFound, Reasons, TypeOK, HonestCopy
    <3>3. CASE UNCHANGED cb
      BY <3>3 DEF TypeOK, HonestCopy
    <3> QED
      BY <1>9, <3>1, <3>2, <3>3 DEF FindLocal
  <2>2. RestOK
    BY <1>9 DEF FindLocal, NothingFound, NotingCSV, TypeOK, Steps
  <2>3. fallback' \in Phases \ {"Succeeded"}
    BY <1>9 DEF FindLocal, Newest, InPlace, Started, InPhase, TypeOK, Phases
  <2> QED
    BY <1>1, <1>9, <2>1, <2>2, <2>3 DEF FindLocal, TypeOK, HonestCopy
<1>10. CASE FindAnywhere
  <2>1. CopyOK
    <3>1. CASE NotingCSV(Finished) \/ NotingCSV(Started)
      BY <3>1, NotingCSVKeeps DEF Started, Finished, InPhase
    <3>2. CASE NothingFound
      BY <3>2, NotingKeeps DEF NothingFound, Reasons, TypeOK, HonestCopy
    <3>3. CASE Noting(ReasonOf(fallback), 0)
      <4>1. ReasonOf(fallback) \in Reasons
        BY DEF TypeOK, Phases, ReasonOf, Reasons, Unfinished
      <4> QED
        BY <3>3, <4>1, NotingKeeps
    <3>4. CASE UNCHANGED cb
      BY <3>4 DEF TypeOK, HonestCopy
    <3> QED
      BY <1>10, <3>1, <3>2, <3>3, <3>4 DEF FindAnywhere
  <2>2. RestOK
    BY <1>10 DEF FindAnywhere, NothingFound, NotingCSV, TypeOK, Steps
  <2> QED
    BY <1>1, <1>10, <2>1, <2>2 DEF FindAnywhere, TypeOK, HonestCopy
<1>11. CASE ListGroups
  <2>1. CopyOK
    BY <1>11, ForgottenKeeps DEF ListGroups, TypeOK, HonestCopy
  <2>2. RestOK
    BY <1>11 DEF ListGroups, TypeOK, Steps
  <2> QED
    BY <1>1, <1>11, <2>1, <2>2 DEF ListGroups, TypeOK, HonestCopy
<1>12. CASE WriteGroup
  <2>1. CopyOK
    BY <1>12, ForgottenKeeps DEF WriteGroup, TypeOK, HonestCopy
  <2>2. RestOK
    BY <1>12 DEF WriteGroup, TypeOK, Steps
  <2>3. groups' \subseteq {"ours", "theirs"}
    BY <1>12 DEF WriteGroup, TypeOK
  <2> QED
    BY <1>1, <1>12, <2>1, <2>2, <2>3 DEF WriteGroup, TypeOK, HonestCopy
<1>13. CASE CreateSubscription
  <2>1. CopyOK
    <3>1. CASE Noting("Installing", 0)
      BY <3>1, NotingKeeps DEF Reasons, Unfinished
    <3>2. CASE UNCHANGED cb
      BY <3>2 DEF TypeOK, HonestCopy
    <3> QED
      BY <1>13, <3>1, <3>2 DEF CreateSubscription
  <2>2. RestOK
    BY <1>13 DEF CreateSubscription, TypeOK, Steps
  <2>3. sub' \in Subscription
    BY <1>13, Values DEF CreateSubscription, TypeOK, Choice, Subscription, NoSub
  <2> QED
    BY <1>1, <1>13, <2>1, <2>2, <2>3 DEF CreateSubscription, TypeOK, HonestCopy
<1>14. CASE StatusWrite
  <2>1. Written \in Status /\ Honest(Written)
    BY RolledStatus DEF Written, TypeOK, HonestCopy
  <2>2. status' \in Status /\ Honest(status') /\ disruptions' \in Nat
    BY <1>14, <2>1 DEF StatusWrite, TypeOK, HonestCopy
  <2> QED
    BY <1>1, <1>14, <2>2, Values DEF StatusWrite, Return, TypeOK, HonestCopy, Phases, Steps
<1> QED
  BY <1>2, <1>3, <1>4, <1>5, <1>6, <1>7, <1>8, <1>9, <1>10, <1>11, <1>12, <1>13, <1>14
     DEF Operator

\* Nobody else writes a version.
LEMMA OthersTypes ==
    ASSUME TypeOK, HonestCopy, Observe,
           Crash \/ OlmInstalls \/ OlmFinishes \/ GracePasses \/ Administrator
    PROVE  TypeOK' /\ HonestCopy'
<1>1. lasting' \subseteq CSVs /\ deferring' \in BOOLEAN
      /\ present' \subseteq Defaults /\ missing' \in BOOLEAN
  BY ObservedTypes
<1> USE DEF cluster, locals, Outside, Move
<1>2. CASE Crash
  BY <1>1, <1>2, Values DEF Crash, Return, Disrupt, TypeOK, HonestCopy, Phases, Steps
<1>3. CASE OlmInstalls
  <2>1. PICK v \in Versions : /\ sub' = [sub EXCEPT !.csv = v]
                              /\ csv' = [csv EXCEPT ![<<"local", v>>] =
                                            IF @ = "absent" THEN "pending" ELSE @]
    BY <1>3 DEF OlmInstalls
  <2>2. sub' \in Subscription /\ csv' \in [CSVs -> Phases]
    BY <2>1, Values DEF TypeOK, Subscription, Phases
  <2> QED
    BY <1>1, <1>3, <2>2 DEF OlmInstalls, TypeOK, HonestCopy
<1>4. CASE OlmFinishes
  <2>1. csv' \in [CSVs -> Phases]
    BY <1>4 DEF OlmFinishes, InPhase, TypeOK, Phases
  <2> QED
    BY <1>1, <1>4, <2>1 DEF OlmFinishes, TypeOK, HonestCopy
<1>5. CASE GracePasses
  <2>1. status' \in Status /\ Honest(status')
    BY <1>5 DEF GracePasses, TypeOK, Status, HonestCopy, Honest
  <2> QED
    BY <1>1, <1>5, <2>1 DEF GracePasses, TypeOK, HonestCopy
<1>6. CASE Administrator
  <2>1. moves' \in Nat /\ UNCHANGED <<status, pc, cb, seen, fallback, choice, disruptions>>
    BY <1>6 DEF Administrator, EditSpec, ChangeCatalogs, TouchSubscription, TouchCSV,
                TouchGroups, ToggleOLM, TypeOK
  <2>2. spec' \in Choices /\ rvOK' \in BOOLEAN
    BY <1>6 DEF Administrator, EditSpec, ChangeCatalogs, TouchSubscription, TouchCSV,
                TouchGroups, ToggleOLM, TypeOK
  <2>3. olm' \in BOOLEAN /\ catalogs' \subseteq Catalogs /\ groups' \subseteq {"ours", "theirs"}
    BY <1>6 DEF Administrator, EditSpec, ChangeCatalogs, TouchSubscription, TouchCSV,
                TouchGroups, ToggleOLM, TypeOK
  <2>4. sub' \in Subscription
    BY <1>6, Values DEF Administrator, EditSpec, ChangeCatalogs, TouchSubscription, TouchCSV,
                TouchGroups, ToggleOLM, TypeOK, Subscription
  <2>5. csv' \in [CSVs -> Phases]
    BY <1>6, Values DEF Administrator, EditSpec, ChangeCatalogs, TouchSubscription, TouchCSV,
                TouchGroups, ToggleOLM, TypeOK
  <2> QED
    BY <1>1, <2>1, <2>2, <2>3, <2>4, <2>5 DEF TypeOK, HonestCopy
<1> QED
  BY <1>2, <1>3, <1>4, <1>5, <1>6

----------------------------------------------------------------------------
(* The way of a reconcile *)

\* What the histories of a running reconcile become.
LEMMA Observed ==
    ASSUME Observe, pc # "idle", pc' # "idle"
    PROVE  /\ lasting' = lasting \intersect {c \in CSVs : csv'[c] # "absent"}
           /\ deferring' = (deferring /\ "theirs" \in groups')
           /\ present' = present \union (catalogs' \intersect Defaults)
           /\ missing' = (missing \/ "redhat" \notin catalogs')
BY DEF Observe, Since

LEMMA GoneKept ==
    ASSUME InstallInv, Next
    PROVE  Gone'
<1> USE DEF InstallInv, Gone
<1>1. CASE Operator
  <2>1. UNCHANGED <<olm, csv>>
    BY <1>1 DEF Operator, Begin, BatchWrites, GetSubscription, ResolveSource, ResolveCommunity,
                SyncSource, ReadInstalled, FindLocal, FindAnywhere, ListGroups, WriteGroup,
                CreateSubscription, StatusWrite, Return, cluster
  <2>2. ~olm => sub' = sub
    BY <1>1 DEF Operator, Begin, BatchWrites, GetSubscription, ResolveSource, ResolveCommunity,
                SyncSource, ReadInstalled, FindLocal, FindAnywhere, ListGroups, WriteGroup,
                CreateSubscription, StatusWrite, Return, cluster
  <2> QED
    BY <2>1, <2>2
<1>2. CASE Crash \/ GracePasses
  BY <1>2 DEF Crash, Return, GracePasses, cluster
<1>3. CASE OlmInstalls
  <2>1. olm
    BY <1>3, Values DEF OlmInstalls, TypeOK, Catalogs, Defaults
  <2> QED
    BY <1>3, <2>1 DEF OlmInstalls
<1>4. CASE OlmFinishes
  <2>1. olm
    BY <1>4, Values DEF OlmFinishes, InPhase
  <2> QED
    BY <1>4, <2>1 DEF OlmFinishes
<1>5. CASE Administrator
  BY <1>5 DEF Administrator, EditSpec, ChangeCatalogs, TouchSubscription, TouchCSV,
              TouchGroups, ToggleOLM, cluster
<1> QED
  BY <1>1, <1>2, <1>3, <1>4, <1>5 DEF Next

\* A step that leaves the worker alone leaves it on its way.
LEMMA RouteStays ==
    ASSUME InstallInv, Observe, UNCHANGED <<pc, cb, seen, choice>>
    PROVE  Route'
<1>1. CASE pc = "idle"
  BY <1>1 DEF Route, OnTheWay
<1>2. CASE pc # "idle"
  <2>1. lasting' \subseteq lasting /\ (deferring' => deferring)
        /\ present \subseteq present' /\ (missing => missing')
    BY <1>2, Observed
  <2> QED
    BY <2>1 DEF InstallInv, Route, OnTheWay, Verified
<1> QED
  BY <1>1, <1>2

\* Where nothing is found, nothing has been there all the time.
LEMMA NothingLasts ==
    ASSUME InstallInv, Observe, pc \in {"find", "walk"}, pc' # "idle", csv' = csv,
           ~olm \/ Finished \union Started = {}
    PROVE  lasting' = {}
<1>1. \A c \in CSVs : csv[c] = "absent"
  <2>1. CASE ~olm
    BY <2>1, Values DEF InstallInv, Gone
  <2>2. CASE Finished \union Started = {}
    BY <2>2 DEF InstallInv, TypeOK, Phases, Finished, Started, InPhase
  <2> QED
    BY <2>1, <2>2
<1> QED
  BY <1>1, Observed

LEMMA RouteKept ==
    ASSUME InstallInv, Next
    PROVE  Route'
<1> USE DEF cluster, locals, Local, Succeed, Fail, Disrupt, Refuse
<1>0. Observe
  BY DEF Next
<1>1. CASE Begin \/ StatusWrite \/ Crash
  BY <1>1 DEF Begin, StatusWrite, Crash, Return, Route, OnTheWay
<1>2. CASE BatchWrites
  BY <1>0, <1>2, RouteStays DEF BatchWrites
<1>3. CASE OlmInstalls \/ OlmFinishes \/ GracePasses \/ Administrator
  <2>1. UNCHANGED <<pc, cb, seen, choice>>
    BY <1>3 DEF OlmInstalls, OlmFinishes, GracePasses, Administrator, EditSpec, ChangeCatalogs,
                TouchSubscription, TouchCSV, TouchGroups, ToggleOLM, Move, Outside
  <2> QED
    BY <1>0, <2>1, RouteStays
<1>4. CASE GetSubscription
  <2>1. pc' \in {"status", "errorStatus"}
        \/ (pc' \in {"find", "installed", "catalog"} /\ seen' = sub /\ cb' = cb)
    BY <1>4 DEF GetSubscription
  <2>2. pc' = "find" => sub = NoSub
    BY <1>4 DEF GetSubscription
  <2>3. pc' = "catalog" => sub # NoSub /\ cb.spec.install = "Automatic"
    BY <1>4 DEF GetSubscription, InstallInv, TypeOK, Choices
  <2> QED
    BY <2>1, <2>2, <2>3 DEF Route, OnTheWay
<1>5. CASE ResolveSource \/ ResolveCommunity
  <2>1. pc \in {"catalog", "community"} /\ pc' \in {"community", "create", "sync"}
        /\ UNCHANGED <<cb, seen, catalogs>>
    BY <1>5 DEF ResolveSource, ResolveCommunity, Choose
  <2>2. /\ lasting' \subseteq lasting
        /\ present' = present \union (catalogs' \intersect Defaults)
        /\ missing' = (missing \/ "redhat" \notin catalogs')
    BY <1>0, <2>1, Observed
  <2>3. cb.spec.install = "Automatic" /\ (seen = NoSub => lasting' = {})
    BY <2>1, <2>2 DEF InstallInv, Route, OnTheWay
  <2>4. pc' = "create" => seen = NoSub
    BY <1>5 DEF ResolveSource, ResolveCommunity, Choose
  <2>5. pc' = "sync" => seen # NoSub
    BY <1>5 DEF ResolveSource, ResolveCommunity, Choose
  <2>6. pc' = "community" => missing' /\ cb.spec.source = ""
    BY <1>5, <2>1, <2>2 DEF ResolveSource, ResolveCommunity, Choose
  <2>7. pc' = "sync" /\ choice'.confident => Verified(choice.source)'
    <3> SUFFICES ASSUME pc' = "sync", choice'.confident PROVE Verified(choice.source)'
      OBVIOUS
    <3>1. CASE ResolveSource
      <4>1. \/ cb.spec.source = "custom" /\ choice'.source = "custom"
            \/ cb.spec.source = "" /\ choice'.source = "redhat" /\ "redhat" \in catalogs
        BY <3>1, ChoiceMade DEF ResolveSource, Catalogs, Defaults
      <4> QED
        BY <2>1, <2>2, <4>1 DEF Verified, Defaults
    <3>2. CASE ResolveCommunity
      <4>1. choice'.source = "community" /\ "community" \in catalogs /\ pc = "community"
        BY <3>2, ChoiceMade DEF ResolveCommunity, Catalogs, Defaults
      <4>2. cb.spec.source = "" /\ missing
        BY <4>1 DEF InstallInv, Route
      <4> QED
        BY <2>1, <2>2, <4>1, <4>2 DEF Verified, Defaults
    <3> QED
      BY <1>5, <3>1, <3>2
  <2> QED
    BY <2>1, <2>3, <2>4, <2>5, <2>6, <2>7 DEF Route, OnTheWay
<1>6. CASE SyncSource \/ ReadInstalled \/ CreateSubscription
  <2>1. pc' \in {"installed", "status", "errorStatus"}
    BY <1>6 DEF SyncSource, ReadInstalled, CreateSubscription
  <2> QED
    BY <2>1 DEF Route, OnTheWay
<1>7. CASE FindLocal \/ FindAnywhere
  <2>1. pc \in {"find", "walk"} /\ seen' = seen /\ csv' = csv
        /\ pc' \in {"status", "errorStatus", "walk", "group"}
    BY <1>7 DEF FindLocal, FindAnywhere, NotingCSV, NothingFound
  <2>2. seen = NoSub
    BY <2>1 DEF InstallInv, Route
  <2>3. pc' = "group" => cb' = cb /\ cb.spec.install = "Automatic"
                         /\ (~olm \/ Finished \union Started = {})
    BY <1>7 DEF FindLocal, FindAnywhere, NotingCSV, NothingFound
  <2>4. pc' = "group" => lasting' = {}
    BY <1>0, <2>1, <2>3, NothingLasts
  <2> QED
    BY <2>1, <2>2, <2>3, <2>4 DEF Route, OnTheWay
<1>8. CASE ListGroups \/ WriteGroup
  <2>1. pc \in {"group", "groupWrite"} /\ pc' \in {"catalog", "groupWrite", "errorStatus"}
        /\ seen' = seen /\ cb'.spec = cb.spec
    BY <1>8, ForgottenKeeps DEF ListGroups, WriteGroup, InstallInv
  <2>2. seen = NoSub /\ lasting = {} /\ cb.spec.install = "Automatic"
    BY <2>1 DEF InstallInv, Route, OnTheWay
  <2>3. lasting' = {} /\ (pc' = "groupWrite" => ~deferring')
    BY <1>0, <1>8, <2>1, <2>2, Observed DEF ListGroups, WriteGroup, Defers
  <2> QED
    BY <2>1, <2>2, <2>3 DEF Route, OnTheWay
<1> QED
  BY <1>1, <1>2, <1>3, <1>4, <1>5, <1>6, <1>7, <1>8 DEF Next, Operator

LEMMA InvStep ==
    ASSUME InstallInv, [Next]_vars
    PROVE  InstallInv'
<1>1. CASE UNCHANGED vars
  BY <1>1 DEF vars, cluster, locals, InstallInv, TypeOK, Gone, HonestCopy, Honest, Route,
              OnTheWay, Verified
<1>2. CASE Next
  <2>1. TypeOK' /\ HonestCopy'
    BY <1>2, OperatorTypes, OthersTypes DEF Next, InstallInv
  <2> QED
    BY <1>2, <2>1, GoneKept, RouteKept DEF InstallInv
<1> QED
  BY <1>1, <1>2

----------------------------------------------------------------------------
(* Theorems *)

\* The inductive invariant of the installation.
THEOREM InstallHolds == Spec => []InstallInv
BY InitHolds, InvStep, PTL DEF Spec

\* Every variable of the installation keeps to its type.
THEOREM InstallTyped == Spec => []TypeOK
<1>1. InstallInv => TypeOK
  BY DEF InstallInv
<1> QED
  BY <1>1, InstallHolds, PTL

\* A version is shown with a finished installation only.
THEOREM VersionIsReady == Spec => []VersionOnlyWhenReady
<1>1. InstallInv => VersionOnlyWhenReady
  BY DEF InstallInv, HonestCopy, Honest, VersionOnlyWhenReady
<1> QED
  BY <1>1, InstallHolds, PTL

\* Only the operator changes anything without a move of an administrator, but
\* for OLM, which changes CSVs and the one a Subscription has installed.
LEMMA ByWhom ==
    ASSUME InstallInv, Next, ByOperator
    PROVE  /\ groups' # groups => WriteGroup
           /\ sub' # sub => SyncSource \/ CreateSubscription
                            \/ (sub'.source = sub.source /\ sub.source # "absent")
<1>1. ~Administrator
  BY DEF InstallInv, TypeOK, ByOperator, Administrator, EditSpec, ChangeCatalogs,
         TouchSubscription, TouchCSV, TouchGroups, ToggleOLM, Move
<1>2. groups' # groups => WriteGroup
  BY <1>1 DEF Next, Operator, Begin, BatchWrites, GetSubscription, ResolveSource,
         ResolveCommunity, SyncSource, ReadInstalled, FindLocal, FindAnywhere, ListGroups,
         CreateSubscription, StatusWrite, Crash, Return, OlmInstalls, OlmFinishes, GracePasses,
         cluster
<1>3. OlmInstalls => sub'.source = sub.source /\ sub.source # "absent"
  BY DEF OlmInstalls, InstallInv, TypeOK, Subscription, Catalogs, Defaults
<1>4. sub' # sub => SyncSource \/ CreateSubscription \/ OlmInstalls
  BY <1>1 DEF Next, Operator, Begin, BatchWrites, GetSubscription, ResolveSource,
         ResolveCommunity, ReadInstalled, FindLocal, FindAnywhere, ListGroups, WriteGroup,
         StatusWrite, Crash, Return, OlmFinishes, GracePasses, cluster
<1> QED
  BY <1>2, <1>3, <1>4

\* The catalog of a Subscription is changed only to a verified one.
THEOREM SourceIsVerified == Spec => SourceVerified
<1> DEFINE Step == ByOperator /\ sub # NoSub /\ sub'.source # sub.source =>
        /\ cb.spec.install = "Automatic"
        /\ cb.spec.source = "custom" => sub'.source = "custom"
        /\ cb.spec.source = ""       => sub'.source \in present
        /\ sub'.source = "community" => missing
<1>1. InstallInv /\ [Next]_vars => [Step]_vars
  <2> SUFFICES ASSUME InstallInv, Next, ByOperator, sub # NoSub, sub'.source # sub.source
               PROVE  cb.spec.install = "Automatic" /\ Verified(sub'.source)
    BY DEF Verified
  <2>1. SyncSource \/ CreateSubscription
    BY ByWhom
  <2>2. CASE SyncSource
    <3>1. pc = "sync" /\ ~Keeps /\ sub' = [sub EXCEPT !.source = choice.source]
      BY <2>2 DEF SyncSource
    <3>2. choice.confident /\ sub'.source = choice.source
      BY <3>1 DEF Keeps, InstallInv, TypeOK, Subscription
    <3> QED
      BY <3>1, <3>2 DEF InstallInv, Route
  <2>3. CASE CreateSubscription
    BY <2>3 DEF CreateSubscription
  <2> QED
    BY <2>1, <2>2, <2>3
<1> QED
  BY <1>1, InstallHolds, PTL DEF Spec, SourceVerified

\* Nothing is installed next to an installation that was there all the time.
THEOREM NothingTwice == Spec => NoSecondInstall
<1> DEFINE Step == Installs => cb.spec.install = "Automatic" /\ lasting = {}
<1>1. InstallInv /\ [Next]_vars => [Step]_vars
  <2> SUFFICES ASSUME InstallInv, Next, Installs
               PROVE  cb.spec.install = "Automatic" /\ lasting = {}
    OBVIOUS
  <2>1. CreateSubscription
    BY ByWhom, Values DEF Installs, SyncSource
  <2> QED
    BY <2>1 DEF CreateSubscription, InstallInv, Route, OnTheWay
<1> QED
  BY <1>1, InstallHolds, PTL DEF Spec, NoSecondInstall

\* The operator adds no OperatorGroup next to one of somebody else that was there
\* all the time.
THEOREM DefersAlways == Spec => DefersToTheirs
<1> DEFINE Step == ByOperator /\ groups' # groups => ~deferring
<1>1. InstallInv /\ [Next]_vars => [Step]_vars
  <2> SUFFICES ASSUME InstallInv, Next, ByOperator, groups' # groups
               PROVE  ~deferring
    OBVIOUS
  <2>1. WriteGroup
    BY ByWhom
  <2> QED
    BY <2>1 DEF WriteGroup, InstallInv, Route
<1> QED
  BY <1>1, InstallHolds, PTL DEF Spec, DefersToTheirs

================================================================================
