------------------------------ MODULE ScanBindings ------------------------------
(***************************************************************************)
(* The scan configuration: one ScanSetting and a ScanSettingBinding per    *)
(* selected profile, kept equal to the ClusterBaseline by ensureScanConfig *)
(* (operator/internal/controller/scanconfig.go) and reported in the        *)
(* condition ScanConfigured.                                               *)
(*                                                                         *)
(* The bindings are listed once, then written and deleted one by one from  *)
(* what was listed; users, other products, the removal of CRDs, failed     *)
(* calls and crashes come in between.                                      *)
(*                                                                         *)
(* Abstractions:                                                           *)
(*  - tailored profiles, which the code treats in the same way, are        *)
(*    profiles, and a binding has the name of its profile;                 *)
(*  - the schedules are valid or "bad", which also stands for a schedule   *)
(*    that never fires; of a binding counts whether its contents are as    *)
(*    the code writes them, and of the ScanSetting its schedule: nobody    *)
(*    else owns it;                                                        *)
(*  - the profiles are ensured in any order, the code takes that of the    *)
(*    spec; the pages of a list belong to one snapshot;                    *)
(*  - a read-modify-write is one step, which works on the current object   *)
(*    or fails; a failed call may have taken effect;                       *)
(*  - the steps of the reconcile before and behind this one are left out,  *)
(*    but for the batch, which may refresh the resourceVersion, and the    *)
(*    status write; the informer cache is current.                         *)
(***************************************************************************)
EXTENDS Integers

CONSTANTS
    Profiles,        \* profiles that can be selected, and their bindings
    Others,          \* names of bindings that belong to other products
    Valid,           \* the schedules that are valid
    Default,         \* the schedule of the ScanSetting when there is no good one
    MaxMoves,        \* bound: steps of users and other products
    MaxDisruptions   \* bound: failed calls and crashes

ASSUME NamesAssumption    == Profiles \intersect Others = {}
ASSUME ScheduleAssumption == Default \in Valid /\ "bad" \notin Valid /\ "absent" \notin Valid
ASSUME BoundsAssumption   == MaxMoves \in Nat /\ MaxDisruptions \in Nat

VARIABLES
    spec,        \* the stored spec of the ClusterBaseline
    cond,        \* its stored condition ScanConfigured
    crds,        \* the compliance CRDs that are registered
    setting,     \* the schedule of the ScanSetting
    binding,     \* the ScanSettingBindings
    pc,          \* the API call the reconciler makes next
    cb,          \* the copy of the ClusterBaseline this reconcile works on
    listed,      \* the bindings as this reconcile listed them
    todo,        \* selected profiles still to be ensured
    stale,       \* bindings still to be pruned
    rvOK,        \* no write happened since the resourceVersion in cb
    right,       \* history: bindings seen as they should be since the reconcile began
    gap,         \* history: the CRD of the bindings was missing since then
    moves,       \* steps of users and other products still to come
    disruptions  \* failed calls and crashes still to come

cluster == <<spec, crds, setting, binding>>
worker  == <<cb, listed, todo, stale>>
vars    == <<cluster, cond, pc, worker, rvOK, right, gap, moves, disruptions>>

----------------------------------------------------------------------------
(* Values *)

Names     == Profiles \union Others
CRDs      == {"ScanSetting", "ScanSettingBinding"}
Schedules == Valid \union {"bad"}
Choices   == [selected : SUBSET Profiles, schedule : Schedules]

Reasons == {"none", "BindingsCreated", "ScanningDisabled", "InvalidSchedule", "CRDsMissing"}
Copy    == [selected : SUBSET Profiles, schedule : Schedules, cond : Reasons]

\* A binding: the controller that owns it and whether its contents are as the
\* code writes them.
Binding == [owner : {"baseline", "other", "nobody"}, contents : {"right", "wrong"}]
            \union {[owner |-> "absent", contents |-> "wrong"]}
Absent  == [owner |-> "absent", contents |-> "wrong"]
Right   == [owner |-> "baseline", contents |-> "right"]

NoBindings == [n \in Names |-> Absent]

Owned == {n \in Names : binding[n].owner = "baseline"}
Steps == {"idle", "setting", "list", "bindings", "status", "errorStatus"}

TypeOK ==
    /\ spec \in Choices /\ cond \in Reasons
    /\ crds \subseteq CRDs
    /\ setting \in Valid \union {"absent"}
    /\ binding \in [Names -> Binding] /\ listed \in [Names -> Binding]
    /\ pc \in Steps /\ cb \in Copy
    /\ todo \subseteq Profiles /\ stale \subseteq Names /\ right \subseteq Names
    /\ rvOK \in BOOLEAN /\ gap \in BOOLEAN
    /\ moves \in Nat /\ disruptions \in Nat

Init ==
    /\ spec \in [selected : SUBSET Profiles, schedule : {Default}] /\ cond = "none"
    /\ crds = CRDs /\ setting = "absent"
    /\ binding = NoBindings /\ listed = NoBindings
    /\ pc = "idle" /\ cb = [selected |-> {}, schedule |-> Default, cond |-> "none"]
    /\ todo = {} /\ stale = {} /\ rvOK = TRUE /\ right = {} /\ gap = FALSE
    /\ moves = MaxMoves /\ disruptions = MaxDisruptions

----------------------------------------------------------------------------
(* The reconcile *)

\* A call fails, or its answer is lost, and reconcileOwned returns the error.
Disrupt  == disruptions > 0 /\ disruptions' = disruptions - 1
Fail     == Disrupt /\ pc' = "errorStatus"
Succeed  == UNCHANGED disruptions

\* setScanCRDsMissing, and ensureScanConfig returns.
CRDsMissing ==
    /\ cb' = [cb EXCEPT !.cond = "CRDsMissing"] /\ pc' = "status"
    /\ Succeed /\ UNCHANGED <<listed, todo, stale>>

Begin ==
    /\ pc = "idle"
    /\ cb' = [selected |-> spec.selected, schedule |-> spec.schedule, cond |-> cond]
    /\ pc' = "setting" /\ rvOK' = TRUE
    /\ Succeed /\ UNCHANGED <<cluster, cond, listed, todo, stale, moves>>

\* A running remediation batch refreshes the resourceVersion, not the spec.
BatchWrites ==
    /\ pc = "setting" /\ ~rvOK /\ rvOK' = TRUE
    /\ Succeed /\ UNCHANGED <<cluster, cond, pc, worker, moves>>

\* The schedule the ScanSetting gets: that of the spec, or the last good one.
Wanted ==
    IF cb.schedule \in Valid THEN cb.schedule
    ELSE IF setting = "absent" THEN Default ELSE setting

EnsureSetting ==
    /\ pc = "setting"
    /\ \/ /\ "ScanSetting" \notin crds /\ CRDsMissing /\ UNCHANGED setting
       \/ /\ "ScanSetting" \in crds
          /\ setting' = Wanted /\ pc' = "list" /\ Succeed /\ UNCHANGED worker
       \/ /\ Fail /\ UNCHANGED worker
          /\ setting' \in {setting} \union {s \in {Wanted} : "ScanSetting" \in crds}
    /\ UNCHANGED <<spec, crds, binding, cond, rvOK, moves>>

\* What is selected is ensured, what is controlled by the ClusterBaseline and
\* not selected is pruned.
Stale == Owned \ cb.selected

ListBindings ==
    /\ pc = "list"
    /\ \/ "ScanSettingBinding" \notin crds /\ CRDsMissing
       \/ /\ "ScanSettingBinding" \in crds
          /\ listed' = binding /\ todo' = cb.selected /\ stale' = Stale
          /\ pc' = "bindings" /\ Succeed /\ UNCHANGED cb
       \/ Fail /\ UNCHANGED worker
    /\ UNCHANGED <<cluster, cond, rvOK, moves>>

\* ensureScanBinding, when the listed binding needs no write.
UpToDateIfListed(n) == listed[n].owner = "baseline"
UpToDate(n)         == listed[n] = Right

\* SetControllerReference refuses a binding another controller owns.
Refused(b)      == b.owner = "other"

SkipBinding(n) ==
    /\ UpToDate(n) /\ todo' = todo \ {n}
    /\ Succeed /\ UNCHANGED <<pc, cb, binding>>

RefuseBinding(n) ==
    /\ Refused(listed[n]) \/ ("ScanSettingBinding" \in crds /\ Refused(binding[n]))
    /\ ~UpToDate(n) /\ pc' = "errorStatus"
    /\ Succeed /\ UNCHANGED <<cb, todo, binding>>

\* CreateOrUpdate works on the current binding, not on the listed one.
WriteBinding(n) ==
    /\ ~UpToDate(n) /\ ~Refused(listed[n]) /\ ~Refused(binding[n])
    /\ "ScanSettingBinding" \in crds
    /\ binding' = [binding EXCEPT ![n] = Right]
    /\ \/ todo' = todo \ {n} /\ Succeed /\ UNCHANGED pc
       \/ Fail /\ UNCHANGED todo
    /\ UNCHANGED cb

\* The error is swallowed: the caller goes on with the next profile.
MissBinding(n) ==
    /\ ~UpToDate(n) /\ ~Refused(listed[n]) /\ "ScanSettingBinding" \notin crds
    /\ cb' = [cb EXCEPT !.cond = "CRDsMissing"] /\ todo' = todo \ {n}
    /\ Succeed /\ UNCHANGED <<pc, binding>>

FailBinding(n) ==
    ~UpToDate(n) /\ ~Refused(listed[n]) /\ Fail /\ UNCHANGED <<cb, todo, binding>>

EnsureBinding ==
    /\ pc = "bindings"
    /\ \E n \in todo :
          \/ SkipBinding(n) \/ RefuseBinding(n) \/ WriteBinding(n)
          \/ MissBinding(n) \/ FailBinding(n)
    /\ UNCHANGED <<spec, crds, setting, cond, listed, stale, rvOK, moves>>

\* The binding is deleted by its name, whatever it is by now.
PruneBinding ==
    /\ pc = "bindings" /\ todo = {}
    /\ \E n \in stale :
          \/ /\ "ScanSettingBinding" \in crds
             /\ binding' = [binding EXCEPT ![n] = Absent]
             /\ \/ stale' = stale \ {n} /\ Succeed /\ UNCHANGED pc
                \/ Fail /\ UNCHANGED stale
          \/ /\ "ScanSettingBinding" \notin crds /\ pc' = "errorStatus"
             /\ Succeed /\ UNCHANGED <<binding, stale>>
          \/ Fail /\ UNCHANGED <<binding, stale>>
    /\ UNCHANGED <<spec, crds, setting, cond, cb, listed, todo, rvOK, moves>>

Outcome(selected, schedule) ==
    IF selected = {} THEN "ScanningDisabled"
    ELSE IF schedule \in Valid THEN "BindingsCreated" ELSE "InvalidSchedule"

PrunedAnyway == TRUE
Pruned       == stale = {}

Conclude ==
    /\ pc = "bindings" /\ todo = {} /\ Pruned
    /\ cb' = [cb EXCEPT !.cond = Outcome(cb.selected, cb.schedule)]
    /\ pc' = "status"
    /\ Succeed /\ UNCHANGED <<cluster, cond, listed, todo, stale, rvOK, moves>>

\* The reconcile is over, and its variables are gone.
Return ==
    /\ pc' = "idle" /\ listed' = NoBindings /\ todo' = {} /\ stale' = {}
    /\ UNCHANGED cb

\* The status write after success or error; a conflict loses it.
StatusWrite ==
    /\ pc \in {"status", "errorStatus"} /\ Return
    /\ \/ cond' = (IF rvOK THEN cb.cond ELSE cond) /\ Succeed
       \/ UNCHANGED cond /\ Disrupt
    /\ UNCHANGED <<cluster, rvOK, moves>>

Crash ==
    /\ pc # "idle" /\ Return
    /\ Disrupt /\ UNCHANGED <<cluster, cond, rvOK, moves>>

Operator ==
    \/ Begin \/ BatchWrites \/ EnsureSetting \/ ListBindings
    \/ EnsureBinding \/ PruneBinding \/ Conclude \/ StatusWrite

----------------------------------------------------------------------------
(* Everybody else *)

Move == /\ moves > 0 /\ moves' = moves - 1
        /\ UNCHANGED <<cond, pc, worker, disruptions>>

EditSpec ==
    /\ Move /\ spec' \in Choices \ {spec} /\ rvOK' = FALSE
    /\ UNCHANGED <<crds, setting, binding>>

\* Users and other products create, change, take over and delete bindings; a
\* binding of the ClusterBaseline they can change and let go, not make.
TouchBinding ==
    /\ Move /\ "ScanSettingBinding" \in crds
    /\ \E n \in Names, b \in Binding :
          /\ b # binding[n]
          /\ b.owner = "baseline" => binding[n] = Right
          /\ binding' = [binding EXCEPT ![n] = b]
    /\ UNCHANGED <<spec, crds, setting, rvOK>>

EditSetting ==
    /\ Move /\ "ScanSetting" \in crds /\ setting' \in Valid \union {"absent"}
    /\ UNCHANGED <<spec, crds, binding, rvOK>>

\* The CRDs come and go one at a time, and the objects go with them.
ChangeCRD ==
    /\ Move
    /\ \E c \in CRDs :
          \/ c \notin crds /\ crds' = crds \union {c} /\ UNCHANGED <<setting, binding>>
          \/ /\ c \in crds /\ crds' = crds \ {c}
             /\ setting' = IF c = "ScanSetting" THEN "absent" ELSE setting
             /\ binding' = IF c = "ScanSetting" THEN binding ELSE NoBindings
    /\ UNCHANGED <<spec, rvOK>>

Environment == EditSpec \/ TouchBinding \/ EditSetting \/ ChangeCRD

\* What has been true of the bindings since the reconcile began.
Observe ==
    /\ right' = IF pc' = "idle" THEN {} ELSE right \union {n \in Names : binding'[n] = Right}
    /\ gap' = (pc' # "idle" /\ (gap \/ "ScanSettingBinding" \notin crds'))

Next == (Operator \/ Crash \/ Environment) /\ Observe

Spec == Init /\ [][Next]_vars

----------------------------------------------------------------------------
(* Properties *)

Concluded == pc = "status" /\ cb.cond \in {"BindingsCreated", "ScanningDisabled", "InvalidSchedule"}

\* When ensureScanConfig has come to its end, with whatever condition, no
\* binding of the ClusterBaseline is left for a profile it did not select:
\* what is stale was listed, and only the operator makes bindings its own
\* (scanconfig.go:148-156).
OwnedAreSelected == Concluded => Owned \subseteq cb.selected

\* BindingsCreated is said only after the binding of every selected profile
\* has been as it should be at some moment of this reconcile, although the
\* code looks at some in the list only and at others when it writes them
\* (scanconfig.go:212-240). The removal of the CRD in between is the exception.
ConfiguredIsSound ==
    pc = "status" /\ cb.cond = "BindingsCreated" /\ ~gap => cb.selected \subseteq right

\* A binding another controller owns is changed by the operator only if it
\* was the operator's when this reconcile listed it: it is then deleted by its
\* name (scanconfig.go:116 and 148-153).
OthersKept ==
    [][moves' = moves =>
          \A n \in Names : binding[n].owner = "other" /\ binding'[n] # binding[n] =>
                             listed[n].owner = "baseline" /\ n \in stale]_vars

\* The configuration follows the spec: once nobody else writes, the bindings are
\* those of the selected profiles, the ScanSetting has the schedule of the spec
\* or, if that is bad, some good one, and the condition says which it is,
\* unless the CRDs are missing or a selected binding belongs to someone else
\* (ensureScanConfig as a whole).
Configured ==
    /\ \A n \in spec.selected : binding[n] = Right
    /\ Owned = spec.selected
    /\ setting \in Valid /\ spec.schedule \in {setting, "bad"}
    /\ spec.selected = {} => cond = "ScanningDisabled"
    /\ spec.selected # {} => cond = IF spec.schedule = "bad" THEN "InvalidSchedule"
                                    ELSE "BindingsCreated"
Converged ==
    /\ crds # CRDs => cond = "CRDsMissing"
    /\ crds = CRDs /\ (\A n \in spec.selected : binding[n].owner # "other") => Configured
=============================================================================
