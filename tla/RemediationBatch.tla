---------------------------- MODULE RemediationBatch ----------------------------
(***************************************************************************)
(* The batch apply of ComplianceRemediations (operator/internal/controller *)
(* batch.go, batch_apply.go, batch_reconcile.go and the part of Reconcile  *)
(* that persists its outcome).                                             *)
(*                                                                         *)
(* One reconcile worker reads the ClusterBaseline through the informer     *)
(* cache, pauses the MachineConfigPools of the requested remediations,     *)
(* applies them, and in later reconciles resumes the pools.  Every call to *)
(* the API server is one step, so that crashes, failures and the other     *)
(* writers of the same objects interleave with it.                         *)
(*                                                                         *)
(* Abstractions:                                                           *)
(*  - names of pools and remediations are numbers, in the order in which   *)
(*    the code sorts the names;                                            *)
(*  - a batch clock is "fresh" (within batchResumeGrace) or "expired";     *)
(*  - a read-modify-write that the code repeats on conflict is one step;   *)
(*    its five attempts running out is one of its failures;                *)
(*  - resource versions are compared by the content they stand for, plus   *)
(*    the flag rvOK for the version the reconciler holds;                  *)
(*  - every pool exists and its spec.paused can be read: the code skips one *)
(*    that is missing or unreadable and applies its remediations unpaused;  *)
(*  - the outcome "orphaned", counted when a request withdrawn before its   *)
(*    batch opened is cleaned up, belongs to no batch and is left out;      *)
(*  - the pools of a batch that a previous release left without a pause    *)
(*    owner, and a selection of profiles that changes, are not modelled.   *)
(***************************************************************************)
EXTENDS Integers, FiniteSets

CONSTANTS
    Pools,              \* MachineConfigPools
    Names,              \* names that a request can carry
    Invalid,            \* names that are not DNS-1123 subdomains
    Foreign,            \* remediations of suites the baseline does not own
    PoolOf,             \* PoolOf[r]: {} or the one pool remediation r targets
    Requests,           \* the requests users submit
    NoRequest,          \* the batch-apply annotation is absent
    MaxNames,           \* batchMaxRemediations
    MaxPools,           \* batchMaxPools
    AdminPools,         \* pools an administrator pauses and unpauses by hand
    ForgedPools,        \* pools a client adds to the batch-pools annotation
    DirectAnnotate,     \* requests also come and go without the console's guards
    Lag,                \* the informer cache can lag behind the API server
    FaultsPerReconcile, \* bound: API calls that fail in one reconcile
    MaxDisruptions,     \* bound: failed calls and crashes in a behaviour
    MaxMoves            \* bound: steps of users, administrators and others

ASSUME PoolsAssumption == Pools \subseteq Nat
ASSUME NamesAssumption ==
    /\ Names \subseteq Nat
    /\ Invalid \subseteq Names
    /\ Foreign \subseteq Names
    /\ PoolOf \in [Names -> SUBSET Pools]
ASSUME RequestsAssumption ==
    /\ Requests \subseteq SUBSET Names
    /\ \A q \in SUBSET Names : q # NoRequest
ASSUME BoundsAssumption ==
    /\ MaxNames \in Nat /\ MaxPools \in Nat
    /\ AdminPools \subseteq Pools /\ ForgedPools \subseteq Pools
    /\ DirectAnnotate \in BOOLEAN /\ Lag \in BOOLEAN
    /\ FaultsPerReconcile \in Nat /\ MaxDisruptions \in Nat /\ MaxMoves \in Nat

VARIABLES
    cr,          \* the stored ClusterBaseline
    seen,        \* the informer cache's copy of it
    rem,         \* the ComplianceRemediations
    mcp,         \* the MachineConfigPools
    pc,          \* the API call the reconciler makes next
    cb,          \* the copy of the ClusterBaseline this reconcile works on
    kept,        \* open: the requested remediations that are eligible
    plan,        \* open: the pools to pause
    todo,        \* pools left to pause or to resume
    left,        \* remediations left to apply
    scope,       \* rollback: the pools to record if one cannot be resumed
    stuck,       \* rollback: some pool could not be resumed
    rvOK,        \* no write happened since the resourceVersion in cb
    faults,      \* API calls that failed in this reconcile
    held,        \* history: pools whose pause the operator wrote
    adminHeld,   \* history: pools an administrator paused
    reports,     \* history: outcomes counted for the batch on status (2: or more)
    disruptions, \* failed calls and crashes still to come
    moves        \* steps of the environment still to come

stored == <<cr, seen>>
pooled == <<mcp, held, adminHeld>>
opened == <<kept, plan, left, scope, stuck>>
vars == <<cr, seen, rem, mcp, pc, cb, kept, plan, todo, left, scope, stuck,
          rvOK, faults, held, adminHeld, reports, disruptions, moves>>

----------------------------------------------------------------------------
(* Values *)

Clock   == {"none", "fresh", "expired"}
Batch   == [pools : SUBSET Pools, rems : SUBSET Names, started : Clock]
NoBatch == [pools |-> {}, rems |-> {}, started |-> "none"]   \* status.remediationBatch is nil
Phases  == {"live", "deleting", "gone"}

\* The parts of the ClusterBaseline a batch uses: the deletion timestamp and
\* the finalizer (phase), the annotations batch-apply, batch-started-at and
\* batch-pools, and status.remediationBatch.
Baseline == [phase : Phases, request : {NoRequest} \union SUBSET Names,
             started : Clock, pools : SUBSET Pools, batch : Batch]

Pool == [paused : BOOLEAN, marker : {"none", "self", "other"}]
Remediation ==
    [state : {"NotApplied", "Applied", "MissingDependencies", "Corrupt", "Absent"},
     apply : BOOLEAN]

Steps == {"idle", "list", "recall", "record", "pause", "rollback", "drop",
          "orphan", "wait", "resume", "release", "delete", "status"}

HasBatch(c)   == c.batch.started # "none"
\* The request names a remediation; {} is an empty annotation.
Named(c)      == c.request \notin {NoRequest, {}}

\* batchUnreported: the annotations still show a batch whose outcome was not counted.
UnreportedAlways(c) == TRUE
Unreported(c) == Named(c) \/ c.started # "none" \/ c.pools # {}

Lowest(S)  == {x \in S : \A y \in S : x <= y}   \* the next of a sorted list

\* poolFromRemediation, of several remediations.
PoolsOfNone(R) == {}
PoolsOf(R)     == UNION {PoolOf[r] : r \in R}

\* validateBatchTarget and the suite check: the remediation can be applied.
Eligible(r) == r \notin Foreign /\ rem[r].state \in {"NotApplied", "Applied"}

\* setMCPPaused: the pool after a pause, and after a resume, by this batch.
PausedClaiming(m) == [paused |-> TRUE, marker |-> "self"]
Paused(m)  == IF m.paused /\ m.marker # "other"
              THEN m ELSE [paused |-> TRUE, marker |-> "self"]
Resumed(m) == IF m.marker = "self" THEN [paused |-> FALSE, marker |-> "none"] ELSE m

Expire(t)  == IF t = "fresh" THEN "expired" ELSE t
Aged(c)    == [c EXCEPT !.started = Expire(@), !.batch.started = Expire(@)]

----------------------------------------------------------------------------
(* API calls *)

Quiet == UNCHANGED <<faults, disruptions>>

\* A call to the API server fails (whether or not its effect landed).
Disrupt ==
    /\ faults < FaultsPerReconcile /\ disruptions > 0
    /\ faults' = faults + 1
    /\ disruptions' = disruptions - 1

\* A write of the ClusterBaseline: the informer delivers it at once or later.
Write(new) == cr' = new /\ seen' \in (IF Lag THEN {seen, new} ELSE {new})

\* Read the ClusterBaseline (from the cache), change it, update it.
Update(new) ==
    IF new = seen
    THEN UNCHANGED stored /\ rvOK' = (seen = cr)
    ELSE seen = cr /\ Write(new) /\ rvOK' = TRUE

\* The update is refused until the retries run out, or fails, possibly after
\* the server stored it.
UpdateFails(new) ==
    \/ new # seen /\ seen # cr /\ rvOK' = FALSE /\ Quiet /\ UNCHANGED stored
    \/ Disrupt /\ rvOK' = FALSE /\ UNCHANGED stored
    \/ Disrupt /\ new # seen /\ seen = cr /\ Write(new) /\ rvOK' = FALSE

\* clearBatchAnnotations.
Cleared(c, match, recovery) ==
    [c EXCEPT !.request = IF @ = match THEN NoRequest ELSE @,
              !.started = IF recovery THEN "none" ELSE @,
              !.pools   = IF recovery THEN {} ELSE @]

SetPool(p, m) ==
    /\ mcp' = [mcp EXCEPT ![p] = m]
    /\ held' = IF ~m.paused THEN held \ {p}
               ELSE IF m # mcp[p] THEN held \union {p} ELSE held
    /\ UNCHANGED adminHeld

\* A pool patch succeeds, or fails with or without landing.
Patched(p, m) == SetPool(p, m) /\ Quiet
PatchFails(p, m) == Disrupt /\ (SetPool(p, m) \/ UNCHANGED pooled)

----------------------------------------------------------------------------
Init ==
    /\ cr = [phase |-> "live", request |-> NoRequest, started |-> "none",
             pools |-> {}, batch |-> NoBatch]
    /\ seen = cr
    /\ rem = [r \in Names |-> [state |-> "NotApplied", apply |-> FALSE]]
    /\ mcp \in [Pools -> {[paused |-> FALSE, marker |-> "none"],
                          [paused |-> TRUE, marker |-> "other"]}]
    /\ pc = "idle" /\ cb = cr
    /\ kept = {} /\ plan = {} /\ todo = {} /\ left = {} /\ scope = {}
    /\ stuck = FALSE /\ rvOK = TRUE /\ faults = 0
    /\ held = {} /\ adminHeld = {} /\ reports = 0
    /\ disruptions = MaxDisruptions /\ moves = MaxMoves

----------------------------------------------------------------------------
(* Reconcile reads the ClusterBaseline and picks the branch *)

Begin(next) ==
    /\ pc = "idle"
    /\ cb' = seen
    /\ pc' = next
    /\ rvOK' = (seen = cr)
    /\ faults' = 0
    /\ UNCHANGED <<stored, pooled, opened, rem, reports, disruptions, moves>>

Live == seen.phase = "live"

BeginDelete == seen.phase = "deleting" /\ Begin("release") /\ UNCHANGED todo

BeginFinish == Live /\ HasBatch(seen) /\ Begin("wait") /\ UNCHANGED todo

\* A request that is too long or holds an invalid name is dropped.
BeginOpen ==
    /\ Live /\ ~HasBatch(seen) /\ Named(seen)
    /\ Begin(IF Cardinality(seen.request) > MaxNames \/ seen.request \cap Invalid # {}
             THEN "drop" ELSE "list")
    /\ UNCHANGED todo

BeginOrphan ==
    /\ Live /\ ~HasBatch(seen) /\ ~Named(seen)
    /\ seen.started # "none" \/ seen.pools # {} \/ seen.request = {}
    /\ Begin("orphan")
    /\ todo' = seen.pools

\* Reconcile returns early with an error: only the error-path status write is left.
Abort == pc' = "status" /\ UNCHANGED <<cb, todo>>

----------------------------------------------------------------------------
(* openRemediationBatch *)

OpenList ==
    /\ pc = "list"
    /\ \/ /\ kept' = {r \in cb.request : Eligible(r)}
          /\ plan' = PoolsOf(kept')
          /\ pc' = IF kept' = {} THEN "drop" ELSE "recall"
          /\ Quiet /\ UNCHANGED <<cb, todo>>
       \/ Disrupt /\ Abort /\ UNCHANGED <<kept, plan>>
    /\ UNCHANGED <<stored, pooled, rem, left, scope, stuck, rvOK, reports, moves>>

\* Of the recorded pools, those a prior attempt still holds (poolPausedBy).
RecalledNone == {}
RecalledAll  == cb.pools
Recalled     == {p \in cb.pools : mcp[p] = [paused |-> TRUE, marker |-> "self"]}

OpenRecall ==
    /\ pc = "recall"
    /\ \/ /\ plan' = plan \union Recalled
          /\ pc' = IF Cardinality(plan') > MaxPools THEN "drop" ELSE "record"
          /\ Quiet /\ UNCHANGED <<cb, todo>>
       \/ Disrupt /\ Abort /\ UNCHANGED plan
    /\ UNCHANGED <<stored, pooled, rem, kept, left, scope, stuck, rvOK, reports, moves>>

\* ensureBatchMetadata: clock, pools and the surviving request, before any pause.
RecordedRestart(c) ==
    [c EXCEPT !.started = "fresh", !.pools = plan,
              !.request = IF @ = cb.request THEN kept ELSE @]
RecordedNoPools(c) ==
    [c EXCEPT !.started = IF @ = "none" THEN "fresh" ELSE @,
              !.request = IF @ = cb.request THEN kept ELSE @]
RecordedNoRewrite(c) ==
    [c EXCEPT !.started = IF @ = "none" THEN "fresh" ELSE @, !.pools = plan]
Recorded(c) ==
    [c EXCEPT !.started = IF @ = "none" THEN "fresh" ELSE @,
              !.pools   = plan,
              !.request = IF @ = cb.request THEN kept ELSE @]

OpenRecord ==
    /\ pc = "record"
    /\ LET new == Recorded(seen) IN
       \/ /\ Update(new)
          /\ cb' = [cb EXCEPT !.started = new.started, !.request = new.request,
                              !.pools = plan]
          /\ pc' = "pause" /\ todo' = plan /\ left' = kept /\ Quiet
       \/ UpdateFails(new) /\ Abort /\ UNCHANGED left
    /\ UNCHANGED <<pooled, rem, kept, plan, scope, stuck, reports, moves>>

\* An error after the first pause: resume these pools, best effort.
Rollback(pools) ==
    /\ pc' = "rollback" /\ stuck' = FALSE
    /\ todo' = pools /\ scope' = pools

OpenPause ==
    /\ pc = "pause"
    /\ \E p \in Lowest(todo) :
          \/ /\ Patched(p, Paused(mcp[p]))
             /\ todo' = todo \ {p}
             /\ UNCHANGED <<pc, scope, stuck>>
          \/ PatchFails(p, Paused(mcp[p])) /\ Rollback(plan \ todo)
    /\ UNCHANGED <<stored, rem, cb, kept, plan, left, rvOK, reports, moves>>

\* applyOwnedRemediation: re-read, skip what is gone or ineligible by now.
OpenApply ==
    /\ pc = "pause" /\ todo = {}
    /\ \E r \in Lowest(left) :
          LET applied == IF Eligible(r) THEN [rem EXCEPT ![r].apply = TRUE] ELSE rem IN
          \/ /\ rem' = applied
             /\ left' = left \ {r}
             /\ Quiet /\ UNCHANGED <<pc, todo, scope, stuck>>
          \/ Disrupt /\ rem' \in {rem, applied} /\ Rollback(plan) /\ UNCHANGED left
    /\ UNCHANGED <<stored, pooled, cb, kept, plan, rvOK, reports, moves>>

NewBatch(pools) == [pools |-> pools, rems |-> kept, started |-> cb.started]

OpenDone ==
    /\ pc = "pause" /\ todo = {} /\ left = {}
    /\ cb' = [cb EXCEPT !.batch = NewBatch(plan)]
    /\ pc' = "status"
    /\ UNCHANGED <<stored, pooled, opened, rem, todo, rvOK, faults, reports, disruptions, moves>>

\* resumePoolsBestEffort
RollbackPool ==
    /\ pc = "rollback"
    /\ \E p \in Lowest(todo) :
          /\ \/ Patched(p, Resumed(mcp[p])) /\ UNCHANGED stuck
             \/ PatchFails(p, Resumed(mcp[p])) /\ stuck' = TRUE
          /\ todo' = todo \ {p}
    /\ UNCHANGED <<stored, rem, pc, cb, kept, plan, left, scope, rvOK, reports, moves>>

RollbackDone ==
    /\ pc = "rollback" /\ todo = {}
    /\ cb' = IF stuck THEN [cb EXCEPT !.batch = NewBatch(scope)] ELSE cb
    /\ pc' = "status"
    /\ UNCHANGED <<stored, pooled, opened, rem, todo, rvOK, faults, reports, disruptions, moves>>

\* The request cannot become a batch: clear it, and it alone.
DropRequest ==
    /\ pc = "drop"
    /\ LET new == Cleared(seen, cb.request, FALSE) IN
       (Update(new) /\ Quiet) \/ UpdateFails(new)
    /\ Abort
    /\ UNCHANGED <<pooled, opened, rem, reports, moves>>

----------------------------------------------------------------------------
(* finishRemediationBatch *)

\* What one paged list of the batch's remediations tells: some name cannot be
\* confirmed, all are applied, or all were reverted; else only the grace ends it.
Settled(b) ==
    \/ \E r \in b.rems : r \in Invalid \/ rem[r].state \in {"Absent", "Corrupt"}
    \/ \A r \in b.rems : rem[r].state = "Applied"
    \/ \A r \in b.rems : ~rem[r].apply
OverNoGrace(b) == Settled(b)
Over(b)        == Settled(b) \/ b.started = "expired"

WaitResult(over) ==
    /\ pc' = IF over THEN "resume" ELSE "status"
    /\ todo' = IF over THEN cb.batch.pools ELSE todo

\* The list answers, fails, or finds the CRD gone.
FinishWait ==
    /\ pc = "wait"
    /\ \/ WaitResult(Over(cb.batch)) /\ Quiet
       \/ WaitResult(cb.batch.started = "expired") /\ Disrupt
       \/ WaitResult(TRUE) /\ Disrupt
    /\ UNCHANGED <<stored, pooled, opened, rem, cb, rvOK, reports, moves>>

\* One resume of a finish, of an orphan or of a deletion; an error ends the
\* reconcile, on deletion without a status write.
ResumePool ==
    /\ pc \in {"resume", "orphan", "delete"}
    /\ \E p \in Lowest(todo) :
          \/ Patched(p, Resumed(mcp[p])) /\ todo' = todo \ {p} /\ UNCHANGED pc
          \/ /\ PatchFails(p, Resumed(mcp[p]))
             /\ pc' = IF pc = "delete" THEN "idle" ELSE "status"
             /\ UNCHANGED todo
    /\ UNCHANGED <<stored, rem, cb, opened, rvOK, reports, moves>>

\* The annotations go, the outcome is counted unless it was before, and the
\* batch goes from status (in memory).
FinishClear ==
    /\ pc = "resume" /\ todo = {}
    /\ LET new == Cleared(seen, cb.batch.rems, TRUE) IN
       \/ /\ Update(new) /\ Quiet
          /\ reports' = IF Unreported(cb) /\ reports < 2 THEN reports + 1 ELSE reports
          /\ cb' = [cb EXCEPT !.batch = NoBatch]
          /\ pc' = "status" /\ UNCHANGED todo
       \/ UpdateFails(new) /\ Abort /\ UNCHANGED reports
    /\ UNCHANGED <<pooled, opened, rem, moves>>

\* resumeOrphanedBatch, after its pools are resumed.
OrphanClear ==
    /\ pc = "orphan" /\ todo = {}
    /\ LET new == Cleared(seen, {}, TRUE) IN
       (Update(new) /\ Quiet) \/ UpdateFails(new)
    /\ Abort
    /\ UNCHANGED <<pooled, opened, rem, reports, moves>>

----------------------------------------------------------------------------
(* The trailing status write, of a reconcile that succeeded or failed *)

PersistBatch ==
    /\ Write([cr EXCEPT !.batch = cb.batch])
    /\ reports' = IF cb.batch.started = "none" \/ ~HasBatch(cr) THEN 0 ELSE reports

StatusWrite ==
    /\ pc = "status"
    /\ pc' = "idle"
    /\ \/ rvOK /\ PersistBatch /\ Quiet
       \/ ~rvOK /\ Quiet /\ UNCHANGED <<stored, reports>>
       \/ Disrupt /\ UNCHANGED <<stored, reports>>
       \/ Disrupt /\ rvOK /\ PersistBatch
    /\ UNCHANGED <<pooled, opened, rem, cb, todo, rvOK, moves>>

----------------------------------------------------------------------------
(* Deletion: resumeBatchPoolsOnDelete, then the finalizer goes *)

\* With no pools on status, those recorded and those of the owned remediations
\* the request names; with the CRD gone, only those recorded.
Known == {r \in (IF Named(cb) THEN cb.request ELSE {}) \ (Invalid \union Foreign) :
              rem[r].state # "Absent"}
DeletePoolsStatus == cb.batch.pools
DeletePools       == IF cb.batch.pools # {} THEN cb.batch.pools
                     ELSE cb.pools \union PoolsOf(Known)

DeleteList ==
    /\ pc = "release"
    /\ \/ todo' = DeletePools /\ pc' = "delete" /\ Quiet
       \/ cb.batch.pools = {} /\ Disrupt /\ todo' = cb.pools /\ pc' = "delete"
       \/ cb.batch.pools = {} /\ Disrupt /\ pc' = "idle" /\ UNCHANGED todo
    /\ UNCHANGED <<stored, pooled, opened, rem, cb, rvOK, reports, moves>>

RemoveFinalizer ==
    /\ pc = "delete" /\ todo = {}
    /\ pc' = "idle"
    /\ \/ rvOK /\ Write([cr EXCEPT !.phase = "gone"]) /\ Quiet
       \/ ~rvOK /\ Quiet /\ UNCHANGED stored
       \/ Disrupt /\ UNCHANGED stored
       \/ Disrupt /\ rvOK /\ Write([cr EXCEPT !.phase = "gone"])
    /\ UNCHANGED <<pooled, opened, rem, cb, todo, rvOK, reports, moves>>

\* The process stops and forgets everything; its successor fills a new cache
\* and starts over.
Crash ==
    /\ pc # "idle" /\ disruptions > 0
    /\ disruptions' = disruptions - 1
    /\ pc' = "idle" /\ seen' = cr
    /\ UNCHANGED <<cr, pooled, opened, rem, cb, todo, rvOK, faults, reports, moves>>

Operator ==
    \/ BeginDelete \/ BeginFinish \/ BeginOpen \/ BeginOrphan
    \/ OpenList \/ OpenRecall \/ OpenRecord \/ OpenPause \/ OpenApply \/ OpenDone
    \/ RollbackPool \/ RollbackDone \/ DropRequest
    \/ FinishWait \/ ResumePool \/ FinishClear \/ OrphanClear
    \/ StatusWrite \/ DeleteList \/ RemoveFinalizer

----------------------------------------------------------------------------
(* The environment *)

Move == moves > 0 /\ moves' = moves - 1
Reconciler == <<pc, cb, opened, todo, faults, reports, disruptions>>

\* Another client writes the ClusterBaseline: the reconciler's version is stale.
OtherWrite(new) ==
    /\ Move /\ cr.phase # "gone"
    /\ Write(new) /\ rvOK' = FALSE
    /\ UNCHANGED <<Reconciler, rem, pooled>>

\* The console offers no batch while one is requested or running, and its
\* patch tests the resourceVersion; a plain annotate has neither guard.
Submit(q) ==
    /\ cr.phase = "live" /\ cr.request # q
    /\ DirectAnnotate \/ (~HasBatch(cr) /\ ~Named(cr))
    /\ OtherWrite([cr EXCEPT !.request = q])

Withdraw ==
    /\ DirectAnnotate /\ cr.request # NoRequest
    /\ OtherWrite([cr EXCEPT !.request = NoRequest])

\* A client writes the name of a pool into the recovery annotation.
Forge(p) == cr.phase = "live" /\ p \notin cr.pools
            /\ OtherWrite([cr EXCEPT !.pools = @ \union {p}])

\* A waiver, schedule or profile patch: only the resourceVersion changes here.
EditBaseline == pc # "idle" /\ rvOK /\ OtherWrite(cr)

DeleteBaseline == cr.phase = "live" /\ OtherWrite([cr EXCEPT !.phase = "deleting"])

OutsideOperator == UNCHANGED <<Reconciler, stored, rvOK>>

\* A user reverts a remediation in the console (spec.apply = false).
Revert(r) ==
    /\ Move /\ rem[r].apply
    /\ rem' = [rem EXCEPT ![r].apply = FALSE]
    /\ OutsideOperator /\ UNCHANGED pooled

\* A remediation vanishes, loses its dependencies or becomes unreadable.
Upset(r, s) ==
    /\ Move /\ rem[r].state \in {"NotApplied", "Applied"}
    /\ rem' = [rem EXCEPT ![r] = [state |-> s, apply |-> @.apply /\ s # "Absent"]]
    /\ OutsideOperator /\ UNCHANGED pooled

\* The Compliance Operator enacts spec.apply.
Enact(r) ==
    /\ \/ rem[r].apply /\ rem[r].state = "NotApplied"
          /\ rem' = [rem EXCEPT ![r].state = "Applied"]
       \/ ~rem[r].apply /\ rem[r].state = "Applied"
          /\ rem' = [rem EXCEPT ![r].state = "NotApplied"]
    /\ OutsideOperator /\ UNCHANGED <<pooled, moves>>

\* An administrator pauses or unpauses a pool; the marker stays as it is, and
\* a pause under the operator's marker cannot be told from the operator's own.
AdminPause(p) ==
    /\ Move /\ ~mcp[p].paused
    /\ mcp' = [mcp EXCEPT ![p].paused = TRUE]
    /\ adminHeld' = IF mcp[p].marker = "none" THEN adminHeld \union {p} ELSE adminHeld
    /\ OutsideOperator /\ UNCHANGED <<rem, held>>

AdminUnpause(p) ==
    /\ Move /\ mcp[p].paused
    /\ mcp' = [mcp EXCEPT ![p].paused = FALSE]
    /\ adminHeld' = adminHeld \ {p} /\ held' = held \ {p}
    /\ OutsideOperator /\ UNCHANGED rem

\* More than batchResumeGrace passes since every running clock started.
GracePasses ==
    /\ "fresh" \in {cr.started, cr.batch.started}
    /\ cr' = Aged(cr) /\ seen' = Aged(seen) /\ cb' = Aged(cb)
    /\ UNCHANGED <<rem, pooled, pc, opened, todo, rvOK, faults, reports, disruptions, moves>>

\* The informer catches up.
Deliver ==
    /\ seen # cr /\ seen' = cr
    /\ UNCHANGED <<cr, rem, pooled, Reconciler, rvOK, moves>>

Environment ==
    \/ \E q \in Requests : Submit(q)
    \/ \E p \in ForgedPools : Forge(p)
    \/ Withdraw \/ EditBaseline \/ DeleteBaseline
    \/ \E r \in Names : Revert(r) \/ Enact(r)
    \/ \E r \in Names, s \in {"Absent", "MissingDependencies", "Corrupt"} : Upset(r, s)
    \/ \E p \in AdminPools : AdminPause(p) \/ AdminUnpause(p)
    \/ GracePasses \/ Deliver

Next == Operator \/ Crash \/ Environment

Spec == Init /\ [][Next]_vars

\* The worker keeps reconciling (the poll re-enqueues it every 15 s or 1 min),
\* time passes and the informer catches up; nobody else has to do anything.
FairSpec == Spec /\ WF_vars(Operator) /\ WF_vars(GracePasses) /\ WF_vars(Deliver)
----------------------------------------------------------------------------
(* Properties *)

\* Every variable keeps to its type.
TypeOK ==
    /\ cr \in Baseline /\ seen \in Baseline /\ cb \in Baseline
    /\ rem \in [Names -> Remediation]
    /\ mcp \in [Pools -> Pool]
    /\ pc \in Steps
    /\ kept \subseteq Names /\ left \subseteq Names
    /\ plan \subseteq Pools /\ todo \subseteq Pools /\ scope \subseteq Pools
    /\ stuck \in BOOLEAN /\ rvOK \in BOOLEAN
    /\ held \subseteq Pools /\ adminHeld \subseteq Pools
    /\ faults \in Nat /\ reports \in Nat
    /\ disruptions \in Nat /\ moves \in Nat

\* A pool the operator paused is listed in the batch-pools annotation or in
\* status.remediationBatch: some later reconcile can find and resume it
\* ("Resume is guaranteed: any failure still resumes the pools").
PausesTracked == held \subseteq cr.pools \union cr.batch.pools

\* A pool an administrator paused stays paused until an administrator
\* unpauses it, whatever batches use it in between.
AdminPausesKept == \A p \in adminHeld : mcp[p].paused

\* The ClusterBaseline goes away only after every pool it paused was resumed.
GoneReleased == cr.phase = "gone" => held = {}

\* Each batch is counted at most once, however often its finish is retried.
CountedOnce == reports <= 1

\* Only pools of remediations the baseline owns are ever paused, whatever the
\* annotations on the ClusterBaseline name.
OnlyOwnedPools == held \subseteq PoolsOf(Names \ (Foreign \union Invalid))

\* The operator sets apply on a node remediation only while the pool is paused,
\* so that the nodes reboot once, if no administrator interferes.
AppliesUnderPause ==
    [][\A r \in Names :
          ~rem[r].apply /\ rem'[r].apply =>
             \A p \in PoolOf[r] \ AdminPools : mcp[p].paused]_vars

\* The durable record of the batch: status once it is there, else the annotations.
Listed(c) == IF HasBatch(c) THEN c.batch.pools ELSE c.pools
ledger == Listed(cr)
clock  == IF HasBatch(cr) THEN cr.batch.started ELSE cr.started

\* The batch, crashes and failed writes included, is a write-ahead ledger.
Ledger == INSTANCE PauseLedger
LedgerKept == Ledger!Spec

\* As long as pools are held, failures and restarts never set back the grace
\* clock that will release them.
GraceNeverRestarts ==
    [][held # {} /\ held' # {} /\ clock = "expired" => clock' = "expired"]_vars

\* Every pause ends: the batch is applied, cancelled or past its grace, and no
\* crash or failure in between leaves a pool paused for good.
PausesReleased == \A p \in Pools : p \in held ~> p \notin held

\* Every request is consumed: it never reopens the same batch for ever.
RequestsConsumed ==
    cr.request # NoRequest ~> cr.request = NoRequest \/ cr.phase = "gone"

----------------------------------------------------------------------------
(* The argument for PausesTracked, GoneReleased and LedgerKept *)

\* Every pool that is held carries the operator's pause and marker, and is on record.
HeldMarked == \A p \in held : mcp[p] = [paused |-> TRUE, marker |-> "self"]
OnRecord   == held \subseteq Listed(cr)

\* No batch lists no pools.
BatchListed == \A c \in {cr, cb} : ~HasBatch(c) => c.batch.pools = {}

\* At each step of a reconcile: every pause is on record before it is made,
\* and a record goes only after its pauses.
AtStep ==
    /\ cr.phase = "gone" => held = {} /\ pc = "idle"
    /\ pc \in {"list", "recall", "record", "pause", "rollback", "drop", "orphan"}
          => ~HasBatch(cr) /\ ~HasBatch(cb)
    /\ pc \in {"wait", "resume"}
          => HasBatch(cr) /\ HasBatch(cb) /\ cb.batch.pools = cr.batch.pools
    /\ pc \in {"list", "recall", "release"} => held \subseteq Listed(cb)
    /\ pc = "record" => held \subseteq plan
    /\ pc = "pause" => /\ todo \subseteq plan /\ held \subseteq plan
                       /\ plan \subseteq cr.pools /\ cb.started # "none"
    /\ pc = "rollback" => faults >= 1 /\ ~stuck
    /\ pc \in {"orphan", "resume", "delete"} => held \subseteq todo
    /\ pc = "status" => held \subseteq (IF HasBatch(cb) THEN cb.batch.pools ELSE cr.pools)

\* The inductive invariant, if the cache is current and at most one API call
\* of a reconcile fails.
PauseInv == seen = cr /\ HeldMarked /\ OnRecord /\ BatchListed /\ AtStep
=============================================================================
