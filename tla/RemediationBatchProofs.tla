------------------------- MODULE RemediationBatchProofs -------------------------
(***************************************************************************)
(* Theorems about RemediationBatch, for any pools, names, requests and     *)
(* bounds: its types, then who holds the pauses, then what a single step   *)
(* may never do.                                                           *)
(***************************************************************************)
EXTENDS RemediationBatch, TLAPS

----------------------------------------------------------------------------
(* Values keep to their types *)

LEMMA BatchFields ==
    ASSUME NEW c \in Baseline
    PROVE  /\ c.phase \in Phases /\ c.request \in {NoRequest} \union SUBSET Names
           /\ c.started \in Clock /\ c.pools \in SUBSET Pools /\ c.batch \in Batch
           /\ c.batch.pools \in SUBSET Pools /\ c.batch.rems \in SUBSET Names
           /\ c.batch.started \in Clock
BY DEF Baseline, Batch

LEMMA NoBatchType == NoBatch \in Batch
BY DEF NoBatch, Batch, Clock

LEMMA PoolsOfType ==
    ASSUME NEW R \in SUBSET Names
    PROVE  PoolsOf(R) \in SUBSET Pools
<1>1. \A r \in R : PoolOf[r] \in SUBSET Pools
  BY NamesAssumption
<1> QED
  BY <1>1 DEF PoolsOf

LEMMA LowestSubset ==
    ASSUME NEW S, NEW x \in Lowest(S)
    PROVE  x \in S
BY DEF Lowest

LEMMA PoolAfter ==
    ASSUME NEW m \in Pool
    PROVE  Paused(m) \in Pool /\ Resumed(m) \in Pool
BY DEF Pool, Paused, Resumed

LEMMA ClearedType ==
    ASSUME NEW c \in Baseline, NEW match, NEW recovery \in BOOLEAN
    PROVE  Cleared(c, match, recovery) \in Baseline
BY DEF Cleared, Baseline, Clock

LEMMA AgedType ==
    ASSUME NEW c \in Baseline
    PROVE  Aged(c) \in Baseline
BY DEF Aged, Expire, Baseline, Batch, Clock

LEMMA RecordedType ==
    ASSUME NEW c \in Baseline, plan \in SUBSET Pools, kept \in SUBSET Names
    PROVE  Recorded(c) \in Baseline
BY DEF Recorded, Baseline, Clock

----------------------------------------------------------------------------
(* API calls keep the types *)

Faulty == faults \in Nat /\ disruptions \in Nat
Stored == cr \in Baseline /\ seen \in Baseline /\ rvOK \in BOOLEAN
Pooled == mcp \in [Pools -> Pool] /\ held \in SUBSET Pools /\ adminHeld \in SUBSET Pools

LEMMA QuietType ==
    ASSUME Faulty, Quiet
    PROVE  Faulty'
BY DEF Faulty, Quiet

LEMMA DisruptType ==
    ASSUME Faulty, Disrupt
    PROVE  Faulty'
BY BoundsAssumption DEF Faulty, Disrupt

LEMMA WriteType ==
    ASSUME NEW new \in Baseline, Stored, Write(new)
    PROVE  cr' \in Baseline /\ seen' \in Baseline
BY DEF Write, Stored

LEMMA UpdateType ==
    ASSUME NEW new \in Baseline, Stored, Update(new)
    PROVE  Stored'
BY DEF Update, Write, Stored, stored

LEMMA UpdateFailsType ==
    ASSUME NEW new \in Baseline, Stored, Faulty, UpdateFails(new)
    PROVE  Stored' /\ Faulty'
<1>1. Stored'
  BY DEF UpdateFails, Write, Stored, stored
<1>2. Faulty'
  BY QuietType, DisruptType DEF UpdateFails
<1> QED
  BY <1>1, <1>2

LEMMA SetPoolType ==
    ASSUME NEW p \in Pools, NEW m \in Pool, Pooled, SetPool(p, m)
    PROVE  Pooled'
BY DEF Pooled, SetPool, Pool

LEMMA PatchType ==
    ASSUME NEW p \in Pools, NEW m \in Pool, Pooled, Faulty,
           Patched(p, m) \/ PatchFails(p, m)
    PROVE  Pooled' /\ Faulty'
<1>1. Pooled'
  BY SetPoolType DEF Patched, PatchFails, pooled, Pooled
<1>2. Faulty'
  BY QuietType, DisruptType DEF Patched, PatchFails
<1> QED
  BY <1>1, <1>2

----------------------------------------------------------------------------
(* Type correctness *)

\* TypeOK is inductive with one more fact: a request that is being opened has names.
TypeInv == TypeOK /\ (pc = "list" => cb.request \in SUBSET Names)

\* What TypeOK says, in the groups in which the steps change it.
Working ==
    /\ cb \in Baseline /\ pc \in Steps
    /\ kept \in SUBSET Names /\ left \in SUBSET Names
    /\ plan \in SUBSET Pools /\ todo \in SUBSET Pools /\ scope \in SUBSET Pools
    /\ stuck \in BOOLEAN
Counted == rem \in [Names -> Remediation] /\ reports \in Nat /\ moves \in Nat

LEMMA TypeGroups == TypeOK <=> Stored /\ Faulty /\ Pooled /\ Working /\ Counted
BY DEF TypeOK, Stored, Faulty, Pooled, Working, Counted

LEMMA TypeGroupsNext == TypeOK' <=> Stored' /\ Faulty' /\ Pooled' /\ Working' /\ Counted'
BY DEF TypeOK, Stored, Faulty, Pooled, Working, Counted

LEMMA InitTypes == Init => TypeInv
<1> SUFFICES ASSUME Init
             PROVE  TypeInv
  OBVIOUS
<1>1. cr \in Baseline /\ seen \in Baseline /\ cb \in Baseline
  BY NoBatchType DEF Init, Baseline, Phases, Clock
<1>2. rem \in [Names -> Remediation]
  BY DEF Init, Remediation
<1>3. mcp \in [Pools -> Pool]
  <2>1. {[paused |-> FALSE, marker |-> "none"], [paused |-> TRUE, marker |-> "other"]}
           \subseteq Pool
    BY DEF Pool
  <2> QED
    BY <2>1 DEF Init
<1>4. pc = "idle" /\ pc \in Steps
  BY DEF Init, Steps
<1>5. disruptions \in Nat /\ moves \in Nat /\ faults \in Nat /\ reports \in Nat
  BY BoundsAssumption DEF Init
<1> QED
  BY <1>1, <1>2, <1>3, <1>4, <1>5 DEF Init, TypeInv, TypeOK

\* The steps that begin a reconcile copy the cache and change nothing else.
LEMMA BeginTypes ==
    ASSUME TypeInv, NEW next \in Steps, Begin(next),
           todo' = todo \/ todo' = seen.pools,
           next = "list" => seen.request \in SUBSET Names
    PROVE  TypeInv'
<1>1. Stored' /\ Faulty' /\ Pooled' /\ Counted'
  BY DEF TypeInv, TypeOK, Begin, stored, pooled, Stored, Faulty, Pooled, Counted
<1>2. Working'
  BY BatchFields DEF TypeInv, TypeOK, Begin, opened, Working
<1>3. pc' = "list" => cb'.request \in SUBSET Names
  BY DEF Begin
<1> QED
  BY <1>1, <1>2, <1>3, TypeGroups, TypeGroupsNext DEF TypeInv

LEMMA OpenTypes ==
    ASSUME TypeInv, OpenList \/ OpenRecall \/ OpenRecord \/ OpenPause \/ OpenApply \/ OpenDone
    PROVE  TypeInv'
<1> USE TypeGroups DEF TypeInv
<1>1. CASE OpenList
  <2>1. Stored' /\ Pooled' /\ Counted'
    BY <1>1 DEF OpenList, stored, pooled, Stored, Pooled, Counted
  <2>2. Faulty'
    BY <1>1, QuietType, DisruptType DEF OpenList
  <2>3. kept' \in SUBSET Names /\ plan' \in SUBSET Pools
    <3>1. CASE kept' = {r \in cb.request : Eligible(r)} /\ plan' = PoolsOf(kept')
      <4>1. kept' \in SUBSET Names
        BY <1>1, <3>1 DEF OpenList
      <4> QED
        BY <3>1, <4>1, PoolsOfType
    <3>2. CASE UNCHANGED <<kept, plan>>
      BY <3>2 DEF Working
    <3> QED
      BY <1>1, <3>1, <3>2 DEF OpenList
  <2>4. Working'
    BY <1>1, <2>3 DEF OpenList, Abort, Working, Steps
  <2>5. pc' # "list"
    BY <1>1 DEF OpenList, Abort
  <2> QED
    BY <2>1, <2>2, <2>4, <2>5, TypeGroupsNext
<1>2. CASE OpenRecall
  <2>1. Stored' /\ Pooled' /\ Counted'
    BY <1>2 DEF OpenRecall, stored, pooled, Stored, Pooled, Counted
  <2>2. Faulty'
    BY <1>2, QuietType, DisruptType DEF OpenRecall
  <2>3. Recalled \in SUBSET Pools
    BY BatchFields DEF Recalled, Working
  <2>4. Working'
    BY <1>2, <2>3 DEF OpenRecall, Abort, Working, Steps
  <2>5. pc' # "list"
    BY <1>2 DEF OpenRecall, Abort
  <2> QED
    BY <2>1, <2>2, <2>4, <2>5, TypeGroupsNext
<1>3. CASE OpenRecord
  <2> DEFINE new == Recorded(seen)
  <2>1. new \in Baseline
    BY RecordedType DEF Stored, Working
  <2>2. Pooled' /\ Counted'
    BY <1>3 DEF OpenRecord, pooled, Pooled, Counted
  <2>3. CASE /\ Update(new) /\ Quiet
             /\ cb' = [cb EXCEPT !.started = new.started, !.request = new.request,
                                 !.pools = plan]
             /\ pc' = "pause" /\ todo' = plan /\ left' = kept
    <3>1. Stored' /\ Faulty'
      BY <2>1, <2>3, UpdateType, QuietType
    <3>2. new.started \in Clock /\ new.request \in {NoRequest} \union SUBSET Names
      BY <2>1, BatchFields
    <3>3. cb' \in Baseline
      BY <2>3, <3>2 DEF Working, Baseline
    <3>4. Working'
      BY <1>3, <2>3, <3>3 DEF OpenRecord, Working, Steps
    <3> QED
      BY <2>2, <2>3, <3>1, <3>4, TypeGroupsNext
  <2>4. CASE UpdateFails(new) /\ Abort /\ UNCHANGED left
    <3>1. Stored' /\ Faulty'
      BY <2>1, <2>4, UpdateFailsType
    <3>2. Working' /\ pc' = "status"
      BY <1>3, <2>4 DEF OpenRecord, Abort, Working, Steps
    <3> QED
      BY <2>2, <3>1, <3>2, TypeGroupsNext
  <2> QED
    BY <1>3, <2>3, <2>4 DEF OpenRecord
<1>4. CASE OpenPause
  <2>1. Stored' /\ Counted'
    BY <1>4 DEF OpenPause, stored, Stored, Counted
  <2>2. PICK p \in Lowest(todo) :
            \/ /\ Patched(p, Paused(mcp[p]))
               /\ todo' = todo \ {p}
               /\ UNCHANGED <<pc, scope, stuck>>
            \/ PatchFails(p, Paused(mcp[p])) /\ Rollback(plan \ todo)
    BY <1>4 DEF OpenPause
  <2>3. p \in Pools /\ mcp[p] \in Pool
    BY LowestSubset DEF Working, Pooled
  <2>4. Pooled' /\ Faulty'
    BY <2>2, <2>3, PoolAfter, PatchType
  <2>5. Working' /\ pc' # "list"
    BY <1>4, <2>2 DEF OpenPause, Rollback, Working, Steps
  <2> QED
    BY <2>1, <2>4, <2>5, TypeGroupsNext
<1>5. CASE OpenApply
  <2>1. Stored' /\ Pooled'
    BY <1>5 DEF OpenApply, stored, pooled, Stored, Pooled
  <2>2. Faulty'
    BY <1>5, QuietType, DisruptType DEF OpenApply
  <2>3. PICK r \in Lowest(left) :
            rem' \in {rem, [rem EXCEPT ![r].apply = TRUE]}
    BY <1>5 DEF OpenApply
  <2>4. Counted'
    BY <1>5, <2>3 DEF OpenApply, Counted, Remediation
  <2>5. Working' /\ pc' # "list"
    BY <1>5 DEF OpenApply, Rollback, Working, Steps
  <2> QED
    BY <2>1, <2>2, <2>4, <2>5, TypeGroupsNext
<1>6. CASE OpenDone
  <2>1. Stored' /\ Pooled' /\ Counted' /\ Faulty'
    BY <1>6 DEF OpenDone, stored, pooled, Stored, Pooled, Counted, Faulty
  <2>2. cb' \in Baseline
    BY <1>6, BatchFields DEF OpenDone, NewBatch, Working, Baseline, Batch
  <2>3. Working' /\ pc' # "list"
    BY <1>6, <2>2 DEF OpenDone, opened, Working, Steps
  <2> QED
    BY <2>1, <2>3, TypeGroupsNext
<1> QED
  BY <1>1, <1>2, <1>3, <1>4, <1>5, <1>6

LEMMA RollbackTypes ==
    ASSUME TypeInv, RollbackPool \/ RollbackDone \/ DropRequest
    PROVE  TypeInv'
<1> USE TypeGroups DEF TypeInv
<1>1. CASE RollbackPool
  <2>1. Stored' /\ Counted'
    BY <1>1 DEF RollbackPool, stored, Stored, Counted
  <2>2. PICK p \in Lowest(todo) :
            /\ \/ Patched(p, Resumed(mcp[p])) /\ UNCHANGED stuck
               \/ PatchFails(p, Resumed(mcp[p])) /\ stuck' = TRUE
            /\ todo' = todo \ {p}
    BY <1>1 DEF RollbackPool
  <2>3. p \in Pools /\ mcp[p] \in Pool
    BY LowestSubset DEF Working, Pooled
  <2>4. Pooled' /\ Faulty'
    BY <2>2, <2>3, PoolAfter, PatchType
  <2>5. Working' /\ pc' # "list"
    BY <1>1, <2>2 DEF RollbackPool, Working
  <2> QED
    BY <2>1, <2>4, <2>5, TypeGroupsNext
<1>2. CASE RollbackDone
  <2>1. Stored' /\ Pooled' /\ Counted' /\ Faulty'
    BY <1>2 DEF RollbackDone, stored, pooled, Stored, Pooled, Counted, Faulty
  <2>2. cb' \in Baseline
    BY <1>2, BatchFields DEF RollbackDone, NewBatch, Working, Baseline, Batch
  <2>3. Working' /\ pc' # "list"
    BY <1>2, <2>2 DEF RollbackDone, opened, Working, Steps
  <2> QED
    BY <2>1, <2>3, TypeGroupsNext
<1>3. CASE DropRequest
  <2> DEFINE new == Cleared(seen, cb.request, FALSE)
  <2>1. new \in Baseline
    BY ClearedType DEF Stored
  <2>2. Stored' /\ Faulty'
    BY <1>3, <2>1, UpdateType, QuietType, UpdateFailsType DEF DropRequest
  <2>3. Pooled' /\ Counted' /\ Working' /\ pc' # "list"
    BY <1>3 DEF DropRequest, Abort, pooled, opened, Pooled, Counted, Working, Steps
  <2> QED
    BY <2>2, <2>3, TypeGroupsNext
<1> QED
  BY <1>1, <1>2, <1>3

LEMMA FinishTypes ==
    ASSUME TypeInv, FinishWait \/ ResumePool \/ FinishClear \/ OrphanClear
    PROVE  TypeInv'
<1> USE TypeGroups DEF TypeInv
<1>1. CASE FinishWait
  <2>1. Stored' /\ Pooled' /\ Counted'
    BY <1>1 DEF FinishWait, stored, pooled, Stored, Pooled, Counted
  <2>2. Faulty'
    BY <1>1, QuietType, DisruptType DEF FinishWait
  <2>3. PICK over \in BOOLEAN : WaitResult(over)
    BY <1>1 DEF FinishWait, Over, Settled
  <2>4. cb.batch.pools \in SUBSET Pools
    BY BatchFields DEF Working
  <2>5. Working' /\ pc' # "list"
    BY <1>1, <2>3, <2>4 DEF FinishWait, WaitResult, opened, Working, Steps
  <2> QED
    BY <2>1, <2>2, <2>5, TypeGroupsNext
<1>2. CASE ResumePool
  <2>1. Stored' /\ Counted'
    BY <1>2 DEF ResumePool, stored, Stored, Counted
  <2>2. PICK p \in Lowest(todo) :
            \/ Patched(p, Resumed(mcp[p])) /\ todo' = todo \ {p} /\ UNCHANGED pc
            \/ /\ PatchFails(p, Resumed(mcp[p]))
               /\ pc' = IF pc = "delete" THEN "idle" ELSE "status"
               /\ UNCHANGED todo
    BY <1>2 DEF ResumePool
  <2>3. p \in Pools /\ mcp[p] \in Pool
    BY LowestSubset DEF Working, Pooled
  <2>4. Pooled' /\ Faulty'
    BY <2>2, <2>3, PoolAfter, PatchType
  <2>5. Working' /\ pc' # "list"
    BY <1>2, <2>2 DEF ResumePool, opened, Working, Steps
  <2> QED
    BY <2>1, <2>4, <2>5, TypeGroupsNext
<1>3. CASE FinishClear
  <2> DEFINE new == Cleared(seen, cb.batch.rems, TRUE)
  <2>1. new \in Baseline
    BY ClearedType DEF Stored
  <2>2. Stored' /\ Faulty'
    BY <1>3, <2>1, UpdateType, QuietType, UpdateFailsType DEF FinishClear
  <2>3. cb' \in Baseline
    BY <1>3, NoBatchType DEF FinishClear, Abort, Working, Baseline
  <2>4. Pooled' /\ Counted'
    <3>1. reports' \in {reports, reports + 1}
      BY <1>3 DEF FinishClear
    <3>2. reports' \in Nat
      BY <3>1 DEF Counted
    <3>3. Pooled' /\ UNCHANGED <<rem, moves>>
      BY <1>3 DEF FinishClear, pooled, Pooled
    <3> QED
      BY <3>2, <3>3 DEF Counted
  <2>5. pc' = "status" /\ UNCHANGED <<todo, opened>>
    BY <1>3 DEF FinishClear, Abort
  <2>6. Working' /\ pc' # "list"
    BY <2>3, <2>5 DEF opened, Working, Steps
  <2> QED
    BY <2>2, <2>4, <2>6, TypeGroupsNext
<1>4. CASE OrphanClear
  <2> DEFINE new == Cleared(seen, {}, TRUE)
  <2>1. new \in Baseline
    BY ClearedType DEF Stored
  <2>2. Stored' /\ Faulty'
    BY <1>4, <2>1, UpdateType, QuietType, UpdateFailsType DEF OrphanClear
  <2>3. Pooled' /\ Counted' /\ Working' /\ pc' # "list"
    BY <1>4 DEF OrphanClear, Abort, pooled, opened, Pooled, Counted, Working, Steps
  <2> QED
    BY <2>2, <2>3, TypeGroupsNext
<1> QED
  BY <1>1, <1>2, <1>3, <1>4

LEMMA StatusAndDeleteTypes ==
    ASSUME TypeInv, StatusWrite \/ DeleteList \/ RemoveFinalizer \/ Crash
    PROVE  TypeInv'
<1> USE TypeGroups DEF TypeInv
<1>1. CASE StatusWrite
  <2>1. [cr EXCEPT !.batch = cb.batch] \in Baseline
    BY BatchFields DEF Stored, Working, Baseline
  <2>2. Stored' /\ reports' \in Nat
    BY <1>1, <2>1, WriteType DEF StatusWrite, PersistBatch, stored, Stored, Counted
  <2>3. Faulty'
    BY <1>1, QuietType, DisruptType DEF StatusWrite
  <2>4. Pooled' /\ Counted' /\ Working' /\ pc' # "list"
    BY <1>1, <2>2 DEF StatusWrite, pooled, opened, Pooled, Counted, Working, Steps
  <2> QED
    BY <2>2, <2>3, <2>4, TypeGroupsNext
<1>2. CASE DeleteList
  <2>1. Stored' /\ Pooled' /\ Counted'
    BY <1>2 DEF DeleteList, stored, pooled, Stored, Pooled, Counted
  <2>2. Faulty'
    BY <1>2, QuietType, DisruptType DEF DeleteList
  <2>3. cb.pools \in SUBSET Pools /\ DeletePools \in SUBSET Pools
    <3>1. Known \in SUBSET Names
      BY BatchFields DEF Known, Named, Working
    <3> QED
      BY <3>1, PoolsOfType, BatchFields DEF DeletePools, Working
  <2>4. Working' /\ pc' # "list"
    BY <1>2, <2>3 DEF DeleteList, opened, Working, Steps
  <2> QED
    BY <2>1, <2>2, <2>4, TypeGroupsNext
<1>3. CASE RemoveFinalizer
  <2>1. [cr EXCEPT !.phase = "gone"] \in Baseline
    BY DEF Stored, Baseline, Phases
  <2>2. Stored'
    BY <1>3, <2>1, WriteType DEF RemoveFinalizer, stored, Stored
  <2>3. Faulty'
    BY <1>3, QuietType, DisruptType DEF RemoveFinalizer
  <2>4. Pooled' /\ Counted' /\ Working' /\ pc' # "list"
    BY <1>3 DEF RemoveFinalizer, pooled, opened, Pooled, Counted, Working, Steps
  <2> QED
    BY <2>2, <2>3, <2>4, TypeGroupsNext
<1>4. CASE Crash
  <2>1. Stored' /\ Pooled' /\ Counted'
    BY <1>4 DEF Crash, pooled, Stored, Pooled, Counted
  <2>2. Faulty'
    BY <1>4 DEF Crash, Faulty
  <2>3. Working' /\ pc' # "list"
    BY <1>4 DEF Crash, opened, Working, Steps
  <2> QED
    BY <2>1, <2>2, <2>3, TypeGroupsNext
<1> QED
  BY <1>1, <1>2, <1>3, <1>4

LEMMA OperatorTypes ==
    ASSUME TypeInv, Operator
    PROVE  TypeInv'
<1>1. CASE BeginDelete \/ BeginFinish \/ BeginOpen \/ BeginOrphan
  <2>1. seen \in Baseline
    BY DEF TypeInv, TypeOK
  <2>2. Named(seen) => seen.request \in SUBSET Names
    BY <2>1, BatchFields DEF Named
  <2>3. {"release", "wait", "drop", "list", "orphan"} \subseteq Steps
    BY DEF Steps
  <2>4. CASE BeginDelete
    BY <2>3, <2>4, BeginTypes DEF BeginDelete
  <2>5. CASE BeginFinish
    BY <2>3, <2>5, BeginTypes DEF BeginFinish
  <2>6. CASE BeginOpen
    BY <2>2, <2>3, <2>6, BeginTypes DEF BeginOpen
  <2>7. CASE BeginOrphan
    BY <2>3, <2>7, BeginTypes DEF BeginOrphan
  <2> QED
    BY <1>1, <2>4, <2>5, <2>6, <2>7
<1> QED
  BY <1>1, OpenTypes, RollbackTypes, FinishTypes, StatusAndDeleteTypes DEF Operator

\* Another client's write changes the stored ClusterBaseline only.
LEMMA OtherWriteTypes ==
    ASSUME TypeInv, NEW new \in Baseline, OtherWrite(new)
    PROVE  TypeInv'
<1> USE TypeGroups DEF TypeInv
<1>1. Stored'
  BY WriteType DEF OtherWrite, Stored
<1>2. Counted'
  BY DEF OtherWrite, Move, Reconciler, Counted
<1>3. Pooled' /\ Faulty' /\ Working' /\ (pc' = "list" => cb'.request \in SUBSET Names)
  BY DEF OtherWrite, Reconciler, pooled, opened, Pooled, Faulty, Working
<1> QED
  BY <1>1, <1>2, <1>3, TypeGroupsNext

LEMMA ClientTypes ==
    ASSUME TypeInv,
           \/ \E q \in Requests : Submit(q)
           \/ \E p \in ForgedPools : Forge(p)
           \/ Withdraw \/ EditBaseline \/ DeleteBaseline
    PROVE  TypeInv'
<1> cr \in Baseline
  BY DEF TypeInv, TypeOK
<1>1. ASSUME NEW q \in Requests, Submit(q)
      PROVE  TypeInv'
  <2>1. [cr EXCEPT !.request = q] \in Baseline
    BY RequestsAssumption DEF Baseline
  <2> QED
    BY <1>1, <2>1, OtherWriteTypes DEF Submit
<1>2. ASSUME NEW p \in ForgedPools, Forge(p)
      PROVE  TypeInv'
  <2>1. [cr EXCEPT !.pools = @ \union {p}] \in Baseline
    BY BoundsAssumption DEF Baseline
  <2> QED
    BY <1>2, <2>1, OtherWriteTypes DEF Forge
<1>3. CASE Withdraw
  <2>1. [cr EXCEPT !.request = NoRequest] \in Baseline
    BY DEF Baseline
  <2> QED
    BY <1>3, <2>1, OtherWriteTypes DEF Withdraw
<1>4. CASE EditBaseline
  BY <1>4, OtherWriteTypes DEF EditBaseline
<1>5. CASE DeleteBaseline
  <2>1. [cr EXCEPT !.phase = "deleting"] \in Baseline
    BY DEF Baseline, Phases
  <2> QED
    BY <1>5, <2>1, OtherWriteTypes DEF DeleteBaseline
<1> QED
  BY <1>1, <1>2, <1>3, <1>4, <1>5

LEMMA OutsideTypes ==
    ASSUME TypeInv,
           \/ \E r \in Names : Revert(r) \/ Enact(r)
           \/ \E r \in Names, s \in {"Absent", "MissingDependencies", "Corrupt"} : Upset(r, s)
           \/ \E p \in AdminPools : AdminPause(p) \/ AdminUnpause(p)
    PROVE  TypeInv'
<1> USE TypeGroups DEF TypeInv
<1>1. SUFFICES OutsideOperator /\ rem' \in [Names -> Remediation] /\ Pooled' /\ moves' \in Nat
  BY TypeGroupsNext DEF OutsideOperator, Reconciler, stored, opened,
                        Stored, Faulty, Working, Counted
<1>2. ASSUME NEW r \in Names, Revert(r)
      PROVE  OutsideOperator /\ rem' \in [Names -> Remediation] /\ Pooled' /\ moves' \in Nat
  <2>1. moves' \in Nat
    BY <1>2 DEF Revert, Move, Counted
  <2>2. rem' \in [Names -> Remediation]
    BY <1>2 DEF Revert, Remediation, Counted
  <2> QED
    BY <1>2, <2>1, <2>2 DEF Revert, pooled, Pooled
<1>3. ASSUME NEW r \in Names, Enact(r)
      PROVE  OutsideOperator /\ rem' \in [Names -> Remediation] /\ Pooled' /\ moves' \in Nat
  BY <1>3 DEF Enact, Remediation, pooled, Pooled, Counted
<1>4. ASSUME NEW r \in Names, NEW s \in {"Absent", "MissingDependencies", "Corrupt"}, Upset(r, s)
      PROVE  OutsideOperator /\ rem' \in [Names -> Remediation] /\ Pooled' /\ moves' \in Nat
  <2>1. moves' \in Nat
    BY <1>4 DEF Upset, Move, Counted
  <2>2. rem[r].apply \in BOOLEAN
    BY DEF Remediation, Counted
  <2>3. [state |-> s, apply |-> rem[r].apply /\ s # "Absent"] \in Remediation
    BY <2>2 DEF Remediation
  <2>4. rem' \in [Names -> Remediation]
    BY <1>4, <2>3 DEF Upset, Counted
  <2> QED
    BY <1>4, <2>1, <2>4 DEF Upset, pooled, Pooled
<1>5. ASSUME NEW p \in AdminPools, AdminPause(p) \/ AdminUnpause(p)
      PROVE  OutsideOperator /\ rem' \in [Names -> Remediation] /\ Pooled' /\ moves' \in Nat
  <2>1. PICK b \in BOOLEAN : mcp' = [mcp EXCEPT ![p].paused = b]
    BY <1>5 DEF AdminPause, AdminUnpause
  <2>2. p \in Pools
    BY BoundsAssumption
  <2>3. mcp' \in [Pools -> Pool]
    BY <2>1, <2>2 DEF Pool, Pooled
  <2>4. held' \in SUBSET Pools /\ adminHeld' \in SUBSET Pools
    BY <1>5, <2>2 DEF AdminPause, AdminUnpause, Pooled
  <2>5. moves' \in Nat /\ OutsideOperator /\ UNCHANGED rem
    BY <1>5 DEF AdminPause, AdminUnpause, Move, Counted
  <2> QED
    BY <2>3, <2>4, <2>5 DEF Pooled, Counted
<1> QED
  BY <1>2, <1>3, <1>4, <1>5

LEMMA ClockTypes ==
    ASSUME TypeInv, GracePasses \/ Deliver
    PROVE  TypeInv'
<1> USE TypeGroups DEF TypeInv
<1>1. CASE GracePasses
  <2>1. cr' \in Baseline /\ seen' \in Baseline /\ cb' \in Baseline
    BY <1>1, AgedType DEF GracePasses, Stored, Working
  <2>2. cb'.request = cb.request
    BY <1>1 DEF GracePasses, Aged, Working, Baseline
  <2> QED
    BY <1>1, <2>1, <2>2, TypeGroupsNext DEF GracePasses, pooled, opened,
       Stored, Faulty, Pooled, Working, Counted
<1>2. CASE Deliver
  BY <1>2, TypeGroupsNext DEF Deliver, Reconciler, pooled, opened,
     Stored, Faulty, Pooled, Working, Counted
<1> QED
  BY <1>1, <1>2

LEMMA StepTypes == TypeInv /\ [Next]_vars => TypeInv'
<1> SUFFICES ASSUME TypeInv, [Next]_vars
             PROVE  TypeInv'
  OBVIOUS
<1>1. CASE Operator
  BY <1>1, OperatorTypes
<1>2. CASE Crash
  BY <1>2, StatusAndDeleteTypes
<1>3. CASE Environment
  BY <1>3, ClientTypes, OutsideTypes, ClockTypes DEF Environment
<1>4. CASE UNCHANGED vars
  BY <1>4 DEF vars, TypeInv, TypeOK
<1> QED
  BY <1>1, <1>2, <1>3, <1>4 DEF Next

\* Every variable keeps to its type, whatever fails, lags or interferes.
THEOREM TypeCorrect == Spec => []TypeOK
<1>1. TypeInv => TypeOK
  BY DEF TypeInv
<1> QED
  BY InitTypes, StepTypes, <1>1, PTL DEF Spec

----------------------------------------------------------------------------
(* The pauses of administrators: any lag, any number of failures *)

\* The steps that can change a pool.
LEMMA PoolActions ==
    ASSUME Next
    PROVE  \/ UNCHANGED pooled
           \/ OpenPause \/ RollbackPool \/ ResumePool
           \/ \E p \in AdminPools : AdminPause(p) \/ AdminUnpause(p)
<1>1. CASE BeginDelete \/ BeginFinish \/ BeginOpen \/ BeginOrphan
  BY <1>1 DEF BeginDelete, BeginFinish, BeginOpen, BeginOrphan, Begin
<1>2. CASE OpenList \/ OpenRecall \/ OpenRecord \/ OpenApply \/ OpenDone
  BY <1>2 DEF OpenList, OpenRecall, OpenRecord, OpenApply, OpenDone
<1>3. CASE RollbackDone \/ DropRequest \/ FinishWait \/ FinishClear \/ OrphanClear
  BY <1>3 DEF RollbackDone, DropRequest, FinishWait, FinishClear, OrphanClear
<1>4. CASE StatusWrite \/ DeleteList \/ RemoveFinalizer \/ Crash
  BY <1>4 DEF StatusWrite, DeleteList, RemoveFinalizer, Crash
<1>5. CASE Environment
  BY <1>5 DEF Environment, Submit, Forge, Withdraw, EditBaseline, DeleteBaseline,
     OtherWrite, Revert, Enact, Upset, GracePasses, Deliver
<1> QED
  BY <1>1, <1>2, <1>3, <1>4, <1>5 DEF Next, Operator

LEMMA PoolSteps ==
    ASSUME Next
    PROVE  \/ UNCHANGED pooled
           \/ /\ \E p \in todo : \/ pc = "pause" /\ SetPool(p, Paused(mcp[p]))
                                 \/ SetPool(p, Resumed(mcp[p]))
              /\ UNCHANGED cr
           \/ \E p \in AdminPools : AdminPause(p) \/ AdminUnpause(p)
<1>1. CASE OpenPause \/ RollbackPool \/ ResumePool
  BY <1>1, LowestSubset DEF OpenPause, RollbackPool, ResumePool, Patched, PatchFails, stored
<1> QED
  BY <1>1, PoolActions

\* A pause that an administrator made has no marker, and this is what protects it.
AdminInv == \A p \in adminHeld : mcp[p].paused /\ mcp[p].marker = "none"

LEMMA AdminInit == Init => AdminInv
BY DEF Init, AdminInv

LEMMA AdminStep == TypeInv /\ AdminInv /\ [Next]_vars => AdminInv'
<1> SUFFICES ASSUME TypeInv, AdminInv, [Next]_vars
             PROVE  AdminInv'
  OBVIOUS
<1> mcp \in [Pools -> Pool] /\ todo \in SUBSET Pools /\ adminHeld \in SUBSET Pools
  BY DEF TypeInv, TypeOK
<1>1. CASE UNCHANGED pooled
  BY <1>1 DEF pooled, AdminInv
<1>2. ASSUME NEW p \in todo, NEW m \in {Paused(mcp[p]), Resumed(mcp[p])}, SetPool(p, m)
      PROVE  AdminInv'
  <2>1. p \in adminHeld => m = mcp[p]
    BY DEF AdminInv, Paused, Resumed, Pool
  <2> QED
    BY <1>2, <2>1 DEF SetPool, AdminInv
<1>3. ASSUME NEW p \in AdminPools, AdminPause(p)
      PROVE  AdminInv'
  <2>1. p \in Pools /\ p \notin adminHeld
    BY <1>3, BoundsAssumption DEF AdminPause, AdminInv
  <2>2. mcp'[p].paused /\ mcp'[p].marker = mcp[p].marker
    BY <1>3, <2>1 DEF AdminPause, Pool
  <2> QED
    BY <1>3, <2>1, <2>2 DEF AdminPause, AdminInv
<1>4. ASSUME NEW p \in AdminPools, AdminUnpause(p)
      PROVE  AdminInv'
  BY <1>4, BoundsAssumption DEF AdminUnpause, AdminInv
<1>5. CASE UNCHANGED vars
  BY <1>5 DEF vars, AdminInv
<1> QED
  BY <1>1, <1>2, <1>3, <1>4, <1>5, PoolSteps

\* No batch ever resumes a pool that an administrator paused, whatever the
\* cache, the failures and the forged annotations.
THEOREM AdminPausesAreKept == Spec => []AdminPausesKept
<1>1. AdminInv => AdminPausesKept
  BY DEF AdminInv, AdminPausesKept
<1> QED
  BY InitTypes, StepTypes, AdminInit, AdminStep, <1>1, PTL DEF Spec

----------------------------------------------------------------------------
(* The pauses of the operator: a current cache, one failure in a reconcile *)

\* With a current cache, a write is seen at once.
LEMMA WriteCurrent ==
    ASSUME Lag = FALSE, NEW new, Write(new)
    PROVE  cr' = new /\ seen' = cr'
BY DEF Write

LEMMA UpdateCurrent ==
    ASSUME Lag = FALSE, seen = cr, NEW new, Update(new)
    PROVE  cr' = new /\ seen' = cr'
BY DEF Update, Write, stored

LEMMA UpdateFailsCurrent ==
    ASSUME Lag = FALSE, seen = cr, NEW new, UpdateFails(new)
    PROVE  cr' \in {cr, new} /\ seen' = cr'
BY DEF UpdateFails, Write, stored

\* A pause adds one marked pool to those held, a resume takes it away.
LEMMA PauseEffect ==
    ASSUME TypeOK, HeldMarked, NEW p \in Pools,
           Patched(p, Paused(mcp[p])) \/ PatchFails(p, Paused(mcp[p]))
    PROVE  held' \subseteq held \union {p} /\ held \subseteq held' /\ HeldMarked'
<1>1. mcp \in [Pools -> Pool] /\ held \in SUBSET Pools /\ mcp[p] \in Pool
  BY DEF TypeOK
<1>2. CASE UNCHANGED pooled
  BY <1>2 DEF pooled, HeldMarked
<1>3. CASE SetPool(p, Paused(mcp[p]))
  <2>1. Paused(mcp[p]).paused
    BY <1>1 DEF Paused, Pool
  <2>2. Paused(mcp[p]) # mcp[p] => Paused(mcp[p]) = [paused |-> TRUE, marker |-> "self"]
    BY DEF Paused
  <2> QED
    BY <1>1, <1>3, <2>1, <2>2 DEF SetPool, HeldMarked
<1> QED
  BY <1>2, <1>3 DEF Patched, PatchFails

LEMMA ResumeEffect ==
    ASSUME TypeOK, HeldMarked, NEW p \in Pools,
           Patched(p, Resumed(mcp[p])) \/ PatchFails(p, Resumed(mcp[p]))
    PROVE  /\ held' \subseteq held /\ HeldMarked'
           /\ Patched(p, Resumed(mcp[p])) => held' = held \ {p}
<1>1. mcp \in [Pools -> Pool] /\ held \in SUBSET Pools /\ mcp[p] \in Pool
  BY DEF TypeOK
<1>2. CASE UNCHANGED pooled /\ ~Patched(p, Resumed(mcp[p]))
  BY <1>2 DEF pooled, HeldMarked
<1>3. CASE SetPool(p, Resumed(mcp[p]))
  <2>1. Resumed(mcp[p]).paused => Resumed(mcp[p]) = mcp[p] /\ p \notin held
    BY <1>1 DEF Resumed, HeldMarked, Pool
  <2>2. held' = held \ {p}
    BY <1>3, <2>1 DEF SetPool
  <2> QED
    BY <1>1, <1>3, <2>2 DEF SetPool, HeldMarked
<1> QED
  BY <1>2, <1>3 DEF Patched, PatchFails

LEMMA PauseInvInit == Init => PauseInv
BY DEF Init, PauseInv, HeldMarked, OnRecord, BatchListed, AtStep, HasBatch, NoBatch, Listed

LEMMA BeginPauses ==
    ASSUME TypeOK, PauseInv, BeginDelete \/ BeginFinish \/ BeginOpen \/ BeginOrphan
    PROVE  PauseInv'
<1> USE DEF HasBatch, Listed
<1>1. /\ UNCHANGED <<stored, pooled>> /\ cb' = cr
      /\ cr.phase # "gone"
  BY DEF BeginDelete, BeginFinish, BeginOpen, BeginOrphan, Begin, Live, PauseInv
<1>2. seen' = cr' /\ HeldMarked' /\ OnRecord' /\ BatchListed'
  BY <1>1 DEF PauseInv, HeldMarked, OnRecord, BatchListed, stored, pooled
<1>3. AtStep'
  <2>1. CASE BeginDelete
    BY <1>1, <2>1 DEF BeginDelete, Begin, PauseInv, OnRecord, AtStep, stored, pooled
  <2>2. CASE BeginFinish
    BY <1>1, <2>2 DEF BeginFinish, Begin, PauseInv, OnRecord, AtStep, stored, pooled
  <2>3. CASE BeginOpen
    BY <1>1, <2>3 DEF BeginOpen, Begin, PauseInv, OnRecord, AtStep, stored, pooled
  <2>4. CASE BeginOrphan
    BY <1>1, <2>4 DEF BeginOrphan, Begin, PauseInv, OnRecord, AtStep, stored, pooled
  <2> QED
    BY <2>1, <2>2, <2>3, <2>4
<1> QED
  BY <1>2, <1>3 DEF PauseInv

LEMMA OpenPauses ==
    ASSUME Lag = FALSE, TypeOK, PauseInv,
           OpenList \/ OpenRecall \/ OpenRecord \/ OpenPause \/ OpenApply \/ OpenDone
    PROVE  PauseInv'
<1> USE DEF HasBatch, Listed
<1>1. CASE OpenList
  <2>1. UNCHANGED <<stored, pooled, cb>> /\ pc' \in {"drop", "recall", "status"}
    BY <1>1 DEF OpenList, Abort
  <2> QED
    BY <1>1, <2>1 DEF OpenList, PauseInv, HeldMarked, OnRecord, BatchListed, AtStep, stored, pooled
<1>2. CASE OpenRecall
  <2>1. UNCHANGED <<stored, pooled, cb>>
    BY <1>2 DEF OpenRecall, Abort
  <2>2. seen' = cr' /\ HeldMarked' /\ OnRecord' /\ BatchListed'
    BY <2>1 DEF PauseInv, HeldMarked, OnRecord, BatchListed, stored, pooled
  <2>3. held \subseteq Recalled
    BY <1>2 DEF OpenRecall, PauseInv, HeldMarked, AtStep, Recalled
  <2>4. AtStep'
    BY <1>2, <2>1, <2>3 DEF OpenRecall, Abort, PauseInv, OnRecord, AtStep, stored, pooled
  <2> QED
    BY <2>2, <2>4 DEF PauseInv
<1>3. CASE OpenRecord
  <2> DEFINE new == Recorded(seen)
  <2>1. /\ new.pools = plan /\ new.batch = cr.batch /\ new.started # "none"
        /\ new.phase = cr.phase
    BY DEF PauseInv, Recorded, TypeOK, Baseline
  <2>2. cr' \in {cr, new} /\ seen' = cr'
    BY <1>3, UpdateCurrent, UpdateFailsCurrent DEF OpenRecord, PauseInv
  <2>3. held \subseteq plan /\ ~HasBatch(cr) /\ ~HasBatch(cb) /\ cr.phase # "gone"
    BY <1>3 DEF OpenRecord, PauseInv, AtStep
  <2>4. UNCHANGED pooled /\ cb'.batch = cb.batch
    BY <1>3 DEF OpenRecord, Abort, TypeOK, Baseline
  <2>5. HeldMarked' /\ OnRecord' /\ BatchListed'
    BY <2>1, <2>2, <2>3, <2>4 DEF PauseInv, HeldMarked, OnRecord, BatchListed, pooled
  <2>6. CASE Update(new) /\ pc' = "pause" /\ todo' = plan /\ cb'.started = new.started
    <3>1. cr' = new /\ plan' = plan
      BY <1>3, <2>6, UpdateCurrent DEF OpenRecord, PauseInv
    <3>2. AtStep'
      BY <2>1, <2>3, <2>4, <2>6, <3>1 DEF AtStep, pooled
    <3> QED
      BY <2>2, <2>5, <3>2 DEF PauseInv
  <2>7. CASE pc' = "status"
    <3>1. AtStep'
      BY <2>1, <2>2, <2>3, <2>4, <2>7 DEF PauseInv, OnRecord, AtStep, pooled
    <3> QED
      BY <2>2, <2>5, <3>1 DEF PauseInv
  <2>8. cb' = [cb EXCEPT !.started = new.started, !.request = new.request, !.pools = plan]
          => cb'.started = new.started
    BY DEF TypeOK, Baseline
  <2> QED
    BY <1>3, <2>6, <2>7, <2>8 DEF OpenRecord, Abort
<1>4. CASE OpenPause
  <2>1. PICK p \in Lowest(todo) :
            \/ /\ Patched(p, Paused(mcp[p]))
               /\ todo' = todo \ {p}
               /\ UNCHANGED <<pc, scope, stuck>>
            \/ PatchFails(p, Paused(mcp[p])) /\ Rollback(plan \ todo)
    BY <1>4 DEF OpenPause
  <2>2. p \in todo /\ p \in Pools
    BY LowestSubset DEF TypeOK
  <2>3. held' \subseteq held \union {p} /\ HeldMarked'
    BY <2>1, <2>2, PauseEffect DEF PauseInv
  <2>4. /\ UNCHANGED <<stored, cb, plan>>
        /\ todo \subseteq plan /\ held \subseteq plan /\ plan \subseteq cr.pools
        /\ cb.started # "none" /\ ~HasBatch(cr) /\ ~HasBatch(cb)
        /\ cr.phase # "gone"
    BY <1>4 DEF OpenPause, PauseInv, AtStep
  <2>5. seen' = cr' /\ OnRecord' /\ BatchListed'
    BY <2>2, <2>3, <2>4 DEF PauseInv, OnRecord, BatchListed, stored
  <2>6. CASE pc' = "pause" /\ todo' = todo \ {p}
    <3>1. AtStep'
      BY <2>2, <2>3, <2>4, <2>6 DEF AtStep, stored
    <3> QED
      BY <2>3, <2>5, <3>1 DEF PauseInv
  <2>7. CASE Disrupt /\ Rollback(plan \ todo)
    <3>1. faults' >= 1 /\ ~stuck'
      BY <2>7 DEF Disrupt, Rollback, TypeOK
    <3>2. AtStep'
      BY <2>4, <2>7, <3>1 DEF AtStep, Rollback, stored
    <3> QED
      BY <2>3, <2>5, <3>2 DEF PauseInv
  <2> QED
    BY <1>4, <2>1, <2>6, <2>7 DEF OpenPause, PatchFails
<1>5. CASE OpenApply
  <2>1. /\ UNCHANGED <<stored, pooled, cb, plan>>
        /\ \/ UNCHANGED <<pc, todo>>
           \/ Disrupt /\ Rollback(plan)
    BY <1>5 DEF OpenApply
  <2>2. seen' = cr' /\ HeldMarked' /\ OnRecord' /\ BatchListed'
    BY <2>1 DEF PauseInv, HeldMarked, OnRecord, BatchListed, stored, pooled
  <2>3. AtStep'
    <3>1. CASE UNCHANGED <<pc, todo>>
      BY <1>5, <2>1, <3>1 DEF OpenApply, PauseInv, AtStep, stored, pooled
    <3>2. CASE Disrupt /\ Rollback(plan)
      <4>1. faults' >= 1 /\ ~stuck' /\ pc' = "rollback"
        BY <3>2 DEF Disrupt, Rollback, TypeOK
      <4> QED
        BY <1>5, <2>1, <4>1 DEF OpenApply, PauseInv, AtStep, stored, pooled
    <3> QED
      BY <2>1, <3>1, <3>2
  <2> QED
    BY <2>2, <2>3 DEF PauseInv
<1>6. CASE OpenDone
  <2>1. cb'.batch = [pools |-> plan, rems |-> kept, started |-> cb.started]
    BY <1>6 DEF OpenDone, NewBatch, TypeOK, Baseline
  <2>2. UNCHANGED <<stored, pooled>> /\ pc' = "status" /\ pc = "pause"
    BY <1>6 DEF OpenDone
  <2> QED
    BY <2>1, <2>2 DEF PauseInv, HeldMarked, OnRecord, BatchListed, AtStep, stored, pooled
<1> QED
  BY <1>1, <1>2, <1>3, <1>4, <1>5, <1>6

LEMMA RollbackPauses ==
    ASSUME Lag = FALSE, FaultsPerReconcile <= 1, TypeOK, PauseInv,
           RollbackPool \/ RollbackDone \/ DropRequest
    PROVE  PauseInv'
<1> USE DEF HasBatch, Listed
<1>1. CASE RollbackPool
  <2>1. ~Disrupt /\ pc = "rollback"
    BY <1>1, BoundsAssumption DEF RollbackPool, PauseInv, AtStep, Disrupt, TypeOK
  <2>2. PICK p \in Lowest(todo) : Patched(p, Resumed(mcp[p])) /\ UNCHANGED stuck
    BY <1>1, <2>1 DEF RollbackPool, PatchFails
  <2>3. p \in Pools
    BY LowestSubset DEF TypeOK
  <2>4. held' \subseteq held /\ HeldMarked' /\ UNCHANGED faults
    BY <2>2, <2>3, ResumeEffect DEF PauseInv, Patched, Quiet
  <2>5. UNCHANGED <<stored, cb, pc>>
    BY <1>1 DEF RollbackPool
  <2> QED
    BY <2>1, <2>2, <2>4, <2>5 DEF PauseInv, OnRecord, BatchListed, AtStep, stored
<1>2. CASE RollbackDone
  <2>1. UNCHANGED <<stored, pooled, cb>> /\ pc = "rollback" /\ pc' = "status"
    BY <1>2 DEF RollbackDone, PauseInv, AtStep
  <2> QED
    BY <2>1 DEF PauseInv, HeldMarked, OnRecord, BatchListed, AtStep, stored, pooled
<1>3. CASE DropRequest
  <2> DEFINE new == Cleared(seen, cb.request, FALSE)
  <2>1. new.pools = cr.pools /\ new.batch = cr.batch /\ new.phase = cr.phase
    BY DEF PauseInv, Cleared, TypeOK, Baseline
  <2>2. cr' \in {cr, new} /\ seen' = cr'
    BY <1>3, UpdateCurrent, UpdateFailsCurrent DEF DropRequest, PauseInv
  <2>3. UNCHANGED <<pooled, cb>> /\ pc = "drop" /\ pc' = "status"
    BY <1>3 DEF DropRequest, Abort
  <2> QED
    BY <2>1, <2>2, <2>3 DEF PauseInv, HeldMarked, OnRecord, BatchListed, AtStep, pooled
<1> QED
  BY <1>1, <1>2, <1>3

LEMMA FinishPauses ==
    ASSUME Lag = FALSE, TypeOK, PauseInv,
           FinishWait \/ ResumePool \/ FinishClear \/ OrphanClear
    PROVE  PauseInv'
<1> USE DEF HasBatch, Listed
<1>1. CASE FinishWait
  <2>1. UNCHANGED <<stored, pooled, cb>> /\ pc = "wait"
    BY <1>1 DEF FinishWait
  <2>2. \/ pc' = "resume" /\ todo' = cb.batch.pools
        \/ pc' = "status"
    BY <1>1 DEF FinishWait, WaitResult
  <2> QED
    BY <2>1, <2>2 DEF PauseInv, HeldMarked, OnRecord, BatchListed, AtStep, stored, pooled
<1>2. CASE ResumePool
  <2>1. PICK p \in Lowest(todo) :
            \/ Patched(p, Resumed(mcp[p])) /\ todo' = todo \ {p} /\ UNCHANGED pc
            \/ /\ PatchFails(p, Resumed(mcp[p]))
               /\ pc' = IF pc = "delete" THEN "idle" ELSE "status"
               /\ UNCHANGED todo
    BY <1>2 DEF ResumePool
  <2>2. p \in Pools
    BY LowestSubset DEF TypeOK
  <2>3. /\ held' \subseteq held /\ HeldMarked'
        /\ Patched(p, Resumed(mcp[p])) => held' = held \ {p}
    BY <2>1, <2>2, ResumeEffect DEF PauseInv
  <2>4. UNCHANGED <<stored, cb>> /\ pc \in {"resume", "orphan", "delete"}
    BY <1>2 DEF ResumePool
  <2>5. seen' = cr' /\ OnRecord' /\ BatchListed'
    BY <2>3, <2>4 DEF PauseInv, OnRecord, BatchListed, stored
  <2>6. cr.phase # "gone"
    BY <2>4 DEF PauseInv, AtStep
  <2>7. AtStep'
    <3>1. CASE held' = held \ {p} /\ todo' = todo \ {p} /\ UNCHANGED pc
      BY <2>4, <2>6, <3>1 DEF PauseInv, AtStep, stored
    <3>2. CASE pc' = IF pc = "delete" THEN "idle" ELSE "status"
      BY <2>3, <2>4, <2>6, <3>2 DEF PauseInv, OnRecord, AtStep, stored
    <3> QED
      BY <2>1, <2>3, <3>1, <3>2
  <2> QED
    BY <2>3, <2>5, <2>7 DEF PauseInv
<1>3. CASE FinishClear
  <2> DEFINE new == Cleared(seen, cb.batch.rems, TRUE)
  <2>1. new.batch = cr.batch /\ new.phase = cr.phase
    BY DEF PauseInv, Cleared, TypeOK, Baseline
  <2>2. cr' \in {cr, new} /\ seen' = cr'
    BY <1>3, UpdateCurrent, UpdateFailsCurrent DEF FinishClear, PauseInv
  <2>3. UNCHANGED pooled /\ held = {} /\ pc' = "status"
    BY <1>3 DEF FinishClear, Abort, PauseInv, AtStep
  <2>4. cb' = cb \/ cb'.batch = NoBatch
    BY <1>3 DEF FinishClear, Abort, TypeOK, Baseline
  <2>5. BatchListed'
    <3>1. ~HasBatch(cr) => cr.batch.pools = {}
      BY DEF PauseInv, BatchListed
    <3>2. ~HasBatch(cb) => cb.batch.pools = {}
      BY DEF PauseInv, BatchListed
    <3>3. NoBatch.pools = {}
      BY DEF NoBatch
    <3> QED
      BY <2>1, <2>2, <2>4, <3>1, <3>2, <3>3 DEF BatchListed
  <2>6. cr.phase # "gone"
    BY <1>3 DEF FinishClear, PauseInv, AtStep
  <2> QED
    BY <2>1, <2>2, <2>3, <2>5, <2>6 DEF PauseInv, HeldMarked, OnRecord, AtStep, pooled
<1>4. CASE OrphanClear
  <2> DEFINE new == Cleared(seen, {}, TRUE)
  <2>1. new.batch = cr.batch /\ new.phase = cr.phase
    BY DEF PauseInv, Cleared, TypeOK, Baseline
  <2>2. cr' \in {cr, new} /\ seen' = cr'
    BY <1>4, UpdateCurrent, UpdateFailsCurrent DEF OrphanClear, PauseInv
  <2>3. UNCHANGED <<pooled, cb>> /\ held = {} /\ pc' = "status" /\ cr.phase # "gone"
    BY <1>4 DEF OrphanClear, Abort, PauseInv, AtStep
  <2> QED
    BY <2>1, <2>2, <2>3 DEF PauseInv, HeldMarked, OnRecord, BatchListed, AtStep, pooled
<1> QED
  BY <1>1, <1>2, <1>3, <1>4

LEMMA StatusAndDeletePauses ==
    ASSUME Lag = FALSE, TypeOK, PauseInv,
           StatusWrite \/ DeleteList \/ RemoveFinalizer \/ Crash
    PROVE  PauseInv'
<1> USE DEF HasBatch, Listed
<1>1. CASE StatusWrite
  <2> DEFINE new == [cr EXCEPT !.batch = cb.batch]
  <2>1. new.batch = cb.batch /\ new.phase = cr.phase /\ new.pools = cr.pools
    BY DEF TypeOK, Baseline
  <2>2. cr' \in {cr, new} /\ seen' = cr'
    BY <1>1, WriteCurrent DEF StatusWrite, PersistBatch, PauseInv, stored
  <2>3. UNCHANGED <<pooled, cb>> /\ pc = "status" /\ pc' = "idle"
    BY <1>1 DEF StatusWrite
  <2> QED
    BY <2>1, <2>2, <2>3 DEF PauseInv, HeldMarked, OnRecord, BatchListed, AtStep, pooled
<1>2. CASE DeleteList
  <2>1. UNCHANGED <<stored, pooled, cb>> /\ pc = "release" /\ cr.phase # "gone"
    BY <1>2 DEF DeleteList, PauseInv, AtStep
  <2>2. \/ pc' = "idle"
        \/ pc' = "delete" /\ todo' = DeletePools
        \/ pc' = "delete" /\ todo' = cb.pools /\ cb.batch.pools = {}
    BY <1>2 DEF DeleteList
  <2>3. held \subseteq DeletePools /\ (cb.batch.pools = {} => held \subseteq cb.pools)
    BY <2>1 DEF PauseInv, BatchListed, AtStep, DeletePools
  <2> QED
    BY <2>1, <2>2, <2>3 DEF PauseInv, HeldMarked, OnRecord, BatchListed, AtStep, stored, pooled
<1>3. CASE RemoveFinalizer
  <2> DEFINE new == [cr EXCEPT !.phase = "gone"]
  <2>1. new.batch = cr.batch /\ new.pools = cr.pools
    BY DEF TypeOK, Baseline
  <2>2. cr' \in {cr, new} /\ seen' = cr'
    BY <1>3, WriteCurrent DEF RemoveFinalizer, PauseInv, stored
  <2>3. UNCHANGED <<pooled, cb>> /\ held = {} /\ pc' = "idle"
    BY <1>3 DEF RemoveFinalizer, PauseInv, AtStep
  <2> QED
    BY <2>1, <2>2, <2>3 DEF PauseInv, HeldMarked, OnRecord, BatchListed, AtStep, pooled
<1>4. CASE Crash
  <2>1. UNCHANGED <<stored, pooled, cb>> /\ pc' = "idle"
    BY <1>4 DEF Crash, PauseInv, stored
  <2> QED
    BY <1>4, <2>1 DEF Crash, PauseInv, HeldMarked, OnRecord, BatchListed, AtStep, stored, pooled
<1> QED
  BY <1>1, <1>2, <1>3, <1>4

\* A client's write keeps the batch and loses no recorded pool.
LEMMA OtherWritePauses ==
    ASSUME Lag = FALSE, TypeOK, PauseInv, NEW new, OtherWrite(new),
           new.batch = cr.batch, cr.pools \subseteq new.pools, new.phase # "gone"
    PROVE  PauseInv'
<1> USE DEF HasBatch, Listed
<1>1. cr' = new /\ seen' = cr'
  BY WriteCurrent DEF OtherWrite
<1>2. UNCHANGED <<Reconciler, pooled>>
  BY DEF OtherWrite
<1>3. HeldMarked' /\ OnRecord' /\ BatchListed'
  BY <1>1, <1>2 DEF PauseInv, HeldMarked, OnRecord, BatchListed, Reconciler, pooled
<1>4. AtStep'
  BY <1>1, <1>2 DEF PauseInv, AtStep, Reconciler, opened, pooled
<1> QED
  BY <1>1, <1>3, <1>4 DEF PauseInv

LEMMA ClientPauses ==
    ASSUME Lag = FALSE, TypeOK, PauseInv,
           \/ \E q \in Requests : Submit(q)
           \/ \E p \in ForgedPools : Forge(p)
           \/ Withdraw \/ EditBaseline \/ DeleteBaseline
    PROVE  PauseInv'
<1> cr \in Baseline
  BY DEF TypeOK
<1>1. ASSUME NEW q, OtherWrite([cr EXCEPT !.request = q])
      PROVE  PauseInv'
  BY <1>1, OtherWritePauses DEF OtherWrite, Baseline
<1>2. ASSUME NEW p, OtherWrite([cr EXCEPT !.pools = @ \union {p}])
      PROVE  PauseInv'
  BY <1>2, OtherWritePauses DEF OtherWrite, Baseline
<1>3. CASE EditBaseline
  BY <1>3, OtherWritePauses DEF EditBaseline, OtherWrite
<1>4. CASE DeleteBaseline
  BY <1>4, OtherWritePauses DEF DeleteBaseline, Baseline
<1> QED
  BY <1>1, <1>2, <1>3, <1>4 DEF Submit, Forge, Withdraw

LEMMA OutsidePauses ==
    ASSUME TypeOK, PauseInv,
           \/ \E r \in Names : Revert(r) \/ Enact(r)
           \/ \E r \in Names, s \in {"Absent", "MissingDependencies", "Corrupt"} : Upset(r, s)
           \/ \E p \in AdminPools : AdminPause(p) \/ AdminUnpause(p)
           \/ GracePasses \/ Deliver
    PROVE  PauseInv'
<1> USE DEF HasBatch, Listed
<1>1. CASE \/ \E r \in Names : Revert(r) \/ Enact(r)
           \/ \E r \in Names, s \in {"Absent", "MissingDependencies", "Corrupt"} : Upset(r, s)
  <2>1. OutsideOperator /\ UNCHANGED pooled
    BY <1>1 DEF Revert, Enact, Upset
  <2> QED
    BY <2>1 DEF OutsideOperator, Reconciler, stored, opened, pooled,
       PauseInv, HeldMarked, OnRecord, BatchListed, AtStep
<1>2. ASSUME NEW p \in AdminPools, AdminPause(p) \/ AdminUnpause(p)
      PROVE  PauseInv'
  <2>1. OutsideOperator /\ held' \subseteq held
    BY <1>2 DEF AdminPause, AdminUnpause
  <2>2. HeldMarked'
    BY <1>2, BoundsAssumption DEF AdminPause, AdminUnpause, PauseInv, HeldMarked, TypeOK
  <2> QED
    BY <2>1, <2>2 DEF OutsideOperator, Reconciler, stored, opened,
       PauseInv, OnRecord, BatchListed, AtStep
<1>3. CASE GracePasses
  <2>1. \A c \in Baseline : /\ Aged(c).pools = c.pools /\ Aged(c).phase = c.phase
                            /\ Aged(c).batch.pools = c.batch.pools
                            /\ Aged(c).started = "none" <=> c.started = "none"
                            /\ Aged(c).batch.started = "none" <=> c.batch.started = "none"
    BY DEF Aged, Expire, Baseline, Batch, Clock
  <2>2. /\ cr' = Aged(cr) /\ seen' = Aged(seen) /\ cb' = Aged(cb)
        /\ cr \in Baseline /\ cb \in Baseline
        /\ UNCHANGED <<pooled, pc, opened, todo, faults>>
    BY <1>3 DEF GracePasses, TypeOK
  <2>3. seen' = cr' /\ HeldMarked' /\ OnRecord' /\ BatchListed'
    BY <2>1, <2>2 DEF PauseInv, HeldMarked, OnRecord, BatchListed, pooled
  <2>4. AtStep'
    BY <2>1, <2>2 DEF PauseInv, AtStep, opened, pooled
  <2> QED
    BY <2>3, <2>4 DEF PauseInv
<1>4. CASE Deliver
  BY <1>4 DEF Deliver, PauseInv
<1> QED
  BY <1>1, <1>2, <1>3, <1>4

LEMMA PauseInvStep ==
    ASSUME Lag = FALSE, FaultsPerReconcile <= 1, TypeOK, PauseInv, [Next]_vars
    PROVE  PauseInv'
<1>1. CASE Operator
  BY <1>1, BeginPauses, OpenPauses, RollbackPauses, FinishPauses, StatusAndDeletePauses
  DEF Operator
<1>2. CASE Crash
  BY <1>2, StatusAndDeletePauses
<1>3. CASE Environment
  BY <1>3, ClientPauses, OutsidePauses DEF Environment
<1>4. CASE UNCHANGED vars
  BY <1>4 DEF vars, PauseInv, HeldMarked, OnRecord, BatchListed, AtStep, HasBatch, Listed
<1> QED
  BY <1>1, <1>2, <1>3, <1>4 DEF Next

\* The pauses at every step of a reconcile, as PauseInv describes them.
THEOREM PausesHeldRight ==
    ASSUME Lag = FALSE, FaultsPerReconcile <= 1
    PROVE  Spec => []PauseInv
<1>1. TypeInv => TypeOK
  BY DEF TypeInv
<1>2. TypeInv /\ PauseInv /\ [Next]_vars => PauseInv'
  BY <1>1, PauseInvStep
<1> QED
  BY InitTypes, StepTypes, PauseInvInit, <1>2, PTL DEF Spec

\* Every pool the operator paused is on record: a crash or a failed call
\* between any two steps loses none.
THEOREM PausesAreTracked ==
    ASSUME Lag = FALSE, FaultsPerReconcile <= 1
    PROVE  Spec => []PausesTracked
<1>1. PauseInv => PausesTracked
  BY DEF PauseInv, OnRecord, Listed, PausesTracked
<1> QED
  BY PausesHeldRight, <1>1, PTL

\* The ClusterBaseline goes only after its pauses.
THEOREM GoneIsReleased ==
    ASSUME Lag = FALSE, FaultsPerReconcile <= 1
    PROVE  Spec => []GoneReleased
<1>1. PauseInv => GoneReleased
  BY DEF PauseInv, AtStep, GoneReleased
<1> QED
  BY PausesHeldRight, <1>1, PTL

----------------------------------------------------------------------------
(* The batch is a write-ahead ledger *)

LEMMA LedgerInit == Init => Ledger!Init
BY DEF Init, Ledger!Init, ledger, Listed, HasBatch, NoBatch

LEMMA LedgerStep ==
    ASSUME TypeOK, TypeOK', PauseInv, PauseInv', [Next]_vars
    PROVE  [Ledger!Next]_<<held, ledger>>
<1>1. CASE held' = held
  <2>1. ledger' \in SUBSET Pools
    BY BatchFields DEF TypeOK, ledger, Listed
  <2>2. held \subseteq ledger'
    BY <1>1 DEF PauseInv, OnRecord, ledger
  <2> QED
    BY <1>1, <2>1, <2>2 DEF Ledger!Next, Ledger!Record
<1>2. ASSUME NEW p \in Pools, held' = held \ {p}, UNCHANGED cr
      PROVE  Ledger!Next
  BY <1>2 DEF Ledger!Next, Ledger!Release, ledger
<1>3. ASSUME NEW p \in todo, pc = "pause", SetPool(p, Paused(mcp[p])), UNCHANGED cr,
             held' # held
      PROVE  Ledger!Next
  <2>1. p \in Pools /\ p \in ledger
    BY <1>3 DEF TypeOK, PauseInv, AtStep, ledger, Listed
  <2>2. Paused(mcp[p]).paused
    BY <2>1, PoolAfter DEF TypeOK, Paused, Pool
  <2>3. held' = held \union {p} /\ ledger' = ledger
    BY <1>3, <2>2 DEF SetPool, ledger
  <2> QED
    BY <2>1, <2>3 DEF Ledger!Next, Ledger!Pause
<1>4. ASSUME NEW p \in todo, SetPool(p, Resumed(mcp[p])), UNCHANGED cr, held' # held
      PROVE  Ledger!Next
  <2>1. p \in Pools /\ mcp[p] \in Pool
    BY DEF TypeOK
  <2>2. Resumed(mcp[p]).paused => Resumed(mcp[p]) = mcp[p]
    BY <2>1 DEF Resumed, Pool
  <2>3. held' = held \ {p}
    BY <1>4, <2>2 DEF SetPool
  <2> QED
    BY <1>2, <1>4, <2>1, <2>3
<1>5. ASSUME NEW p \in AdminPools, AdminPause(p) \/ AdminUnpause(p), held' # held
      PROVE  Ledger!Next
  BY <1>2, <1>5, BoundsAssumption
     DEF AdminPause, AdminUnpause, OutsideOperator, stored
<1>6. CASE UNCHANGED vars
  BY <1>1, <1>6 DEF vars
<1> QED
  BY <1>1, <1>3, <1>4, <1>5, <1>6, PoolSteps DEF pooled

\* The batch implements the write-ahead ledger: a pool is paused only once it
\* is on record, and no write of the record, be it a retried, a failed or a
\* client's, drops a pool that is still held.
THEOREM BatchKeepsLedger ==
    ASSUME Lag = FALSE, FaultsPerReconcile <= 1
    PROVE  Spec => LedgerKept
<1>1. TypeInv => TypeOK
  BY DEF TypeInv
<1>2. TypeInv /\ TypeInv' /\ PauseInv /\ PauseInv' /\ [Next]_vars
        => [Ledger!Next]_<<held, ledger>>
  BY <1>1, LedgerStep DEF TypeInv
<1> QED
  BY InitTypes, StepTypes, PausesHeldRight, LedgerInit, <1>2, PTL
  DEF Spec, LedgerKept, Ledger!Spec

----------------------------------------------------------------------------
(* Only owned pools: any lag, any failures, any annotations *)

Owned == PoolsOf(Names \ (Foreign \union Invalid))

\* A pool bears the operator's marker only if an owned remediation targets it:
\* what a client forges into the annotation is recalled only under that marker.
OwnedInv ==
    /\ held \subseteq Owned
    /\ \A p \in Pools : mcp[p].marker = "self" => p \in Owned
    /\ pc = "list" => cb.request \cap Invalid = {}
    /\ pc \in {"recall", "record", "pause"} => plan \subseteq Owned
    /\ pc = "pause" => todo \subseteq Owned

LEMMA OwnedInit == Init => OwnedInv
<1>1. \A m \in {[paused |-> FALSE, marker |-> "none"], [paused |-> TRUE, marker |-> "other"]} :
         m.marker # "self"
  OBVIOUS
<1> QED
  BY <1>1 DEF Init, OwnedInv

\* What the steps that pause nothing do to the work in progress.
LEMMA OwnedWork ==
    ASSUME TypeInv, OwnedInv, Next, UNCHANGED <<held, mcp>>
    PROVE  OwnedInv'
<1> USE DEF OwnedInv
<1>1. CASE BeginOpen
  BY <1>1 DEF BeginOpen, Begin
<1>2. CASE OpenList
  <2>1. kept' = {r \in cb.request : Eligible(r)} /\ plan' = PoolsOf(kept') => plan' \subseteq Owned
    <3>1. {r \in cb.request : Eligible(r)} \subseteq Names \ (Foreign \union Invalid)
      BY <1>2 DEF OpenList, TypeInv, Eligible
    <3> QED
      BY <3>1 DEF PoolsOf, Owned
  <2> QED
    BY <1>2, <2>1 DEF OpenList, Abort
<1>3. CASE OpenRecall
  <2>1. Recalled \subseteq Owned
    BY DEF Recalled, TypeInv, TypeOK, Baseline
  <2> QED
    BY <1>3, <2>1 DEF OpenRecall, Abort
<1>4. CASE OpenRecord
  BY <1>4 DEF OpenRecord, Abort
<1>5. CASE OpenPause \/ OpenApply \/ OpenDone
  BY <1>5 DEF OpenPause, OpenApply, OpenDone, Rollback, opened
<1>6. CASE BeginDelete \/ BeginFinish \/ BeginOrphan
  BY <1>6 DEF BeginDelete, BeginFinish, BeginOrphan, Begin
<1>7. CASE RollbackPool \/ RollbackDone \/ DropRequest
  BY <1>7 DEF RollbackPool, RollbackDone, DropRequest, Abort
<1>8. CASE FinishWait \/ ResumePool \/ FinishClear \/ OrphanClear
  BY <1>8 DEF FinishWait, WaitResult, ResumePool, FinishClear, OrphanClear, Abort
<1>9. CASE StatusWrite \/ DeleteList \/ RemoveFinalizer \/ Crash
  BY <1>9 DEF StatusWrite, DeleteList, RemoveFinalizer, Crash
<1>10. CASE Environment
  <2>1. UNCHANGED <<pc, plan, todo>>
    BY <1>10 DEF Environment, Submit, Forge, Withdraw, EditBaseline, DeleteBaseline,
       OtherWrite, Revert, Enact, Upset, AdminPause, AdminUnpause, OutsideOperator,
       GracePasses, Deliver, Reconciler, opened
  <2>2. cb'.request = cb.request
    <3>1. CASE GracePasses
      BY <3>1 DEF GracePasses, Aged, TypeInv, TypeOK, Baseline
    <3>2. CASE ~GracePasses
      BY <1>10, <3>2 DEF Environment, Submit, Forge, Withdraw, EditBaseline, DeleteBaseline,
         OtherWrite, Revert, Enact, Upset, AdminPause, AdminUnpause, OutsideOperator,
         Deliver, Reconciler
    <3> QED
      BY <3>1, <3>2
  <2> QED
    BY <2>1, <2>2
<1> QED
  BY <1>1, <1>2, <1>3, <1>4, <1>5, <1>6, <1>7, <1>8, <1>9, <1>10 DEF Next, Operator

LEMMA OwnedStep == TypeInv /\ OwnedInv /\ [Next]_vars => OwnedInv'
<1> SUFFICES ASSUME TypeInv, OwnedInv, [Next]_vars
             PROVE  OwnedInv'
  OBVIOUS
<1> mcp \in [Pools -> Pool] /\ todo \in SUBSET Pools /\ held \in SUBSET Pools
  BY DEF TypeInv, TypeOK
<1>1. CASE Next /\ UNCHANGED <<held, mcp>>
  BY <1>1, OwnedWork
<1>2. CASE OpenPause
  <2>1. PICK p \in todo :
            /\ \/ SetPool(p, Paused(mcp[p]))
               \/ UNCHANGED pooled
            /\ \/ todo' = todo \ {p} /\ UNCHANGED pc
               \/ pc' = "rollback"
    BY <1>2, LowestSubset DEF OpenPause, Patched, PatchFails, Rollback
  <2>2. p \in Owned /\ UNCHANGED plan /\ pc = "pause"
    BY <1>2 DEF OpenPause, OwnedInv
  <2>3. held' \subseteq Owned /\ \A q \in Pools : mcp'[q].marker = "self" => q \in Owned
    BY <2>1, <2>2 DEF SetPool, pooled, OwnedInv
  <2> QED
    BY <2>1, <2>2, <2>3 DEF OwnedInv
<1>3. CASE RollbackPool \/ ResumePool
  <2>1. PICK p \in todo : SetPool(p, Resumed(mcp[p])) \/ UNCHANGED pooled
    BY <1>3, LowestSubset DEF RollbackPool, ResumePool, Patched, PatchFails
  <2>2. /\ Resumed(mcp[p]).paused => Resumed(mcp[p]) = mcp[p]
        /\ Resumed(mcp[p]).marker = "self" => mcp[p].marker = "self"
    BY DEF Resumed, Pool
  <2>3. held' \subseteq Owned /\ \A q \in Pools : mcp'[q].marker = "self" => q \in Owned
    BY <2>1, <2>2 DEF SetPool, pooled, OwnedInv
  <2>4. pc' \notin {"list", "recall", "record", "pause"}
    BY <1>3 DEF RollbackPool, ResumePool
  <2> QED
    BY <2>3, <2>4 DEF OwnedInv
<1>4. ASSUME NEW p \in AdminPools, AdminPause(p) \/ AdminUnpause(p)
      PROVE  OwnedInv'
  <2>1. PICK b \in BOOLEAN : mcp' = [mcp EXCEPT ![p].paused = b]
    BY <1>4 DEF AdminPause, AdminUnpause
  <2>2. \A q \in Pools : mcp'[q].marker = mcp[q].marker
    BY <2>1 DEF Pool
  <2>3. held' \subseteq held /\ UNCHANGED <<pc, cb, plan, todo>>
    BY <1>4 DEF AdminPause, AdminUnpause, OutsideOperator, Reconciler, opened
  <2> QED
    BY <2>2, <2>3 DEF OwnedInv
<1>5. CASE UNCHANGED vars
  BY <1>5 DEF vars, OwnedInv
<1> QED
  BY <1>1, <1>2, <1>3, <1>4, <1>5, PoolActions DEF pooled

\* The operator pauses the pools of owned, validly named remediations only,
\* whatever the annotations of the ClusterBaseline name.
THEOREM OnlyOwnedPoolsPaused == Spec => []OnlyOwnedPools
<1>1. OwnedInv => OnlyOwnedPools
  BY DEF OwnedInv, Owned, OnlyOwnedPools
<1> QED
  BY InitTypes, StepTypes, OwnedInit, OwnedStep, <1>1, PTL DEF Spec

----------------------------------------------------------------------------
(* Applies happen under pause: any lag, any failures *)

\* While remediations are applied, the pools they target are all in the plan,
\* and all of the plan that was dealt with is paused.
ApplyInv ==
    /\ pc \in {"recall", "record", "pause"} => PoolsOf(kept) \subseteq plan
    /\ pc = "pause" => /\ left \subseteq kept
                       /\ \A p \in (plan \ todo) \ AdminPools : mcp[p].paused

LEMMA ApplyInit == Init => ApplyInv
BY DEF Init, ApplyInv

\* The steps outside the reconciler leave its work as it is.
LEMMA EnvironmentFrame ==
    ASSUME Environment
    PROVE  UNCHANGED <<pc, opened, todo, faults>>
BY DEF Environment, Submit, Forge, Withdraw, EditBaseline, DeleteBaseline,
   OtherWrite, Revert, Enact, Upset, AdminPause, AdminUnpause, OutsideOperator,
   GracePasses, Deliver, Reconciler, opened

LEMMA ApplyStep == TypeInv /\ ApplyInv /\ [Next]_vars => ApplyInv'
<1> SUFFICES ASSUME TypeInv, ApplyInv, [Next]_vars
             PROVE  ApplyInv'
  OBVIOUS
<1> mcp \in [Pools -> Pool] /\ plan \in SUBSET Pools /\ todo \in SUBSET Pools
  BY DEF TypeInv, TypeOK
<1>1. CASE OpenList
  BY <1>1 DEF OpenList, Abort, ApplyInv
<1>2. CASE OpenRecall
  BY <1>2 DEF OpenRecall, Abort, ApplyInv
<1>3. CASE OpenRecord
  BY <1>3 DEF OpenRecord, Abort, ApplyInv
<1>4. CASE OpenPause
  <2>1. PICK p \in todo :
            \/ Patched(p, Paused(mcp[p])) /\ todo' = todo \ {p} /\ UNCHANGED pc
            \/ pc' = "rollback"
    BY <1>4, LowestSubset DEF OpenPause, Rollback
  <2>2. CASE Patched(p, Paused(mcp[p])) /\ todo' = todo \ {p} /\ UNCHANGED pc
    <3>1. Paused(mcp[p]).paused
      BY DEF Paused, Pool
    <3>2. mcp'[p].paused /\ \A q \in Pools \ {p} : mcp'[q] = mcp[q]
      BY <2>2, <3>1 DEF Patched, SetPool
    <3> QED
      BY <1>4, <2>2, <3>2 DEF OpenPause, ApplyInv
  <2>3. CASE pc' = "rollback"
    BY <2>3 DEF ApplyInv
  <2> QED
    BY <2>1, <2>2, <2>3
<1>5. CASE OpenApply
  BY <1>5 DEF OpenApply, Rollback, pooled, ApplyInv
<1>6. CASE OpenDone \/ RollbackPool \/ RollbackDone \/ DropRequest
  BY <1>6 DEF OpenDone, RollbackPool, RollbackDone, DropRequest, Abort, ApplyInv
<1>7. CASE FinishWait \/ ResumePool \/ FinishClear \/ OrphanClear
  BY <1>7 DEF FinishWait, WaitResult, ResumePool, FinishClear, OrphanClear, Abort, ApplyInv
<1>8. CASE StatusWrite \/ DeleteList \/ RemoveFinalizer \/ Crash
  BY <1>8 DEF StatusWrite, DeleteList, RemoveFinalizer, Crash, ApplyInv
<1>9. CASE BeginDelete \/ BeginFinish \/ BeginOpen \/ BeginOrphan
  BY <1>9 DEF BeginDelete, BeginFinish, BeginOpen, BeginOrphan, Begin, ApplyInv
<1>10. CASE Environment
  <2>1. \A p \in Pools \ AdminPools : mcp'[p] = mcp[p]
    BY <1>10 DEF Environment, Submit, Forge, Withdraw, EditBaseline, DeleteBaseline,
       OtherWrite, Revert, Enact, Upset, AdminPause, AdminUnpause, GracePasses, Deliver,
       pooled
  <2> QED
    BY <1>10, <2>1, EnvironmentFrame DEF opened, ApplyInv
<1>11. CASE UNCHANGED vars
  BY <1>11 DEF vars, ApplyInv
<1> QED
  BY <1>1, <1>2, <1>3, <1>4, <1>5, <1>6, <1>7, <1>8, <1>9, <1>10, <1>11 DEF Next, Operator

\* The only step that sets apply is OpenApply.
LEMMA ApplyOnlyOpens ==
    ASSUME TypeInv, [Next]_vars, NEW r \in Names, ~rem[r].apply, rem'[r].apply
    PROVE  OpenApply /\ r \in left
<1> rem \in [Names -> Remediation]
  BY DEF TypeInv, TypeOK
<1>1. rem' # rem
  OBVIOUS
<1>2. CASE OpenApply
  <2>1. PICK s \in Lowest(left) : rem' \in {rem, [rem EXCEPT ![s].apply = TRUE]}
    BY <1>2 DEF OpenApply
  <2> QED
    BY <1>2, <2>1, LowestSubset
<1>3. CASE Operator /\ ~OpenApply
  BY <1>1, <1>3 DEF Operator, BeginDelete, BeginFinish, BeginOpen, BeginOrphan, Begin,
     OpenList, OpenRecall, OpenRecord, OpenPause, OpenDone, RollbackPool, RollbackDone,
     DropRequest, FinishWait, ResumePool, FinishClear, OrphanClear, StatusWrite,
     DeleteList, RemoveFinalizer
<1>4. CASE Crash
  BY <1>1, <1>4 DEF Crash
<1>5. CASE Environment
  <2>1. PICK s \in Names : \/ Revert(s) \/ Enact(s)
                          \/ \E x \in {"Absent", "MissingDependencies", "Corrupt"} : Upset(s, x)
    BY <1>1, <1>5 DEF Environment, Submit, Forge, Withdraw, EditBaseline, DeleteBaseline,
       OtherWrite, AdminPause, AdminUnpause, GracePasses, Deliver
  <2>2. ~rem[r].apply => ~rem'[r].apply
    BY <2>1 DEF Revert, Enact, Upset, Remediation
  <2> QED
    BY <2>2
<1>6. CASE UNCHANGED vars
  BY <1>1, <1>6 DEF vars
<1> QED
  BY <1>2, <1>3, <1>4, <1>5, <1>6 DEF Next

\* A node remediation is switched on only while its pool is paused, so that
\* the nodes of the pool reboot once for the whole batch.
THEOREM AppliesWhilePaused == Spec => AppliesUnderPause
<1>1. ASSUME TypeInv, ApplyInv, [Next]_vars
      PROVE  [\A r \in Names : ~rem[r].apply /\ rem'[r].apply =>
                 \A p \in PoolOf[r] \ AdminPools : mcp[p].paused]_vars
  <2>1. ASSUME NEW r \in Names, ~rem[r].apply, rem'[r].apply
        PROVE  \A p \in PoolOf[r] \ AdminPools : mcp[p].paused
    <3>1. OpenApply /\ r \in left
      BY <1>1, <2>1, ApplyOnlyOpens
    <3>2. pc = "pause" /\ todo = {} /\ r \in kept
      BY <1>1, <3>1 DEF OpenApply, ApplyInv
    <3>3. PoolOf[r] \subseteq plan
      BY <1>1, <3>2 DEF ApplyInv, PoolsOf
    <3> QED
      BY <1>1, <3>2, <3>3 DEF ApplyInv
  <2> QED
    BY <2>1
<1> QED
  BY InitTypes, StepTypes, ApplyInit, ApplyStep, <1>1, PTL DEF Spec, AppliesUnderPause

----------------------------------------------------------------------------
(* The grace clock is never set back: a current cache, one failure *)

\* The clock a reconcile works with is the one on record, as long as it may
\* still write it.
ClockInv ==
    /\ pc \in {"pause", "rollback"} => cb.started = cr.started
    /\ pc \in {"wait", "resume"} => cb.batch.started = cr.batch.started
    /\ pc = "status" /\ held # {} =>
          IF HasBatch(cb) THEN cb.batch.started = clock ELSE ~HasBatch(cr)

LEMMA ClockInit == Init => ClockInv
BY DEF Init, ClockInv

LEMMA BeginClock ==
    ASSUME TypeOK, PauseInv, ClockInv,
           BeginDelete \/ BeginFinish \/ BeginOpen \/ BeginOrphan
    PROVE  ClockInv' /\ clock' = clock
BY DEF BeginDelete, BeginFinish, BeginOpen, BeginOrphan, Begin, stored, PauseInv, ClockInv,
   clock, HasBatch

LEMMA OpenClock ==
    ASSUME Lag = FALSE, TypeOK, PauseInv, ClockInv,
           OpenList \/ OpenRecall \/ OpenRecord \/ OpenPause \/ OpenApply \/ OpenDone
    PROVE  ClockInv' /\ (clock # "none" => clock' = clock)
<1> USE DEF HasBatch, clock
<1>1. CASE OpenList \/ OpenRecall
  <2>1. UNCHANGED <<stored, pooled, cb>> /\ pc' \notin {"pause", "rollback", "wait", "resume"}
        /\ ~HasBatch(cb) /\ ~HasBatch(cr)
    BY <1>1 DEF OpenList, OpenRecall, Abort, PauseInv, AtStep
  <2> QED
    BY <2>1 DEF ClockInv, stored, pooled
<1>2. CASE OpenRecord
  <2> DEFINE new == Recorded(seen)
  <2>1. /\ new.batch = cr.batch
        /\ cr.started # "none" => new.started = cr.started
    BY DEF PauseInv, Recorded, TypeOK, Baseline
  <2>2. cr' \in {cr, new} /\ ~HasBatch(cr) /\ ~HasBatch(cb)
    BY <1>2, UpdateCurrent, UpdateFailsCurrent DEF OpenRecord, PauseInv, AtStep
  <2>3. CASE Update(new) /\ pc' = "pause" /\
             cb' = [cb EXCEPT !.started = new.started, !.request = new.request, !.pools = plan]
    <3>1. cr' = new /\ cb'.started = new.started
      BY <2>3, UpdateCurrent DEF PauseInv, TypeOK, Baseline
    <3> QED
      BY <2>1, <2>2, <2>3, <3>1 DEF ClockInv
  <2>4. CASE pc' = "status" /\ cb' = cb
    BY <2>1, <2>2, <2>4 DEF ClockInv
  <2> QED
    BY <1>2, <2>3, <2>4 DEF OpenRecord, Abort
<1>3. CASE OpenPause \/ OpenApply
  <2>1. UNCHANGED <<stored, cb>> /\ pc = "pause" /\ pc' \in {"pause", "rollback"}
    BY <1>3 DEF OpenPause, OpenApply, Rollback
  <2> QED
    BY <2>1 DEF ClockInv, stored
<1>4. CASE OpenDone
  <2>1. UNCHANGED stored /\ pc = "pause" /\ pc' = "status" /\ ~HasBatch(cr)
        /\ cb'.batch.started = cb.started
    BY <1>4 DEF OpenDone, NewBatch, PauseInv, AtStep, TypeOK, Baseline
  <2>2. cb.started # "none" /\ cb.started = cr.started
    BY <2>1 DEF PauseInv, AtStep, ClockInv
  <2> QED
    BY <2>1, <2>2 DEF ClockInv, stored
<1> QED
  BY <1>1, <1>2, <1>3, <1>4

LEMMA RollbackClock ==
    ASSUME Lag = FALSE, TypeOK, PauseInv, ClockInv, RollbackPool \/ RollbackDone \/ DropRequest
    PROVE  ClockInv' /\ clock' = clock
<1> USE DEF HasBatch, clock
<1>1. CASE RollbackPool
  BY <1>1 DEF RollbackPool, ClockInv, stored
<1>2. CASE RollbackDone
  <2>1. UNCHANGED <<stored, cb>> /\ pc' = "status" /\ ~HasBatch(cr) /\ ~HasBatch(cb)
    BY <1>2 DEF RollbackDone, PauseInv, AtStep
  <2> QED
    BY <2>1 DEF ClockInv, stored
<1>3. CASE DropRequest
  <2> DEFINE new == Cleared(seen, cb.request, FALSE)
  <2>1. new.batch = cr.batch /\ new.started = cr.started
    BY DEF PauseInv, Cleared, TypeOK, Baseline
  <2>2. cr' \in {cr, new}
    BY <1>3, UpdateCurrent, UpdateFailsCurrent DEF DropRequest, PauseInv
  <2>3. UNCHANGED cb /\ pc' = "status" /\ ~HasBatch(cr) /\ ~HasBatch(cb)
    BY <1>3 DEF DropRequest, Abort, PauseInv, AtStep
  <2> QED
    BY <2>1, <2>2, <2>3 DEF ClockInv
<1> QED
  BY <1>1, <1>2, <1>3

LEMMA FinishClock ==
    ASSUME TypeOK, PauseInv, ClockInv,
           FinishWait \/ ResumePool \/ FinishClear \/ OrphanClear
    PROVE  ClockInv' /\ (held # {} => clock' = clock)
<1> USE DEF HasBatch, clock
<1>1. CASE FinishWait
  <2>1. UNCHANGED <<stored, cb>> /\ pc = "wait" /\ pc' \in {"resume", "status"}
    BY <1>1 DEF FinishWait, WaitResult
  <2> QED
    BY <2>1 DEF PauseInv, AtStep, ClockInv, stored
<1>2. CASE ResumePool
  <2>1. UNCHANGED <<stored, cb>> /\ pc' \in {pc, "status", "idle"}
        /\ pc \in {"resume", "orphan", "delete"} /\ (pc = "delete" => pc' # "status")
    BY <1>2 DEF ResumePool
  <2> QED
    BY <2>1 DEF PauseInv, AtStep, ClockInv, stored
<1>3. CASE FinishClear \/ OrphanClear
  <2>1. held = {} /\ held' = {} /\ pc' = "status"
    BY <1>3 DEF FinishClear, OrphanClear, Abort, PauseInv, AtStep, pooled
  <2> QED
    BY <2>1 DEF ClockInv
<1> QED
  BY <1>1, <1>2, <1>3

LEMMA StatusAndDeleteClock ==
    ASSUME Lag = FALSE, TypeOK, PauseInv, ClockInv,
           StatusWrite \/ DeleteList \/ RemoveFinalizer \/ Crash
    PROVE  ClockInv' /\ (held # {} => clock' = clock)
<1> USE DEF HasBatch, clock
<1>1. pc' \notin {"pause", "rollback", "wait", "resume", "status"}
  BY DEF StatusWrite, DeleteList, RemoveFinalizer, Crash
<1>2. ClockInv'
  BY <1>1 DEF ClockInv
<1>3. CASE StatusWrite
  <2> DEFINE new == [cr EXCEPT !.batch = cb.batch]
  <2>1. new.batch = cb.batch /\ new.started = cr.started
    BY DEF TypeOK, Baseline
  <2>2. cr' \in {cr, new} /\ pc = "status"
    BY <1>3, WriteCurrent DEF StatusWrite, PersistBatch, stored
  <2> QED
    BY <1>2, <2>1, <2>2 DEF ClockInv
<1>4. CASE RemoveFinalizer
  <2>1. held = {}
    BY <1>4 DEF RemoveFinalizer, PauseInv, AtStep
  <2> QED
    BY <1>2, <2>1
<1>5. CASE DeleteList \/ Crash
  BY <1>2, <1>5 DEF DeleteList, Crash, stored
<1> QED
  BY <1>3, <1>4, <1>5

LEMMA EnvironmentClock ==
    ASSUME Lag = FALSE, TypeOK, PauseInv, ClockInv, Environment
    PROVE  ClockInv' /\ clock' \in {clock, Expire(clock)}
<1> USE DEF HasBatch, clock
<1>1. UNCHANGED pc
  BY EnvironmentFrame
<1>2. CASE GracePasses
  <2>1. \A c \in Baseline : /\ Aged(c).started = Expire(c.started)
                            /\ Aged(c).batch.started = Expire(c.batch.started)
    BY DEF Aged, Baseline, Batch
  <2>2. \A t : Expire(t) = "none" <=> t = "none"
    BY DEF Expire
  <2>3. cr' = Aged(cr) /\ cb' = Aged(cb) /\ held' = held /\ cr \in Baseline /\ cb \in Baseline
    BY <1>2 DEF GracePasses, pooled, TypeOK
  <2> QED
    BY <1>1, <2>1, <2>2, <2>3 DEF ClockInv
<1>3. CASE ~GracePasses
  <2>1. cr'.started = cr.started /\ cr'.batch = cr.batch
    <3>1. ASSUME NEW new, Write(new), new.started = cr.started, new.batch = cr.batch
          PROVE  cr'.started = cr.started /\ cr'.batch = cr.batch
      BY <3>1 DEF Write
    <3>2. \A q : /\ [cr EXCEPT !.request = q].started = cr.started
                 /\ [cr EXCEPT !.request = q].batch = cr.batch
      BY DEF TypeOK, Baseline
    <3>3. \A P : /\ [cr EXCEPT !.pools = P].started = cr.started
                 /\ [cr EXCEPT !.pools = P].batch = cr.batch
      BY DEF TypeOK, Baseline
    <3>4. \A f : /\ [cr EXCEPT !.phase = f].started = cr.started
                 /\ [cr EXCEPT !.phase = f].batch = cr.batch
      BY DEF TypeOK, Baseline
    <3>5. CASE \/ \E q \in Requests : Submit(q)
               \/ \E p \in ForgedPools : Forge(p)
               \/ Withdraw \/ EditBaseline \/ DeleteBaseline
      BY <3>1, <3>2, <3>3, <3>4, <3>5
         DEF Submit, Forge, Withdraw, EditBaseline, DeleteBaseline, OtherWrite
    <3>6. CASE UNCHANGED cr
      BY <3>6
    <3> QED
      BY <1>3, <3>5, <3>6 DEF Environment, Revert, Enact, Upset, AdminPause, AdminUnpause,
         OutsideOperator, Deliver, stored
  <2>2. UNCHANGED cb /\ held' \subseteq held
    BY <1>3 DEF Environment, Submit, Forge, Withdraw, EditBaseline, DeleteBaseline,
       OtherWrite, Revert, Enact, Upset, AdminPause, AdminUnpause, OutsideOperator,
       Deliver, Reconciler, pooled
  <2> QED
    BY <1>1, <2>1, <2>2 DEF ClockInv
<1> QED
  BY <1>2, <1>3

LEMMA ClockStep ==
    ASSUME Lag = FALSE, TypeOK, PauseInv, ClockInv, [Next]_vars
    PROVE  /\ ClockInv'
           /\ held # {} /\ clock = "expired" => clock' = "expired"
<1>1. CASE Operator
  BY <1>1, BeginClock, OpenClock, RollbackClock, FinishClock, StatusAndDeleteClock DEF Operator
<1>2. CASE Crash
  BY <1>2, StatusAndDeleteClock
<1>3. CASE Environment
  BY <1>3, EnvironmentClock DEF Expire
<1>4. CASE UNCHANGED vars
  BY <1>4 DEF vars, ClockInv, clock, HasBatch
<1> QED
  BY <1>1, <1>2, <1>3, <1>4 DEF Next

\* Once the grace of the pauses has run out, nothing gives them a new one:
\* neither a retried open nor the status write of a failed reconcile.
THEOREM GraceIsKept ==
    ASSUME Lag = FALSE, FaultsPerReconcile <= 1
    PROVE  Spec => GraceNeverRestarts
<1>1. TypeInv /\ PauseInv /\ ClockInv /\ [Next]_vars => ClockInv'
  BY ClockStep DEF TypeInv
<1>2. TypeInv /\ PauseInv /\ ClockInv /\ [Next]_vars
        => [held # {} /\ held' # {} /\ clock = "expired" => clock' = "expired"]_vars
  BY ClockStep DEF TypeInv
<1> QED
  BY InitTypes, StepTypes, PausesHeldRight, ClockInit, <1>1, <1>2, PTL
  DEF Spec, GraceNeverRestarts
----------------------------------------------------------------------------
(* A batch is counted once: a current cache, guarded requests, any faults *)

\* What a finish that is retried must find: a batch that was counted shows no
\* annotation any more, the request on record is the one the batch was opened
\* for, and a reconcile that holds another request can no longer write.
CountInv ==
    /\ seen = cr
    /\ reports \in {0, 1}
    /\ reports = 1 => HasBatch(cr) /\ ~Unreported(cr)
    /\ HasBatch(cr) => cr.request \in {NoRequest, cr.batch.rems}
    /\ pc \in {"list", "recall", "record", "pause", "rollback", "drop", "orphan"}
          => ~HasBatch(cr) /\ ~HasBatch(cb)
    /\ pc \in {"list", "recall", "record"} => cr.request = cb.request /\ Named(cb)
    /\ pc \in {"pause", "rollback"} /\ rvOK => cr.request = kept
    /\ pc \in {"wait", "resume"}
          => /\ HasBatch(cr) /\ HasBatch(cb) /\ cb.batch.rems = cr.batch.rems
             /\ reports = 1 => ~Unreported(cb)
    /\ pc = "status" /\ HasBatch(cb) /\ rvOK => cr.request \in {NoRequest, cb.batch.rems}

LEMMA CountInit == Init => CountInv
BY DEF Init, CountInv, HasBatch, NoBatch

LEMMA BeginCount ==
    ASSUME CountInv, BeginDelete \/ BeginFinish \/ BeginOpen \/ BeginOrphan
    PROVE  CountInv'
BY DEF BeginDelete, BeginFinish, BeginOpen, BeginOrphan, Begin, stored, CountInv,
   HasBatch, Unreported, Named

LEMMA OpenCount ==
    ASSUME Lag = FALSE, TypeOK, CountInv,
           OpenList \/ OpenRecall \/ OpenRecord \/ OpenPause \/ OpenApply \/ OpenDone
    PROVE  CountInv'
<1> USE DEF HasBatch
<1>1. CASE OpenList \/ OpenRecall
  <2>1. UNCHANGED <<cr, seen, cb, rvOK, reports>>
    BY <1>1 DEF OpenList, OpenRecall, Abort, stored
  <2>2. /\ pc \in {"list", "recall"}
        /\ pc' \in {"recall", "record", "drop", "status"}
    BY <1>1 DEF OpenList, OpenRecall, Abort
  <2> QED
    BY <2>1, <2>2 DEF CountInv, Unreported, Named
<1>2. CASE OpenRecord
  <2> DEFINE new == Recorded(seen)
  <2>1. new.batch = cr.batch /\ (cr.request = cb.request => new.request = kept)
    BY DEF CountInv, Recorded, TypeOK, Baseline
  <2>2. cr' \in {cr, new} /\ seen' = cr' /\ ~HasBatch(cr) /\ ~HasBatch(cb)
        /\ cr.request = cb.request
    BY <1>2, UpdateCurrent, UpdateFailsCurrent DEF OpenRecord, CountInv
  <2>3. reports' = 0 /\ kept' = kept /\ ~HasBatch(cr')
    BY <1>2, <2>1, <2>2 DEF OpenRecord, CountInv
  <2>4. CASE Update(new) /\ pc' = "pause" /\
             cb' = [cb EXCEPT !.started = new.started, !.request = new.request, !.pools = plan]
    <3>1. cr' = new /\ cb'.batch = cb.batch
      BY <2>4, UpdateCurrent DEF CountInv, TypeOK, Baseline
    <3> QED
      BY <2>1, <2>2, <2>3, <2>4, <3>1 DEF CountInv
  <2>5. CASE pc' = "status" /\ cb' = cb
    BY <2>2, <2>3, <2>5 DEF CountInv
  <2> QED
    BY <1>2, <2>4, <2>5 DEF OpenRecord, Abort
<1>3. CASE OpenPause \/ OpenApply
  <2>1. UNCHANGED <<cr, seen, cb, rvOK, reports, kept>>
        /\ pc = "pause" /\ pc' \in {"pause", "rollback"}
    BY <1>3 DEF OpenPause, OpenApply, Rollback, stored
  <2> QED
    BY <2>1 DEF CountInv
<1>4. CASE OpenDone
  <2>1. UNCHANGED <<cr, seen, rvOK, reports>> /\ pc = "pause" /\ pc' = "status"
        /\ cb'.batch.rems = kept
    BY <1>4 DEF OpenDone, NewBatch, TypeOK, Baseline, stored
  <2> QED
    BY <2>1 DEF CountInv
<1> QED
  BY <1>1, <1>2, <1>3, <1>4

LEMMA RollbackCount ==
    ASSUME Lag = FALSE, TypeOK, CountInv, RollbackPool \/ RollbackDone \/ DropRequest
    PROVE  CountInv'
<1> USE DEF HasBatch
<1>1. CASE RollbackPool
  <2>1. UNCHANGED <<cr, seen, cb, rvOK, reports, kept, pc>> /\ pc = "rollback"
    BY <1>1 DEF RollbackPool, stored
  <2> QED
    BY <2>1 DEF CountInv
<1>2. CASE RollbackDone
  <2>1. UNCHANGED <<cr, seen, rvOK, reports>> /\ pc = "rollback" /\ pc' = "status"
        /\ (cb' = cb \/ cb'.batch.rems = kept)
    BY <1>2 DEF RollbackDone, NewBatch, TypeOK, Baseline, stored
  <2> QED
    BY <2>1 DEF CountInv
<1>3. CASE DropRequest
  <2> DEFINE new == Cleared(seen, cb.request, FALSE)
  <2>1. new.batch = cr.batch
    BY DEF CountInv, Cleared, TypeOK, Baseline
  <2>2. cr' \in {cr, new} /\ seen' = cr'
    BY <1>3, UpdateCurrent, UpdateFailsCurrent DEF DropRequest, CountInv
  <2>3. UNCHANGED <<cb, reports>> /\ pc' = "status" /\ ~HasBatch(cr) /\ ~HasBatch(cb)
    BY <1>3 DEF DropRequest, Abort, CountInv
  <2> QED
    BY <2>1, <2>2, <2>3 DEF CountInv
<1> QED
  BY <1>1, <1>2, <1>3

LEMMA FinishCount ==
    ASSUME Lag = FALSE, TypeOK, CountInv,
           FinishWait \/ ResumePool \/ FinishClear \/ OrphanClear
    PROVE  CountInv'
<1> USE DEF HasBatch
<1>1. CASE FinishWait \/ ResumePool
  <2>1. UNCHANGED <<cr, seen, cb, rvOK, reports>>
    BY <1>1 DEF FinishWait, ResumePool, stored
  <2>2. \/ pc \in {"wait", "resume"} /\ pc' \in {"resume", "status"}
        \/ pc = "orphan" /\ pc' \in {"orphan", "status"}
        \/ pc = "delete" /\ pc' \in {"delete", "idle"}
    BY <1>1 DEF FinishWait, WaitResult, ResumePool
  <2> QED
    BY <2>1, <2>2 DEF CountInv, Unreported, Named
<1>2. CASE FinishClear
  <2> DEFINE new == Cleared(seen, cb.batch.rems, TRUE)
  <2>1. new.batch = cr.batch /\ new.request = NoRequest /\ ~Unreported(new)
    <3>1. cr.request \in {NoRequest, cb.batch.rems}
      BY <1>2 DEF FinishClear, CountInv
    <3> QED
      BY <3>1 DEF CountInv, Cleared, TypeOK, Baseline, Unreported, Named
  <2>2. cr' \in {cr, new} /\ seen' = cr' /\ pc' = "status" /\ HasBatch(cr)
        /\ cb.batch.rems = cr.batch.rems
    BY <1>2, UpdateCurrent, UpdateFailsCurrent DEF FinishClear, Abort, CountInv
  <2>3. CASE /\ Update(new)
             /\ reports' = IF Unreported(cb) /\ reports < 2 THEN reports + 1 ELSE reports
             /\ cb' = [cb EXCEPT !.batch = NoBatch]
    <3>1. cr' = new /\ cb'.batch = NoBatch
      BY <2>3, UpdateCurrent DEF CountInv, TypeOK, Baseline
    <3>2. reports' \in {0, 1}
      BY <1>2, <2>3 DEF FinishClear, CountInv
    <3> QED
      BY <2>1, <2>2, <3>1, <3>2 DEF CountInv, NoBatch
  <2>4. CASE UpdateFails(new) /\ cb' = cb /\ UNCHANGED reports
    <3>1. cr'.request \in {NoRequest, cr'.batch.rems} /\ cr'.batch = cr.batch
          /\ (reports = 1 => ~Unreported(cr'))
      BY <2>1, <2>2 DEF CountInv
    <3> QED
      BY <2>2, <2>4, <3>1 DEF CountInv
  <2> QED
    BY <1>2, <2>3, <2>4 DEF FinishClear, Abort
<1>3. CASE OrphanClear
  <2> DEFINE new == Cleared(seen, {}, TRUE)
  <2>1. new.batch = cr.batch
    BY DEF CountInv, Cleared, TypeOK, Baseline
  <2>2. cr' \in {cr, new} /\ seen' = cr'
    BY <1>3, UpdateCurrent, UpdateFailsCurrent DEF OrphanClear, CountInv
  <2>3. UNCHANGED <<cb, reports>> /\ pc' = "status" /\ ~HasBatch(cr) /\ ~HasBatch(cb)
    BY <1>3 DEF OrphanClear, Abort, CountInv
  <2> QED
    BY <2>1, <2>2, <2>3 DEF CountInv
<1> QED
  BY <1>1, <1>2, <1>3

LEMMA StatusAndDeleteCount ==
    ASSUME Lag = FALSE, TypeOK, CountInv,
           StatusWrite \/ DeleteList \/ RemoveFinalizer \/ Crash
    PROVE  CountInv'
<1> USE DEF HasBatch
<1>1. CASE StatusWrite
  <2> DEFINE new == [cr EXCEPT !.batch = cb.batch]
  <2>1. /\ new.batch = cb.batch /\ new.request = cr.request
        /\ (Unreported(new) <=> Unreported(cr))
    BY DEF TypeOK, Baseline, Unreported, Named
  <2>2. pc = "status" /\ pc' = "idle" /\ cb' = cb
    BY <1>1 DEF StatusWrite
  <2>3. CASE UNCHANGED <<cr, seen, reports>>
    BY <2>2, <2>3 DEF CountInv
  <2>4. CASE rvOK /\ PersistBatch
    <3>1. cr' = new /\ seen' = cr'
      BY <2>4, WriteCurrent DEF PersistBatch
    <3>2. reports' = IF ~HasBatch(cb) \/ ~HasBatch(cr) THEN 0 ELSE reports
      BY <2>4 DEF PersistBatch
    <3>3. HasBatch(cr') => cr'.request \in {NoRequest, cr'.batch.rems}
      BY <2>1, <2>2, <2>4, <3>1 DEF CountInv
    <3>4. reports' = 1 => HasBatch(cr') /\ ~Unreported(cr')
      BY <2>1, <3>1, <3>2 DEF CountInv
    <3> QED
      BY <2>2, <3>1, <3>2, <3>3, <3>4 DEF CountInv
  <2> QED
    BY <1>1, <2>3, <2>4 DEF StatusWrite, stored
<1>2. CASE RemoveFinalizer
  <2> DEFINE new == [cr EXCEPT !.phase = "gone"]
  <2>1. /\ new.batch = cr.batch /\ new.request = cr.request
        /\ (Unreported(new) <=> Unreported(cr))
    BY DEF TypeOK, Baseline, Unreported, Named
  <2>2. cr' \in {cr, new} /\ seen' = cr' /\ pc' = "idle" /\ UNCHANGED reports
    BY <1>2, WriteCurrent DEF RemoveFinalizer, stored, CountInv
  <2> QED
    BY <2>1, <2>2 DEF CountInv
<1>3. CASE DeleteList \/ Crash
  <2>1. cr' = cr /\ seen' = cr /\ pc' \in {"delete", "idle"} /\ UNCHANGED reports
    BY <1>3 DEF DeleteList, Crash, stored, CountInv
  <2> QED
    BY <2>1 DEF CountInv
<1> QED
  BY <1>1, <1>2, <1>3

LEMMA EnvironmentCount ==
    ASSUME Lag = FALSE, DirectAnnotate = FALSE, ForgedPools = {},
           TypeOK, CountInv, Environment
    PROVE  CountInv'
<1> USE DEF HasBatch
<1>1. UNCHANGED <<pc, kept, reports>>
  BY EnvironmentFrame DEF Environment, Submit, Forge, Withdraw, EditBaseline,
     DeleteBaseline, OtherWrite, Revert, Enact, Upset, AdminPause, AdminUnpause,
     OutsideOperator, GracePasses, Deliver, Reconciler, opened
<1>2. CASE GracePasses
  <2>1. \A c \in Baseline : /\ Aged(c).request = c.request /\ Aged(c).pools = c.pools
                            /\ Aged(c).started = Expire(c.started)
                            /\ Aged(c).batch.started = Expire(c.batch.started)
                            /\ Aged(c).batch.rems = c.batch.rems
    BY DEF Aged, Baseline, Batch
  <2>2. \A t : Expire(t) = "none" <=> t = "none"
    BY DEF Expire
  <2>3. \A c \in Baseline : (HasBatch(Aged(c)) <=> HasBatch(c))
                            /\ (Unreported(Aged(c)) <=> Unreported(c))
                            /\ (Named(Aged(c)) <=> Named(c))
    BY <2>1, <2>2 DEF Unreported, Named
  <2>4. cr' = Aged(cr) /\ seen' = Aged(seen) /\ cb' = Aged(cb) /\ rvOK' = rvOK
        /\ cr \in Baseline /\ cb \in Baseline
    BY <1>2 DEF GracePasses, TypeOK
  <2> QED
    BY <1>1, <2>1, <2>3, <2>4 DEF CountInv
<1>3. CASE \E q \in Requests : Submit(q)
  <2>1. PICK q \in Requests : Submit(q)
    BY <1>3
  <2>2. ~HasBatch(cr) /\ ~Named(cr) /\ rvOK' = FALSE /\ cb' = cb
    BY <2>1 DEF Submit, OtherWrite, Reconciler
  <2> DEFINE new == [cr EXCEPT !.request = q]
  <2>3. cr'.batch = cr.batch /\ seen' = cr'
    <3>1. Write(new) /\ new.batch = cr.batch
      BY <2>1 DEF Submit, OtherWrite, TypeOK, Baseline
    <3>2. cr' = new /\ seen' = cr'
      BY <3>1, WriteCurrent
    <3> QED
      BY <3>1, <3>2
  <2>4. pc \notin {"list", "recall", "record", "wait", "resume"} /\ reports = 0
    BY <2>2 DEF CountInv, Named
  <2>5. ~HasBatch(cr') /\ reports' = 0 /\ pc' = pc /\ ~rvOK' /\ cb' = cb
    BY <1>1, <2>2, <2>3, <2>4
  <2> QED
    BY <2>3, <2>4, <2>5 DEF CountInv
<1>4. CASE EditBaseline \/ DeleteBaseline
  <2> DEFINE new == [cr EXCEPT !.phase = "deleting"]
  <2>1. /\ new.batch = cr.batch /\ new.request = cr.request
        /\ (Unreported(new) <=> Unreported(cr))
    BY DEF TypeOK, Baseline, Unreported, Named
  <2>2. cr' \in {cr, new} /\ seen' = cr' /\ rvOK' = FALSE /\ cb' = cb
    BY <1>4, WriteCurrent DEF EditBaseline, DeleteBaseline, OtherWrite, Reconciler
  <2> QED
    BY <1>1, <2>1, <2>2 DEF CountInv
<1>5. CASE UNCHANGED <<cr, seen, cb, rvOK>>
  BY <1>1, <1>5 DEF CountInv
<1>6. ~Deliver /\ ~Withdraw /\ ~(\E p \in ForgedPools : Forge(p))
  BY DEF Deliver, Withdraw, CountInv
<1>7. ASSUME NEW r \in Names, Revert(r) \/ Enact(r) \/
             \E s \in {"Absent", "MissingDependencies", "Corrupt"} : Upset(r, s)
      PROVE  UNCHANGED <<cr, seen, cb, rvOK>>
  BY <1>7 DEF Revert, Enact, Upset, OutsideOperator, stored, Reconciler
<1>8. ASSUME NEW p \in AdminPools, AdminPause(p) \/ AdminUnpause(p)
      PROVE  UNCHANGED <<cr, seen, cb, rvOK>>
  BY <1>8 DEF AdminPause, AdminUnpause, OutsideOperator, stored, Reconciler
<1> QED
  BY <1>2, <1>3, <1>4, <1>5, <1>6, <1>7, <1>8 DEF Environment

LEMMA CountStep ==
    ASSUME Lag = FALSE, DirectAnnotate = FALSE, ForgedPools = {},
           TypeOK, CountInv, [Next]_vars
    PROVE  CountInv'
<1>1. CASE Operator
  BY <1>1, BeginCount, OpenCount, RollbackCount, FinishCount, StatusAndDeleteCount DEF Operator
<1>2. CASE Crash
  BY <1>2, StatusAndDeleteCount
<1>3. CASE Environment
  BY <1>3, EnvironmentCount
<1>4. CASE UNCHANGED vars
  BY <1>4 DEF vars, CountInv, HasBatch, Unreported, Named
<1> QED
  BY <1>1, <1>2, <1>3, <1>4 DEF Next

\* However often a finish fails and is retried, and whatever fails in it, the
\* outcome of a batch is counted at most once, if requests come through the
\* console's guard and nobody forges the annotations.
THEOREM BatchCountedOnce ==
    ASSUME Lag = FALSE, DirectAnnotate = FALSE, ForgedPools = {}
    PROVE  Spec => []CountedOnce
<1>1. TypeInv /\ CountInv /\ [Next]_vars => CountInv'
  BY CountStep DEF TypeInv
<1>2. CountInv => CountedOnce
  BY DEF CountInv, CountedOnce
<1> QED
  BY InitTypes, StepTypes, CountInit, <1>1, <1>2, PTL DEF Spec
=============================================================================
