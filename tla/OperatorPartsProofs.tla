--------------------------- MODULE OperatorPartsProofs ---------------------------
(***************************************************************************)
(* Proofs about the parts of the operator that MCOperatorParts composes,   *)
(* for all constants.                                                      *)
(*                                                                         *)
(* ScanBindings: the types, that what is left at the end of a reconcile is *)
(* what it selected, that the condition BindingsCreated is deserved, and   *)
(* whose bindings the operator changes.  MetricsCert: no handshake is      *)
(* served an older pair.  ConsolePluginReg: the entries of others are      *)
(* kept, and the own one goes before the ClusterBaseline.                  *)
(* DefaultBaseline: what was deleted is not created again.                 *)
(***************************************************************************)
EXTENDS MCOperatorParts, TLAPS

\* What a reconcile between its list and its conclusion has to rely on: the
\* bindings it owns are selected or about to be pruned, the stale ones were its
\* own when it listed them, and each selected one is still to be ensured or was
\* seen right, unless the CRD was away.
Listed ==
    pc = "bindings" =>
        /\ Owned \subseteq cb.selected \union stale
        /\ \A n \in stale : listed[n].owner = "baseline"
        /\ todo \subseteq cb.selected
        /\ \A n \in Names : listed[n] = Right => n \in right
        /\ ~gap => cb.selected \subseteq right \union todo

BindInv == TypeOK /\ Listed /\ OwnedAreSelected /\ ConfiguredIsSound

LEMMA Types ==
    /\ Absent \in Binding /\ Right \in Binding
    /\ \A b \in Binding : b.owner \in {"baseline", "other", "nobody", "absent"}
    /\ \A b \in Binding : b.owner = "baseline" => b # Absent
    /\ Right.owner = "baseline" /\ Absent.owner = "absent"
    /\ NoBindings \in [Names -> Binding]
    /\ \A n \in Names : NoBindings[n] = Absent
BY DEF Absent, Right, Binding, NoBindings

LEMMA InitHolds == Init => BindInv
<1> SUFFICES ASSUME Init PROVE BindInv
  OBVIOUS
<1>1. TypeOK
  BY Types, ScheduleAssumption, BoundsAssumption
     DEF Init, TypeOK, Choices, Copy, Schedules, Reasons, CRDs, Steps
<1> QED
  BY <1>1 DEF Init, BindInv, Listed, OwnedAreSelected, ConfiguredIsSound, Concluded

----------------------------------------------------------------------------
(* Types *)

LEMMA TypeStep ==
    ASSUME TypeOK, Next
    PROVE  TypeOK'
<1> USE DEF TypeOK
<1>1. right' \subseteq Names /\ gap' \in BOOLEAN
  BY DEF Next, Observe
<1>2. CASE Begin
  BY <1>1, <1>2 DEF Begin, Succeed, cluster, Choices, Copy, Steps
<1>3. CASE BatchWrites
  BY <1>1, <1>3 DEF BatchWrites, Succeed, cluster, worker, Steps
<1>4. CASE EnsureSetting
  <2>1. "ScanSetting" \in crds => Wanted \in Valid \union {"absent"}
    BY ScheduleAssumption DEF Wanted
  <2>2. setting' \in Valid \union {"absent"}
    BY <1>4, <2>1 DEF EnsureSetting, CRDsMissing
  <2>3. cb' \in Copy /\ disruptions' \in Nat /\ pc' \in Steps
    BY <1>4 DEF EnsureSetting, CRDsMissing, Fail, Disrupt, Succeed, worker, Copy, Reasons, Steps
  <2> QED
    BY <1>1, <1>4, <2>2, <2>3 DEF EnsureSetting, CRDsMissing, worker
<1>5. CASE ListBindings
  <2>1. cb' \in Copy /\ disruptions' \in Nat /\ pc' \in Steps
    BY <1>5 DEF ListBindings, CRDsMissing, Fail, Disrupt, Succeed, worker, Copy, Reasons, Steps
  <2>2. listed' \in [Names -> Binding] /\ todo' \subseteq Profiles /\ stale' \subseteq Names
    BY <1>5 DEF ListBindings, CRDsMissing, worker, Stale, Owned, Copy, Names
  <2> QED
    BY <1>1, <1>5, <2>1, <2>2 DEF ListBindings, cluster
<1>6. CASE EnsureBinding
  <2>1. PICK n \in todo : SkipBinding(n) \/ RefuseBinding(n) \/ WriteBinding(n)
                             \/ MissBinding(n) \/ FailBinding(n)
    BY <1>6 DEF EnsureBinding
  <2>2. cb' \in Copy /\ disruptions' \in Nat /\ pc' \in Steps /\ todo' \subseteq Profiles
    BY <2>1 DEF SkipBinding, RefuseBinding, WriteBinding, MissBinding, FailBinding,
                Fail, Disrupt, Succeed, Copy, Reasons, Steps
  <2>3. binding' \in [Names -> Binding]
    BY <2>1, Types DEF SkipBinding, RefuseBinding, WriteBinding, MissBinding, FailBinding
  <2> QED
    BY <1>1, <1>6, <2>2, <2>3 DEF EnsureBinding
<1>7. CASE PruneBinding
  <2>1. binding' \in [Names -> Binding] /\ stale' \subseteq Names
    BY <1>7, Types DEF PruneBinding
  <2>2. disruptions' \in Nat /\ pc' \in Steps
    BY <1>7 DEF PruneBinding, Fail, Disrupt, Succeed, Steps
  <2> QED
    BY <1>1, <1>7, <2>1, <2>2 DEF PruneBinding
<1>8. CASE Conclude
  BY <1>1, <1>8 DEF Conclude, Outcome, Succeed, cluster, Copy, Reasons, Steps
<1>9. CASE StatusWrite
  <2>1. cond' \in Reasons /\ disruptions' \in Nat
    BY <1>9 DEF StatusWrite, Disrupt, Succeed, Copy
  <2> QED
    BY <1>1, <1>9, <2>1, Types DEF StatusWrite, Return, cluster, Steps
<1>10. CASE Crash
  BY <1>1, <1>10, Types DEF Crash, Return, Disrupt, cluster, Steps
<1>11. CASE EditSpec
  <2>1. moves' \in Nat
    BY <1>11 DEF EditSpec, Move
  <2>3. spec' \in Choices /\ rvOK' \in BOOLEAN
    BY <1>11 DEF EditSpec
  <2>2. UNCHANGED <<cond, pc, worker, disruptions, crds, setting, binding>>
    BY <1>11 DEF EditSpec, Move
  <2> QED
    BY <1>1, <2>1, <2>2, <2>3 DEF worker
<1>12. CASE TouchBinding
  BY <1>1, <1>12 DEF TouchBinding, Move, worker
<1>13. CASE EditSetting
  BY <1>1, <1>13 DEF EditSetting, Move, worker
<1>14. CASE ChangeCRD
  <2>1. crds' \subseteq CRDs /\ setting' \in {setting, "absent"} /\ binding' \in {binding, NoBindings}
    BY <1>14 DEF ChangeCRD
  <2>2. moves' \in Nat /\ UNCHANGED <<spec, rvOK, cond, pc, worker, disruptions>>
    BY <1>14 DEF ChangeCRD, Move
  <2> QED
    BY <1>1, <2>1, <2>2, Types DEF worker
<1> QED
  BY <1>2, <1>3, <1>4, <1>5, <1>6, <1>7, <1>8, <1>9, <1>10, <1>11, <1>12, <1>13, <1>14
     DEF Next, Operator, Environment

----------------------------------------------------------------------------
(* The invariant *)

\* Nobody but the operator makes a binding its own.
LEMMA OthersMakeNoneOwned ==
    ASSUME TypeOK, Environment
    PROVE  /\ Owned' \subseteq Owned
           /\ UNCHANGED <<pc, worker>> /\ moves' # moves
<1>1. moves' # moves /\ UNCHANGED <<pc, worker>>
  BY DEF TypeOK, Environment, EditSpec, TouchBinding, EditSetting, ChangeCRD, Move
<1>2. ASSUME NEW n \in Names, binding'[n].owner = "baseline"
      PROVE  binding[n].owner = "baseline"
  <2>1. CASE TouchBinding
    <3>1. PICK m \in Names, b \in Binding :
             /\ b.owner = "baseline" => binding[m] = Right
             /\ binding' = [binding EXCEPT ![m] = b]
      BY <2>1 DEF TouchBinding
    <3> QED
      BY <1>2, <3>1, Types DEF TypeOK
  <2>2. CASE ChangeCRD
    <3>1. binding' \in {binding, NoBindings}
      BY <2>2 DEF ChangeCRD
    <3> QED
      BY <1>2, <3>1, Types
  <2> QED
    BY <1>2, <2>1, <2>2 DEF Environment, EditSpec, EditSetting
<1> QED
  BY <1>1, <1>2 DEF Owned

\* What was seen right stays seen, and a gap stays a gap, until the reconcile ends.
LEMMA Remembered ==
    ASSUME TypeOK, Next, pc' # "idle"
    PROVE  /\ right \subseteq right' /\ (gap => gap')
           /\ \A n \in Names : binding'[n] = Right => n \in right'
           /\ "ScanSettingBinding" \notin crds' => gap'
BY DEF Next, Observe, TypeOK

LEMMA EnsureKeeps ==
    ASSUME BindInv, Next, EnsureBinding
    PROVE  Listed' /\ pc' # "status"
<1>1. pc = "bindings" /\ UNCHANGED <<listed, stale, crds>>
  BY DEF EnsureBinding
<1>2. PICK n \in todo : SkipBinding(n) \/ RefuseBinding(n) \/ WriteBinding(n)
                           \/ MissBinding(n) \/ FailBinding(n)
  BY DEF EnsureBinding
<1>3. n \in Names /\ n \in cb.selected /\ n \in Profiles
  BY <1>1, <1>2 DEF BindInv, Listed, TypeOK, Names
<1>4. pc' \in {"bindings", "errorStatus"} /\ cb'.selected = cb.selected /\ todo' \subseteq todo
  BY <1>1, <1>2 DEF SkipBinding, RefuseBinding, WriteBinding, MissBinding, FailBinding, Fail,
                    BindInv, TypeOK, Copy
<1> SUFFICES ASSUME pc' = "bindings" PROVE Listed'
  BY <1>4 DEF Listed
<1>5. Owned' \subseteq Owned \union {n}
  BY <1>2, <1>3, Types DEF SkipBinding, RefuseBinding, WriteBinding, MissBinding, FailBinding,
                           Owned, BindInv, TypeOK
<1>6. ASSUME ~gap' PROVE cb'.selected \subseteq right' \union todo'
  <2>1. ~gap /\ "ScanSettingBinding" \in crds
    BY <1>1, <1>6, Remembered DEF BindInv
  <2>2. cb.selected \subseteq right' \union todo
    BY <1>1, <2>1, Remembered DEF BindInv, Listed
  <2>3. CASE SkipBinding(n)
    BY <1>1, <1>3, <1>4, <2>2, <2>3, Remembered DEF SkipBinding, UpToDate, BindInv, Listed
  <2>4. CASE WriteBinding(n)
    <3>1. binding'[n] = Right
      BY <1>3, <2>4 DEF WriteBinding, BindInv, TypeOK
    <3>2. todo \subseteq todo' \union {n}
      BY <2>4 DEF WriteBinding
    <3> QED
      BY <1>3, <1>4, <2>2, <3>1, <3>2, Remembered DEF BindInv
  <2> QED
    BY <1>2, <1>4, <2>1, <2>2, <2>3, <2>4 DEF RefuseBinding, MissBinding, FailBinding
<1>7. \A m \in Names : listed'[m] = Right => m \in right'
  BY <1>1, Remembered DEF BindInv, Listed
<1> QED
  BY <1>1, <1>3, <1>4, <1>5, <1>6, <1>7 DEF BindInv, Listed

LEMMA PruneKeeps ==
    ASSUME BindInv, Next, PruneBinding
    PROVE  Listed' /\ pc' # "status"
<1>1. pc = "bindings" /\ todo = {} /\ UNCHANGED <<listed, todo, cb>> /\ stale' \subseteq stale
  BY DEF PruneBinding
<1>2. pc' \in {"bindings", "errorStatus"}
  BY <1>1 DEF PruneBinding, Fail
<1> SUFFICES ASSUME pc' = "bindings" PROVE Listed'
  BY <1>2 DEF Listed
<1>3. PICK n \in stale : stale' = stale \ {n} /\ binding' = [binding EXCEPT ![n] = Absent]
  BY DEF PruneBinding, Fail
<1>4. Owned' \subseteq Owned \ {n}
  BY <1>3, Types DEF Owned, BindInv, TypeOK
<1>5. ~gap' => cb.selected \subseteq right' \union todo
  BY <1>1, Remembered DEF BindInv, Listed
<1>6. \A m \in Names : listed'[m] = Right => m \in right'
  BY <1>1, Remembered DEF BindInv, Listed
<1> QED
  BY <1>1, <1>3, <1>4, <1>5, <1>6 DEF BindInv, Listed

LEMMA InvStep ==
    ASSUME BindInv, [Next]_vars
    PROVE  BindInv'
<1>1. CASE UNCHANGED vars
  <2> USE <1>1 DEF vars, cluster, worker
  <2>1. TypeOK'
    BY DEF BindInv, TypeOK
  <2>2. Listed' /\ OwnedAreSelected' /\ ConfiguredIsSound'
    BY DEF BindInv, Listed, OwnedAreSelected, ConfiguredIsSound, Concluded, Owned
  <2> QED
    BY <2>1, <2>2 DEF BindInv
<1>2. ASSUME Next PROVE BindInv'
  <2>1. TypeOK'
    BY <1>2, TypeStep DEF BindInv
  <2> SUFFICES Listed' /\ OwnedAreSelected' /\ ConfiguredIsSound'
    BY <2>1 DEF BindInv
  <2> USE <1>2 DEF OwnedAreSelected, ConfiguredIsSound, Concluded
  <2>2. CASE Environment
    <3>1. Owned' \subseteq Owned /\ UNCHANGED <<pc, worker>>
      BY <2>2, OthersMakeNoneOwned DEF BindInv
    <3>2. pc' # "idle" => right \subseteq right' /\ (gap => gap')
      BY Remembered DEF BindInv
    <3>3. Listed'
      BY <3>1, <3>2 DEF BindInv, Listed, worker
    <3>4. OwnedAreSelected' /\ ConfiguredIsSound'
      BY <3>1, <3>2 DEF BindInv, worker
    <3> QED
      BY <3>3, <3>4
  <2>3. CASE EnsureBinding
    BY <2>3, EnsureKeeps
  <2>4. CASE PruneBinding
    BY <2>4, PruneKeeps
  <2>5. CASE ListBindings
    <3>1. CASE pc' = "bindings"
      <4>1. listed' = binding /\ todo' = cb.selected /\ stale' = Stale
            /\ UNCHANGED <<binding, cb>>
        BY <2>5, <3>1 DEF ListBindings, CRDsMissing, Fail, cluster
      <4>2. \A n \in Names : listed'[n] = Right => n \in right'
        BY <3>1, <4>1, Remembered DEF BindInv
      <4>3. Owned' = Owned
        BY <4>1 DEF Owned
      <4>4. \A n \in stale' : listed'[n].owner = "baseline"
        BY <4>1 DEF Stale, Owned
      <4> QED
        BY <3>1, <4>1, <4>2, <4>3, <4>4 DEF Listed, Stale
    <3>2. CASE pc' # "bindings"
      <4>1. pc' = "status" => cb'.cond = "CRDsMissing"
        BY <2>5, <3>2 DEF ListBindings, CRDsMissing, Fail, BindInv, TypeOK, Copy
      <4> QED
        BY <3>2, <4>1 DEF Listed
    <3> QED
      BY <3>1, <3>2
  <2>6. CASE EnsureSetting
    <3>1. pc' # "bindings" /\ (pc' = "status" => cb'.cond = "CRDsMissing")
      BY <2>6 DEF EnsureSetting, CRDsMissing, Fail, BindInv, TypeOK, Copy
    <3> QED
      BY <3>1 DEF Listed
  <2>7. CASE Conclude
    <3>1. pc = "bindings" /\ pc' = "status" /\ todo = {} /\ stale = {}
          /\ cb'.selected = cb.selected /\ UNCHANGED binding
      BY <2>7 DEF Conclude, Pruned, cluster, BindInv, TypeOK, Copy
    <3>2. Owned' \subseteq cb'.selected
      BY <3>1 DEF BindInv, Listed, Owned
    <3>3. ~gap' => cb'.selected \subseteq right'
      BY <3>1, Remembered DEF BindInv, Listed
    <3> QED
      BY <3>1, <3>2, <3>3 DEF Listed
  <2>8. CASE Begin \/ BatchWrites \/ StatusWrite \/ Crash
    <3>1. pc' \in {"setting", "idle"}
      BY <2>8 DEF Begin, BatchWrites, StatusWrite, Crash, Return
    <3> QED
      BY <3>1 DEF Listed
  <2> QED
    BY <2>2, <2>3, <2>4, <2>5, <2>6, <2>7, <2>8 DEF Next, Operator
<1> QED
  BY <1>1, <1>2

----------------------------------------------------------------------------
(* Theorems *)

\* The inductive invariant of the scan configuration.
THEOREM BindingsHold == Spec => []BindInv
BY InitHolds, InvStep, PTL DEF Spec

\* Every variable keeps to its type; in particular no bad schedule gets into the
\* ScanSetting.
THEOREM BindingsTyped == Spec => []TypeOK
<1>1. BindInv => TypeOK
  BY DEF BindInv
<1> QED
  BY <1>1, BindingsHold, PTL

\* What a finished reconcile leaves is what it selected.
THEOREM LeftIsSelected == Spec => []OwnedAreSelected
<1>1. BindInv => OwnedAreSelected
  BY DEF BindInv
<1> QED
  BY <1>1, BindingsHold, PTL

\* The condition BindingsCreated is deserved.
THEOREM CreatedIsSound == Spec => []ConfiguredIsSound
<1>1. BindInv => ConfiguredIsSound
  BY DEF BindInv
<1> QED
  BY <1>1, BindingsHold, PTL

\* The operator changes a binding of another controller only if it took it over
\* after this reconcile had listed it.
THEOREM OthersAreKept == Spec => OthersKept
<1> DEFINE Kept == moves' = moves =>
        \A n \in Names : binding[n].owner = "other" /\ binding'[n] # binding[n] =>
                            listed[n].owner = "baseline" /\ n \in stale
<1>1. BindInv /\ [Next]_vars => [Kept]_vars
  <2> SUFFICES ASSUME BindInv, Next, moves' = moves, NEW n \in Names,
                      binding[n].owner = "other", binding'[n] # binding[n]
               PROVE  listed[n].owner = "baseline" /\ n \in stale
    OBVIOUS
  <2>1. CASE EnsureBinding
    <3>1. PICK m \in todo : SkipBinding(m) \/ RefuseBinding(m) \/ WriteBinding(m)
                               \/ MissBinding(m) \/ FailBinding(m)
      BY <2>1 DEF EnsureBinding
    <3>2. binding' # binding
      OBVIOUS
    <3>3. ~Refused(binding[m]) /\ binding' = [binding EXCEPT ![m] = Right]
      BY <3>1, <3>2 DEF SkipBinding, RefuseBinding, WriteBinding, MissBinding, FailBinding
    <3> QED
      BY <3>3 DEF Refused, BindInv, TypeOK
  <2>2. CASE PruneBinding
    <3>1. pc = "bindings"
      BY <2>2 DEF PruneBinding
    <3>2. PICK m \in stale : binding' = [binding EXCEPT ![m] = Absent] \/ binding' = binding
      BY <2>2 DEF PruneBinding
    <3> QED
      BY <3>1, <3>2 DEF BindInv, TypeOK, Listed
  <2>3. CASE Environment
    BY <2>3, OthersMakeNoneOwned DEF BindInv
  <2> QED
    BY <2>1, <2>2, <2>3
       DEF Next, Operator, Begin, BatchWrites, EnsureSetting, ListBindings, Conclude,
           StatusWrite, Crash, cluster
<1> QED
  BY <1>1, BindingsHold, PTL DEF Spec, OthersKept

----------------------------------------------------------------------------
(* The certificate of the metrics endpoint *)

LEMMA HandlingFields ==
    ASSUME NEW p \in Cert!Places, NEW n \in Nat, NEW c \in Nat, NEW f \in Nat, NEW d \in Nat
    PROVE  /\ Cert!Handling(p, n, c, f, d) \in Cert!Handshake
           /\ Cert!Handling(p, n, c, f, d).at = p
           /\ Cert!Handling(p, n, c, f, d).again = Cert!None
           /\ Cert!Handling(p, n, c, f, d).served = c
           /\ Cert!Handling(p, n, c, f, d).floor = f
           /\ Cert!Handling(p, n, c, f, d).due = d
BY DEF Cert!Handling, Cert!Handshake, Cert!None

LEMMA CertInit == Cert!Init => Cert!CertInv
<1> SUFFICES ASSUME Cert!Init PROVE Cert!CertInv
  OBVIOUS
<1> DEFINE s == Cert!Handling("out", 0, 0, 0, 0)
<1>1. hs = [h \in Handshakes |-> s]
  BY DEF Cert!Init, Cert!None
<1>2. s \in Cert!Handshake /\ s.at = "out" /\ s.floor = 0 /\ s.due = 0
  <2>1. "out" \in Cert!Places /\ 0 \in Nat
    BY DEF Cert!Places
  <2> QED
    BY <2>1, HandlingFields
<1> HIDE DEF s
<1>3. hs \in [Handshakes -> Cert!Handshake]
  BY <1>1, <1>2
<1>4. ASSUME NEW h \in Handshakes PROVE Cert!Grows(h)
  <2>1. hs[h] = s
    BY <1>1
  <2>2. ~Cert!At(h, "done") /\ ~Cert!At(h, "key again")
    BY <1>2, <2>1 DEF Cert!At
  <2>3. hs[h].at \notin Cert!Holding /\ hs[h].at \notin Cert!Reading
    BY <1>2, <2>1 DEF Cert!Holding, Cert!Reading
  <2>4. hs[h].floor <= shown
    BY <1>2, <2>1 DEF Cert!Init, Cert!None
  <2>5. hs[h].due = 0
    BY <1>2, <2>1
  <2> QED
    BY <2>2, <2>3, <2>4, <2>5 DEF Cert!Grows, Cert!None
<1> QED
  BY <1>3, <1>4 DEF Cert!Init, Cert!CertInv, Cert!None

\* A handshake that passes on with what it has read leaves the cache and the
\* disk alone, and what the others rely on.
LEMMA PassOnKeeps ==
    ASSUME Cert!CertInv, NEW h \in Handshakes, NEW s \in Cert!Handshake,
           hs' = [hs EXCEPT ![h] = s], UNCHANGED <<disk, newest, cert, shown, gaps>>,
           \A k \in Handshakes \ {h} : hs[k].at \in Cert!Holding => mu' = mu,
           s.floor <= shown, s.at # "done",
           s.at \in Cert!Reading => s.crt <= newest,
           s.at \in Cert!Holding => mu' = {h},
           s.at = "key again" /\ s.again # Cert!None => s.again >= cert,
           s.due # Cert!None => Cert!Undisturbed(s)
    PROVE  Cert!CertInv'
<1>1. hs' \in [Handshakes -> Cert!Handshake]
  BY DEF Cert!CertInv
<1>2. ASSUME NEW k \in Handshakes PROVE Cert!Grows(k)'
  <2>1. CASE k = h
    <3>1. hs'[k] = s
      BY <2>1 DEF Cert!CertInv
    <3> QED
      BY <2>1, <3>1 DEF Cert!Grows, Cert!At, Cert!Undisturbed
  <2>2. CASE k # h
    <3>1. hs'[k] = hs[k]
      BY <2>2 DEF Cert!CertInv
    <3> QED
      BY <2>2, <3>1 DEF Cert!CertInv, Cert!Grows, Cert!At, Cert!Undisturbed
  <2> QED
    BY <2>1, <2>2
<1> QED
  BY <1>1, <1>2 DEF Cert!CertInv

\* A handshake that is served what is in the cache by then, which is not older
\* than it was.
LEMMA ServeKeeps ==
    ASSUME Cert!CertInv, NEW h \in Handshakes, Cert!Serve(h, cert'),
           UNCHANGED <<disk, newest, gaps>>,
           cert' \in Nat, cert <= cert', cert' <= newest,
           \A k \in Handshakes \ {h} :
               hs[k].at \in Cert!Holding => mu' = mu /\ cert' = cert,
           hs[h].due # Cert!None => Cert!Undisturbed(hs[h]) /\ cert' = disk
    PROVE  Cert!CertInv'
<1>1. PICK s : /\ s = Cert!Handling("done", 0, cert', hs[h].floor, hs[h].due)
               /\ hs' = [hs EXCEPT ![h] = s]
  BY DEF Cert!Serve, Cert!To
<1>2. /\ hs[h] \in Cert!Handshake /\ hs[h].floor \in Nat /\ hs[h].due \in Nat
      /\ hs[h].floor <= shown
  BY DEF Cert!CertInv, Cert!Grows, Cert!Handshake
<1>3. /\ s \in Cert!Handshake
      /\ s.at = "done" /\ s.served = cert' /\ s.floor = hs[h].floor /\ s.due = hs[h].due
  <2>1. "done" \in Cert!Places /\ 0 \in Nat /\ cert' \in Nat
    BY DEF Cert!Places
  <2> QED
    BY <1>1, <1>2, <2>1, HandlingFields
<1>5. shown' \in Nat /\ shown' >= shown /\ shown' = cert'
  BY DEF Cert!Serve, Cert!CertInv
<1>6. hs' \in [Handshakes -> Cert!Handshake]
  BY <1>1, <1>3 DEF Cert!CertInv
<1>7. ASSUME NEW k \in Handshakes PROVE Cert!Grows(k)'
  <2>1. CASE k = h
    <3>1. hs'[k] = s
      BY <1>1, <2>1 DEF Cert!CertInv
    <3>2. s.floor <= shown' /\ s.served >= s.floor
      BY <1>2, <1>3, <1>5 DEF Cert!CertInv
    <3>3. s.at \notin Cert!Reading /\ s.at \notin Cert!HasRead /\ s.at \notin Cert!Holding
      BY <1>3 DEF Cert!Reading, Cert!HasRead, Cert!Holding
    <3>4. s.due # Cert!None => Cert!Undisturbed(s)'
      <4>1. hs[h].due # Cert!None => /\ disk = s.due /\ disk \notin Corrupt
                           /\ s.served = disk /\ s.at = "done"
        BY <1>3 DEF Cert!Undisturbed, Cert!None
      <4> QED
        BY <1>3, <3>3, <4>1 DEF Cert!Undisturbed, Cert!HasRead, Cert!Reading
    <3> QED
      BY <1>3, <3>1, <3>2, <3>3, <3>4 DEF Cert!Grows, Cert!At, Cert!Undisturbed
  <2>2. CASE k # h
    <3>1. hs'[k] = hs[k] /\ hs[k] \in Cert!Handshake
      BY <1>1, <2>2 DEF Cert!CertInv
    <3>2. hs[k].floor <= shown'
      <4>1. hs[k].floor \in Nat /\ hs[k].floor <= shown
        BY <3>1 DEF Cert!CertInv, Cert!Grows, Cert!Handshake
      <4> QED
        BY <1>5, <4>1 DEF Cert!CertInv
    <3>3. Cert!At(k, "key again") => hs[k].at \in Cert!Holding
      BY DEF Cert!At, Cert!Holding
    <3>4. Cert!Grows(k)
      BY DEF Cert!CertInv
    <3>5. hs[k].at \in Cert!Holding => mu' = mu /\ cert' = cert
      BY <2>2
    <3>6. hs[k].due # Cert!None => Cert!Undisturbed(hs[k])'
      BY <3>1, <3>4 DEF Cert!Grows, Cert!Undisturbed
    <3> QED
      BY <3>1, <3>2, <3>3, <3>4, <3>5, <3>6 DEF Cert!Grows, Cert!At
  <2> QED
    BY <2>1, <2>2
<1> QED
  BY <1>5, <1>6, <1>7 DEF Cert!CertInv

LEMMA ServeCachedKeeps ==
    ASSUME Cert!CertInv, NEW h \in Handshakes, Cert!Serve(h, cert), cert' = cert,
           UNCHANGED <<disk, newest, gaps>>,
           \A k \in Handshakes \ {h} : hs[k].at \in Cert!Holding => mu' = mu,
           hs[h].due # Cert!None => Cert!Undisturbed(hs[h]) /\ cert = disk
    PROVE  Cert!CertInv'
<1>1. Cert!Serve(h, cert')
  OBVIOUS
<1>2. cert' \in Nat /\ cert <= cert' /\ cert' <= newest
  BY DEF Cert!CertInv
<1> QED
  BY <1>1, <1>2, ServeKeeps

\* The steps of a handshake.
LEMMA HandshakeKeeps ==
    ASSUME Cert!CertInv, NEW h \in Handshakes, Cert!GetCertificate(h),
           UNCHANGED <<disk, newest, gaps>>
    PROVE  Cert!CertInv'
<1>1. /\ hs[h] \in Cert!Handshake /\ Cert!Grows(h)
      /\ newest \in Nat /\ disk \in {0, newest} /\ cert \in Nat /\ shown \in Nat
      /\ shown <= cert /\ cert <= newest /\ disk \in Nat
  BY DEF Cert!CertInv, Cert!None
<1>2. Cert!None = 0
  BY DEF Cert!None
<1>3. \A k \in Handshakes : hs[k].at \in Cert!Holding => mu = {k}
  BY DEF Cert!CertInv, Cert!Grows
<1>4. \A p \in {"out", "crt", "done", "fall back"} : p \notin Cert!Reading /\ p \notin Cert!Holding
  BY DEF Cert!Reading, Cert!Holding
<1>5. CASE Cert!Begin(h)
  <2> DEFINE d == IF disk \in Corrupt THEN 0 ELSE disk
  <2>1. PICK s : s = Cert!Handling("crt", 1, 0, shown, d) /\ hs' = [hs EXCEPT ![h] = s]
    BY <1>2, <1>5 DEF Cert!Begin, Cert!To
  <2>2. "crt" \in Cert!Places /\ 0 \in Nat /\ 1 \in Nat /\ d \in Nat
    BY <1>1 DEF Cert!Places
  <2>3. s \in Cert!Handshake /\ s.at = "crt" /\ s.floor = shown /\ s.due = d
    <3> HIDE DEF d
    <3>1. shown \in Nat
      BY <1>1
    <3>2. \A p \in Cert!Places, n, c, f, t \in Nat :
              LET r == Cert!Handling(p, n, c, f, t)
              IN  r \in Cert!Handshake /\ r.at = p /\ r.floor = f /\ r.due = t
      BY HandlingFields
    <3> QED
      BY <2>1, <2>2, <3>1, <3>2
  <2>4. s.due # Cert!None => Cert!Undisturbed(s)
    BY <1>1, <1>2, <2>3 DEF Cert!Undisturbed, Cert!Reading, Cert!HasRead
  <2>5. s.floor <= shown /\ s.at \notin Cert!Reading /\ s.at \notin Cert!Holding
    <3>1. shown <= shown
      BY <1>1
    <3> QED
      BY <1>4, <2>3, <3>1
  <2>6. UNCHANGED <<cert, mu, shown>>
    BY <1>5 DEF Cert!Begin
  <2>7. s.at # "done" /\ s.at # "key again"
    BY <2>3
  <2> QED
    BY <2>1, <2>3, <2>4, <2>5, <2>6, <2>7, PassOnKeeps
<1>6. CASE Cert!ReadCrt(h)
  <2>1. PICK s : s = [hs[h] EXCEPT !.at = "key", !.crt = disk] /\ hs' = [hs EXCEPT ![h] = s]
    BY <1>6 DEF Cert!ReadCrt, Cert!To
  <2>2. /\ s \in Cert!Handshake /\ s.at = "key" /\ s.crt = disk
        /\ s.floor = hs[h].floor /\ s.due = hs[h].due
    <3>1. "key" \in Cert!Places
      BY DEF Cert!Places, Cert!Reading
    <3> QED
      BY <1>1, <2>1, <3>1 DEF Cert!Handshake
  <2>3. s.due # Cert!None => Cert!Undisturbed(s)
    BY <1>1, <2>2 DEF Cert!Grows, Cert!Undisturbed, Cert!HasRead
  <2>4. s.floor <= shown /\ s.at \notin Cert!Holding
    BY <1>1, <2>2 DEF Cert!Grows, Cert!Holding
  <2>5. s.crt <= newest
    BY <1>1, <2>2
  <2> QED
    BY <1>6, <2>5, <2>1, <2>2, <2>3, <2>4, PassOnKeeps DEF Cert!ReadCrt
<1>7. CASE Cert!ReadKey(h)
  <2>1. PICK s : s = [hs[h] EXCEPT !.at = "look", !.key = disk] /\ hs' = [hs EXCEPT ![h] = s]
    BY <1>7 DEF Cert!ReadKey, Cert!To
  <2>2. /\ s \in Cert!Handshake /\ s.at = "look" /\ s.key = disk /\ s.crt = hs[h].crt
        /\ s.floor = hs[h].floor /\ s.due = hs[h].due
    <3>1. "look" \in Cert!Places
      BY DEF Cert!Places, Cert!Reading
    <3> QED
      BY <1>1, <2>1, <3>1 DEF Cert!Handshake
  <2>3. hs[h].at = "key" /\ hs[h].at \in Cert!Reading
    BY <1>7 DEF Cert!ReadKey, Cert!At, Cert!Reading
  <2>4. s.due # Cert!None => Cert!Undisturbed(s)
    BY <1>1, <2>2, <2>3 DEF Cert!Grows, Cert!Undisturbed
  <2>5. s.floor <= shown /\ s.crt <= newest /\ s.at \notin Cert!Holding
    BY <1>1, <2>2, <2>3 DEF Cert!Grows, Cert!Holding
  <2> QED
    BY <1>7, <2>1, <2>2, <2>4, <2>5, PassOnKeeps DEF Cert!ReadKey
<1>8. CASE Cert!Look(h)
  <2> USE <1>8 DEF Cert!Look
  <2>1. hs[h].at = "look" /\ hs[h].at \in Cert!Reading /\ hs[h].at \in Cert!HasRead /\ mu' = mu
    BY DEF Cert!At, Cert!Reading, Cert!HasRead
  <2>2. CASE Cert!Hit(h)
    <3>1. Cert!Serve(h, cert) /\ cert' = cert
      BY <2>2
    <3>2. hs[h].due # Cert!None => Cert!Undisturbed(hs[h]) /\ cert = disk
      BY <1>1, <2>1, <2>2 DEF Cert!Grows, Cert!Undisturbed, Cert!Hit
    <3> QED
      BY <2>1, <3>1, <3>2, ServeCachedKeeps
  <2>3. CASE ~Cert!Hit(h)
    <3> DEFINE p == IF Cert!Readable(h) /\ Cert!Parses(hs[h].crt, hs[h].key)
                    THEN "parsed" ELSE "fall back"
    <3>1. PICK s : s = [hs[h] EXCEPT !.at = p] /\ hs' = [hs EXCEPT ![h] = s]
      BY <2>3 DEF Cert!To
    <3>2. p \in {"parsed", "fall back"} /\ p \in Cert!Places
      BY DEF Cert!Places, Cert!Reading
    <3>3. /\ s \in Cert!Handshake /\ s.at = p /\ s.crt = hs[h].crt /\ s.key = hs[h].key
          /\ s.floor = hs[h].floor /\ s.due = hs[h].due
      <4> HIDE DEF p
      <4> QED
        BY <1>1, <3>1, <3>2 DEF Cert!Handshake
    <3>4. s.due # Cert!None => Cert!Undisturbed(s)
      <4> SUFFICES ASSUME s.due # Cert!None PROVE Cert!Undisturbed(s)
        OBVIOUS
      <4>1. disk = hs[h].due /\ disk \notin Corrupt /\ hs[h].crt = disk /\ hs[h].key = disk
        BY <1>1, <2>1, <3>3 DEF Cert!Grows, Cert!Undisturbed
      <4>2. p = "parsed"
        BY <3>3, <4>1 DEF Cert!Readable, Cert!Parses
      <4> QED
        BY <3>3, <4>1, <4>2 DEF Cert!Undisturbed
    <3>5. s.floor <= shown /\ s.crt <= newest /\ s.at \notin Cert!Holding
      BY <1>1, <2>1, <3>2, <3>3 DEF Cert!Grows, Cert!Holding
    <3> QED
      BY <2>1, <2>3, <3>1, <3>2, <3>3, <3>4, <3>5, PassOnKeeps
  <2> QED
    BY <2>2, <2>3
<1>9. CASE Cert!Lock(h)
  <2> USE <1>9 DEF Cert!Lock
  <2>1. /\ hs[h].at = "parsed" /\ hs[h].at \in Cert!Reading /\ hs[h].at \in Cert!HasRead
        /\ mu = {} /\ cert' = cert
    BY DEF Cert!At, Cert!Reading, Cert!HasRead, Cert!Free
  <2>2. \A k \in Handshakes : hs[k].at \notin Cert!Holding
    BY <1>3, <2>1
  <2>3. CASE Cert!Hit(h)
    <3>1. Cert!Serve(h, cert)
      BY <2>1, <2>3
    <3>2. hs[h].due # Cert!None => Cert!Undisturbed(hs[h]) /\ cert = disk
      BY <1>1, <2>1, <2>3 DEF Cert!Grows, Cert!Undisturbed, Cert!Hit
    <3> QED
      BY <2>1, <2>2, <3>1, <3>2, ServeCachedKeeps
  <2>4. CASE ~Cert!Hit(h)
    <3>1. PICK s : s = [hs[h] EXCEPT !.at = "crt again"] /\ hs' = [hs EXCEPT ![h] = s]
      BY <2>4 DEF Cert!To
    <3>2. /\ s \in Cert!Handshake /\ s.at = "crt again" /\ s.crt = hs[h].crt
          /\ s.key = hs[h].key /\ s.floor = hs[h].floor /\ s.due = hs[h].due
      BY <1>1, <3>1 DEF Cert!Handshake, Cert!Places, Cert!Reading
    <3>3. s.due # Cert!None => Cert!Undisturbed(s)
      BY <1>1, <2>1, <3>2 DEF Cert!Grows, Cert!Undisturbed
    <3>4. s.floor <= shown /\ s.crt <= newest /\ mu' = {h}
      BY <1>1, <2>1, <2>4, <3>2 DEF Cert!Grows
    <3> QED
      BY <2>1, <2>2, <2>4, <3>1, <3>2, <3>3, <3>4, PassOnKeeps
  <2> QED
    BY <2>3, <2>4
<1>10. CASE Cert!ReadCrtAgain(h)
  <2>1. PICK s : /\ s = [hs[h] EXCEPT !.at = "key again", !.again = disk]
                 /\ hs' = [hs EXCEPT ![h] = s]
    BY <1>10 DEF Cert!ReadCrtAgain, Cert!To
  <2>2. /\ hs[h].at = "crt again" /\ hs[h].at \in Cert!Reading /\ hs[h].at \in Cert!HasRead
        /\ hs[h].at \in Cert!Holding
    BY <1>10 DEF Cert!ReadCrtAgain, Cert!At, Cert!Reading, Cert!HasRead, Cert!Holding
  <2>3. /\ s \in Cert!Handshake /\ s.at = "key again" /\ s.crt = hs[h].crt
        /\ s.key = hs[h].key /\ s.again = disk /\ s.floor = hs[h].floor /\ s.due = hs[h].due
    <3>1. "key again" \in Cert!Places
      BY DEF Cert!Places, Cert!Reading
    <3> QED
      BY <1>1, <2>1, <3>1 DEF Cert!Handshake
  <2>4. s.due # Cert!None => Cert!Undisturbed(s)
    BY <1>1, <2>2, <2>3 DEF Cert!Grows, Cert!Undisturbed
  <2>5. s.floor <= shown /\ s.crt <= newest /\ mu = {h}
    BY <1>1, <2>2, <2>3 DEF Cert!Grows
  <2>6. s.again # Cert!None => s.again >= cert
    BY <1>1, <1>2, <2>3
  <2> QED
    BY <1>10, <2>1, <2>3, <2>4, <2>5, <2>6, PassOnKeeps DEF Cert!ReadCrtAgain
<1>11. CASE Cert!Publish(h)
  <2> DEFINE unreadable == hs[h].again = Cert!None \/ disk = Cert!None
             same == ~unreadable /\ Cert!StillOnDisk(h, hs[h].again, disk)
  <2>1. /\ hs[h].at = "key again" /\ hs[h].at \in Cert!Reading /\ hs[h].at \in Cert!HasRead
        /\ hs[h].at \in Cert!Holding
    BY <1>11 DEF Cert!Publish, Cert!At, Cert!Reading, Cert!HasRead, Cert!Holding
  <2>2. \A k \in Handshakes \ {h} : hs[k].at \notin Cert!Holding
    BY <1>3, <2>1
  <2>3. hs[h].crt \in Nat /\ hs[h].again \in Nat /\ hs[h].crt <= newest
    BY <1>1, <2>1 DEF Cert!Handshake, Cert!Grows
  <2>4. hs[h].due # Cert!None => same /\ hs[h].crt = disk /\ Cert!Undisturbed(hs[h])
    BY <1>1, <2>1 DEF Cert!Grows, Cert!Undisturbed, Cert!StillOnDisk
  <2>5. CASE ~same /\ cert # Cert!None /\ Cert!Serve(h, cert) /\ cert' = cert
    <3>1. hs[h].due = Cert!None
      BY <2>4, <2>5
    <3> QED
      BY <2>2, <2>5, <3>1, ServeCachedKeeps
  <2>6. CASE /\ ~same /\ cert = Cert!None /\ ~unreadable /\ UNCHANGED <<cert, shown>>
             /\ Cert!To(h, [hs[h] EXCEPT !.at = IF hs[h].attempt < 2 THEN "crt" ELSE "fall back",
                                         !.attempt = 2])
    <3> DEFINE p == IF hs[h].attempt < 2 THEN "crt" ELSE "fall back"
    <3>1. PICK s : s = [hs[h] EXCEPT !.at = p, !.attempt = 2] /\ hs' = [hs EXCEPT ![h] = s]
      BY <2>6 DEF Cert!To
    <3>2. p \in {"crt", "fall back"} /\ p \in Cert!Places
      BY DEF Cert!Places
    <3>3. s \in Cert!Handshake /\ s.at = p /\ s.floor = hs[h].floor /\ s.due = hs[h].due
      <4> HIDE DEF p
      <4> QED
        BY <1>1, <3>1, <3>2 DEF Cert!Handshake
    <3>4. s.due = Cert!None
      BY <2>4, <2>6, <3>3
    <3>5. s.floor <= shown /\ s.at \notin Cert!Holding /\ s.at \notin Cert!Reading
      BY <1>1, <1>4, <3>2, <3>3 DEF Cert!Grows
    <3>6. s.at # "done" /\ s.at # "key again"
      BY <3>2, <3>3
    <3> QED
      BY <2>2, <2>6, <3>1, <3>3, <3>4, <3>5, <3>6, PassOnKeeps
  <2>7. CASE /\ same \/ (unreadable /\ cert = Cert!None)
             /\ cert' = hs[h].crt /\ Cert!Serve(h, hs[h].crt)
    <3>1. same => hs[h].crt >= cert
      BY <1>1, <2>1 DEF Cert!Grows, Cert!At, Cert!StillOnDisk
    <3>2. cert' \in Nat /\ cert <= cert' /\ cert' <= newest
      BY <1>1, <1>2, <2>3, <2>7, <3>1
    <3>3. Cert!Serve(h, cert')
      BY <2>7
    <3>4. hs[h].due # Cert!None => Cert!Undisturbed(hs[h]) /\ cert' = disk
      BY <2>4, <2>7
    <3> QED
      BY <2>2, <3>2, <3>3, <3>4, ServeKeeps
  <2> QED
    BY <1>11, <2>5, <2>6, <2>7 DEF Cert!Publish
<1>12. CASE Cert!FallBack(h)
  <2>1. hs[h].at = "fall back" /\ Cert!Serve(h, cert) /\ cert' = cert /\ mu' = mu
    BY <1>12 DEF Cert!FallBack, Cert!At
  <2>2. hs[h].due = Cert!None
    BY <1>1, <2>1 DEF Cert!Grows, Cert!Undisturbed
  <2> QED
    BY <2>1, <2>2, ServeCachedKeeps
<1> QED
  BY <1>5, <1>6, <1>7, <1>8, <1>9, <1>10, <1>11, <1>12 DEF Cert!GetCertificate

\* A rotation: what was on its way is owed nothing any more.
LEMMA ProjectKeeps ==
    ASSUME Cert!CertInv, Cert!Project
    PROVE  Cert!CertInv'
<1>1. /\ newest' \in Nat /\ newest' >= newest /\ disk' \in {Cert!None, newest'}
      /\ cert' = cert /\ mu' = mu /\ shown' = shown
  BY DEF Cert!CertInv, Cert!Project, Cert!None
<1>2. hs' = [h \in Handshakes |-> [hs[h] EXCEPT !.due = 0]]
  BY DEF Cert!Project, Cert!None
<1>3. ASSUME NEW h \in Handshakes
      PROVE  /\ hs'[h] \in Cert!Handshake /\ hs'[h].due = Cert!None
             /\ hs'[h].at = hs[h].at /\ hs'[h].crt = hs[h].crt /\ hs'[h].again = hs[h].again
             /\ hs'[h].served = hs[h].served /\ hs'[h].floor = hs[h].floor
  <2>1. hs[h] \in Cert!Handshake /\ hs'[h] = [hs[h] EXCEPT !.due = 0]
    BY <1>2 DEF Cert!CertInv
  <2> QED
    BY <2>1 DEF Cert!Handshake, Cert!None
<1>4. hs' \in [Handshakes -> Cert!Handshake]
  BY <1>2, <1>3
<1>5. ASSUME NEW h \in Handshakes PROVE Cert!Grows(h)'
  <2>1. Cert!Grows(h) /\ hs[h].crt \in Nat /\ newest \in Nat
    BY DEF Cert!CertInv, Cert!Handshake
  <2>2. /\ hs'[h].floor <= shown' /\ hs'[h].due = Cert!None
        /\ Cert!At(h, "done")' => hs'[h].served >= hs'[h].floor
    BY <1>1, <1>3, <2>1 DEF Cert!Grows, Cert!At
  <2>3. hs'[h].at \in Cert!Reading => hs'[h].crt <= newest'
    <3>1. hs[h].at \in Cert!Reading => hs[h].crt <= newest
      BY <2>1 DEF Cert!Grows
    <3> QED
      BY <1>1, <1>3, <2>1, <3>1
  <2>4. hs'[h].at \in Cert!Holding => mu' = {h}
    BY <1>1, <1>3, <2>1 DEF Cert!Grows
  <2>5. Cert!At(h, "key again")' /\ hs'[h].again # Cert!None => hs'[h].again >= cert'
    BY <1>1, <1>3, <2>1 DEF Cert!Grows, Cert!At
  <2> QED
    BY <2>2, <2>3, <2>4, <2>5 DEF Cert!Grows
<1>6. cert' <= newest'
  BY <1>1 DEF Cert!CertInv
<1> QED
  BY <1>1, <1>4, <1>5, <1>6 DEF Cert!CertInv, Cert!None

LEMMA CertNextKeeps ==
    ASSUME Cert!CertInv, Cert!Next
    PROVE  Cert!CertInv'
<1>1. \/ (\E h \in Handshakes : Cert!GetCertificate(h)) /\ UNCHANGED <<disk, newest, gaps>>
      \/ Cert!Project
  BY DEF Cert!Next
<1> QED
  BY <1>1, HandshakeKeeps, ProjectKeeps

LEMMA CertStutterKeeps ==
    ASSUME Cert!CertInv, UNCHANGED ofCert
    PROVE  Cert!CertInv'
<1>1. ASSUME NEW h \in Handshakes PROVE Cert!Grows(h)'
  <2>1. Cert!Grows(h) /\ Cert!Undisturbed(hs[h])' = Cert!Undisturbed(hs[h])
    BY DEF Cert!CertInv, ofCert, Cert!Undisturbed
  <2> QED
    BY <2>1 DEF Cert!Grows, Cert!At, ofCert
<1> QED
  BY <1>1 DEF Cert!CertInv, ofCert

LEMMA CertIsNeverOlder == Cert!CertInv => Cert!NeverOlder
<1> SUFFICES ASSUME Cert!CertInv, NEW h \in Handshakes, Cert!At(h, "done")
             PROVE  /\ hs[h].served >= hs[h].floor
                    /\ hs[h].due # Cert!None => hs[h].served = hs[h].due
  BY DEF Cert!NeverOlder
<1>1. Cert!Grows(h)
  BY DEF Cert!CertInv
<1>2. hs[h].served >= hs[h].floor
  BY <1>1 DEF Cert!Grows
<1>3. hs[h].due # Cert!None => hs[h].served = hs[h].due
  BY <1>1 DEF Cert!Grows, Cert!Undisturbed, Cert!At
<1> QED
  BY <1>2, <1>3

----------------------------------------------------------------------------
(* The console plugin *)

LEMMA CopyTyped ==
    ASSUME NEW p \in Plugin!Phases, NEW m \in BOOLEAN, NEW c \in Plugin!Reasons
    PROVE  [phase |-> p, managed |-> m, cond |-> c] \in Plugin!Copies
BY DEF Plugin!Copies

LEMMA NoCopyTyped == Plugin!NoCopy \in Plugin!Copies
<1>1. "live" \in Plugin!Phases /\ "none" \in Plugin!Reasons /\ TRUE \in BOOLEAN
  BY DEF Plugin!Phases, Plugin!Reasons
<1> QED
  BY <1>1, CopyTyped DEF Plugin!NoCopy

LEMMA SayFields ==
    ASSUME copy \in Plugin!Copies, NEW reason \in Plugin!Reasons, Plugin!Say(reason)
    PROVE  /\ copy' \in Plugin!Copies /\ copy'.cond = reason /\ copy'.phase = copy.phase
           /\ step' = "status"
BY DEF Plugin!Say, Plugin!Copies

LEMMA PluginInitHolds == Plugin!Init => Plugin!PluginInv
<1> SUFFICES ASSUME Plugin!Init PROVE Plugin!PluginInv
  OBVIOUS
<1>1. copy \in Plugin!Copies
  BY NoCopyTyped DEF Plugin!Init
<1>2. ready \in Plugin!Reasons /\ pluginMoves \in Nat
  BY PluginMovesAssumption DEF Plugin!Init, Plugin!Reasons
<1>3. baseline \in [phase : Plugin!Phases, managed : BOOLEAN]
  BY DEF Plugin!Init, Plugin!Phases
<1>4. /\ console \in [exists : BOOLEAN, plugins : Plugin!Lists]
      /\ got \in Plugin!Lists /\ byHand \in BOOLEAN
  BY DEF Plugin!Init, Plugin!Lists
<1>5. console.exists /\ consoleCRDs /\ step = "idle"
  BY DEF Plugin!Init
<1> QED
  BY <1>1, <1>2, <1>3, <1>4, <1>5
     DEF Plugin!PluginInv, Plugin!PluginTypes, Plugin!DeployedIsListed

LEMMA BeginFields ==
    ASSUME Plugin!PluginTypes, Plugin!Begin
    PROVE  /\ copy' \in Plugin!Copies /\ copy'.phase = baseline.phase
           /\ copy'.cond \in {ready, "ImageMissing"}
           /\ step' \in {"get", "remove", "topology", "status"}
           /\ step' = "status" => copy'.cond = "ImageMissing"
<1> DEFINE c == IF baseline.phase = "live" /\ baseline.managed /\ ~image
                THEN "ImageMissing" ELSE ready
<1>1. copy' = [phase |-> baseline.phase, managed |-> baseline.managed, cond |-> c]
  BY DEF Plugin!Begin
<1>2. baseline.phase \in Plugin!Phases /\ baseline.managed \in BOOLEAN /\ c \in Plugin!Reasons
  <2>1. baseline \in [phase : Plugin!Phases, managed : BOOLEAN] /\ ready \in Plugin!Reasons
    BY DEF Plugin!PluginTypes
  <2>2. baseline.phase \in Plugin!Phases
    BY <2>1
  <2>3. baseline.managed \in BOOLEAN
    BY <2>1
  <2>4. c \in Plugin!Reasons
    BY <2>1 DEF Plugin!Reasons
  <2> QED
    BY <2>2, <2>3, <2>4
<1>3. c \in {ready, "ImageMissing"}
  OBVIOUS
<1>4. /\ step' \in {"get", "remove", "topology", "status"}
      /\ step' = "status" => c = "ImageMissing"
  BY <1>2 DEF Plugin!Begin, Plugin!Phases
<1> HIDE DEF c
<1>5. copy' \in Plugin!Copies
  BY <1>1, <1>2 DEF Plugin!Copies
<1>6. copy'.phase = baseline.phase /\ copy'.cond = c
  BY <1>1
<1> QED
  BY <1>3, <1>4, <1>5, <1>6

\* What may happen to the copy in a step.
LEMMA CopyMoves ==
    ASSUME Plugin!Next
    PROVE  \/ UNCHANGED copy
           \/ step' = "idle" /\ copy' = Plugin!NoCopy
           \/ Plugin!Begin
           \/ \E reason \in {"ConsoleMissing", "Disabled"} : Plugin!Say(reason)
           \/ step = "pods" /\ \E reason \in {"Deployed", "WaitingForPods"} : Plugin!Say(reason)
<1>1. CASE Plugin!ReadTopology
  BY <1>1 DEF Plugin!ReadTopology, Plugin!locals
<1>2. CASE Plugin!EnsureService
  BY <1>2 DEF Plugin!EnsureService, Plugin!Ensure, Plugin!locals
<1>3. CASE Plugin!EnsureDeployment
  BY <1>3 DEF Plugin!EnsureDeployment, Plugin!Ensure, Plugin!locals
<1>4. CASE Plugin!EnsurePDB
  BY <1>4 DEF Plugin!EnsurePDB, Plugin!Ensure, Plugin!locals
<1>5. CASE Plugin!EnsurePlugin
  BY <1>5 DEF Plugin!EnsurePlugin, Plugin!Ensure, Plugin!locals
<1>6. CASE Plugin!RemoveObject
  BY <1>6 DEF Plugin!RemoveObject, Plugin!locals
<1>7. CASE Plugin!GetConsole
  BY <1>7 DEF Plugin!GetConsole, Plugin!GoOnIfMissing, Plugin!ListDone, Plugin!locals
<1>8. CASE Plugin!UpdateConsole
  BY <1>8 DEF Plugin!UpdateConsole, Plugin!ListDone, Plugin!locals
<1>9. CASE Plugin!ReadPods
  BY <1>9 DEF Plugin!ReadPods, Plugin!locals
<1>10. CASE Plugin!StatusWrite
  BY <1>10 DEF Plugin!StatusWrite, Plugin!Return, Plugin!locals
<1>11. CASE Plugin!RemoveFinalizer
  BY <1>11 DEF Plugin!RemoveFinalizer, Plugin!Return, Plugin!locals
<1>12. CASE Plugin!Crash
  BY <1>12 DEF Plugin!Crash, Plugin!Return
<1>13. CASE Plugin!Collect
  BY <1>13 DEF Plugin!Collect, Plugin!locals
<1>14. CASE Plugin!Environment
  BY <1>14 DEF Plugin!Environment
<1> QED
  BY <1>1, <1>2, <1>3, <1>4, <1>5, <1>6, <1>7, <1>8, <1>9, <1>10, <1>11, <1>12, <1>13, <1>14 DEF Plugin!Next, Plugin!Operator

LEMMA CopyKept ==
    ASSUME Plugin!PluginTypes, Plugin!Next
    PROVE  copy' \in Plugin!Copies /\ ready' \in Plugin!Reasons
<1>1. copy \in Plugin!Copies /\ ready \in Plugin!Reasons /\ copy.cond \in Plugin!Reasons
  BY DEF Plugin!PluginTypes, Plugin!Copies
<1>2. {"ConsoleMissing", "Disabled", "Deployed", "WaitingForPods"} \subseteq Plugin!Reasons
  BY DEF Plugin!Reasons
<1>3. copy' \in Plugin!Copies
  BY <1>1, <1>2, CopyMoves, NoCopyTyped, BeginFields, SayFields
<1>4. ready' \in {ready, copy.cond}
  BY DEF Plugin!Next, Plugin!Operator, Plugin!Begin, Plugin!ReadTopology, Plugin!Ensure,
         Plugin!EnsureService, Plugin!EnsureDeployment, Plugin!EnsurePDB, Plugin!EnsurePlugin,
         Plugin!RemoveObject, Plugin!GetConsole, Plugin!UpdateConsole, Plugin!ReadPods,
         Plugin!StatusWrite, Plugin!RemoveFinalizer, Plugin!Crash, Plugin!Collect,
         Plugin!Environment
<1> QED
  BY <1>1, <1>3, <1>4

\* What may happen to the list, and to the ClusterBaseline, in a step.
Rewrites ==
    /\ step = "update" /\ Plugin!HasConsole /\ fresh
    /\ console' = [console EXCEPT !.plugins = Plugin!WantedList]

LEMMA ListMoves ==
    ASSUME Plugin!Next
    PROVE  \/ UNCHANGED <<console, consoleCRDs, byHand>>
           \/ Rewrites /\ UNCHANGED <<consoleCRDs, byHand>>
           \/ Plugin!Environment /\ (Plugin!EditConsole \/ Plugin!ToggleConsole)
<1> USE DEF Plugin!cluster, Plugin!locals
<1>1. CASE Plugin!UpdateConsole /\ UNCHANGED byHand
  BY <1>1 DEF Plugin!UpdateConsole, Plugin!Current, Rewrites
<1>2. CASE Plugin!Environment
  BY <1>2 DEF Plugin!Environment, Plugin!EditBaseline, Plugin!DeleteObject
<1>3. CASE (Plugin!Collect \/ Plugin!Crash) /\ UNCHANGED byHand
  BY <1>3 DEF Plugin!Collect, Plugin!Crash, Plugin!Return
<1>4. CASE /\ Plugin!Begin \/ Plugin!ReadTopology \/ Plugin!EnsureService
                \/ Plugin!EnsureDeployment \/ Plugin!EnsurePDB \/ Plugin!EnsurePlugin
           /\ UNCHANGED byHand
  BY <1>4 DEF Plugin!Begin, Plugin!ReadTopology, Plugin!Ensure, Plugin!EnsureService,
              Plugin!EnsureDeployment, Plugin!EnsurePDB, Plugin!EnsurePlugin
<1>5. CASE /\ Plugin!RemoveObject \/ Plugin!GetConsole \/ Plugin!ReadPods
                \/ Plugin!StatusWrite \/ Plugin!RemoveFinalizer
           /\ UNCHANGED byHand
  BY <1>5 DEF Plugin!RemoveObject, Plugin!GetConsole, Plugin!ReadPods, Plugin!StatusWrite,
              Plugin!RemoveFinalizer, Plugin!Return
<1> QED
  BY <1>1, <1>2, <1>3, <1>4, <1>5 DEF Plugin!Next, Plugin!Operator, Plugin!Collect

LEMMA GotMoves ==
    ASSUME Plugin!Next
    PROVE  UNCHANGED got \/ got' = {} \/ (got' = console.plugins /\ Plugin!GetConsole)
BY DEF Plugin!Next, Plugin!Operator, Plugin!GetConsole, Plugin!RemoveFinalizer,
       Plugin!Environment,
       Plugin!Begin, Plugin!ReadTopology, Plugin!Ensure, Plugin!EnsureService,
       Plugin!EnsureDeployment, Plugin!EnsurePDB, Plugin!EnsurePlugin, Plugin!RemoveObject,
       Plugin!UpdateConsole, Plugin!ReadPods, Plugin!StatusWrite, Plugin!Return, Plugin!Crash,
       Plugin!Collect, Plugin!cluster, Plugin!locals

LEMMA BaselineMoves ==
    ASSUME Plugin!Next
    PROVE  /\ \/ UNCHANGED baseline
              \/ Plugin!RemoveFinalizer /\ step = "finalizer"
              \/ Plugin!Environment /\ Plugin!EditBaseline
           /\ pluginMoves' = pluginMoves \/ Plugin!Environment
<1>1. \/ UNCHANGED <<baseline, pluginMoves>>
      \/ Plugin!RemoveFinalizer /\ UNCHANGED pluginMoves
      \/ Plugin!Environment
  BY DEF Plugin!Next, Plugin!Operator, Plugin!Collect
<1> QED
  BY <1>1 DEF Plugin!RemoveFinalizer, Plugin!Environment, Plugin!EditConsole,
              Plugin!ToggleConsole, Plugin!DeleteObject

\* Everybody else leaves the worker where it is; the calls before the list, and
\* those that end a reconcile, do not touch the list.
Stays ==
    /\ Plugin!Environment \/ Plugin!Collect
    /\ UNCHANGED <<step, copy, got>>
    /\ UNCHANGED <<console, fresh>> \/ fresh' = FALSE

Quiet ==
    /\ step # "idle" /\ step' # "update" /\ step' # "finalizer" /\ step' # "pods"
    /\ step' = "status" => Plugin!Say("ConsoleMissing")

LEMMA StepMoves ==
    ASSUME Plugin!Next
    PROVE  Plugin!Begin \/ Plugin!GetConsole \/ Plugin!UpdateConsole \/ Plugin!ReadPods
              \/ Quiet \/ Stays
<1>1. CASE Plugin!Environment \/ Plugin!Collect
  BY <1>1 DEF Stays, Plugin!Environment, Plugin!Collect, Plugin!EditBaseline,
              Plugin!EditConsole, Plugin!ToggleConsole, Plugin!DeleteObject, Plugin!locals
<1>2. CASE \/ Plugin!ReadTopology \/ Plugin!RemoveObject \/ Plugin!StatusWrite
           \/ Plugin!RemoveFinalizer \/ Plugin!Crash
  BY <1>2 DEF Quiet, Plugin!ReadTopology, Plugin!RemoveObject, Plugin!StatusWrite,
              Plugin!RemoveFinalizer, Plugin!Crash, Plugin!Fail, Plugin!Err, Plugin!Return
<1>3. CASE Plugin!EnsureService \/ Plugin!EnsureDeployment \/ Plugin!EnsurePDB
  BY <1>3 DEF Quiet, Plugin!EnsureService, Plugin!EnsureDeployment, Plugin!EnsurePDB,
              Plugin!Ensure, Plugin!Fail, Plugin!Err
<1>4. CASE Plugin!EnsurePlugin
  BY <1>4 DEF Quiet, Plugin!EnsurePlugin, Plugin!Ensure, Plugin!Fail, Plugin!Err, Plugin!Say
<1> QED
  BY <1>1, <1>2, <1>3, <1>4 DEF Plugin!Next, Plugin!Operator

LEMMA OthersStay == Plugin!Environment => step' = step
BY DEF Plugin!Environment

\* Behind the list the entry is as it should be.
LEMMA BehindTheList ==
    ASSUME Plugin!PluginInv, Plugin!Next, Plugin!GetConsole \/ Plugin!UpdateConsole,
           step' \in {"finalizer", "pods"}
    PROVE  /\ UNCHANGED <<copy, byHand>> /\ step # "idle"
           /\ step' = "finalizer" => Plugin!Deletes /\ "ours" \notin console'.plugins
           /\ step' = "pods" => "ours" \in console.plugins \/ "ours" \in console'.plugins
<1>1. Plugin!Ours = "ours" /\ (Plugin!Registers => ~Plugin!Deletes)
  BY DEF Plugin!Ours, Plugin!Registers
<1>2. ~Plugin!HasConsole => console.plugins = {}
  BY DEF Plugin!PluginInv, Plugin!HasConsole
<1>3. \A reason : ~Plugin!Say(reason)
  BY DEF Plugin!Say
<1>4. Plugin!ListDone =>
          /\ UNCHANGED copy
          /\ step' = "finalizer" => Plugin!Deletes
          /\ step' = "pods" => Plugin!Registers
  BY <1>3 DEF Plugin!ListDone, Plugin!Registers
<1>5. CASE Plugin!GetConsole
  <2>1. console' = console /\ step = "get" /\ Plugin!ListDone
    BY <1>3, <1>5 DEF Plugin!GetConsole, Plugin!cluster, Plugin!GoOnIfMissing, Plugin!Fail, Plugin!Err
  <2>2. \/ ~Plugin!HasConsole /\ ~Plugin!Registers
        \/ (Plugin!Ours \in console.plugins) = Plugin!Registers
    BY <1>3, <1>5 DEF Plugin!GetConsole, Plugin!Fail, Plugin!Err
  <2>3. UNCHANGED byHand
    BY <1>5, <2>1, ListMoves, OthersStay DEF Rewrites
  <2> QED
    BY <1>1, <1>2, <1>4, <2>1, <2>2, <2>3
<1>6. CASE Plugin!UpdateConsole
  <2>1. /\ step = "update" /\ Plugin!ListDone
        /\ console' = [console EXCEPT !.plugins = Plugin!WantedList]
    BY <1>3, <1>6 DEF Plugin!UpdateConsole, Plugin!Fail, Plugin!Err
  <2>2. console'.plugins = Plugin!WantedList
    BY <2>1 DEF Plugin!PluginInv, Plugin!PluginTypes
  <2>3. UNCHANGED byHand
    BY <1>6, <2>1, ListMoves, OthersStay
  <2>4. Plugin!Registers => "ours" \in Plugin!WantedList
    BY <1>1 DEF Plugin!WantedList
  <2>5. ~Plugin!Registers => "ours" \notin Plugin!WantedList
    BY <1>1 DEF Plugin!WantedList
  <2> QED
    BY <1>1, <1>4, <2>1, <2>2, <2>3, <2>4, <2>5
<1> QED
  BY <1>5, <1>6

LEMMA PluginTyped ==
    ASSUME Plugin!PluginTypes, Plugin!Next
    PROVE  Plugin!PluginTypes'
<1> USE DEF Plugin!PluginTypes
<1>1. copy' \in Plugin!Copies /\ ready' \in Plugin!Reasons
  BY CopyKept
<1>2. pluginMoves' \in Nat
  BY BaselineMoves DEF Plugin!Environment
<1>3. baseline' \in [phase : Plugin!Phases, managed : BOOLEAN]
  <2>1. CASE Plugin!RemoveFinalizer
    BY <2>1 DEF Plugin!RemoveFinalizer, Plugin!Phases
  <2>2. CASE Plugin!EditBaseline
    BY <2>2 DEF Plugin!EditBaseline, Plugin!Phases
  <2> QED
    BY <2>1, <2>2, BaselineMoves
<1>4. /\ console' \in [exists : BOOLEAN, plugins : Plugin!Lists] /\ byHand' \in BOOLEAN
  <2>1. CASE Rewrites /\ UNCHANGED byHand
    <3>1. Plugin!WantedList \in Plugin!Lists
      BY DEF Plugin!WantedList, Plugin!Lists
    <3> QED
      BY <2>1, <3>1 DEF Rewrites
  <2>2. CASE Plugin!EditConsole
    <3>1. byHand' \in BOOLEAN
      BY <2>2 DEF Plugin!EditConsole
    <3>2. Plugin!NoConsole \in [exists : BOOLEAN, plugins : Plugin!Lists]
      BY DEF Plugin!NoConsole, Plugin!Lists
    <3>3. \A l \in Plugin!Lists :
              [exists |-> TRUE, plugins |-> l] \in [exists : BOOLEAN, plugins : Plugin!Lists]
      OBVIOUS
    <3>4. \/ \E l \in Plugin!Lists : console' = [exists |-> TRUE, plugins |-> l]
          \/ console' = Plugin!NoConsole
      BY <2>2 DEF Plugin!EditConsole, Plugin!Lists
    <3> QED
      BY <3>1, <3>2, <3>3, <3>4
  <2>3. CASE Plugin!ToggleConsole
    BY <2>3 DEF Plugin!ToggleConsole, Plugin!NoConsole, Plugin!Lists
  <2> QED
    BY <2>1, <2>2, <2>3, ListMoves
<1>5. got' \in Plugin!Lists
  BY GotMoves DEF Plugin!Lists
<1> QED
  BY <1>1, <1>2, <1>3, <1>4, <1>5

LEMMA PluginNextKeeps ==
    ASSUME Plugin!PluginInv, Plugin!Next
    PROVE  Plugin!PluginInv'
<1>1. Plugin!PluginTypes /\ Plugin!PluginTypes'
  BY PluginTyped DEF Plugin!PluginInv
<1>2. /\ ~console'.exists => console'.plugins = {}
      /\ ~consoleCRDs' => ~console'.exists
  <2>1. CASE Rewrites /\ UNCHANGED consoleCRDs
    BY <1>1, <2>1 DEF Rewrites, Plugin!HasConsole, Plugin!PluginTypes
  <2>2. CASE Plugin!EditConsole
    BY <2>2 DEF Plugin!EditConsole, Plugin!NoConsole
  <2>3. CASE Plugin!ToggleConsole
    BY <2>3 DEF Plugin!ToggleConsole, Plugin!NoConsole
  <2> QED
    BY <2>1, <2>2, <2>3, ListMoves DEF Plugin!PluginInv
<1>3. Plugin!Begin \/ Plugin!GetConsole \/ Plugin!UpdateConsole \/ Plugin!ReadPods
         \/ Quiet \/ Stays
  BY StepMoves
<1>4. step' = "update" /\ fresh' => got' = console'.plugins
  <2>1. CASE Plugin!GetConsole
    BY <2>1 DEF Plugin!GetConsole, Plugin!ListDone, Plugin!GoOnIfMissing, Plugin!Say,
                Plugin!Fail, Plugin!Err, Plugin!cluster
  <2>2. CASE Plugin!UpdateConsole \/ Plugin!Begin \/ Plugin!ReadPods
    BY <2>2, BeginFields, <1>1
       DEF Plugin!UpdateConsole, Plugin!ReadPods, Plugin!ListDone, Plugin!Say, Plugin!Fail,
           Plugin!Err
  <2>3. CASE Stays
    BY <2>3 DEF Plugin!PluginInv, Stays
  <2> QED
    BY <1>3, <2>1, <2>2, <2>3 DEF Quiet
<1>5. step' # "idle" /\ copy'.phase # "live" => baseline'.phase # "live"
  <2>1. baseline.phase # "live" => baseline'.phase # "live"
    <3>1. CASE Plugin!RemoveFinalizer
      BY <1>1, <3>1 DEF Plugin!RemoveFinalizer, Plugin!PluginTypes
    <3>2. CASE Plugin!EditBaseline
      BY <1>1, <3>2 DEF Plugin!EditBaseline, Plugin!PluginTypes
    <3> QED
      BY <3>1, <3>2, BaselineMoves
  <2>2. CASE Plugin!Begin
    BY <1>1, <2>1, <2>2, BeginFields
  <2>3. CASE step # "idle" /\ copy'.phase = copy.phase
    BY <2>1, <2>3 DEF Plugin!PluginInv
  <2>4. step' = "idle" \/ Plugin!Begin \/ (step # "idle" /\ copy'.phase = copy.phase)
    <3>1. step = "idle" => step' = "idle" \/ Plugin!Begin
      <4>1. Plugin!GetConsole \/ Plugin!UpdateConsole \/ Plugin!ReadPods => step # "idle"
        BY DEF Plugin!GetConsole, Plugin!UpdateConsole, Plugin!ReadPods
      <4> QED
        BY <1>3, <4>1 DEF Quiet, Stays
    <3>2. {"ConsoleMissing", "Disabled", "Deployed", "WaitingForPods"} \subseteq Plugin!Reasons
      BY DEF Plugin!Reasons
    <3>3. copy \in Plugin!Copies
      BY <1>1 DEF Plugin!PluginTypes
    <3> QED
      BY <3>1, <3>2, <3>3, CopyMoves, SayFields
  <2> QED
    BY <2>2, <2>3, <2>4
<1>6. step' = "finalizer" => Plugin!Deletes' /\ (Plugin!Ours \notin console'.plugins \/ byHand')
  <2> SUFFICES ASSUME step' = "finalizer"
               PROVE  /\ copy'.phase = "deleting"
                      /\ Plugin!Ours \notin console'.plugins \/ byHand'
    BY DEF Plugin!Deletes
  <2>1. CASE Plugin!GetConsole \/ Plugin!UpdateConsole
    BY <2>1, BehindTheList DEF Plugin!Deletes, Plugin!Ours
  <2>2. CASE Stays
    <3>1. step = "finalizer" /\ copy' = copy /\ copy.phase = "deleting"
      BY <2>2 DEF Stays, Plugin!PluginInv, Plugin!Deletes
    <3>2. Plugin!Ours \notin console.plugins \/ byHand
      BY <3>1 DEF Plugin!PluginInv
    <3>3. baseline.phase # "live"
      BY <3>1 DEF Plugin!PluginInv
    <3>4. CASE Plugin!EditConsole
      BY <3>1, <3>2, <3>3, <3>4 DEF Plugin!EditConsole
    <3>5. CASE Plugin!ToggleConsole
      BY <3>1, <3>5 DEF Plugin!ToggleConsole, Plugin!NoConsole
    <3>6. ~Rewrites
      BY <3>1 DEF Rewrites
    <3> QED
      BY <3>1, <3>2, <3>4, <3>5, <3>6, ListMoves
  <2>3. ~Plugin!Begin /\ ~Plugin!ReadPods
    BY BeginFields, <1>1 DEF Plugin!ReadPods, Plugin!Say, Plugin!Fail, Plugin!Err
  <2> QED
    BY <1>3, <2>1, <2>2, <2>3 DEF Quiet
<1>7. step' = "pods" => seen'
  <2> SUFFICES ASSUME step' = "pods" PROVE seen'
    OBVIOUS
  <2>1. CASE Plugin!GetConsole \/ Plugin!UpdateConsole
    BY <2>1, BehindTheList DEF Plugin!Next, Plugin!Observe, Plugin!Ours
  <2>2. CASE Stays
    BY <2>2 DEF Stays, Plugin!PluginInv, Plugin!Next, Plugin!Observe
  <2>3. ~Plugin!Begin /\ ~Plugin!ReadPods
    BY BeginFields, <1>1 DEF Plugin!ReadPods, Plugin!Say, Plugin!Fail, Plugin!Err
  <2> QED
    BY <1>3, <2>1, <2>2, <2>3 DEF Quiet
<1>8. step' = "status" /\ copy'.cond = "Deployed" => seen'
  <2> SUFFICES ASSUME step' = "status", copy'.cond = "Deployed" PROVE seen'
    OBVIOUS
  <2>1. CASE step = "pods"
    BY <2>1 DEF Plugin!PluginInv, Plugin!Next, Plugin!Observe
  <2>2. CASE step = "status" /\ copy' = copy
    BY <2>2 DEF Plugin!PluginInv, Plugin!DeployedIsListed, Plugin!Next, Plugin!Observe
  <2>3. ~Plugin!Begin
    BY <1>1, BeginFields
  <2>4. ~Plugin!Say("ConsoleMissing") /\ ~Plugin!Say("Disabled")
    <3>1. {"ConsoleMissing", "Disabled"} \subseteq Plugin!Reasons /\ copy \in Plugin!Copies
      BY <1>1 DEF Plugin!Reasons, Plugin!PluginTypes
    <3> QED
      BY <3>1, SayFields
  <2>5. Plugin!GetConsole \/ Plugin!UpdateConsole => FALSE
    BY <2>4 DEF Plugin!GetConsole, Plugin!UpdateConsole, Plugin!ListDone,
                Plugin!GoOnIfMissing, Plugin!Fail, Plugin!Err
  <2>6. Plugin!ReadPods => step = "pods"
    BY DEF Plugin!ReadPods
  <2>7. Stays => step = "status" /\ copy' = copy
    BY DEF Stays
  <2> QED
    BY <1>3, <2>1, <2>2, <2>3, <2>4, <2>5, <2>6, <2>7 DEF Quiet
<1> QED
  BY <1>1, <1>2, <1>4, <1>5, <1>6, <1>7, <1>8 DEF Plugin!PluginInv, Plugin!DeployedIsListed

LEMMA PluginStutterKeeps ==
    ASSUME Plugin!PluginInv, UNCHANGED ofPlugin
    PROVE  Plugin!PluginInv'
BY DEF Plugin!PluginInv, Plugin!PluginTypes, Plugin!DeployedIsListed, Plugin!Deletes, ofPlugin

\* The two properties of a step.
LEMMA PluginStepKeepsOthers ==
    ASSUME Plugin!PluginInv, Plugin!Next
    PROVE  Plugin!KeepsOthers
<1> SUFFICES ASSUME pluginMoves' = pluginMoves
             PROVE  console'.plugins \ {Plugin!Ours} = console.plugins \ {Plugin!Ours}
  BY DEF Plugin!KeepsOthers
<1>1. ~Plugin!Environment
  BY DEF Plugin!Environment, Plugin!PluginInv, Plugin!PluginTypes
<1>2. CASE Rewrites
  <2>1. got = console.plugins /\ console'.plugins = Plugin!WantedList
    BY <1>2 DEF Rewrites, Plugin!PluginInv, Plugin!PluginTypes
  <2> QED
    BY <2>1 DEF Plugin!WantedList
<1> QED
  BY <1>1, <1>2, ListMoves

LEMMA PluginStepLeavesNothing ==
    ASSUME Plugin!PluginInv, Plugin!Next
    PROVE  Plugin!LeavesNothing
<1> SUFFICES ASSUME baseline.phase = "deleting", baseline'.phase = "gone"
             PROVE  Plugin!Ours \notin console'.plugins \/ byHand
  BY DEF Plugin!LeavesNothing
<1>1. ~Plugin!EditBaseline
  BY DEF Plugin!EditBaseline, Plugin!PluginInv, Plugin!PluginTypes
<1>2. Plugin!RemoveFinalizer /\ step = "finalizer"
  BY <1>1, BaselineMoves
<1>3. console' = console
  BY <1>2 DEF Plugin!RemoveFinalizer, Plugin!Return, Plugin!cluster
<1> QED
  BY <1>2, <1>3 DEF Plugin!PluginInv

----------------------------------------------------------------------------
(* The default ClusterBaseline *)

LEMMA DefaultNextKeeps ==
    ASSUME CR!AnsweredIsOver, CR!Next
    PROVE  CR!AnsweredIsOver' /\ CR!NotAgain
BY DEF CR!AnsweredIsOver, CR!NotAgain, CR!Next, CR!Operator, CR!WaitForCacheSync, CR!List,
       CR!Create, CR!AfterAlreadyExists, CR!Sleep, CR!Restart, CR!Deliver, CR!Administrator

----------------------------------------------------------------------------
(* The parts together *)

PartsInv ==
    /\ part = "plugin" => Plugin!PluginInv
    /\ part = "default" => CR!AnsweredIsOver
    /\ part = "cert" => Cert!CertInv

LEMMA PartsInitHolds == PartsInit => PartsInv
<1>1. CR!Init => CR!AnsweredIsOver
  BY DEF CR!Init, CR!AnsweredIsOver
<1> QED
  BY <1>1, PluginInitHolds, CertInit DEF PartsInit, PartsInv

LEMMA PartsStep ==
    ASSUME PartsInv, [PartsNext]_allVars
    PROVE  PartsInv'
<1>1. CASE UNCHANGED allVars
  <2>1. CR!AnsweredIsOver => CR!AnsweredIsOver'
    BY <1>1 DEF CR!AnsweredIsOver, allVars, ofDefault
  <2> QED
    BY <1>1, <2>1, PluginStutterKeeps, CertStutterKeeps DEF allVars, PartsInv
<1>2. CASE BindingsStep(Next)
  BY <1>2 DEF BindingsStep, PartsInv
<1>3. CASE PluginStep(Plugin!Next)
  BY <1>3, PluginNextKeeps DEF PluginStep, PartsInv
<1>4. CASE DefaultStep(CR!Next)
  BY <1>4, DefaultNextKeeps DEF DefaultStep, PartsInv
<1>5. CASE CertStep(Cert!Next)
  BY <1>5, CertNextKeeps DEF CertStep, PartsInv
<1> QED
  BY <1>1, <1>2, <1>3, <1>4, <1>5 DEF PartsNext

\* The invariants of the three parts.
THEOREM PartsHold == PartsSpec => []PartsInv
BY PartsInitHolds, PartsStep, PTL DEF PartsSpec

\* The operator adds and removes its own entry of the shared list of plugins and
\* no other, however many operators write it and whenever (plugin.go:97-128, 381-397).
THEOREM ListOfOthersIsKept == PartsSpec => KeepsOthers
<1>1. PartsInv /\ [PartsNext]_allVars => [part = "plugin" => Plugin!KeepsOthers]_allVars
  <2> SUFFICES ASSUME PartsInv, PartsNext, part = "plugin" PROVE Plugin!KeepsOthers
    OBVIOUS
  <2>1. Plugin!PluginInv /\ Plugin!Next
    BY DEF PartsInv, PartsNext, BindingsStep, PluginStep, DefaultStep, CertStep
  <2> QED
    BY <2>1, PluginStepKeepsOthers
<1> QED
  BY <1>1, PartsHold, PTL DEF PartsSpec, KeepsOthers

\* The ClusterBaseline goes after its entry in the list; and a process that was told
\* that the default object is there does not create another (default_cr.go:153-174).
THEOREM GoneIsNotBroughtBack == PartsSpec => GoneStaysGone
<1>1. PartsInv /\ [PartsNext]_allVars =>
          [ /\ part = "plugin" => Plugin!LeavesNothing
            /\ part = "default" => CR!NotAgain ]_allVars
  <2> SUFFICES ASSUME PartsInv, PartsNext
               PROVE  /\ part = "plugin" => Plugin!LeavesNothing
                      /\ part = "default" => CR!NotAgain
    OBVIOUS
  <2>1. part = "plugin" => Plugin!PluginInv /\ Plugin!Next
    BY DEF PartsInv, PartsNext, BindingsStep, PluginStep, DefaultStep, CertStep
  <2>2. part = "default" => CR!AnsweredIsOver /\ CR!Next
    BY DEF PartsInv, PartsNext, BindingsStep, PluginStep, DefaultStep, CertStep
  <2> QED
    BY <2>1, <2>2, PluginStepLeavesNothing, DefaultNextKeeps
<1> QED
  BY <1>1, PartsHold, PTL DEF PartsSpec, GoneStaysGone

\* No handshake is served an older certificate than one served before it began, for
\* any number of handshakes and rotations (metrics_cert.go:24-39, 134-158); and the
\* plugin is called deployed only in a reconcile that saw its entry listed.
THEOREM NothingIsOlder == PartsSpec => []NothingOlder
<1>1. PartsInv => NothingOlder
  BY CertIsNeverOlder DEF PartsInv, NothingOlder, Plugin!PluginInv
<1> QED
  BY <1>1, PartsHold, PTL

================================================================================
