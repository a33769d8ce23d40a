---------------------------- MODULE ConsolePagesProofs ---------------------------
(***************************************************************************)
(* What ConsolePages' properties rest on, for every value of the constants.  *)
(* A behaviour is one of the part its initial state picks, so each part has    *)
(* its own invariant, and a property of several parts is the conjunction of     *)
(* what they show.  Parts that compute and keep nothing, as the list and the      *)
(* views, have for an invariant only what their data is; there the work is in    *)
(* what filters, sorts, folds and counts return, which FoldLemmas says.           *)
(***************************************************************************)
EXTENDS ConsolePages, FoldLemmas, SequenceTheorems, TLAPS

------------------------------------------------------------------------------
(* one part at a time *)

\* A step is one of the part that the initial state picked.
LEMMA OnePart ==
    ASSUME [Next]_vars
    PROVE  /\ route' = route
           /\ route = "page" => Page!Next \/ UNCHANGED ofPage
           /\ route = "parts" => Parts!Next \/ UNCHANGED ofParts
           /\ route = "clock" => Clock!Next \/ UNCHANGED ofClock
           /\ route = "views" => Views!Next \/ UNCHANGED ofViews
           /\ route = "overview" => Overview!Next \/ UNCHANGED ofOverview
           /\ route = "trend" => Trend!Next \/ UNCHANGED ofTrend
           /\ route = "rules" => Tailored!Next \/ UNCHANGED ofRules
           /\ route = "keys" => Keys!Next \/ UNCHANGED ofKeys
<1>1. CASE UNCHANGED vars
  BY <1>1 DEF vars
<1>2. CASE Next
  BY <1>2 DEF Next
<1> QED
  BY <1>1, <1>2

------------------------------------------------------------------------------
(* small parts of a tab *)

\* A copy that is reported last is one of the object shown; the outcome shown of an
\* import is that of the last attempt, which is not under way; the dialogs that a
\* restore of the focus knows are those of remediations.
PartsInv ==
    /\ DOMAIN viewer = {"seq", "showing", "copied", "error", "copiedOf"}
    /\ viewer.seq \in Nat /\ viewer.showing \in Objects \union {Absent}
    /\ viewer.copied => viewer.copiedOf = viewer.showing
    /\ \A w \in writes : /\ w.seq \in Nat /\ w.seq <= viewer.seq
                         /\ w.of \in Objects \union {Absent}
                         /\ w.seq = viewer.seq => w.of = viewer.showing
    /\ gate \in [mount : Nat, attempt : Nat, failed : BOOLEAN,
                 settled : [attempt : Nat, state : {"loading", "ready", "failed"}]]
    /\ imports \subseteq [attempt : Nat, mount : Nat]
    /\ \A i \in imports : /\ i.mount <= gate.mount
                          /\ (i.mount = gate.mount /\ i.attempt = gate.attempt) =>
                                gate.settled.attempt # gate.attempt
                                \/ gate.settled.state = "loading"
                          /\ i.mount = gate.mount => i.attempt <= gate.attempt
    /\ "other" \notin frame.dialogs

\* Nothing is shown or imported when the console opens.
LEMMA PartsStart == Parts!Init => PartsInv
BY MarkersAssumption DEF Parts!Init, PartsInv, Parts!NoFrame

\* Opening and closing the dialog makes every copy under way one of before.
LEMMA Reopened ==
    ASSUME PartsInv, NEW o \in Objects \union {Absent},
           viewer' = [viewer EXCEPT !.seq = @ + 1, !.showing = o, !.copied = FALSE, !.error = FALSE],
           UNCHANGED <<writes, gate, imports>>, "other" \notin frame'.dialogs
    PROVE  PartsInv'
<1>1. /\ viewer'.seq = viewer.seq + 1 /\ viewer'.showing = o /\ viewer'.copied = FALSE
      /\ DOMAIN viewer' = {"seq", "showing", "copied", "error", "copiedOf"}
  BY DEF PartsInv
<1>2. \A w \in writes : /\ w.seq \in Nat /\ w.seq <= viewer'.seq
                        /\ w.of \in Objects \union {Absent}
                        /\ w.seq = viewer'.seq => w.of = viewer'.showing
  <2>1. viewer.seq \in Nat
    BY DEF PartsInv
  <2> QED
    BY <1>1, <2>1 DEF PartsInv
<1> QED
  BY <1>1, <1>2 DEF PartsInv

\* Each step of the parts keeps it: a dialog that opens, a write, an answer, a frame.
LEMMA PartsStep ==
    ASSUME PartsInv, Parts!Next \/ UNCHANGED ofParts
    PROVE  PartsInv'
<1> USE DEF PartsInv
<1>1. CASE UNCHANGED ofParts
  BY <1>1 DEF ofParts
<1>2. ASSUME NEW o \in Objects, Parts!View(o), Parts!Refocused PROVE PartsInv'
  <2>1. viewer' = [viewer EXCEPT !.seq = @ + 1, !.showing = o, !.copied = FALSE, !.error = FALSE]
        /\ UNCHANGED <<writes, gate, imports>> /\ viewer.showing = Absent
    BY <1>2 DEF Parts!View, Parts!Anew, Parts!viewing
  <2>2. "other" \notin frame'.dialogs
    BY <1>2, <2>1, MarkersAssumption DEF Parts!Refocused, Parts!viewing, Parts!NoFrame
  <2> QED
    BY <2>1, <2>2, Reopened
<1>3. ASSUME Parts!CloseView, Parts!Refocused PROVE PartsInv'
  <2>1. /\ viewer' = [viewer EXCEPT !.seq = @ + 1, !.showing = Absent, !.copied = FALSE, !.error = FALSE]
        /\ UNCHANGED <<writes, gate, imports>> /\ viewer.showing # Absent
    BY <1>3 DEF Parts!CloseView, Parts!Anew, Parts!viewing
  <2>2. "other" \notin frame'.dialogs
    BY <1>3, <2>1, MarkersAssumption DEF Parts!Refocused, Parts!viewing, Parts!NoFrame
  <2> QED
    BY <2>1, <2>2, Reopened
<1>4. ASSUME NEW available \in BOOLEAN, Parts!Copy(available) PROVE PartsInv'
  <2>1. /\ viewer' = [viewer EXCEPT !.seq = @ + 1, !.copied = @ /\ available,
                                    !.error = @ \/ ~available]
        /\ \A w \in writes' :
                w \in writes \/ w = [seq |-> viewer.seq + 1, of |-> viewer.showing]
        /\ UNCHANGED <<gate, imports, focus, frame>>
    BY <1>4 DEF Parts!Copy
  <2>2. /\ viewer'.seq = viewer.seq + 1 /\ viewer'.showing = viewer.showing
        /\ viewer'.copiedOf = viewer.copiedOf /\ viewer'.copied => viewer.copied
        /\ DOMAIN viewer' = {"seq", "showing", "copied", "error", "copiedOf"}
    BY <2>1
  <2>3. \A w \in writes' : /\ w.seq \in Nat /\ w.seq <= viewer'.seq
                           /\ w.of \in Objects \union {Absent}
                           /\ w.seq = viewer'.seq => w.of = viewer'.showing
    <3> SUFFICES ASSUME NEW w \in writes'
                 PROVE  /\ w.seq \in Nat /\ w.seq <= viewer.seq + 1
                        /\ w.of \in Objects \union {Absent}
                        /\ w.seq = viewer.seq + 1 => w.of = viewer.showing
      BY <2>2
    <3>1. viewer.seq \in Nat /\ viewer.showing \in Objects \union {Absent}
      OBVIOUS
    <3>2. CASE w \in writes
      BY <3>1, <3>2
    <3>3. CASE w = [seq |-> viewer.seq + 1, of |-> viewer.showing]
      BY <3>1, <3>3
    <3> QED
      BY <2>1, <3>2, <3>3
  <2> QED
    BY <2>1, <2>2, <2>3
<1>5. ASSUME NEW w \in writes, NEW ok \in BOOLEAN, Parts!Copied(w, ok) PROVE PartsInv'
  BY <1>5 DEF Parts!Copied, Parts!Current
<1>6. CASE Parts!TooltipHidden
  BY <1>6 DEF Parts!TooltipHidden
<1>7. CASE Parts!RetryChunk
  <2>1. gate.settled.attempt = gate.attempt
    BY <1>7 DEF Parts!RetryChunk, Parts!GateShows, Parts!useChunk
  <2>2. /\ gate' = [gate EXCEPT !.attempt = @ + 1]
        /\ \A i \in imports' : i \in imports \/ i = [attempt |-> gate.attempt + 1, mount |-> gate.mount]
        /\ UNCHANGED <<viewer, writes, focus, frame>>
    BY <1>7 DEF Parts!RetryChunk, Parts!Import
  <2> QED
    BY <2>1, <2>2
<1>8. CASE Parts!Throw
  BY <1>8 DEF Parts!Throw
<1>9. CASE Parts!MountAnew
  <2>1. /\ gate' = [mount |-> gate.mount + 1, attempt |-> 0, failed |-> FALSE,
                    settled |-> [attempt |-> 0, state |-> "loading"]]
        /\ \A i \in imports' : i \in imports \/ i = [attempt |-> 0, mount |-> gate.mount + 1]
        /\ UNCHANGED <<viewer, writes, focus, frame>>
    BY <1>9 DEF Parts!MountAnew
  <2> QED
    BY <2>1
<1>10. ASSUME NEW i \in imports, NEW state \in {"ready", "failed"}, Parts!ChunkSettled(i, state)
       PROVE  PartsInv'
  <2>1. UNCHANGED <<viewer, writes, frame>> /\ imports' = imports \ {i}
    BY <1>10 DEF Parts!ChunkSettled
  <2>2. CASE i.mount # gate.mount
    BY <1>10, <2>1, <2>2 DEF Parts!ChunkSettled
  <2>3. CASE i.mount = gate.mount
    <3>1. gate' = [gate EXCEPT !.settled = [attempt |-> i.attempt, state |-> state]]
      BY <1>10, <2>3 DEF Parts!ChunkSettled
    <3>2. gate'.mount = gate.mount /\ gate'.attempt = gate.attempt
           /\ gate'.settled.attempt = i.attempt
      BY <3>1
    <3>3. ASSUME NEW j \in imports', j.mount = gate.mount, j.attempt = gate.attempt
          PROVE  i.attempt # gate.attempt
      <4>1. i \in [attempt : Nat, mount : Nat] /\ j \in [attempt : Nat, mount : Nat] /\ i # j
        BY <2>1
      <4> QED
        BY <2>3, <3>3, <4>1
    <3> QED
      BY <2>1, <3>1, <3>2, <3>3
  <2> QED
    BY <2>2, <2>3
<1>11. CASE Parts!OtherDialog
  BY <1>11 DEF Parts!OtherDialog
<1>12. ASSUME NEW connected \in BOOLEAN, Parts!restoreFocus(connected) PROVE PartsInv'
  BY <1>12 DEF Parts!restoreFocus, Parts!NoFrame
<1> QED
  BY <1>1, <1>2, <1>3, <1>4, <1>5, <1>6, <1>7, <1>8, <1>9, <1>10, <1>11, <1>12 DEF Parts!Next

\* What is shown of a copy or an import is about it.
LEMMA PartsBelong == PartsInv => Parts!AnswersBelong
BY DEF PartsInv, Parts!AnswersBelong, Parts!useChunk

\* The frame in which the focus would come back finds no dialog it could take it from.
LEMMA PartsLeaveDialogs == PartsInv => Parts!LeavesDialogs
BY DEF PartsInv, Parts!LeavesDialogs, Parts!restoreFocus, Parts!OtherOpen

\* The restore of the focus leaves a dialog that opened in between alone, whatever
\* opened and closed before its frame.
THEOREM RestoreLeavesDialogs == Spec => FocusNotStolen
<1> DEFINE Inv == route = "parts" => PartsInv
<1>1. Init => Inv
  BY PartsStart DEF Init
<1>2. Inv /\ [Next]_vars => Inv'
  BY OnePart, PartsStep
<1>3. Inv /\ [Next]_vars => [route = "parts" => Parts!LeavesDialogs]_vars
  BY PartsLeaveDialogs
<1> QED
  BY <1>1, <1>2, <1>3, PTL DEF Spec, FocusNotStolen

------------------------------------------------------------------------------
(* the page around the tabs *)

\* The tokens of a click come before those of every later one, also after a reload.
Given(token) ==
    /\ token \in Nat \X Nat
    /\ token[1] < clock \/ (token[1] = clock /\ token[2] <= ui.seq)

\* A patch that would create the annotations insists on a version at which the scan
\* had none.
Guarded(r) ==
    \/ r.patch = Page!rescanPatch(TRUE, r.token, 0)
    \/ \E rv \in Nat \ {0} :
        /\ r.patch = Page!rescanPatch(FALSE, r.token, rv)
        /\ rv <= scans[r.scan].rv
        /\ rv = scans[r.scan].rv => scans[r.scan].annotations = Absent

\* What the page saw of the scans was stored at that version; no token is asked for
\* twice, and none that is asked for is there already.
ScansInv ==
    /\ DOMAIN scans = Scans /\ DOMAIN seen = Scans
    /\ clock \in Nat
    /\ \A s \in Scans :
        /\ DOMAIN scans[s] = {"there", "rv", "annotations"}
        /\ scans[s].rv \in Nat \ {0} /\ seen[s].rv \in Nat \ {0}
        /\ seen[s].rv <= scans[s].rv
        /\ seen[s].rv = scans[s].rv => seen[s].annotations = scans[s].annotations
        /\ (scans[s].annotations # Absent /\ "rescan" \in DOMAIN scans[s].annotations) =>
                Given(scans[s].annotations.rescan)
    /\ \A r \in requests :
        /\ DOMAIN r = {"scan", "token", "live", "served", "patch"}
        /\ r.scan \in Scans /\ Given(r.token) /\ Guarded(r)
        /\ (r.served = "no" /\ scans[r.scan].annotations # Absent
            /\ "rescan" \in DOMAIN scans[r.scan].annotations) =>
                scans[r.scan].annotations.rescan # r.token
    /\ \A q, r \in requests : (q.scan = r.scan /\ q.token = r.token) => q = r

\* What is said of a click is about its own patches.
ClickInv ==
    /\ DOMAIN ui = DOMAIN Page!Fresh
    /\ ui.seq \in Nat /\ ui.ok \in Nat
    /\ ui.fan <=> \E r \in requests : r.live
    /\ \A r \in requests :
        /\ r.live => r.token = <<clock, ui.seq>>
        /\ r.served = "landed" => r.token \in stamped
    /\ ui.ok > 0 \/ ui.started => <<clock, ui.seq>> \in stamped

PageInv == ScansInv /\ ClickInv

\* The page says that no baseline is configured of what it has read.
LEMMA NoBaselineIsRead == Page!NotConfiguredIsTrue
BY DEF Page!NotConfiguredIsTrue, Page!CreateOffered, Page!TabBody, Page!NoBaseline,
       Page!ctxLoaded, Page!baseline, Page!checkResultsLoaded, Page!Tabs

\* A click is said to have started scans that its patches started, and the page is
\* busy while one of its requests is out.
LEMMA PageSays == PageInv => Page!StartedIsReal /\ Page!BusyIsRequest
BY DEF PageInv, ClickInv, Page!StartedIsReal, Page!BusyIsRequest, Page!rescanToken

\* The page opens without requests, with the scans as they are.
LEMMA PageStart == Page!Init => PageInv
<1> SUFFICES ASSUME Page!Init PROVE PageInv
  OBVIOUS
<1>1. /\ scans \in [Scans -> [there : {TRUE}, rv : {1}, annotations : {Absent, [other |-> "theirs"]}]]
      /\ seen = scans /\ requests = {} /\ clock = 0 /\ ui = Page!Fresh
  BY DEF Page!Init
<1>2. ASSUME NEW s \in Scans
      PROVE  /\ DOMAIN scans[s] = {"there", "rv", "annotations"}
             /\ scans[s].rv = 1 /\ scans[s].annotations \in {Absent, [other |-> "theirs"]}
  BY <1>1
<1>3. "rescan" \notin DOMAIN [other |-> "theirs"]
  OBVIOUS
<1>4. ScansInv
  BY <1>1, <1>2, <1>3 DEF ScansInv
<1>5. ClickInv
  BY <1>1 DEF ClickInv, Page!Fresh
<1> QED
  BY <1>4, <1>5 DEF PageInv

\* A click gives each scan a token that nothing has.
LEMMA RescanKeeps ==
    ASSUME PageInv, Page!rescan
    PROVE  PageInv'
<1>0. PICK token : token = Page!rescanToken(clock, ui.seq + 1)
  OBVIOUS
<1> DEFINE sends == ~("rescan" \notin access \/ Page!ownedScans = {})
           asked == {[scan |-> s, token |-> token, live |-> TRUE, served |-> "no",
                      patch |-> Page!rescanPatch(seen[s].annotations # Absent, token, seen[s].rv)] :
                        s \in Page!ownedScans}
<1>1. UNCHANGED <<scans, seen, stamped, clock>> /\ ~ui.fan
  BY DEF Page!rescan, Page!cluster
<1>2. CASE ~sends
  <2>1. ui' = [ui EXCEPT !.error = TRUE] /\ requests' = requests
    BY <1>2 DEF Page!rescan
  <2>2. DOMAIN ui' = DOMAIN ui /\ ui'.seq = ui.seq /\ ui'.ok = ui.ok
        /\ (ui'.fan <=> ui.fan) /\ ui'.started = ui.started
    BY <2>1 DEF PageInv, ClickInv, Page!Fresh
  <2>3. ScansInv'
    BY <1>1, <2>1, <2>2 DEF PageInv, ScansInv, Given, Guarded
  <2>4. ClickInv'
    BY <1>1, <2>1, <2>2 DEF PageInv, ClickInv
  <2> QED
    BY <2>3, <2>4 DEF PageInv
<1>3. CASE sends
  <2>1. /\ ui' = [ui EXCEPT !.fan = TRUE, !.seq = @ + 1, !.ok = 0, !.bad = 0,
                            !.started = FALSE, !.error = FALSE]
        /\ requests' = requests \union asked
    BY <1>0, <1>3 DEF Page!rescan
  <2>2. /\ DOMAIN ui' = DOMAIN ui /\ ui'.seq = ui.seq + 1 /\ ui'.ok = 0
        /\ ui'.fan /\ ~ui'.started /\ ui.seq \in Nat /\ ui'.seq \in Nat
    BY <2>1 DEF PageInv, ClickInv, Page!Fresh
  <2>3. clock \in Nat /\ token = <<clock, ui.seq + 1>> /\ Page!ownedScans \subseteq Scans
    BY <1>0 DEF PageInv, ScansInv, Page!rescanToken, Page!ownedScans
  <2>4. \A t : Given(t) => Given(t)' /\ t # token
    <3> SUFFICES ASSUME NEW t, Given(t) PROVE Given(t)' /\ t # token
      OBVIOUS
    <3>1. /\ t \in Nat \X Nat /\ t[1] \in Nat /\ t[2] \in Nat
          /\ t[1] < clock \/ (t[1] = clock /\ t[2] <= ui.seq)
      BY DEF Given
    <3>2. t # token
      <4>1. token[1] = clock /\ token[2] = ui.seq + 1
        BY <2>3
      <4> QED
        BY <2>2, <2>3, <3>1, <4>1
    <3>3. Given(t)'
      BY <1>1, <2>2, <2>3, <3>1 DEF Given
    <3> QED
      BY <3>2, <3>3
  <2>5. Given(token)'
    BY <1>1, <2>2, <2>3 DEF Given
  <2>6. ASSUME NEW r \in asked
        PROVE  /\ DOMAIN r = {"scan", "token", "live", "served", "patch"}
               /\ r.scan \in Scans /\ r.token = token /\ r.live /\ r.served = "no"
               /\ r.patch = Page!rescanPatch(seen[r.scan].annotations # Absent, token, seen[r.scan].rv)
    BY <2>3
  <2>7. \A r \in asked : Guarded(r)'
    <3> SUFFICES ASSUME NEW r \in asked PROVE Guarded(r)'
      OBVIOUS
    <3> DEFINE s == r.scan
    <3>1. CASE seen[s].annotations # Absent
      BY <2>6, <3>1 DEF Guarded, Page!rescanPatch
    <3>2. CASE seen[s].annotations = Absent
      <4>1. r.patch = Page!rescanPatch(FALSE, r.token, seen[s].rv)
        BY <2>6, <3>2 DEF Page!rescanPatch
      <4>2. /\ s \in Scans /\ seen[s].rv \in Nat \ {0} /\ seen[s].rv <= scans[s].rv
            /\ seen[s].rv = scans[s].rv => scans[s].annotations = Absent
        BY <2>6, <3>2 DEF PageInv, ScansInv
      <4> HIDE DEF asked
      <4> QED
        BY <1>1, <4>1, <4>2 DEF Guarded
    <3> QED
      BY <3>1, <3>2
  <2>8. \A r \in requests : Guarded(r)'
    BY <1>1 DEF PageInv, ScansInv, Guarded
  <2>9. \A q, r \in requests' : (q.scan = r.scan /\ q.token = r.token) => q = r
    <3> SUFFICES ASSUME NEW q \in requests', NEW r \in requests', q.scan = r.scan, q.token = r.token
                 PROVE  q = r
      OBVIOUS
    <3>1. \A p \in requests : p.token # token
      BY <2>4 DEF PageInv, ScansInv
    <3>2. CASE q \in requests /\ r \in requests
      BY <3>2 DEF PageInv, ScansInv
    <3>3. CASE q \in asked /\ r \in asked
      <4>1. PICK s \in Page!ownedScans :
              q = [scan |-> s, token |-> token, live |-> TRUE, served |-> "no",
                   patch |-> Page!rescanPatch(seen[s].annotations # Absent, token, seen[s].rv)]
        BY <3>3
      <4>2. PICK s2 \in Page!ownedScans :
              r = [scan |-> s2, token |-> token, live |-> TRUE, served |-> "no",
                   patch |-> Page!rescanPatch(seen[s2].annotations # Absent, token, seen[s2].rv)]
        BY <3>3
      <4>3. s = s2
        BY <4>1, <4>2
      <4> QED
        BY <4>1, <4>2, <4>3
    <3>4. \A p \in asked : p.token = token
      BY <2>6
    <3> HIDE DEF asked
    <3> QED
      BY <2>1, <3>1, <3>2, <3>3, <3>4
  <2>10. ASSUME NEW s \in Scans, scans[s].annotations # Absent,
                "rescan" \in DOMAIN scans[s].annotations
         PROVE  Given(scans[s].annotations.rescan)' /\ scans[s].annotations.rescan # token
    <3>1. Given(scans[s].annotations.rescan)
      BY <2>10 DEF PageInv, ScansInv
    <3> QED
      BY <1>1, <2>4, <3>1
  <2> HIDE DEF asked
  <2>11. \A r \in requests' : /\ DOMAIN r = {"scan", "token", "live", "served", "patch"}
                              /\ r.scan \in Scans /\ Given(r.token)' /\ Guarded(r)'
    <3>1. ASSUME NEW r \in requests
          PROVE  /\ DOMAIN r = {"scan", "token", "live", "served", "patch"}
                 /\ r.scan \in Scans /\ Given(r.token)
      BY DEF PageInv, ScansInv
    <3>2. \A r \in requests : Given(r.token)'
      BY <2>4, <3>1
    <3> QED
      BY <2>1, <2>5, <2>6, <2>7, <2>8, <3>1, <3>2
  <2>12. \A r \in requests' :
            (r.served = "no" /\ scans[r.scan].annotations # Absent
              /\ "rescan" \in DOMAIN scans[r.scan].annotations) =>
                  scans[r.scan].annotations.rescan # r.token
    BY <2>1, <2>6, <2>10 DEF PageInv, ScansInv
  <2>13. ScansInv'
    BY <1>1, <2>9, <2>10, <2>11, <2>12 DEF PageInv, ScansInv
  <2>14. \E r \in asked : r.live
    <3>1. PICK s : s \in Page!ownedScans
      BY <1>3
    <3>2. [scan |-> s, token |-> token, live |-> TRUE, served |-> "no",
           patch |-> Page!rescanPatch(seen[s].annotations # Absent, token, seen[s].rv)] \in asked
      BY <3>1 DEF asked
    <3> QED
      BY <2>6, <3>2
  <2>15. ClickInv'
    BY <1>1, <2>1, <2>2, <2>3, <2>6, <2>14 DEF PageInv, ClickInv
  <2> QED
    BY <2>13, <2>15 DEF PageInv
<1> QED
  BY <1>2, <1>3

\* What only the page says may change, as long as it claims no more.
LEMMA PageUntouched ==
    ASSUME PageInv, UNCHANGED <<scans, seen, requests, stamped, clock>>,
           DOMAIN ui' = DOMAIN ui, ui'.seq = ui.seq, ui'.ok = ui.ok,
           ui'.fan <=> ui.fan, ui'.started => ui.started
    PROVE  PageInv'
<1>1. ScansInv'
  BY DEF PageInv, ScansInv, Given, Guarded
<1>2. ClickInv'
  BY DEF PageInv, ClickInv
<1> QED
  BY <1>1, <1>2 DEF PageInv

\* The object an accepted patch leaves.
Annotated(r) == [Page!Patched(scans[r.scan], r.patch.write) EXCEPT !.rv = @ + 1]

\* A patch that is accepted leaves the token and every annotation the scan had.
LEMMA PatchLands ==
    ASSUME PageInv, NEW r \in requests, r.served = "no", Page!Accepts(scans[r.scan], r.patch)
    PROVE  /\ DOMAIN Annotated(r) = {"there", "rv", "annotations"}
           /\ Annotated(r).rv = scans[r.scan].rv + 1
           /\ \/ /\ scans[r.scan].annotations = Absent
                 /\ Annotated(r).annotations = [rescan |-> r.token]
              \/ /\ scans[r.scan].annotations # Absent
                 /\ Annotated(r).annotations
                        = Page!WithKey(scans[r.scan].annotations, "rescan", r.token)
<1> DEFINE object == scans[r.scan]
<1>1. /\ DOMAIN object = {"there", "rv", "annotations"}
      /\ object.rv \in Nat \ {0} /\ Guarded(r)
  BY DEF PageInv, ScansInv
<1>2. CASE r.patch = Page!rescanPatch(TRUE, r.token, 0)
  <2>1. r.patch.write = [op |-> "setKey", field |-> "annotations", key |-> "rescan", val |-> r.token]
    BY <1>2 DEF Page!rescanPatch, Page!resourceVersionTest, Page!SetKey
  <2>2. object.annotations # Absent
    BY <2>1 DEF Page!Accepts, Page!Reachable
  <2>3. Page!Patched(object, r.patch.write)
          = [object EXCEPT !.annotations = Page!WithKey(@, "rescan", r.token)]
    BY <2>1 DEF Page!Patched
  <2> QED
    BY <1>1, <2>2, <2>3 DEF Annotated
<1>3. ASSUME NEW rv \in Nat \ {0}, r.patch = Page!rescanPatch(FALSE, r.token, rv),
             rv = object.rv => object.annotations = Absent
      PROVE  /\ object.annotations = Absent
             /\ Annotated(r) = [object EXCEPT !.annotations = [rescan |-> r.token], !.rv = @ + 1]
  <2>1. /\ r.patch.write = [op |-> "set", field |-> "annotations", val |-> [rescan |-> r.token]]
        /\ r.patch.rv = rv
    BY <1>3 DEF Page!rescanPatch, Page!resourceVersionTest, Page!Set
  <2>2. rv = object.rv
    BY <1>3, <2>1 DEF Page!Accepts
  <2>3. Page!Patched(object, r.patch.write) = [object EXCEPT !.annotations = [rescan |-> r.token]]
    BY <2>1 DEF Page!Patched
  <2>4. Annotated(r) = [[object EXCEPT !.annotations = [rescan |-> r.token]] EXCEPT !.rv = @ + 1]
    BY <2>3 DEF Annotated
  <2>5. Annotated(r) = [object EXCEPT !.annotations = [rescan |-> r.token], !.rv = @ + 1]
    BY <2>4
  <2> QED
    BY <1>3, <2>2, <2>5
<1> HIDE DEF object
<1>4. CASE \E rv \in Nat \ {0} : /\ r.patch = Page!rescanPatch(FALSE, r.token, rv)
                                 /\ rv = object.rv => object.annotations = Absent
  BY <1>1, <1>3, <1>4 DEF object
<1> QED
  BY <1>1, <1>2, <1>4 DEF Guarded, object

\* The API server serves a patch, accepted or refused.
LEMMA ServeKeeps ==
    ASSUME PageInv, NEW r \in requests, Page!ServePatch(r)
    PROVE  PageInv'
<1> DEFINE s == r.scan
           ok == Page!Accepts(scans[s], r.patch)
<1>0. PICK answered : answered = [r EXCEPT !.served = IF ok THEN "landed" ELSE "refused"]
  OBVIOUS
<1>1. /\ r.served = "no" /\ UNCHANGED <<seen, clock, ui>>
      /\ scans' = IF ok THEN [scans EXCEPT ![s] = Annotated(r)] ELSE scans
      /\ stamped' = IF ok THEN stamped \union {r.token} ELSE stamped
      /\ requests' = (requests \ {r}) \union (IF r.live THEN {answered} ELSE {})
  BY <1>0 DEF Page!ServePatch, Page!Replace, Annotated
<1>2. /\ DOMAIN r = {"scan", "token", "live", "served", "patch"}
      /\ s \in Scans /\ Given(r.token) /\ Guarded(r)
  BY DEF PageInv, ScansInv
<1>3. /\ DOMAIN answered = {"scan", "token", "live", "served", "patch"}
      /\ answered.scan = s /\ answered.token = r.token /\ answered.live = r.live
      /\ answered.patch = r.patch /\ answered.served = IF ok THEN "landed" ELSE "refused"
  BY <1>0, <1>2
<1>4. /\ DOMAIN scans' = Scans
      /\ \A t \in Scans : t # s => scans'[t] = scans[t]
      /\ ~ok => scans'[s] = scans[s]
      /\ ok => scans'[s] = Annotated(r)
  BY <1>1, <1>2 DEF PageInv, ScansInv
<1>5. ok => /\ DOMAIN scans'[s] = {"there", "rv", "annotations"}
            /\ scans'[s].rv = scans[s].rv + 1
            /\ "rescan" \in DOMAIN scans'[s].annotations
            /\ scans'[s].annotations.rescan = r.token
  <2> SUFFICES ASSUME ok
               PROVE  /\ DOMAIN Annotated(r) = {"there", "rv", "annotations"}
                      /\ Annotated(r).rv = scans[s].rv + 1
                      /\ "rescan" \in DOMAIN Annotated(r).annotations
                      /\ Annotated(r).annotations.rescan = r.token
    BY <1>4
  <2> QED
    <3> DEFINE old == scans[s].annotations
    <3>1. /\ DOMAIN Annotated(r) = {"there", "rv", "annotations"}
          /\ Annotated(r).rv = scans[s].rv + 1
          /\ Annotated(r).annotations \in {[rescan |-> r.token], Page!WithKey(old, "rescan", r.token)}
      BY <1>1, PatchLands
    <3>2. /\ "rescan" \in DOMAIN Page!WithKey(old, "rescan", r.token)
          /\ Page!WithKey(old, "rescan", r.token)["rescan"] = r.token
      BY DEF Page!WithKey
    <3> QED
      BY <3>1, <3>2
<1>6. ASSUME NEW t \in Scans
      PROVE  /\ DOMAIN scans'[t] = {"there", "rv", "annotations"}
             /\ scans'[t].rv \in Nat \ {0} /\ scans[t].rv <= scans'[t].rv
             /\ scans'[t].rv = scans[t].rv => scans'[t] = scans[t]
             /\ (scans'[t].annotations # Absent /\ "rescan" \in DOMAIN scans'[t].annotations) =>
                    Given(scans'[t].annotations.rescan)
  <2>1. /\ DOMAIN scans[t] = {"there", "rv", "annotations"} /\ scans[t].rv \in Nat \ {0}
        /\ (scans[t].annotations # Absent /\ "rescan" \in DOMAIN scans[t].annotations) =>
                Given(scans[t].annotations.rescan)
    BY DEF PageInv, ScansInv
  <2>2. CASE t # s \/ ~ok
    <3>1. scans'[t] = scans[t]
      BY <1>4, <2>2
    <3> QED
      BY <2>1, <3>1
  <2>3. CASE t = s /\ ok
    <3> HIDE DEF s, ok
    <3> QED
      BY <1>2, <1>5, <2>1, <2>3
  <2> QED
    BY <2>2, <2>3
<1> HIDE DEF ok
<1>7. ASSUME NEW q \in requests'
      PROVE  \/ q \in requests /\ q # r
             \/ q = answered /\ r.live
  BY <1>1
<1>8. ASSUME NEW q \in requests, Guarded(q) PROVE Guarded(q)'
  <2>1. q.scan \in Scans /\ scans[q.scan].rv \in Nat
    BY DEF PageInv, ScansInv
  <2>2. /\ scans'[q.scan].rv \in Nat /\ scans[q.scan].rv <= scans'[q.scan].rv
        /\ scans'[q.scan].rv = scans[q.scan].rv => scans'[q.scan] = scans[q.scan]
    BY <1>6, <2>1
  <2> QED
    <3>1. CASE q.patch = Page!rescanPatch(TRUE, q.token, 0)
      BY <3>1 DEF Guarded
    <3>2. ASSUME NEW rv \in Nat \ {0}, q.patch = Page!rescanPatch(FALSE, q.token, rv),
                 rv <= scans[q.scan].rv,
                 rv = scans[q.scan].rv => scans[q.scan].annotations = Absent
          PROVE  Guarded(q)'
      <4>1. /\ rv <= scans'[q.scan].rv
            /\ rv = scans'[q.scan].rv => scans'[q.scan].annotations = Absent
        BY <2>1, <2>2, <3>2
      <4> QED
        BY <3>2, <4>1 DEF Guarded
    <3> QED
      BY <1>8, <3>1, <3>2 DEF Guarded
<1>9. Guarded(r)' => Guarded(answered)'
  BY <1>3 DEF Guarded
<1>10. \A t : Given(t)' <=> Given(t)
  BY <1>1 DEF Given
<1>11. ASSUME NEW q \in requests'
       PROVE  /\ DOMAIN q = {"scan", "token", "live", "served", "patch"}
              /\ q.scan \in Scans /\ Given(q.token) /\ Guarded(q)'
              /\ (q.served = "no" /\ scans'[q.scan].annotations # Absent
                  /\ "rescan" \in DOMAIN scans'[q.scan].annotations) =>
                    scans'[q.scan].annotations.rescan # q.token
  <2>1. CASE q \in requests /\ q # r
    <3>1. /\ DOMAIN q = {"scan", "token", "live", "served", "patch"}
          /\ q.scan \in Scans /\ Given(q.token) /\ Guarded(q)'
      BY <1>8, <2>1 DEF PageInv, ScansInv
    <3>2. q.scan = s => q.token # r.token
      BY <2>1 DEF PageInv, ScansInv
    <3>3. CASE q.scan # s \/ ~ok
      <4>1. scans'[q.scan] = scans[q.scan]
        BY <1>4, <3>1, <3>3
      <4> QED
        BY <2>1, <3>1, <4>1 DEF PageInv, ScansInv
    <3>4. CASE q.scan = s /\ ok
      BY <1>5, <3>1, <3>2, <3>4
    <3> QED
      BY <3>3, <3>4
  <2>2. CASE q = answered
    <3>1. Guarded(q)'
      BY <1>2, <1>8, <1>9, <2>2
    <3> QED
      BY <1>2, <1>3, <2>2, <3>1
  <2> QED
    BY <1>7, <2>1, <2>2
<1>12. ASSUME NEW p \in requests', NEW q \in requests', p.scan = q.scan, p.token = q.token
       PROVE  p = q
  <2>1. \A x \in requests : x.scan = s /\ x.token = r.token => x = r
    BY DEF PageInv, ScansInv
  <2>2. CASE p \in requests /\ q \in requests
    BY <1>12, <2>2 DEF PageInv, ScansInv
  <2> QED
    BY <1>3, <1>7, <1>12, <2>1, <2>2
<1>13. ScansInv'
  <2>1. \A t \in Scans :
          /\ seen[t].rv <= scans'[t].rv /\ seen[t].rv \in Nat \ {0}
          /\ seen[t].rv = scans'[t].rv => seen[t].annotations = scans'[t].annotations
    <3> SUFFICES ASSUME NEW t \in Scans
                 PROVE  /\ seen[t].rv <= scans'[t].rv /\ seen[t].rv \in Nat \ {0}
                        /\ seen[t].rv = scans'[t].rv => seen[t].annotations = scans'[t].annotations
      OBVIOUS
    <3>1. /\ seen[t].rv <= scans[t].rv /\ seen[t].rv \in Nat \ {0} /\ scans[t].rv \in Nat
          /\ seen[t].rv = scans[t].rv => seen[t].annotations = scans[t].annotations
      BY DEF PageInv, ScansInv
    <3>2. /\ scans'[t].rv \in Nat /\ scans[t].rv <= scans'[t].rv
          /\ scans'[t].rv = scans[t].rv => scans'[t] = scans[t]
      BY <1>6
    <3> QED
      BY <3>1, <3>2
  <2>2. DOMAIN seen = Scans /\ clock \in Nat
    BY DEF PageInv, ScansInv
  <2> QED
    BY <1>1, <1>4, <1>6, <1>10, <1>11, <1>12, <2>1, <2>2 DEF ScansInv
<1>14. ClickInv'
  <2>1. \A q \in requests' : /\ q.live => q.token = <<clock, ui.seq>>
                             /\ q.served = "landed" => q.token \in stamped'
    <3> SUFFICES ASSUME NEW q \in requests'
                 PROVE  /\ q.live => q.token = <<clock, ui.seq>>
                        /\ q.served = "landed" => q.token \in stamped'
      OBVIOUS
    <3>1. /\ r.live => r.token = <<clock, ui.seq>>
          /\ \A p \in requests : /\ p.live => p.token = <<clock, ui.seq>>
                                 /\ p.served = "landed" => p.token \in stamped
      BY DEF PageInv, ClickInv
    <3> QED
      BY <1>1, <1>3, <1>7, <3>1
  <2>2. (\E q \in requests' : q.live) <=> (\E q \in requests : q.live)
    BY <1>1, <1>3, <1>7
  <2>3. stamped \subseteq stamped'
    BY <1>1
  <2> QED
    BY <1>1, <2>1, <2>2, <2>3 DEF PageInv, ClickInv
<1> QED
  BY <1>13, <1>14 DEF PageInv

\* The answer to a patch arrives, or is lost.
LEMMA AnswerKeeps ==
    ASSUME PageInv, NEW r \in requests, NEW fulfilled \in BOOLEAN,
           Page!PatchAnswered(r, fulfilled)
    PROVE  PageInv'
<1> DEFINE counted == IF fulfilled THEN [ui EXCEPT !.ok = @ + 1] ELSE [ui EXCEPT !.bad = @ + 1]
<1>0. PICK late : late = [r EXCEPT !.live = FALSE]
  OBVIOUS
<1>1. /\ r.live /\ (fulfilled => r.served = "landed")
      /\ requests' = (requests \ {r}) \union (IF r.served = "no" THEN {late} ELSE {})
      /\ ui' = IF \E q \in requests' : q.live THEN counted ELSE Page!Finish(counted)
      /\ UNCHANGED <<scans, seen, stamped, clock>>
  BY <1>0 DEF Page!PatchAnswered, Page!Replace, Page!cluster
<1>2. /\ DOMAIN r = {"scan", "token", "live", "served", "patch"}
      /\ r.scan \in Scans /\ Given(r.token) /\ Guarded(r)
  BY DEF PageInv, ScansInv
<1>3. /\ DOMAIN late = {"scan", "token", "live", "served", "patch"}
      /\ late.scan = r.scan /\ late.token = r.token /\ late.live = FALSE
      /\ late.patch = r.patch /\ late.served = r.served
  BY <1>0, <1>2
<1>4. /\ DOMAIN counted = DOMAIN Page!Fresh /\ counted.seq = ui.seq
      /\ counted.ok \in Nat /\ counted.fan = ui.fan /\ counted.started = ui.started
      /\ counted.ok > 0 => <<clock, ui.seq>> \in stamped
  <2>1. /\ DOMAIN ui = DOMAIN Page!Fresh /\ ui.ok \in Nat
        /\ ui.ok > 0 => <<clock, ui.seq>> \in stamped
    BY DEF PageInv, ClickInv
  <2>2. CASE fulfilled
    <3>1. <<clock, ui.seq>> \in stamped
      BY <1>1, <2>2 DEF PageInv, ClickInv
    <3> QED
      BY <2>1, <2>2, <3>1 DEF Page!Fresh
  <2>3. CASE ~fulfilled
    BY <2>1, <2>3 DEF Page!Fresh
  <2> QED
    BY <2>2, <2>3
<1> HIDE DEF counted
<1>5. /\ DOMAIN ui' = DOMAIN Page!Fresh /\ ui'.seq = ui.seq /\ ui'.ok = counted.ok
      /\ ui'.fan <=> \E q \in requests' : q.live
      /\ ui'.started => ui.started \/ counted.ok > 0
  <2>1. ui.fan
    BY <1>1 DEF PageInv, ClickInv
  <2>2. CASE \E q \in requests' : q.live
    BY <1>1, <1>4, <2>1, <2>2
  <2>3. CASE ~\E q \in requests' : q.live
    <3>1. ui' = [counted EXCEPT !.fan = FALSE, !.started = (@ \/ counted.ok > 0),
                                !.error = (@ \/ counted.bad > 0)]
      BY <1>1, <2>3 DEF Page!Finish
    <3>2. "fan" \in DOMAIN counted /\ "started" \in DOMAIN counted /\ "error" \in DOMAIN counted
      BY <1>4 DEF Page!Fresh
    <3>3. ui'.fan = FALSE /\ ui'.started = (counted.started \/ counted.ok > 0)
      BY <3>1, <3>2
    <3>4. DOMAIN ui' = DOMAIN counted /\ ui'.seq = counted.seq /\ ui'.ok = counted.ok
      BY <3>1
    <3> QED
      BY <1>4, <2>3, <3>3, <3>4
  <2> QED
    BY <2>2, <2>3
<1>6. ASSUME NEW q \in requests' PROVE (q \in requests /\ q # r) \/ q = late
  BY <1>1
<1>7. \A t : Given(t)' <=> Given(t)
  BY <1>1, <1>5 DEF Given
<1>8. \A q : Guarded(q)' <=> Guarded(q)
  BY <1>1 DEF Guarded
<1>9. ASSUME NEW q \in requests'
      PROVE  /\ DOMAIN q = {"scan", "token", "live", "served", "patch"}
             /\ q.scan \in Scans /\ Given(q.token) /\ Guarded(q)
             /\ (q.served = "no" /\ scans[q.scan].annotations # Absent
                 /\ "rescan" \in DOMAIN scans[q.scan].annotations) =>
                    scans[q.scan].annotations.rescan # q.token
             /\ q.live => q.token = <<clock, ui.seq>>
             /\ q.served = "landed" => q.token \in stamped
  <2>1. Guarded(r) => Guarded(late)
    BY <1>3 DEF Guarded
  <2> QED
    BY <1>2, <1>3, <1>6, <2>1 DEF PageInv, ScansInv, ClickInv
<1>10. ASSUME NEW p \in requests', NEW q \in requests', p.scan = q.scan, p.token = q.token
       PROVE  p = q
  <2>1. \A x, y \in requests : x.scan = y.scan /\ x.token = y.token => x = y
    BY DEF PageInv, ScansInv
  <2> QED
    BY <1>3, <1>6, <1>10, <2>1
<1>11. ScansInv'
  BY <1>1, <1>7, <1>8, <1>9, <1>10 DEF PageInv, ScansInv
<1>12. ClickInv'
  BY <1>1, <1>4, <1>5, <1>9 DEF PageInv, ClickInv
<1> QED
  BY <1>11, <1>12 DEF PageInv

\* A reload forgets the clicks; patches that have left may still be served.
LEMMA ReloadKeeps ==
    ASSUME PageInv, Page!Reload
    PROVE  PageInv'
<1>1. /\ ui' = Page!Fresh /\ clock' = clock + 1
      /\ requests' = {[r EXCEPT !.live = FALSE] : r \in {q \in requests : q.served = "no"}}
      /\ UNCHANGED <<scans, seen, stamped>>
  BY DEF Page!Reload
<1>2. ui'.seq = 0 /\ ui'.ok = 0 /\ ~ui'.fan /\ ~ui'.started /\ DOMAIN ui' = DOMAIN Page!Fresh
  BY <1>1 DEF Page!Fresh
<1>3. clock \in Nat
  BY DEF PageInv, ScansInv
<1>4. ASSUME NEW t, Given(t) PROVE Given(t)'
  <2>1. t \in Nat \X Nat /\ t[1] \in Nat /\ t[1] <= clock
    BY <1>3, <1>4 DEF Given
  <2> QED
    BY <1>1, <1>3, <2>1 DEF Given
<1>5. ASSUME NEW q \in requests'
      PROVE  \E r \in requests :
                /\ DOMAIN q = DOMAIN r /\ q.scan = r.scan /\ q.token = r.token
                /\ q.patch = r.patch /\ ~q.live /\ q.served = "no" /\ r.served = "no"
                /\ q = [r EXCEPT !.live = FALSE]
  <2>1. PICK r \in requests : r.served = "no" /\ q = [r EXCEPT !.live = FALSE]
    BY <1>1
  <2>2. DOMAIN r = {"scan", "token", "live", "served", "patch"}
    BY DEF PageInv, ScansInv
  <2> QED
    BY <2>1, <2>2
<1>6. ASSUME NEW q \in requests'
      PROVE  /\ DOMAIN q = {"scan", "token", "live", "served", "patch"}
             /\ q.scan \in Scans /\ Given(q.token)' /\ Guarded(q)'
             /\ (scans[q.scan].annotations # Absent
                 /\ "rescan" \in DOMAIN scans[q.scan].annotations) =>
                    scans[q.scan].annotations.rescan # q.token
             /\ ~q.live /\ q.served = "no"
  <2>1. PICK r \in requests :
                /\ DOMAIN q = DOMAIN r /\ q.scan = r.scan /\ q.token = r.token
                /\ q.patch = r.patch /\ ~q.live /\ q.served = "no" /\ r.served = "no"
    BY <1>5
  <2>2. /\ DOMAIN r = {"scan", "token", "live", "served", "patch"}
        /\ r.scan \in Scans /\ Given(r.token) /\ Guarded(r)
        /\ (scans[r.scan].annotations # Absent
            /\ "rescan" \in DOMAIN scans[r.scan].annotations) =>
               scans[r.scan].annotations.rescan # r.token
    BY <2>1 DEF PageInv, ScansInv
  <2>3. Guarded(q)'
    BY <1>1, <2>1, <2>2 DEF Guarded
  <2> QED
    BY <1>4, <2>1, <2>2, <2>3
<1>7. ASSUME NEW p \in requests', NEW q \in requests', p.scan = q.scan, p.token = q.token
      PROVE  p = q
  <2>1. PICK r \in requests : q.scan = r.scan /\ q.token = r.token /\ q = [r EXCEPT !.live = FALSE]
    BY <1>5
  <2>2. PICK x \in requests : p.scan = x.scan /\ p.token = x.token /\ p = [x EXCEPT !.live = FALSE]
    BY <1>5
  <2>3. r = x
    BY <1>7, <2>1, <2>2 DEF PageInv, ScansInv
  <2> QED
    BY <2>1, <2>2, <2>3
<1>8. ScansInv'
  <2>1. /\ DOMAIN scans = Scans /\ DOMAIN seen = Scans
        /\ \A s \in Scans :
            /\ DOMAIN scans[s] = {"there", "rv", "annotations"}
            /\ scans[s].rv \in Nat \ {0} /\ seen[s].rv \in Nat \ {0}
            /\ seen[s].rv <= scans[s].rv
            /\ seen[s].rv = scans[s].rv => seen[s].annotations = scans[s].annotations
            /\ (scans[s].annotations # Absent /\ "rescan" \in DOMAIN scans[s].annotations) =>
                    Given(scans[s].annotations.rescan)'
    BY <1>1, <1>4 DEF PageInv, ScansInv
  <2>2. clock' \in Nat
    BY <1>1, <1>3
  <2> QED
    BY <1>1, <1>6, <1>7, <2>1, <2>2 DEF ScansInv
<1>9. ClickInv'
  <2>1. ~\E q \in requests' : q.live \/ q.served = "landed"
    BY <1>6
  <2> QED
    BY <1>2, <2>1 DEF ClickInv
<1> QED
  BY <1>8, <1>9 DEF PageInv

\* Others annotate a scan, or take its annotations off.
LEMMA OthersKeep ==
    ASSUME PageInv, Page!OthersAnnotate
    PROVE  PageInv'
<1>1. UNCHANGED <<seen, requests, stamped, clock, ui>>
  BY DEF Page!OthersAnnotate
<1>2. PICK s \in Scans :
        \/ scans' = [scans EXCEPT ![s].rv = @ + 1, ![s].annotations =
                        IF @ = Absent THEN [other |-> "theirs"]
                        ELSE Page!WithKey(@, "other", "theirs")]
        \/ /\ scans[s].annotations # Absent
           /\ "rescan" \in DOMAIN scans[s].annotations
           /\ scans' = [scans EXCEPT ![s].rv = @ + 1, ![s].annotations =
                           IF DOMAIN @ = {"rescan"} THEN Absent
                           ELSE [k \in DOMAIN @ \ {"rescan"} |-> @[k]]]
  BY DEF Page!OthersAnnotate
<1> DEFINE old == scans[s].annotations
<1>3. DOMAIN scans = Scans /\ DOMAIN scans[s] = {"there", "rv", "annotations"}
      /\ scans[s].rv \in Nat \ {0}
  BY DEF PageInv, ScansInv
<1>4. /\ DOMAIN scans' = Scans /\ \A t \in Scans : t # s => scans'[t] = scans[t]
      /\ DOMAIN scans'[s] = {"there", "rv", "annotations"}
      /\ scans'[s].rv = scans[s].rv + 1
      /\ \/ scans'[s].annotations = Absent
         \/ old = Absent /\ scans'[s].annotations = [other |-> "theirs"]
         \/ old # Absent /\ scans'[s].annotations = Page!WithKey(old, "other", "theirs")
         \/ scans'[s].annotations = [k \in DOMAIN old \ {"rescan"} |-> old[k]]
  BY <1>2, <1>3
<1>5. ASSUME scans'[s].annotations # Absent, "rescan" \in DOMAIN scans'[s].annotations
      PROVE  /\ old # Absent /\ "rescan" \in DOMAIN old
             /\ scans'[s].annotations.rescan = old.rescan
  <2>1. "rescan" \notin DOMAIN [other |-> "theirs"]
    OBVIOUS
  <2>2. scans'[s].annotations = Page!WithKey(old, "other", "theirs") /\ old # Absent
    BY <1>4, <1>5, <2>1
  <2> QED
    BY <1>5, <2>2 DEF Page!WithKey
<1>6. ASSUME NEW t \in Scans
      PROVE  /\ DOMAIN scans'[t] = {"there", "rv", "annotations"}
             /\ scans'[t].rv \in Nat \ {0} /\ scans[t].rv \in Nat /\ scans[t].rv <= scans'[t].rv
             /\ scans'[t].rv = scans[t].rv => scans'[t] = scans[t]
             /\ (scans'[t].annotations # Absent /\ "rescan" \in DOMAIN scans'[t].annotations) =>
                    /\ scans[t].annotations # Absent /\ "rescan" \in DOMAIN scans[t].annotations
                    /\ scans'[t].annotations.rescan = scans[t].annotations.rescan
  <2>1. DOMAIN scans[t] = {"there", "rv", "annotations"} /\ scans[t].rv \in Nat \ {0}
    BY DEF PageInv, ScansInv
  <2>2. CASE t # s
    BY <1>4, <2>1, <2>2
  <2>3. CASE t = s
    BY <1>3, <1>4, <1>5, <2>1, <2>3
  <2> QED
    BY <2>2, <2>3
<1>7. \A t : Given(t)' <=> Given(t)
  BY <1>1 DEF Given
<1>8. ASSUME NEW q \in requests PROVE Guarded(q)'
  <2>1. q.scan \in Scans /\ Guarded(q)
    BY DEF PageInv, ScansInv
  <2>2. /\ scans'[q.scan].rv \in Nat /\ scans[q.scan].rv \in Nat /\ scans[q.scan].rv <= scans'[q.scan].rv
        /\ scans'[q.scan].rv = scans[q.scan].rv => scans'[q.scan] = scans[q.scan]
    BY <1>6, <2>1
  <2>3. CASE q.patch = Page!rescanPatch(TRUE, q.token, 0)
    BY <2>3 DEF Guarded
  <2>4. ASSUME NEW rv \in Nat \ {0}, q.patch = Page!rescanPatch(FALSE, q.token, rv),
               rv <= scans[q.scan].rv,
               rv = scans[q.scan].rv => scans[q.scan].annotations = Absent
        PROVE  Guarded(q)'
    <3>1. /\ rv <= scans'[q.scan].rv
          /\ rv = scans'[q.scan].rv => scans'[q.scan].annotations = Absent
      BY <2>2, <2>4
    <3> QED
      BY <2>4, <3>1 DEF Guarded
  <2> QED
    BY <2>1, <2>3, <2>4 DEF Guarded
<1>9. ASSUME NEW t \in Scans
      PROVE  /\ seen[t].rv \in Nat \ {0} /\ seen[t].rv <= scans'[t].rv
             /\ seen[t].rv = scans'[t].rv => seen[t].annotations = scans'[t].annotations
             /\ (scans'[t].annotations # Absent /\ "rescan" \in DOMAIN scans'[t].annotations) =>
                    Given(scans'[t].annotations.rescan)
  <2>1. /\ seen[t].rv <= scans[t].rv /\ seen[t].rv \in Nat \ {0}
        /\ seen[t].rv = scans[t].rv => seen[t].annotations = scans[t].annotations
        /\ (scans[t].annotations # Absent /\ "rescan" \in DOMAIN scans[t].annotations) =>
                    Given(scans[t].annotations.rescan)
    BY DEF PageInv, ScansInv
  <2> QED
    BY <1>6, <2>1
<1>10. ASSUME NEW q \in requests, q.served = "no", scans'[q.scan].annotations # Absent,
              "rescan" \in DOMAIN scans'[q.scan].annotations
       PROVE  scans'[q.scan].annotations.rescan # q.token
  <2>1. q.scan \in Scans
    BY DEF PageInv, ScansInv
  <2> QED
    BY <1>6, <1>10, <2>1 DEF PageInv, ScansInv
<1>11. ScansInv'
  <2>1. /\ DOMAIN seen = Scans /\ clock \in Nat
        /\ \A q \in requests : /\ DOMAIN q = {"scan", "token", "live", "served", "patch"}
                               /\ q.scan \in Scans /\ Given(q.token)
        /\ \A p, q \in requests : (p.scan = q.scan /\ p.token = q.token) => p = q
    BY DEF PageInv, ScansInv
  <2> QED
    BY <1>1, <1>4, <1>6, <1>7, <1>8, <1>9, <1>10, <2>1 DEF ScansInv
<1>12. ClickInv'
  BY <1>1 DEF PageInv, ClickInv
<1> QED
  BY <1>11, <1>12 DEF PageInv

\* The watch of the scans delivers what is stored.
LEMMA DeliveryKeeps ==
    ASSUME PageInv, Page!ListDelivered
    PROVE  PageInv'
<1>1. /\ UNCHANGED <<scans, requests, stamped, clock, ui>>
      /\ seen' = scans \/ seen' = seen
  BY DEF Page!ListDelivered, Page!objects
<1>2. CASE seen' = seen
  BY <1>1, <1>2, PageUntouched
<1>3. CASE seen' = scans
  <2>1. ScansInv'
    <3>1. /\ \A t : Given(t)' <=> Given(t)
          /\ \A q : Guarded(q)' <=> Guarded(q)
      BY <1>1 DEF Given, Guarded
    <3>2. \A s \in Scans : scans[s].rv \in Nat \ {0} /\ scans[s].rv <= scans[s].rv
      BY DEF PageInv, ScansInv
    <3> QED
      BY <1>1, <1>3, <3>1, <3>2 DEF PageInv, ScansInv
  <2>2. ClickInv'
    BY <1>1 DEF PageInv, ClickInv
  <2> QED
    BY <2>1, <2>2 DEF PageInv
<1> QED
  BY <1>1, <1>2, <1>3

\* Each step of the page keeps it.
LEMMA PageStep ==
    ASSUME PageInv, Page!Next \/ UNCHANGED ofPage
    PROVE  PageInv'
<1>0. DOMAIN ui = {"fan", "seq", "ok", "bad", "started", "error", "exporting", "notice",
                   "creating", "created", "createError"}
  BY DEF PageInv, ClickInv, Page!Fresh
<1>1. CASE UNCHANGED ofPage
  BY <1>1, PageUntouched DEF ofPage
<1>2. CASE Page!rescan
  BY <1>2, RescanKeeps
<1>3. ASSUME NEW r \in requests, Page!ServePatch(r) PROVE PageInv'
  BY <1>3, ServeKeeps
<1>4. ASSUME NEW r \in requests, NEW fulfilled \in BOOLEAN, Page!PatchAnswered(r, fulfilled)
      PROVE PageInv'
  BY <1>4, AnswerKeeps
<1>5. CASE Page!exportReport
  BY <1>0, <1>5, PageUntouched DEF Page!exportReport, Page!cluster
<1>6. CASE Page!Exported
  BY <1>0, <1>6, PageUntouched DEF Page!Exported, Page!cluster
<1>7. CASE Page!AutoDismiss
  <2>1. UNCHANGED <<scans, seen, requests, stamped, clock>>
    BY <1>7 DEF Page!AutoDismiss, Page!cluster
  <2>2. ui' = [ui EXCEPT !.started = FALSE] \/ ui' = [ui EXCEPT !.notice = "none"]
    BY <1>7 DEF Page!AutoDismiss
  <2> QED
    BY <1>0, <2>1, <2>2, PageUntouched
<1>8. CASE Page!CloseAlert
  <2>1. UNCHANGED <<scans, seen, requests, stamped, clock>>
    BY <1>8 DEF Page!CloseAlert, Page!cluster
  <2>2. \/ ui' = [ui EXCEPT !.started = FALSE, !.error = FALSE]
        \/ ui' = [ui EXCEPT !.notice = "none"]
    BY <1>8 DEF Page!CloseAlert
  <2> QED
    BY <1>0, <2>1, <2>2, PageUntouched
<1>9. CASE Page!create
  <2>1. UNCHANGED <<scans, seen, requests, stamped, clock>>
    BY <1>9 DEF Page!create, Page!cluster
  <2>2. \/ ui' = [ui EXCEPT !.creating = TRUE, !.createError = FALSE, !.created = FALSE]
        \/ ui' = [ui EXCEPT !.createError = TRUE]
    BY <1>9 DEF Page!create
  <2> QED
    BY <1>0, <2>1, <2>2, PageUntouched
<1>10. CASE Page!ServeCreate
  BY <1>10, PageUntouched DEF Page!ServeCreate
<1>11. CASE Page!CreateAnswered
  <2>1. UNCHANGED <<scans, seen, requests, stamped, clock>>
    BY <1>11 DEF Page!CreateAnswered, Page!cluster
  <2>2. PICK outcome : ui' = [ui EXCEPT !.creating = FALSE, !.created = (outcome # "lost"),
                                        !.createError = (outcome = "lost")]
    BY <1>11 DEF Page!CreateAnswered
  <2> QED
    BY <1>0, <2>1, <2>2, PageUntouched
<1>12. CASE Page!BaselineDelivered
  <2>1. UNCHANGED <<scans, seen, requests, stamped, clock>>
    BY <1>12 DEF Page!BaselineDelivered, Page!objects
  <2>2. \/ ui' = ui
        \/ ui' = [ui EXCEPT !.creating = FALSE, !.created = FALSE, !.createError = FALSE]
    BY <1>12 DEF Page!BaselineDelivered, Page!LeaveEmpty
  <2> QED
    BY <1>0, <2>1, <2>2, PageUntouched
<1>13. CASE Page!ListDelivered
  BY <1>13, DeliveryKeeps
<1>14. CASE Page!OthersConfigure
  BY <1>14, PageUntouched DEF Page!OthersConfigure
<1>15. CASE Page!OthersAnnotate
  BY <1>15, OthersKeep
<1>16. CASE Page!Review
  BY <1>16, PageUntouched DEF Page!Review
<1>17. CASE Page!Reload
  BY <1>17, ReloadKeeps
<1> QED
  BY <1>1, <1>2, <1>3, <1>4, <1>5, <1>6, <1>7, <1>8, <1>9, <1>10, <1>11, <1>12, <1>13,
     <1>14, <1>15, <1>16, <1>17 DEF Page!Next

\* A patch that lands takes no other annotation off, and its token is one that the
\* scan did not have.
LEMMA PageRescans == PageInv => Page!KeepsAnnotations /\ Page!AsksAnew
<1> SUFFICES ASSUME PageInv, NEW r \in requests, Page!ServePatch(r)
             PROVE  /\ \A s \in Scans : scans[s].annotations # Absent =>
                            \A k \in DOMAIN scans[s].annotations \ {"rescan"} :
                                k \in DOMAIN scans'[s].annotations
                    /\ scans' # scans => scans'[r.scan].annotations # scans[r.scan].annotations
  BY DEF Page!KeepsAnnotations, Page!AsksAnew
<1> DEFINE ok == Page!Accepts(scans[r.scan], r.patch)
           old == scans[r.scan].annotations
<1>1. /\ r.served = "no"
      /\ scans' = IF ok THEN [scans EXCEPT ![r.scan] = Annotated(r)] ELSE scans
  BY DEF Page!ServePatch, Annotated
<1>2. DOMAIN scans = Scans /\ r.scan \in Scans /\ r.token \in Nat \X Nat
  BY DEF PageInv, ScansInv, Given
<1>3. CASE ~ok
  BY <1>1, <1>3
<1>4. CASE ok
  <2>1. /\ scans'[r.scan] = Annotated(r)
        /\ \A s \in Scans : s # r.scan => scans'[s] = scans[s]
    BY <1>1, <1>2, <1>4
  <2>2. \/ old = Absent /\ Annotated(r).annotations = [rescan |-> r.token]
        \/ old # Absent /\ Annotated(r).annotations = Page!WithKey(old, "rescan", r.token)
    BY <1>1, <1>4, PatchLands
  <2>3. CASE old = Absent
    <3>1. [rescan |-> r.token] \in [{"rescan"} -> Nat \X Nat]
      BY <1>2
    <3>2. Annotated(r).annotations # old
      BY <2>2, <2>3, <3>1, MarkersAssumption
    <3> QED
      BY <2>1, <2>3, <3>2
  <2>4. CASE old # Absent
    <3>1. /\ \A k \in DOMAIN old : k \in DOMAIN Annotated(r).annotations
          /\ "rescan" \in DOMAIN Annotated(r).annotations
          /\ Annotated(r).annotations["rescan"] = r.token
      BY <2>2, <2>4 DEF Page!WithKey
    <3>2. "rescan" \in DOMAIN old => old["rescan"] # r.token
      BY <1>1, <2>4 DEF PageInv, ScansInv
    <3>3. Annotated(r).annotations # old
      BY <3>1, <3>2
    <3> QED
      BY <2>1, <3>1, <3>3
  <2> QED
    BY <2>3, <2>4
<1> QED
  BY <1>3, <1>4

\* Every rescan that lands is a new one for the Compliance Operator and takes no other
\* annotation off a scan, after any reloads, retries, late patches and other writers.
THEOREM RescansAreNew == Spec => RescansLand
<1> DEFINE Inv == route = "page" => PageInv
<1>1. Init => Inv
  BY PageStart DEF Init
<1>2. Inv /\ [Next]_vars => Inv'
  BY OnePart, PageStep
<1>3. Inv /\ [Next]_vars => [route = "page" => Page!KeepsAnnotations /\ Page!AsksAnew]_vars
  BY PageRescans
<1> QED
  BY <1>1, <1>2, <1>3, PTL DEF Spec, RescansLand

------------------------------------------------------------------------------
(* the clock of the waivers *)

\* The timer is set for the next deadline and its padding, or earlier; without one
\* there is none to come.
LEMMA TimerIsSet ==
    ASSUME NEW waived \in [Waived -> Expiries \union {Never, Unreadable, Absent}],
           NEW from \in Nat \ {0}
    PROVE  LET deadlines == Clock!futureWaiverDeadlineMs(waived, from)
               set == Clock!Armed(waived, from)
           IN  \/ deadlines = {} /\ set = 0
               \/ /\ set \in Nat /\ set > from
                  /\ \E next \in deadlines : /\ next \in Nat /\ next > from
                                             /\ \A d \in deadlines : next <= d
                                             /\ set <= next + TICK_PAD_MS
<1> DEFINE deadlines == Clock!futureWaiverDeadlineMs(waived, from)
           delay == Clock!soonestDeadlineDelayMs(from, deadlines)
<1> USE TimeAssumption
<1>1. \A d \in deadlines : d \in Nat /\ d > from
  <2>1. \A n \in Waived : Clock!futureExpiry(waived[n], from) => waived[n] \in Int
    BY DEF Clock!futureExpiry
  <2>2. \A d \in deadlines : d \in Int /\ d > from
    BY <2>1 DEF Clock!futureWaiverDeadlineMs
  <2> HIDE DEF deadlines
  <2> QED
    BY <2>2
<1> HIDE DEF deadlines
<1>2. CASE deadlines = {}
  <2>1. delay = 0
    BY <1>2 DEF Clock!soonestDeadlineDelayMs
  <2> HIDE DEF delay
  <2> QED
    BY <1>2, <2>1 DEF Clock!Armed, delay, deadlines
<1>3. CASE deadlines # {}
  <2> DEFINE next == Clock!Min(deadlines)
  <2>1. next \in deadlines /\ \A d \in deadlines : next <= d
    <3>1. deadlines \in SUBSET Nat
      BY <1>1
    <3>2. \E x \in deadlines : \A y \in deadlines : x <= y
      BY <1>3, <3>1, MinIsIn
    <3> QED
      BY <3>2 DEF Clock!Min
  <2>2. next \in Nat /\ next > from
    BY <1>1, <2>1
  <2>3. delay = IF next - from + TICK_PAD_MS > MAX_TIMEOUT_MS THEN MAX_TIMEOUT_MS
                ELSE next - from + TICK_PAD_MS
    BY <1>3 DEF Clock!soonestDeadlineDelayMs
  <2> HIDE DEF delay, next
  <2>4. delay \in Nat /\ delay > 0 /\ delay <= next - from + TICK_PAD_MS
    BY <2>2, <2>3
  <2>5. Clock!Armed(waived, from) = from + delay
    BY <2>4 DEF Clock!Armed, delay, deadlines
  <2>6. /\ Clock!Armed(waived, from) \in Nat /\ Clock!Armed(waived, from) > from
        /\ Clock!Armed(waived, from) <= next + TICK_PAD_MS
    BY <2>2, <2>4, <2>5
  <2> QED
    BY <2>1, <2>2, <2>6 DEF deadlines
<1> QED
  BY <1>2, <1>3

\* A timer covers every deadline ahead of the instant it was set.
LEMMA ArmedCovers ==
    ASSUME NEW waived \in [Waived -> Expiries \union {Never, Unreadable, Absent}],
           NEW from \in Nat \ {0}
    PROVE  LET set == Clock!Armed(waived, from)
           IN  /\ set \in Nat
               /\ set # 0 => set > from
               /\ \A d \in Clock!Deadlines(waived) :
                    d > from => set # 0 /\ set <= d + TICK_PAD_MS
<1> USE TimeAssumption
<1> DEFINE deadlines == Clock!futureWaiverDeadlineMs(waived, from)
           set == Clock!Armed(waived, from)
<1>1. ASSUME NEW d \in Clock!Deadlines(waived), d > from
      PROVE  d \in deadlines /\ d \in Int
  <2>1. PICK n \in Waived : /\ waived[n] \in Expiries
                            /\ d = waived[n] \/ d = waived[n] - Soon
    BY DEF Clock!Deadlines
  <2>2. waived[n] \in Int /\ d \in Int /\ waived[n] > from
    <3> DEFINE w == waived[n]
    <3>1. w \in Int /\ (d = w \/ d = w - Soon)
      BY <2>1
    <3> HIDE DEF w
    <3>2. d \in Int /\ w > from
      BY <1>1, <3>1
    <3> QED
      BY <3>1, <3>2 DEF w
  <2>3. Clock!futureExpiry(waived[n], from)
    BY <2>1, <2>2 DEF Clock!futureExpiry
  <2> QED
    BY <1>1, <2>1, <2>2, <2>3 DEF Clock!futureWaiverDeadlineMs
<1>2. \/ deadlines = {} /\ set = 0
      \/ /\ set \in Nat /\ set > from
         /\ \E next \in deadlines : /\ next \in Nat /\ next > from
                                    /\ \A d \in deadlines : next <= d
                                    /\ set <= next + TICK_PAD_MS
  BY TimerIsSet
<1> HIDE DEF deadlines, set
<1>3. ASSUME NEW d \in Clock!Deadlines(waived), d > from
      PROVE  set # 0 /\ set <= d + TICK_PAD_MS
  <2>1. d \in deadlines /\ d \in Int
    BY <1>1, <1>3
  <2>2. PICK next \in deadlines : /\ next \in Nat /\ next > from
                                  /\ \A e \in deadlines : next <= e
                                  /\ set \in Nat /\ set > from
                                  /\ set <= next + TICK_PAD_MS
    BY <1>2, <2>1
  <2>3. next <= d
    BY <2>1, <2>2
  <2> QED
    BY <2>1, <2>2, <2>3
<1>4. set \in Nat /\ (set # 0 => set > from)
  BY <1>2
<1> QED
  BY <1>3, <1>4 DEF set

\* what an effect that has run leaves: a timer for every deadline it saw ahead
Watched ==
    /\ renderedAt <= armedAt
    /\ \A d \in Clock!Deadlines(clockWaivers) :
        d > armedAt => timer # 0 /\ timer <= d + TICK_PAD_MS

\* nothing that is due is late
InTime ==
    /\ due => now <= renderedAt + MaxDrift
    /\ timer # 0 => now <= timer + MaxDrift

\* What is shown was true when the tab rendered, and once its effect has run a timer
\* covers what lies ahead.
ClockInv ==
    /\ now \in Nat \ {0} /\ timer \in Nat
    /\ renderedAt \in Nat /\ renderedAt <= now
    /\ armedAt \in Nat /\ armedAt <= now
    /\ clockWaivers \in [Waived -> Expiries \union {Never, Unreadable, Absent}]
    /\ memo = Clock!Computed(clockWaivers, renderedAt)
    /\ InTime
    /\ due \/ Watched

\* The first effect is due.
LEMMA ClockStart == Clock!Init => ClockInv
<1> SUFFICES ASSUME Clock!Init PROVE ClockInv
  OBVIOUS
<1> USE TimeAssumption
<1>1. /\ now = 1 /\ clockWaivers \in [Waived -> Expiries \union {Never, Unreadable, Absent}]
      /\ memo = Clock!Computed(clockWaivers, renderedAt) /\ timer = 0
      /\ renderedAt = now /\ armedAt = now
  BY DEF Clock!Init
<1>2. due
  BY DEF Clock!Init
<1>3. InTime
  BY <1>1 DEF InTime
<1> QED
  BY <1>1, <1>2, <1>3 DEF ClockInv

\* A render makes an effect due; the effect of the one before it has run.
LEMMA Rendering ==
    ASSUME ClockInv, now' = now,
           clockWaivers' \in [Waived -> Expiries \union {Never, Unreadable, Absent}],
           NEW left \in {0, timer}, Clock!Flushed(left), Clock!Render
    PROVE  ClockInv'
<1> USE TimeAssumption
<1>1. /\ now \in Nat \ {0} /\ timer \in Nat /\ armedAt \in Nat /\ armedAt <= now
      /\ clockWaivers \in [Waived -> Expiries \union {Never, Unreadable, Absent}]
  BY DEF ClockInv
<1>2. timer # 0 => now <= timer + MaxDrift
  BY DEF ClockInv, InTime
<1>3. /\ timer' \in Nat /\ (timer' # 0 => now <= timer' + MaxDrift)
      /\ armedAt' \in Nat /\ armedAt' <= now
  <2>1. CASE due
    <3> DEFINE set == Clock!Armed(clockWaivers, now)
    <3>1. timer' = set /\ armedAt' = now
      BY <2>1 DEF Clock!Flushed
    <3>2. set \in Nat /\ (set # 0 => set > now)
      BY <1>1, ArmedCovers
    <3> HIDE DEF set
    <3> QED
      BY <1>1, <3>1, <3>2
  <2>2. CASE ~due
    <3>1. timer' = left /\ armedAt' = armedAt
      BY <2>2 DEF Clock!Flushed
    <3> QED
      BY <1>1, <1>2, <3>1
  <2> QED
    BY <2>1, <2>2
<1>4. /\ memo' = Clock!Computed(clockWaivers', now) /\ renderedAt' = now
      /\ due'
  BY DEF Clock!Render
<1>5. now <= now + MaxDrift
  BY <1>1
<1>6. InTime'
  BY <1>3, <1>4, <1>5 DEF InTime
<1> QED
  BY <1>1, <1>3, <1>4, <1>6 DEF ClockInv

\* Time passes, an effect runs, the timer fires and the waivers change: it stays so.
LEMMA ClockStep ==
    ASSUME ClockInv, Clock!Next \/ UNCHANGED ofClock
    PROVE  ClockInv'
<1> USE TimeAssumption
<1>1. CASE UNCHANGED ofClock
  BY <1>1 DEF ofClock, ClockInv, InTime, Watched
<1>2. CASE Clock!Advance
  <2>1. /\ now' = now + 1
        /\ UNCHANGED <<clockWaivers, memo, timer, due, renderedAt, armedAt>>
        /\ timer # 0 => now < timer + MaxDrift
        /\ due => now < renderedAt + MaxDrift
    BY <1>2 DEF Clock!Advance
  <2>2. /\ now \in Nat \ {0} /\ timer \in Nat
        /\ renderedAt \in Nat /\ renderedAt <= now
        /\ armedAt \in Nat /\ armedAt <= now
    BY DEF ClockInv
  <2>3. /\ now' \in Nat \ {0} /\ renderedAt <= now' /\ armedAt <= now'
        /\ now < renderedAt + MaxDrift => now' <= renderedAt + MaxDrift
        /\ timer # 0 => now' <= timer + MaxDrift
    BY <2>1, <2>2
  <2>4. InTime'
    BY <2>1, <2>3 DEF InTime
  <2>5. Watched' <=> Watched
    BY <2>1 DEF Watched
  <2> QED
    BY <2>1, <2>2, <2>3, <2>4, <2>5 DEF ClockInv
<1>3. CASE Clock!Effect
  <2> DEFINE set == Clock!Armed(clockWaivers, now)
  <2>1. /\ timer' = set /\ armedAt' = now
        /\ UNCHANGED <<now, clockWaivers, memo, renderedAt>>
    BY <1>3 DEF Clock!Effect
  <2>2. ~due'
    BY <1>3 DEF Clock!Effect
  <2>3. /\ now \in Nat \ {0} /\ renderedAt \in Nat /\ renderedAt <= now
        /\ clockWaivers \in [Waived -> Expiries \union {Never, Unreadable, Absent}]
        /\ memo = Clock!Computed(clockWaivers, renderedAt)
    BY DEF ClockInv
  <2>4. /\ set \in Nat /\ (set # 0 => set > now)
        /\ \A d \in Clock!Deadlines(clockWaivers) :
            d > now => set # 0 /\ set <= d + TICK_PAD_MS
    BY <2>3, ArmedCovers
  <2> HIDE DEF set
  <2>5. Watched'
    BY <2>1, <2>3, <2>4 DEF Watched
  <2>6. set # 0 => now <= set + MaxDrift
    BY <2>3, <2>4
  <2>7. InTime'
    BY <2>1, <2>2, <2>6 DEF InTime
  <2>8. timer' \in Nat /\ armedAt' \in Nat /\ armedAt' <= now
    BY <2>1, <2>3, <2>4
  <2> QED
    BY <2>1, <2>3, <2>5, <2>7, <2>8 DEF ClockInv
<1>4. CASE Clock!Fire
  <2>1. now' = now /\ clockWaivers' = clockWaivers /\ Clock!Flushed(0) /\ Clock!Render
    BY <1>4 DEF Clock!Fire
  <2>2. clockWaivers' \in [Waived -> Expiries \union {Never, Unreadable, Absent}]
    BY <2>1 DEF ClockInv
  <2> QED
    BY <2>1, <2>2, Rendering
<1>5. CASE Clock!Deliver
  <2>1. PICK list \in [Waived -> Expiries \union {Never, Unreadable, Absent}] :
            /\ clockWaivers' = list /\ now' = now
            /\ IF Clock!waiversContentKey(list) = Clock!waiversContentKey(clockWaivers)
               THEN UNCHANGED <<memo, timer, due, renderedAt, armedAt>>
               ELSE Clock!Flushed(timer) /\ Clock!Render
    BY <1>5 DEF Clock!Deliver
  <2>2. CASE list = clockWaivers
    BY <1>1, <2>1, <2>2 DEF ofClock
  <2>3. CASE list # clockWaivers
    BY <2>1, <2>3, Rendering DEF Clock!waiversContentKey
  <2> QED
    BY <2>2, <2>3
<1> QED
  BY <1>1, <1>2, <1>3, <1>4, <1>5 DEF Clock!Next

\* A deadline that stays unnoticed for longer is one no effect saw ahead.
LEMMA ClockIsCurrent == ClockInv => Clock!NeverStaleLong
<1> SUFFICES ASSUME ClockInv PROVE Clock!NeverStaleLong
  OBVIOUS
<1> USE TimeAssumption
<1>1. /\ now \in Nat \ {0} /\ timer \in Nat /\ renderedAt \in Nat /\ armedAt \in Nat
      /\ memo = Clock!Computed(clockWaivers, renderedAt)
      /\ clockWaivers \in [Waived -> Expiries \union {Never, Unreadable, Absent}]
  BY DEF ClockInv
<1>2. ASSUME NEW d \in Clock!Deadlines(clockWaivers), renderedAt < d,
             d + TICK_PAD_MS + MaxDrift < now
      PROVE  d <= armedAt
  <2>1. d \in Int
    <3>1. \A n \in Waived : clockWaivers[n] \in Expiries => clockWaivers[n] \in Int
      OBVIOUS
    <3> QED
      BY <3>1 DEF Clock!Deadlines
  <2>2. CASE due
    <3>1. now <= renderedAt + MaxDrift
      BY <2>2 DEF ClockInv, InTime
    <3> QED
      BY <1>1, <1>2, <2>1, <3>1
  <2>3. CASE ~due
    <3>1. d > armedAt => timer # 0 /\ timer <= d + TICK_PAD_MS
      BY <2>3 DEF ClockInv, Watched
    <3>2. timer # 0 => now <= timer + MaxDrift
      BY DEF ClockInv, InTime
    <3> QED
      BY <1>1, <1>2, <2>1, <3>1, <3>2
  <2> QED
    BY <2>2, <2>3
<1> QED
  BY <1>1, <1>2 DEF Clock!NeverStaleLong

------------------------------------------------------------------------------
(* content keys *)

\* characters of keys, and the first ones of parts
Letters == {"n", "u", "z", "s", ":"} \union STRING \union Chars \union Digits
Tags == {"n", "u", "z", "s"}

\* What the key of a part is made of.
LEMMA PartKey ==
    ASSUME NEW part \in Keys!Parts
    PROVE  /\ Keys!encodeKeyPart(part) \in Seq(Letters)
           /\ Len(Keys!encodeKeyPart(part)) > 0
           /\ Keys!encodeKeyPart(part)[1] \in Tags
           /\ \/ /\ part.is = "number" /\ part.chars \in Seq(Digits)
                 /\ part = [is |-> "number", chars |-> part.chars]
                 /\ Keys!encodeKeyPart(part) = <<"n">> \o part.chars
              \/ /\ part = [is |-> "undefined", chars |-> <<>>]
                 /\ Keys!encodeKeyPart(part) = <<"u">>
              \/ /\ part = [is |-> "null", chars |-> <<>>]
                 /\ Keys!encodeKeyPart(part) = <<"z">>
              \/ /\ part.is = "text" /\ part.chars \in Seq(Chars) /\ Len(part.chars) \in 0..MaxText
                 /\ part = [is |-> "text", chars |-> part.chars]
                 /\ Keys!encodeKeyPart(part)
                        = <<"s">> \o Numeral[Len(part.chars)] \o <<":">> \o part.chars
<1>1. ASSUME NEW of, NEW c \in Keys!Texts(of) PROVE c \in Seq(of) /\ Len(c) \in 0..MaxText
  <2>1. PICK k \in 0..MaxText : c \in [1..k -> of]
    BY DEF Keys!Texts
  <2>2. k \in Nat
    BY KeysAssumption
  <2>3. c \in Seq(of) /\ Len(c) = k
    BY <2>1, <2>2
  <2> QED
    BY <2>3
<1>2. {"n", "u", "z", "s", ":"} \subseteq Letters /\ Digits \subseteq Letters /\ Chars \subseteq Letters
  BY DEF Letters
<1>3. CASE \E c \in Keys!Texts(Digits) \ {<<>>} : part = [is |-> "number", chars |-> c]
  <2>1. /\ part.is = "number" /\ part.chars \in Seq(Digits)
        /\ part = [is |-> "number", chars |-> part.chars]
    BY <1>1, <1>3
  <2>2. Keys!encodeKeyPart(part) = <<"n">> \o part.chars
    BY <2>1 DEF Keys!encodeKeyPart
  <2>3. part.chars \in Seq(Letters) /\ <<"n">> \in Seq(Letters)
    BY <1>2, <2>1
  <2>4. /\ <<"n">> \o part.chars \in Seq(Letters)
        /\ Len(<<"n">> \o part.chars) > 0 /\ (<<"n">> \o part.chars)[1] = "n"
    BY <2>3
  <2> QED
    BY <2>1, <2>2, <2>4 DEF Tags
<1>4. CASE part = [is |-> "undefined", chars |-> <<>>]
  <2>1. Keys!encodeKeyPart(part) = <<"u">>
    BY <1>4 DEF Keys!encodeKeyPart
  <2>2. <<"u">> \in Seq(Letters) /\ Len(<<"u">>) > 0 /\ <<"u">>[1] \in Tags
    BY <1>2 DEF Tags
  <2> QED
    BY <1>4, <2>1, <2>2
<1>5. CASE part = [is |-> "null", chars |-> <<>>]
  <2>1. Keys!encodeKeyPart(part) = <<"z">>
    BY <1>5 DEF Keys!encodeKeyPart
  <2>2. <<"z">> \in Seq(Letters) /\ Len(<<"z">>) > 0 /\ <<"z">>[1] \in Tags
    BY <1>2 DEF Tags
  <2> QED
    BY <1>5, <2>1, <2>2
<1>6. CASE \E c \in Keys!Texts(Chars) : part = [is |-> "text", chars |-> c]
  <2>1. /\ part.is = "text" /\ part.chars \in Seq(Chars) /\ Len(part.chars) \in 0..MaxText
        /\ part = [is |-> "text", chars |-> part.chars]
    BY <1>1, <1>6
  <2>2. Keys!encodeKeyPart(part) = <<"s">> \o Numeral[Len(part.chars)] \o <<":">> \o part.chars
    BY <2>1 DEF Keys!encodeKeyPart
  <2>3. /\ part.chars \in Seq(Letters) /\ <<"s">> \in Seq(Letters) /\ <<":">> \in Seq(Letters)
        /\ Numeral[Len(part.chars)] \in Seq(Letters)
    <3>1. Numeral[Len(part.chars)] \in Seq(STRING \ {":"})
      BY <2>1, KeysAssumption
    <3>2. STRING \ {":"} \subseteq Letters
      BY DEF Letters
    <3> QED
      <4>1. Numeral[Len(part.chars)] \in Seq(Letters) /\ part.chars \in Seq(Letters)
        BY <1>2, <2>1, <3>1, <3>2, SeqMonotonic
      <4> QED
        BY <1>2, <4>1
  <2> DEFINE x == <<"s">> \o Numeral[Len(part.chars)]
             y == x \o <<":">>
  <2>4. x \in Seq(Letters) /\ Len(x) > 0 /\ x[1] = "s"
    BY <2>3
  <2>5. y \in Seq(Letters) /\ Len(y) > 0 /\ y[1] = "s"
    <3> HIDE DEF x
    <3> QED
      BY <2>3, <2>4
  <2>6. /\ y \o part.chars \in Seq(Letters)
        /\ Len(y \o part.chars) > 0 /\ (y \o part.chars)[1] = "s"
    <3> HIDE DEF y
    <3> QED
      BY <2>3, <2>5
  <2> QED
    BY <2>1, <2>2, <2>6 DEF Tags
<1> QED
  BY <1>3, <1>4, <1>5, <1>6 DEF Keys!Parts

\* The key of a part stands in a text after a place, and what follows is the first
\* character of another part, or nothing.
Stands(text, p, part) ==
    LET k == Keys!encodeKeyPart(part)
    IN  /\ p + Len(k) <= Len(text)
        /\ \A i \in 1..Len(k) : text[p + i] = k[i]
        /\ p + Len(k) < Len(text) => text[p + Len(k) + 1] \in Tags

\* A number is not the beginning of a longer one: what follows it is no digit.
LEMMA NumberEnds ==
    ASSUME NEW text \in Seq(Letters), NEW p \in Nat,
           NEW one \in Seq(Digits), NEW other \in Seq(Digits),
           LET k == <<"n">> \o one
           IN  p + Len(k) < Len(text) => text[p + Len(k) + 1] \in Tags,
           LET k == <<"n">> \o other
           IN  p + Len(k) <= Len(text) /\ \A i \in 1..Len(k) : text[p + i] = k[i]
    PROVE  Len(other) <= Len(one)
<1> SUFFICES ASSUME Len(one) < Len(other) PROVE FALSE
  OBVIOUS
<1>1. Len(<<"n">> \o one) = Len(one) + 1 /\ Len(<<"n">> \o other) = Len(other) + 1
      /\ \A i \in 1..Len(other) : (<<"n">> \o other)[i + 1] = other[i]
  OBVIOUS
<1>2. Len(one) \in Nat /\ Len(other) \in Nat /\ Len(text) \in Nat
  OBVIOUS
<1> DEFINE i == Len(one) + 1
<1>3. i \in 1..Len(other) /\ i + 1 \in 1..Len(<<"n">> \o other)
  BY <1>1, <1>2
<1>4. text[p + (i + 1)] = other[i]
  BY <1>1, <1>3
<1>5. other[i] \in Digits
  BY <1>3
<1>6. p + Len(<<"n">> \o one) < Len(text)
  BY <1>1, <1>2
<1>7. p + Len(<<"n">> \o one) + 1 = p + (i + 1)
  BY <1>1, <1>2
<1>8. text[p + (i + 1)] \in Tags
  BY <1>6, <1>7
<1> QED
  BY <1>4, <1>5, <1>8, KeysAssumption DEF Tags

\* one text begins another
Begins(a, b) == Len(a) <= Len(b) /\ \A i \in 1..Len(a) : a[i] = b[i]

\* A text begins any longer one, and what is put after it stands there.
LEMMA BeginsMore ==
    ASSUME NEW S, NEW a \in Seq(S), NEW b \in Seq(S)
    PROVE  /\ Begins(a, a \o b) /\ Len(a \o b) = Len(a) + Len(b)
           /\ \A i \in 1..Len(b) : (a \o b)[Len(a) + i] = b[i]
BY DEF Begins

\* the key of a text
EncText(c) == <<"s">> \o Numeral[Len(c)] \o <<":">> \o c

\* it stands in a text after a place
TextStands(text, p, c) == \A i \in 1..Len(EncText(c)) : text[p + i] = EncText(c)[i]

\* Where things stand in the key of a text.
LEMMA TextKey ==
    ASSUME NEW c \in Seq(Chars), Len(c) \in 0..MaxText
    PROVE  LET x == Numeral[Len(c)]
               k == <<"s">> \o x \o <<":">> \o c
           IN  /\ x \in Seq(STRING \ {":"})
               /\ Len(k) = Len(x) + 2 + Len(c)
               /\ \A i \in 1..Len(x) : k[1 + i] = x[i]
               /\ k[Len(x) + 2] = ":"
               /\ \A i \in 1..Len(c) : k[Len(x) + 2 + i] = c[i]
<1> DEFINE x == Numeral[Len(c)]
           front == <<"s">> \o x
           head == front \o <<":">>
           k == head \o c
<1>1. /\ x \in Seq(STRING \ {":"}) /\ x \in Seq(Letters) /\ c \in Seq(Letters)
      /\ <<"s">> \in Seq(Letters) /\ <<":">> \in Seq(Letters)
  <2>1. STRING \ {":"} \subseteq Letters /\ Chars \subseteq Letters
    BY DEF Letters
  <2>2. x \in Seq(STRING \ {":"})
    BY KeysAssumption
  <2>3. x \in Seq(Letters) /\ c \in Seq(Letters)
    BY <2>1, <2>2, SeqMonotonic
  <2>4. "s" \in Letters /\ ":" \in Letters
    BY DEF Letters
  <2>5. <<"s">> \in Seq(Letters) /\ <<":">> \in Seq(Letters)
    BY <2>4
  <2> QED
    BY <2>2, <2>3, <2>5
<1> HIDE DEF x
<1>2. /\ front \in Seq(Letters) /\ Len(front) = Len(x) + 1 /\ Len(x) \in Nat
      /\ \A i \in 1..Len(x) : front[1 + i] = x[i]
  BY <1>1
<1> HIDE DEF front
<1>3. /\ head \in Seq(Letters) /\ Len(head) = Len(x) + 2
      /\ \A i \in 1..Len(x) : head[1 + i] = x[i]
      /\ head[Len(x) + 2] = ":"
  <2>1. \A i \in 1..Len(front) : head[i] = front[i]
    BY <1>1, <1>2
  <2>2. \A i \in 1..Len(x) : 1 + i \in 1..Len(front)
    BY <1>2
  <2> QED
    BY <1>1, <1>2, <2>1, <2>2
<1> HIDE DEF head
<1>4. Len(c) \in Nat
  OBVIOUS
<1>5. /\ Len(k) = Len(x) + 2 + Len(c)
      /\ \A i \in 1..Len(head) : k[i] = head[i]
      /\ \A i \in 1..Len(c) : k[Len(head) + i] = c[i]
  <2>1. Begins(head, k) /\ Len(k) = Len(head) + Len(c)
    BY <1>1, <1>3, BeginsMore
  <2>2. \A i \in 1..Len(c) : k[Len(head) + i] = c[i]
    BY <1>1, <1>3, BeginsMore
  <2>3. Len(head) + Len(c) = Len(x) + 2 + Len(c)
    BY <1>3
  <2> HIDE DEF k
  <2> QED
    BY <2>1, <2>2, <2>3 DEF Begins
<1> HIDE DEF k
<1>6. /\ \A i \in 1..Len(x) : k[1 + i] = x[i]
      /\ k[Len(x) + 2] = ":"
  <2>1. /\ \A i \in 1..Len(x) : 1 + i \in 1..Len(head)
        /\ Len(x) + 2 \in 1..Len(head)
    BY <1>2, <1>3
  <2> QED
    BY <1>3, <1>5, <2>1
<1>7. \A i \in 1..Len(c) : k[Len(x) + 2 + i] = c[i]
  BY <1>3, <1>5
<1> QED
  BY <1>1, <1>5, <1>6, <1>7 DEF x, k, head, front

\* One text stands after a place.
LEMMA TextsDecode ==
    ASSUME NEW text \in Seq(Letters), NEW p \in Nat, NEW c \in Seq(Chars), NEW d \in Seq(Chars),
           Len(c) \in 0..MaxText, Len(d) \in 0..MaxText,
           TextStands(text, p, c), TextStands(text, p, d)
    PROVE  c = d
<1> DEFINE x == Numeral[Len(c)]
           y == Numeral[Len(d)]
           kc == EncText(c)
           kd == EncText(d)
<1>1. /\ x \in Seq(STRING \ {":"})
      /\ Len(kc) = Len(x) + 2 + Len(c)
      /\ \A i \in 1..Len(x) : kc[1 + i] = x[i]
      /\ kc[Len(x) + 2] = ":"
      /\ \A i \in 1..Len(c) : kc[Len(x) + 2 + i] = c[i]
  BY TextKey DEF EncText
<1>2. /\ y \in Seq(STRING \ {":"})
      /\ Len(kd) = Len(y) + 2 + Len(d)
      /\ \A i \in 1..Len(y) : kd[1 + i] = y[i]
      /\ kd[Len(y) + 2] = ":"
      /\ \A i \in 1..Len(d) : kd[Len(y) + 2 + i] = d[i]
  BY TextKey DEF EncText
<1>3. /\ \A i \in 1..Len(kc) : text[p + i] = kc[i]
      /\ \A i \in 1..Len(kd) : text[p + i] = kd[i]
  BY DEF TextStands
<1>4. (Len(c) \in 0..MaxText /\ Len(d) \in 0..MaxText /\ x = y) => Len(c) = Len(d)
  BY KeysAssumption
<1> HIDE DEF kc, kd, x, y
<1>5. Len(x) \in Nat /\ Len(y) \in Nat /\ Len(c) \in Nat /\ Len(d) \in Nat
  BY <1>1, <1>2
<1>6. /\ \A i \in 1..Len(x) : text[p + (1 + i)] = x[i]
      /\ text[p + (Len(x) + 2)] = ":"
      /\ \A i \in 1..Len(c) : text[p + (Len(x) + 2 + i)] = c[i]
  <2>1. /\ \A i \in 1..Len(x) : 1 + i \in 1..Len(kc)
        /\ Len(x) + 2 \in 1..Len(kc)
        /\ \A i \in 1..Len(c) : Len(x) + 2 + i \in 1..Len(kc)
    BY <1>1, <1>5
  <2> QED
    BY <1>1, <1>3, <2>1
<1>7. /\ \A i \in 1..Len(y) : text[p + (1 + i)] = y[i]
      /\ text[p + (Len(y) + 2)] = ":"
      /\ \A i \in 1..Len(d) : text[p + (Len(y) + 2 + i)] = d[i]
  <2>1. /\ \A i \in 1..Len(y) : 1 + i \in 1..Len(kd)
        /\ Len(y) + 2 \in 1..Len(kd)
        /\ \A i \in 1..Len(d) : Len(y) + 2 + i \in 1..Len(kd)
    BY <1>2, <1>5
  <2> QED
    BY <1>2, <1>3, <2>1
<1>8. text[p + Len(x) + 2] = ":" /\ text[p + Len(y) + 2] = ":"
  <2>1. p + Len(x) + 2 = p + (Len(x) + 2) /\ p + Len(y) + 2 = p + (Len(y) + 2)
    BY <1>5
  <2> QED
    BY <1>6, <1>7, <2>1
<1>9. Len(x) = Len(y)
  <2>1. Len(y) <= Len(x)
    <3>1. x \in Seq(STRING \ {":"}) /\ y \in Seq(STRING \ {":"})
      BY <1>1, <1>2
    <3>2. text[p + Len(x) + 2] = ":" /\ \A i \in 1..Len(y) : text[p + (1 + i)] = y[i]
      BY <1>7, <1>8
    <3> SUFFICES ASSUME Len(x) < Len(y) PROVE FALSE
      BY <1>5
    <3> DEFINE i == Len(x) + 1
    <3>3. i \in 1..Len(y) /\ p + (1 + i) = p + Len(x) + 2
      BY <1>5
    <3>4. y[i] = ":"
      BY <3>2, <3>3
    <3>5. y[i] \in STRING \ {":"}
      BY <3>1, <3>3
    <3> QED
      BY <3>4, <3>5
  <2>2. Len(x) <= Len(y)
    <3>1. x \in Seq(STRING \ {":"}) /\ y \in Seq(STRING \ {":"})
      BY <1>1, <1>2
    <3>2. text[p + Len(y) + 2] = ":" /\ \A i \in 1..Len(x) : text[p + (1 + i)] = x[i]
      BY <1>6, <1>8
    <3> SUFFICES ASSUME Len(y) < Len(x) PROVE FALSE
      BY <1>5
    <3> DEFINE i == Len(y) + 1
    <3>3. i \in 1..Len(x) /\ p + (1 + i) = p + Len(y) + 2
      BY <1>5
    <3>4. x[i] = ":"
      BY <3>2, <3>3
    <3>5. x[i] \in STRING \ {":"}
      BY <3>1, <3>3
    <3> QED
      BY <3>4, <3>5
  <2> QED
    BY <1>5, <2>1, <2>2
<1>10. x = y
  <2>1. \A i \in 1..Len(x) : x[i] = y[i]
    BY <1>6, <1>7, <1>9
  <2> QED
    BY <1>1, <1>2, <1>9, <2>1, SeqEqual
<1>11. Len(c) = Len(d)
  BY <1>4, <1>10
<1>12. \A i \in 1..Len(c) : c[i] = d[i]
  BY <1>6, <1>7, <1>9, <1>11
<1> QED
  BY <1>11, <1>12, SeqEqual

\* One part stands after a place.
LEMMA PartsDecode ==
    ASSUME NEW text \in Seq(Letters), NEW p \in Nat,
           NEW one \in Keys!Parts, NEW other \in Keys!Parts,
           Stands(text, p, one), Stands(text, p, other)
    PROVE  one = other
<1> DEFINE k == Keys!encodeKeyPart(one)
           l == Keys!encodeKeyPart(other)
<1>1. /\ p + Len(k) <= Len(text)
      /\ \A i \in 1..Len(k) : text[p + i] = k[i]
      /\ p + Len(k) < Len(text) => text[p + Len(k) + 1] \in Tags
  BY DEF Stands
<1>2. /\ p + Len(l) <= Len(text)
      /\ \A i \in 1..Len(l) : text[p + i] = l[i]
      /\ p + Len(l) < Len(text) => text[p + Len(l) + 1] \in Tags
  BY DEF Stands
<1>3. k \in Seq(Letters) /\ Len(k) > 0 /\ l \in Seq(Letters) /\ Len(l) > 0
  BY PartKey
<1>4. k[1] = l[1]
  <2>1. 1 \in 1..Len(k) /\ 1 \in 1..Len(l)
    BY <1>3
  <2> QED
    BY <1>1, <1>2, <2>1
<1> DEFINE number(part, e) == /\ part.chars \in Seq(Digits)
                              /\ part = [is |-> "number", chars |-> part.chars]
                              /\ e = <<"n">> \o part.chars /\ e[1] = "n"
           undef(part, e) == part = [is |-> "undefined", chars |-> <<>>] /\ e[1] = "u"
           null(part, e) == part = [is |-> "null", chars |-> <<>>] /\ e[1] = "z"
           text_(part, e) == /\ part.chars \in Seq(Chars) /\ Len(part.chars) \in 0..MaxText
                             /\ part = [is |-> "text", chars |-> part.chars]
                             /\ e = <<"s">> \o Numeral[Len(part.chars)] \o <<":">> \o part.chars
                             /\ e[1] = "s"
<1>5. ASSUME NEW part \in Keys!Parts, NEW e, e = Keys!encodeKeyPart(part)
      PROVE  number(part, e) \/ undef(part, e) \/ null(part, e) \/ text_(part, e)
  <2>1. CASE /\ part.chars \in Seq(Digits)
             /\ part = [is |-> "number", chars |-> part.chars]
             /\ e = <<"n">> \o part.chars
    <3>1. (<<"n">> \o part.chars)[1] = "n"
      BY <2>1
    <3> QED
      BY <2>1, <3>1
  <2>2. CASE part = [is |-> "undefined", chars |-> <<>>] /\ e = <<"u">>
    BY <2>2
  <2>3. CASE part = [is |-> "null", chars |-> <<>>] /\ e = <<"z">>
    BY <2>3
  <2>4. CASE /\ part.chars \in Seq(Chars) /\ Len(part.chars) \in 0..MaxText
             /\ part = [is |-> "text", chars |-> part.chars]
             /\ e = <<"s">> \o Numeral[Len(part.chars)] \o <<":">> \o part.chars
    <3> DEFINE c == part.chars
               x == Numeral[Len(c)]
    <3>1. x \in Seq(Letters) /\ c \in Seq(Letters)
      <4>1. x \in Seq(STRING \ {":"}) /\ c \in Seq(Chars)
        BY <2>4, KeysAssumption
      <4>2. STRING \ {":"} \subseteq Letters /\ Chars \subseteq Letters
        BY DEF Letters
      <4> HIDE DEF x, c
      <4> QED
        BY <4>1, <4>2, SeqMonotonic
    <3> HIDE DEF x, c
    <3>2. "s" \in Letters /\ ":" \in Letters
      BY DEF Letters
    <3>3. (<<"s">> \o x)[1] = "s" /\ Len(<<"s">> \o x) > 0 /\ <<"s">> \o x \in Seq(Letters)
      BY <3>1, <3>2
    <3>4. (<<"s">> \o x \o <<":">>)[1] = "s" /\ Len(<<"s">> \o x \o <<":">>) > 0
          /\ <<"s">> \o x \o <<":">> \in Seq(Letters)
      <4> DEFINE f == <<"s">> \o x
      <4> HIDE DEF f
      <4>1. (f \o <<":">>)[1] = f[1] /\ Len(f \o <<":">>) > 0 /\ f \o <<":">> \in Seq(Letters)
        BY <3>2, <3>3 DEF f
      <4> QED
        BY <3>3, <4>1 DEF f
    <3>5. (<<"s">> \o x \o <<":">> \o c)[1] = "s"
      <4> DEFINE f == <<"s">> \o x \o <<":">>
      <4>1. f \in Seq(Letters) /\ Len(f) > 0 /\ f[1] = "s"
        BY <3>4
      <4> HIDE DEF f
      <4>2. (f \o c)[1] = "s"
        BY <3>1, <4>1
      <4> QED
        BY <4>2 DEF f
    <3> QED
      BY <2>4, <3>5 DEF x, c
  <2> HIDE DEF number, undef, null, text_
  <2>5. number(part, e) => number(part, e)
    OBVIOUS
  <2> QED
    BY <1>5, <2>1, <2>2, <2>3, <2>4, PartKey
<1>6. \/ number(one, k) \/ undef(one, k) \/ null(one, k) \/ text_(one, k)
  BY <1>5
<1>7. \/ number(other, l) \/ undef(other, l) \/ null(other, l) \/ text_(other, l)
  BY <1>5
<1>8. CASE number(one, k) /\ number(other, l)
  <2>1. Len(other.chars) <= Len(one.chars)
    BY <1>1, <1>2, <1>8, NumberEnds
  <2>2. Len(one.chars) <= Len(other.chars)
    BY <1>1, <1>2, <1>8, NumberEnds
  <2>3. /\ one.chars \in Seq(Digits) /\ other.chars \in Seq(Digits)
        /\ k = <<"n">> \o one.chars /\ l = <<"n">> \o other.chars
    BY <1>8
  <2> DEFINE c == one.chars
             d == other.chars
  <2> HIDE DEF k, l, c, d
  <2>4. Len(c) = Len(d) /\ Len(c) \in Nat
    BY <2>1, <2>2, <2>3 DEF c, d
  <2>5. /\ Len(k) = Len(c) + 1 /\ \A i \in 1..Len(c) : k[i + 1] = c[i]
        /\ Len(l) = Len(d) + 1 /\ \A i \in 1..Len(d) : l[i + 1] = d[i]
    BY <2>3 DEF c, d
  <2>6. \A i \in 1..Len(c) : c[i] = d[i]
    <3> SUFFICES ASSUME NEW i \in 1..Len(c) PROVE c[i] = d[i]
      OBVIOUS
    <3>1. i + 1 \in 1..Len(k) /\ i + 1 \in 1..Len(l) /\ i \in 1..Len(d)
      BY <2>4, <2>5
    <3>2. text[p + (i + 1)] = k[i + 1] /\ text[p + (i + 1)] = l[i + 1]
      BY <1>1, <1>2, <3>1 DEF k, l
    <3> QED
      BY <2>5, <3>1, <3>2
  <2>7. c = d
    BY <2>3, <2>4, <2>6, SeqEqual DEF c, d
  <2> QED
    BY <1>8, <2>7 DEF c, d
<1>9. CASE text_(one, k) /\ text_(other, l)
  <2> DEFINE c == one.chars
             d == other.chars
  <2>1. /\ c \in Seq(Chars) /\ Len(c) \in 0..MaxText
        /\ d \in Seq(Chars) /\ Len(d) \in 0..MaxText
        /\ k = EncText(c) /\ l = EncText(d)
    BY <1>9 DEF EncText
  <2>2. /\ \A i \in 1..Len(k) : text[p + i] = k[i]
        /\ \A i \in 1..Len(l) : text[p + i] = l[i]
    BY <1>1, <1>2
  <2> HIDE DEF k, l, c, d
  <2>3. TextStands(text, p, c) /\ TextStands(text, p, d)
    BY <2>1, <2>2 DEF TextStands
  <2>4. c = d
    BY <2>1, <2>3, TextsDecode
  <2>5. one.chars = other.chars
    BY <2>4 DEF c, d
  <2> QED
    BY <1>9, <2>5
<1> HIDE DEF k, l
<1>10. CASE undef(one, k) /\ undef(other, l)
  BY <1>10
<1>11. CASE null(one, k) /\ null(other, l)
  BY <1>11
<1> QED
  BY <1>4, <1>6, <1>7, <1>8, <1>9, <1>10, <1>11

\* the keys of the first members of a list, up to that of all of them
Spells(r, list, n) ==
    /\ r \in [0..n -> Seq(Letters)]
    /\ r[0] = <<>> /\ r[n] = Keys!encodeKeyList(list)
    /\ \A k \in 1..n : r[k] = r[k - 1] \o Keys!encodeKeyPart(list[k])

\* The key of a list is that of its members, one after the other.
LEMMA KeyChain ==
    ASSUME NEW n \in Nat, NEW list \in [1..n -> Keys!Parts]
    PROVE  \E r : Spells(r, list, n)
<1> DEFINE V == Seq(Letters)
           enc(e) == Keys!encodeKeyPart(e)
           F(g) == [s \in SUBSET (1..n) |->
                        IF s = {} THEN <<>> ELSE g[s \ {Max(s)}] \o enc(list[Max(s)])]
           it == CHOOSE g : g = F(g)
           h == [p \in (1..n) \X V |-> p[2] \o enc(list[p[1]])]
<1>1. Keys!encodeKeyList(list) = it[1..n]
  <2>1. DOMAIN list = 1..n
    OBVIOUS
  <2>2. \A s : Keys!Max(s) = Max(s)
    BY DEF Keys!Max, Max
  <2>3. Keys!encodeKeyList(list)
            = (CHOOSE g : g = [s \in SUBSET (1..n) |->
                                  IF s = {} THEN <<>>
                                  ELSE g[s \ {Keys!Max(s)}] \o enc(list[Keys!Max(s)])])[1..n]
    BY <2>1 DEF Keys!encodeKeyList, Keys!FoldLeft, Keys!MapThenFoldSet
  <2> HIDE DEF enc
  <2> QED
    BY <2>2, <2>3
<1>2. ASSUME NEW text \in V, NEW i \in 1..n PROVE text \o enc(list[i]) \in V
  <2>1. enc(list[i]) \in Seq(Letters)
    BY PartKey
  <2> HIDE DEF enc
  <2> QED
    BY <2>1
<1>3. h \in [(1..n) \X V -> V]
  <2> HIDE DEF enc, V
  <2> QED
    BY <1>2
<1>4. <<>> \in V
  OBVIOUS
<1> HIDE DEF enc, V
<1>5. PICK g : IsFold(n, V, <<>>, h, g)
  <2> HIDE DEF h
  <2> QED
    BY <1>3, <1>4, FoldExists
<1>6. g = F(g)
  <2>1. ASSUME NEW s \in SUBSET (1..n), s # {}
        PROVE  h[<<Max(s), g[s \ {Max(s)}]>>] = g[s \ {Max(s)}] \o enc(list[Max(s)])
    <3>1. s \ {Max(s)} \in SUBSET (1..n) /\ g[s \ {Max(s)}] \in V
      BY <1>5 DEF IsFold
    <3>2. Max(s) \in 1..n
      BY <2>1, MaxIsIn
    <3> QED
      BY <3>1, <3>2
  <2>2. g = [s \in SUBSET (1..n) |-> g[s]]
    BY <1>5 DEF IsFold
  <2> HIDE DEF h
  <2> QED
    BY <1>5, <2>1, <2>2 DEF IsFold
<1>7. it = F(it)
  <2> HIDE DEF F
  <2> QED
    BY <1>6
<1> HIDE DEF it
<1>8. it[{}] = <<>>
  BY <1>7
<1>9. \A s \in SUBSET (1..n) : (s # {} /\ it[s \ {Max(s)}] \in V) =>
          it[s] = h[<<Max(s), it[s \ {Max(s)}]>>]
  <2> SUFFICES ASSUME NEW s \in SUBSET (1..n), s # {}, it[s \ {Max(s)}] \in V
               PROVE  it[s] = h[<<Max(s), it[s \ {Max(s)}]>>]
    OBVIOUS
  <2>1. it[s] = it[s \ {Max(s)}] \o enc(list[Max(s)])
    BY <1>7
  <2>2. Max(s) \in 1..n
    BY MaxIsIn
  <2> QED
    BY <2>1, <2>2
<1>10. PICK r : Chain(r, n, V, <<>>, h, it[1..n])
  <2>1. FoldsBy(it, n, V, <<>>, h)
    <3> HIDE DEF h, F
    <3> QED
      BY <1>8, <1>9 DEF FoldsBy
  <2> HIDE DEF h, F
  <2> QED
    BY <1>3, <1>4, <2>1, FoldChain
<1>11. \A k \in 1..n : r[k] = r[k - 1] \o enc(list[k])
  <2>1. \A k \in 1..n : k - 1 \in 0..n
    OBVIOUS
  <2> QED
    BY <1>10, <2>1 DEF Chain
<1>12. r \in [0..n -> V] /\ r[0] = <<>> /\ r[n] = it[1..n]
  BY <1>10 DEF Chain
<1> QED
  BY <1>1, <1>11, <1>12 DEF enc, V, Spells

\* To begin something is transitive.
LEMMA BeginsOn ==
    ASSUME NEW S, NEW a \in Seq(S), NEW b \in Seq(S), NEW c \in Seq(S), Begins(a, b), Begins(b, c)
    PROVE  Begins(a, c)
<1>1. Len(a) \in Nat /\ Len(b) \in Nat /\ Len(c) \in Nat
  OBVIOUS
<1>2. \A i \in 1..Len(a) : i \in 1..Len(b)
  BY <1>1 DEF Begins
<1> QED
  BY <1>1, <1>2 DEF Begins

\* The key of the first members begins the key of all.
LEMMA FirstKeysBegin ==
    ASSUME NEW n \in Nat, NEW list \in [1..n -> Keys!Parts], NEW r, Spells(r, list, n)
    PROVE  \A k \in 0..n : Begins(r[k], r[n])
<1>1. /\ r \in [0..n -> Seq(Letters)]
      /\ \A k \in 1..n : r[k] = r[k - 1] \o Keys!encodeKeyPart(list[k])
  BY DEF Spells
<1>2. n \in 0..n /\ r[n] \in Seq(Letters)
  BY <1>1
<1> DEFINE G == {d \in Nat : d <= n => Begins(r[n - d], r[n])}
<1>3. 0 \in G
  <2>1. n - 0 = n
    OBVIOUS
  <2>2. Begins(r[n], r[n])
    BY <1>2 DEF Begins
  <2> QED
    BY <2>1, <2>2
<1>4. ASSUME NEW d \in Nat, d \in G PROVE d + 1 \in G
  <2> SUFFICES ASSUME d + 1 <= n PROVE Begins(r[n - (d + 1)], r[n])
    OBVIOUS
  <2> DEFINE k == n - d
  <2>1. k \in 1..n /\ k \in 0..n /\ k - 1 \in 0..n /\ k - 1 = n - (d + 1) /\ d <= n
    OBVIOUS
  <2>2. Begins(r[k], r[n])
    BY <1>4, <2>1
  <2> HIDE DEF k
  <2>3. r[k - 1] \in Seq(Letters) /\ r[k] \in Seq(Letters)
    BY <1>1, <2>1
  <2>4. Keys!encodeKeyPart(list[k]) \in Seq(Letters)
    BY <2>1, PartKey
  <2>5. Begins(r[k - 1], r[k])
    <3>1. r[k] = r[k - 1] \o Keys!encodeKeyPart(list[k])
      BY <1>1, <2>1
    <3>2. Begins(r[k - 1], r[k - 1] \o Keys!encodeKeyPart(list[k]))
      BY <2>3, <2>4, BeginsMore
    <3> QED
      BY <3>1, <3>2
  <2>6. Begins(r[k - 1], r[n])
    BY <1>2, <2>2, <2>3, <2>5, BeginsOn
  <2> QED
    BY <2>1, <2>6
<1>5. Nat \subseteq G
  <2> HIDE DEF G
  <2> QED
    BY <1>3, <1>4, NaturalsByStep
<1> SUFFICES ASSUME NEW k \in 0..n PROVE Begins(r[k], r[n])
  OBVIOUS
<1>6. n - k \in Nat /\ n - k <= n /\ n - (n - k) = k
  OBVIOUS
<1>7. n - k \in G
  BY <1>5, <1>6
<1> QED
  BY <1>6, <1>7

\* Where each member stands in the key of the list.
LEMMA MembersStand ==
    ASSUME NEW n \in Nat, NEW list \in [1..n -> Keys!Parts], NEW r, Spells(r, list, n),
           NEW k \in 1..n
    PROVE  /\ Len(r[k - 1]) \in Nat /\ Len(r[k - 1]) < Len(r[k]) /\ Len(r[k]) <= Len(r[n])
           /\ Len(r[k]) = Len(r[k - 1]) + Len(Keys!encodeKeyPart(list[k]))
           /\ Stands(r[n], Len(r[k - 1]), list[k])
<1> DEFINE e == Keys!encodeKeyPart(list[k])
           a == r[k - 1]
           b == r[k]
           text == r[n]
<1>1. /\ r \in [0..n -> Seq(Letters)]
      /\ \A j \in 1..n : r[j] = r[j - 1] \o Keys!encodeKeyPart(list[j])
  BY DEF Spells
<1>2. k \in 0..n /\ k - 1 \in 0..n /\ n \in 0..n
  OBVIOUS
<1>3. a \in Seq(Letters) /\ b \in Seq(Letters) /\ text \in Seq(Letters)
  BY <1>1, <1>2
<1>4. e \in Seq(Letters) /\ Len(e) > 0
  BY PartKey
<1>5. b = a \o e
  BY <1>1
<1>6. Begins(b, text)
  BY <1>2, FirstKeysBegin
<1>7. ASSUME Len(b) < Len(text) PROVE text[Len(b) + 1] \in Tags
  <2>1. k + 1 \in 1..n /\ (k + 1) - 1 = k /\ k + 1 \in 0..n
    <3>1. k # n
      BY <1>3, <1>7
    <3> QED
      BY <3>1
  <2> DEFINE f == Keys!encodeKeyPart(list[k + 1])
             c == r[k + 1]
  <2>2. f \in Seq(Letters) /\ Len(f) > 0 /\ f[1] \in Tags
    BY <2>1, PartKey
  <2>3. c = b \o f
    BY <1>1, <2>1
  <2>4. Begins(c, text)
    BY <2>1, FirstKeysBegin
  <2> HIDE DEF f, c, b, text
  <2>5. Len(c) = Len(b) + Len(f) /\ \A i \in 1..Len(f) : c[Len(b) + i] = f[i]
    BY <1>3, <2>2, <2>3, BeginsMore
  <2>6. 1 \in 1..Len(f) /\ Len(b) + 1 \in 1..Len(c)
    BY <1>3, <2>2, <2>5
  <2>7. c[Len(b) + 1] = f[1] /\ text[Len(b) + 1] = c[Len(b) + 1]
    BY <2>4, <2>5, <2>6 DEF Begins
  <2> QED
    BY <2>2, <2>7
<1> HIDE DEF a, b, text, e
<1>8. /\ Len(a) \in Nat /\ Len(b) \in Nat /\ Len(text) \in Nat /\ Len(e) \in Nat
      /\ Len(b) = Len(a) + Len(e) /\ Len(b) <= Len(text)
      /\ \A i \in 1..Len(e) : b[Len(a) + i] = e[i]
  BY <1>3, <1>4, <1>5, <1>6, BeginsMore DEF Begins
<1>9. \A i \in 1..Len(e) : text[Len(a) + i] = e[i]
  <2>1. \A i \in 1..Len(e) : Len(a) + i \in 1..Len(b)
    BY <1>8
  <2> QED
    BY <1>6, <1>8, <2>1 DEF Begins
<1>10. /\ Len(a) + Len(e) <= Len(text)
       /\ Len(a) + Len(e) < Len(text) => text[Len(a) + Len(e) + 1] \in Tags
  BY <1>7, <1>8
<1>11. Stands(text, Len(a), list[k])
  BY <1>9, <1>10 DEF Stands, e
<1> QED
  BY <1>4, <1>8, <1>11 DEF a, b, text, e

\* No list has the key of another one.
LEMMA KeysDiffer ==
    ASSUME NEW one \in Keys!Lists, NEW other \in Keys!Lists,
           Keys!encodeKeyList(one) = Keys!encodeKeyList(other)
    PROVE  one = other
<1>1. PICK n \in 0..MaxList : one \in [1..n -> Keys!Parts]
  BY DEF Keys!Lists
<1>2. PICK m \in 0..MaxList : other \in [1..m -> Keys!Parts]
  BY DEF Keys!Lists
<1>3. n \in Nat /\ m \in Nat
  BY KeysAssumption
<1>4. PICK r : Spells(r, one, n)
  BY <1>1, <1>3, KeyChain
<1>5. PICK q : Spells(q, other, m)
  BY <1>2, <1>3, KeyChain
<1>6. /\ r \in [0..n -> Seq(Letters)] /\ q \in [0..m -> Seq(Letters)]
      /\ r[0] = <<>> /\ q[0] = <<>> /\ r[n] = q[m]
  BY <1>4, <1>5 DEF Spells
<1>7. ASSUME NEW k \in 1..n
      PROVE  /\ Len(r[k - 1]) \in Nat /\ Len(r[k - 1]) < Len(r[k]) /\ Len(r[k]) <= Len(r[n])
             /\ Len(r[k]) = Len(r[k - 1]) + Len(Keys!encodeKeyPart(one[k]))
             /\ Stands(r[n], Len(r[k - 1]), one[k])
  BY <1>1, <1>3, <1>4, MembersStand
<1>8. ASSUME NEW k \in 1..m
      PROVE  /\ Len(q[k - 1]) \in Nat /\ Len(q[k - 1]) < Len(q[k]) /\ Len(q[k]) <= Len(q[m])
             /\ Len(q[k]) = Len(q[k - 1]) + Len(Keys!encodeKeyPart(other[k]))
             /\ Stands(q[m], Len(q[k - 1]), other[k])
  BY <1>2, <1>3, <1>5, MembersStand
<1> DEFINE G == {k \in Nat : k <= n =>
                    k <= m /\ Len(r[k]) = Len(q[k]) /\ \A i \in 1..k : one[i] = other[i]}
<1>9. 0 \in G
  BY <1>3, <1>6
<1>10. ASSUME NEW k \in Nat, k \in G PROVE k + 1 \in G
  <2> SUFFICES ASSUME k + 1 <= n
               PROVE  /\ k + 1 <= m /\ Len(r[k + 1]) = Len(q[k + 1])
                      /\ \A i \in 1..(k + 1) : one[i] = other[i]
    OBVIOUS
  <2>1. k <= m /\ Len(r[k]) = Len(q[k]) /\ \A i \in 1..k : one[i] = other[i]
    BY <1>3, <1>10
  <2>2. k + 1 \in 1..n /\ (k + 1) - 1 = k
    BY <1>3
  <2>3. /\ Len(r[k]) \in Nat /\ Len(r[k]) < Len(r[k + 1]) /\ Len(r[k + 1]) <= Len(r[n])
        /\ Len(r[k + 1]) = Len(r[k]) + Len(Keys!encodeKeyPart(one[k + 1]))
        /\ Stands(r[n], Len(r[k]), one[k + 1])
    <3> DEFINE j == k + 1
    <3>1. j \in 1..n /\ j - 1 = k
      BY <2>2
    <3> HIDE DEF j
    <3>2. /\ Len(r[k]) \in Nat /\ Len(r[k]) < Len(r[j]) /\ Len(r[j]) <= Len(r[n])
          /\ Len(r[j]) = Len(r[k]) + Len(Keys!encodeKeyPart(one[j]))
          /\ Stands(r[n], Len(r[k]), one[j])
      BY <1>7, <3>1
    <3> QED
      BY <3>2 DEF j
  <2>4. k # m
    <3>1. r[k + 1] \in Seq(Letters)
      BY <1>3, <1>6, <2>2
    <3>2. Len(r[k + 1]) \in Nat
      BY <3>1
    <3>3. r[n] \in Seq(Letters) /\ Len(r[n]) \in Nat
      BY <1>3, <1>6
    <3> QED
      BY <1>6, <2>1, <2>3, <3>2, <3>3
  <2>5. k + 1 \in 1..m
    BY <1>3, <2>1, <2>4
  <2>6. /\ Len(q[k + 1]) = Len(q[k]) + Len(Keys!encodeKeyPart(other[k + 1]))
        /\ Stands(q[m], Len(q[k]), other[k + 1])
    <3> DEFINE j == k + 1
    <3>1. j \in 1..m /\ j - 1 = k
      BY <2>5
    <3> HIDE DEF j
    <3>2. /\ Len(q[j]) = Len(q[k]) + Len(Keys!encodeKeyPart(other[j]))
          /\ Stands(q[m], Len(q[k]), other[j])
      BY <1>8, <3>1
    <3> QED
      BY <3>2 DEF j
  <2>7. one[k + 1] = other[k + 1]
    <3>1. one[k + 1] \in Keys!Parts /\ other[k + 1] \in Keys!Parts /\ r[n] \in Seq(Letters)
      <4>1. n \in 0..n
        BY <1>3
      <4>2. r[n] \in Seq(Letters)
        BY <1>6, <4>1
      <4>3. one[k + 1] \in Keys!Parts
        BY <1>1, <2>2
      <4>4. other[k + 1] \in Keys!Parts
        BY <1>2, <2>5
      <4> QED
        BY <4>2, <4>3, <4>4
    <3>2. Stands(r[n], Len(r[k]), one[k + 1]) /\ Stands(r[n], Len(r[k]), other[k + 1])
      BY <1>6, <2>1, <2>3, <2>6
    <3> QED
      BY <2>3, <3>1, <3>2, PartsDecode
  <2>8. \A i \in 1..(k + 1) : i \in 1..k \/ i = k + 1
    OBVIOUS
  <2> QED
    BY <2>1, <2>3, <2>5, <2>6, <2>7, <2>8
<1>11. Nat \subseteq G
  <2> HIDE DEF G
  <2> QED
    BY <1>9, <1>10, NaturalsByStep
<1>12. n <= m /\ Len(r[n]) = Len(q[n]) /\ \A i \in 1..n : one[i] = other[i]
  BY <1>3, <1>11
<1>13. n = m
  <2> SUFFICES ASSUME n < m PROVE FALSE
    BY <1>3, <1>12
  <2> DEFINE j == n + 1
  <2>1. j \in 1..m /\ j - 1 = n
    BY <1>3
  <2>2. j \in 0..m /\ n \in 0..m /\ m \in 0..m
    BY <1>3, <2>1
  <2> HIDE DEF j
  <2>3. Len(q[n]) < Len(q[j]) /\ Len(q[j]) <= Len(q[m])
    BY <1>8, <2>1
  <2>4. Len(q[n]) \in Nat /\ Len(q[j]) \in Nat /\ Len(q[m]) \in Nat
    <3>1. q[n] \in Seq(Letters) /\ q[j] \in Seq(Letters) /\ q[m] \in Seq(Letters)
      BY <1>6, <2>2
    <3> QED
      BY <3>1
  <2> QED
    BY <1>6, <1>12, <2>3, <2>4
<1> QED
  BY <1>1, <1>2, <1>12, <1>13

\* What is shown was computed from a list with the key of the list there is.
KeysInv ==
    /\ values \in Keys!Lists
    /\ key = Keys!encodeKeyList(values)
    /\ derived = values

\* It holds when a tab opens, and whatever list is delivered.
LEMMA KeysStart == Keys!Init => KeysInv
<1> SUFFICES ASSUME Keys!Init PROVE KeysInv
  OBVIOUS
<1>1. <<>> \in Keys!Lists
  <2>1. 0 \in 0..MaxList /\ 1..0 = {}
    BY KeysAssumption
  <2>2. <<>> \in [1..0 -> Keys!Parts]
    BY <2>1
  <2> QED
    BY <2>1, <2>2 DEF Keys!Lists
<1> QED
  BY <1>1 DEF Keys!Init, KeysInv

\* A list with the key there is is the list there is.
LEMMA KeysStep == KeysInv /\ Keys!Next => KeysInv'
<1> SUFFICES ASSUME KeysInv, Keys!Next PROVE KeysInv'
  OBVIOUS
<1>1. /\ values' \in Keys!Lists
      /\ key' = Keys!encodeKeyList(values')
      /\ derived' = IF key' = key THEN derived ELSE values'
  BY DEF Keys!Next, Keys!Render
<1>2. CASE key' = key
  <2>1. values' = values
    BY <1>1, <1>2, KeysDiffer DEF KeysInv
  <2> QED
    BY <1>1, <1>2, <2>1 DEF KeysInv
<1>3. CASE key' # key
  BY <1>1, <1>3 DEF KeysInv
<1> QED
  BY <1>2, <1>3

------------------------------------------------------------------------------
(* theorems: what is on the screen *)

\* what shows the part that is open as it is
ShownInv ==
    /\ route = "parts" => PartsInv
    /\ route = "clock" => ClockInv
    /\ route = "keys" => KeysInv

\* It holds when the console opens, of whichever part.
LEMMA ShownStart == Init => ShownInv
BY PartsStart, ClockStart, KeysStart DEF Init, ShownInv

\* Each part keeps its own.
LEMMA ShownStep == ShownInv /\ [Next]_vars => ShownInv'
<1> SUFFICES ASSUME ShownInv, [Next]_vars PROVE ShownInv'
  OBVIOUS
<1>1. route' = route
  BY OnePart
<1>2. CASE route = "parts"
  <2>1. PartsInv'
    BY <1>2, OnePart, PartsStep DEF ShownInv
  <2> QED
    BY <1>1, <1>2, <2>1 DEF ShownInv
<1>3. CASE route = "clock"
  <2>1. ClockInv'
    BY <1>3, OnePart, ClockStep DEF ShownInv
  <2> QED
    BY <1>1, <1>3, <2>1 DEF ShownInv
<1>4. CASE route = "keys"
  <2>1. CASE UNCHANGED ofKeys
    BY <1>1, <1>4, <2>1 DEF ofKeys, KeysInv, ShownInv
  <2>2. CASE Keys!Next
    <3>1. KeysInv'
      BY <1>4, <2>2, KeysStep DEF ShownInv
    <3> QED
      BY <1>1, <1>4, <3>1 DEF ShownInv
  <2> QED
    BY <1>4, <2>1, <2>2, OnePart
<1>5. CASE route \notin {"parts", "clock", "keys"}
  BY <1>1, <1>5 DEF ShownInv
<1> QED
  BY <1>2, <1>3, <1>4, <1>5

\* An answer is shown beside what it is about, a waiver that ran out is active for no
\* longer than the pad and the lateness of the timer unless it ran out between a render
\* and its effect, and what was computed from a list is computed again when the list
\* changes: for any objects, instants, lateness and texts.
THEOREM WhatIsShownIsCurrent == Spec => []ShownIsCurrent
<1>1. ShownInv => ShownIsCurrent
  <2>1. KeysInv => Keys!MemoFresh
    BY DEF KeysInv, Keys!MemoFresh
  <2> QED
    BY <2>1, PartsBelong, ClockIsCurrent DEF ShownInv, ShownIsCurrent
<1> QED
  BY <1>1, ShownStart, ShownStep, PTL DEF Spec

------------------------------------------------------------------------------
(* the filters and orders of the parts *)

\* The parts filter and sort as Lists does.
LEMMA PartsKeep ==
    ASSUME NEW list, NEW of
    PROVE  /\ Overview!Kept(list, of) = Kept(list, of)
           /\ List!Kept(list, of) = Kept(list, of)
           /\ Tailored!Kept(list, of) = Kept(list, of)
           /\ Trend!Kept(list, of) = Kept(list, of)
<1>1. /\ \A s : Overview!Max(s) = Max(s)
      /\ \A s : List!Max(s) = Max(s)
      /\ \A s : Tailored!Max(s) = Max(s)
      /\ \A s : Trend!Max(s) = Max(s)
  BY DEF Overview!Max, List!Max, Tailored!Max, Trend!Max, Max
<1> QED
  BY <1>1 DEF Overview!Kept, Overview!FoldLeft, Overview!MapThenFoldSet,
              List!Kept, List!FoldLeft, List!MapThenFoldSet,
              Tailored!Kept, Tailored!FoldLeft, Tailored!MapThenFoldSet,
              Trend!Kept, Trend!FoldLeft, Trend!MapThenFoldSet,
              Kept, FoldLeft, MapThenFoldSet

\* The sorts are those of Lists, too, and the cardinalities the ones of FiniteSets.
LEMMA PartsOrder ==
    ASSUME NEW set, NEW before
    PROVE  /\ List!Ordered(set, before) = Ordered(set, before)
           /\ Trend!Ordered(set, before) = Ordered(set, before)
           /\ Tailored!Ordered(set, before) = Ordered(set, before)
           /\ Tailored!Cardinality(set) = Cardinality(set)
           /\ Views!Cardinality(set) = Cardinality(set)
BY DEF List!Ordered, Trend!Ordered, Tailored!Ordered, Ordered,
       List!Cardinality, Trend!Cardinality, Tailored!Cardinality, Views!Cardinality, Cardinality

\* What a list holds.
LEMMA PartsList ==
    ASSUME NEW list
    PROVE  /\ List!ToSet(list) = ToSet(list) /\ Tailored!ToSet(list) = ToSet(list)
BY DEF List!ToSet, Tailored!ToSet, ToSet

\* A set as a list.
LEMMA PartsSetToSeq ==
    ASSUME NEW set
    PROVE  List!SetToSeq(set) = SetToSeq(set)
<1>1. \A f : List!IsInjective(f) <=> IsInjective(f)
  BY DEF List!IsInjective, IsInjective
<1>2. List!Cardinality(set) = Cardinality(set)
  BY DEF List!Cardinality, Cardinality
<1> QED
  BY <1>1, <1>2 DEF List!SetToSeq, SetToSeq

------------------------------------------------------------------------------
(* the Overview and the list of remediations *)

\* The list of the checks that newly fail is one.
OverviewInv ==
    /\ DOMAIN status = DOMAIN Overview!FreshStatus
    /\ status.newlyFailed \in Seq(Changed)

\* The first status has no list.
LEMMA OverviewStart == Overview!Init => OverviewInv
BY DEF Overview!Init, OverviewInv, Overview!FreshStatus

\* The operator writes the list as one, and edits of the status leave it one.
LEMMA OverviewStep ==
    ASSUME OverviewInv, Overview!Next \/ UNCHANGED ofOverview
    PROVE  OverviewInv'
<1>1. CASE UNCHANGED ofOverview
  BY <1>1 DEF ofOverview, OverviewInv, Overview!FreshStatus
<1>2. CASE UNCHANGED status
  BY <1>2 DEF OverviewInv, Overview!FreshStatus
<1>3. CASE Overview!StatusChanges
  <2>0. PICK field \in DOMAIN status : \E val \in Overview!Fields[field] :
            status' = [status EXCEPT ![field] = val]
    BY <1>3 DEF Overview!StatusChanges
  <2>1. PICK val \in Overview!Fields[field] : status' = [status EXCEPT ![field] = val]
    BY <2>0
  <2>2. DOMAIN status' = DOMAIN status
    BY <2>1
  <2>3. DOMAIN status' = DOMAIN Overview!FreshStatus
    BY <2>2 DEF OverviewInv, Overview!FreshStatus
  <2>4. CASE field # "newlyFailed"
    <3>1. status'.newlyFailed = status.newlyFailed
      BY <2>1, <2>4
    <3> QED
      BY <2>3, <3>1 DEF OverviewInv, Overview!FreshStatus
  <2>5. CASE field = "newlyFailed"
    <3>1. val \in Overview!Lists
      BY <2>1, <2>5 DEF Overview!Fields
    <3>2. PICK k \in 0..MaxChanges : val \in [1..k -> Changed]
      BY <3>1 DEF Overview!Lists
    <3>3. k \in Nat
      BY <3>2
    <3>4. val \in Seq(Changed)
      BY <3>2, <3>3
    <3>5. "newlyFailed" \in DOMAIN status
      BY DEF OverviewInv, Overview!FreshStatus
    <3>6. status'.newlyFailed = val
      BY <2>1, <2>5, <3>5
    <3> QED
      BY <2>3, <3>4, <3>6 DEF OverviewInv, Overview!FreshStatus
  <2> QED
    BY <2>4, <2>5
<1> QED
  BY <1>1, <1>2, <1>3 DEF Overview!Next, Overview!ResultsChange, Overview!ResultsFail,
                          Overview!PageChanges, Overview!ToggleChanges

\* An alert counts something, and the card under it says as much.
LEMMA OverviewAgrees == OverviewInv => Overview!BannerAgreesWithCard
<1> SUFFICES ASSUME OverviewInv, Overview!BannerShown
             PROVE  /\ Overview!BannerTitle > 0
                    /\ Overview!newlyFailedItems # <<>> =>
                            /\ Overview!CardText = "lists"
                            /\ Overview!BannerTitle = Len(Overview!newlyFailedItems)
                    /\ Overview!CardText \notin {"no changes", "no previous scan"}
  BY DEF Overview!BannerAgreesWithCard
<1> DEFINE list == status.newlyFailed
           kept == Overview!Kept(list, Changed \ {NoName})
           items == Overview!newlyFailedItems
<1>1. list \in Seq(Changed) /\ list # <<>>
  BY DEF OverviewInv, Overview!BannerShown
<1>2. kept \in Seq(Changed)
  BY <1>1, PartsKeep, KeptMembers
<1>3. items = Overview!Items(list)
  BY DEF Overview!newlyFailedItems, Overview!changedChecksMany
<1>4. items = [i \in DOMAIN kept |->
                  [name |-> kept[i],
                   title |-> IF kept[i] \in found THEN "of the check" ELSE kept[i]]]
  BY <1>3 DEF Overview!Items
<1> HIDE DEF items, kept, list
<1>5. DOMAIN items = 1..Len(kept) /\ Len(kept) \in Nat
  <2>1. DOMAIN kept = 1..Len(kept) /\ Len(kept) \in Nat
    BY <1>2
  <2>2. DOMAIN items = DOMAIN kept
    BY <1>4
  <2> QED
    BY <2>1, <2>2
<1>6. /\ Len(items) = Len(kept)
      /\ items = <<>> => Len(items) = 0
      /\ items # <<>> => Len(items) > 0
  <2> DEFINE of == {items[i] : i \in 1..Len(kept)}
  <2>1. items \in [1..Len(kept) -> of]
    BY <1>4, <1>5
  <2> HIDE DEF of
  <2>2. items \in Seq(of)
    BY <1>5, <2>1
  <2> QED
    BY <1>5, <2>2
<1>7. Len(list) \in Nat /\ Len(list) > 0
  BY <1>1
<1>8. Overview!BannerTitle = IF items = <<>> THEN Len(list) ELSE Len(items)
  BY DEF Overview!BannerTitle, items, list
<1>9. Overview!unresolvedNewlyFailed = Len(list) - Len(items)
  BY DEF Overview!unresolvedNewlyFailed, items, list
<1>10. CASE items # <<>>
  <2>1. Overview!CardListed
    BY <1>10 DEF Overview!CardListed, items
  <2>2. Overview!CardText = "lists"
    BY <2>1 DEF Overview!CardText
  <2> QED
    BY <1>6, <1>8, <1>10, <2>2 DEF items
<1>11. CASE items = <<>>
  <2>1. Overview!unresolvedNewlyFailed > 0 /\ Overview!unresolvedNewlyFailed # 0
    BY <1>6, <1>7, <1>9, <1>11
  <2>2. Overview!CardText \notin {"no changes", "no previous scan"}
    <3>1. CASE Overview!CardListed
      BY <3>1 DEF Overview!CardText
    <3>2. CASE ~Overview!CardListed /\ resultsError
      BY <2>1, <3>2 DEF Overview!CardText
    <3>3. CASE ~Overview!CardListed /\ ~resultsError
      BY <2>1, <3>3 DEF Overview!CardText
    <3> QED
      BY <3>1, <3>2, <3>3
  <2> QED
    BY <1>7, <1>8, <1>11, <2>2 DEF items
<1> QED
  BY <1>10, <1>11

\* the states that have a chip of their own
KnownStates ==
    {"NotApplied", "Applying", "Outdated", "MissingDependencies", "Error", "Applied"}

\* The remediations can be sorted.
LEMMA ListIsOrdered ==
    LET n == Cardinality(List!Listed)
    IN  /\ IsFiniteSet(List!Listed) /\ n \in Nat
        /\ List!ordered \in [1..n -> List!Listed]
        /\ \A x \in List!Listed : \E i \in 1..n : List!ordered[i] = x
<1> DEFINE S == List!Listed
           before == {p \in S \X S : List!compareRemediationsForApplyOrder(p[1], p[2])}
<1>1. S \subseteq Int /\ S \in SUBSET Rems /\ IsFiniteSet(Rems)
  BY NamesAssumption DEF List!Listed
<1>2. IsFiniteSet(S)
  <2> HIDE DEF S
  <2> QED
    BY <1>1, FS_Subset
<1>3. List!ordered = Ordered(S, before)
  BY PartsOrder DEF List!ordered
<1> HIDE DEF S
<1>4. TotalOrder(S, before)
  <2> DEFINE blocked(k) == remediations[k].state = "MissingDependencies"
  <2>1. \A m, k \in S : <<m, k>> \in before <=>
            \/ ~blocked(m) /\ blocked(k)
            \/ (blocked(m) <=> blocked(k)) /\ m < k
    BY DEF List!compareRemediationsForApplyOrder
  <2> HIDE DEF blocked, before
  <2>2. \A x \in S : <<x, x>> \notin before
    BY <1>1, <2>1
  <2>3. ASSUME NEW x \in S, NEW y \in S, NEW z \in S,
               <<x, y>> \in before, <<y, z>> \in before
        PROVE  <<x, z>> \in before
    <3>1. x \in Int /\ y \in Int /\ z \in Int
      BY <1>1
    <3> QED
      BY <2>1, <2>3, <3>1
  <2>4. ASSUME NEW x \in S, NEW y \in S, x # y
        PROVE  <<x, y>> \in before \/ <<y, x>> \in before
    <3>1. x < y \/ y < x
      BY <1>1, <2>4
    <3> QED
      BY <2>1, <3>1
  <2> QED
    BY <2>2, <2>3, <2>4 DEF TotalOrder
<1> HIDE DEF before
<1>5. /\ Cardinality(S) \in Nat
      /\ Ordered(S, before) \in [1..Cardinality(S) -> S]
      /\ \A x \in S : \E i \in 1..Cardinality(S) : Ordered(S, before)[i] = x
  BY <1>2, <1>4, OrderedSorts
<1> QED
  BY <1>2, <1>3, <1>5 DEF S

\* Every state a remediation has gets a chip.
LEMMA ChipsAreThere ==
    LET keys == {List!remediationStateKey(remediations[n]) : n \in List!Listed}
    IN  /\ List!stateKeys \in Seq(KnownStates \union keys)
        /\ keys \subseteq ToSet(List!stateKeys)
<1> DEFINE S == List!Listed
           key_(n) == List!remediationStateKey(remediations[n])
           keys == {key_(n) : n \in S}
           first == Kept(List!STATE_FILTER_ORDER, keys)
           others == keys \ ToSet(List!STATE_FILTER_ORDER)
           rest == SetToSeq(others)
           all == KnownStates \union keys
<1>1. DOMAIN List!stateCounts = keys
  BY DEF List!stateCounts
<1>2. List!stateKeys = first \o rest
  BY <1>1, PartsKeep, PartsList, PartsSetToSeq DEF List!stateKeys
<1>3. IsFiniteSet(S)
  BY ListIsOrdered
<1>4. IsFiniteSet(keys)
  <2> DEFINE f == [n \in S |-> key_(n)]
  <2>1. f \in Surjection(S, keys)
    BY DEF Surjection
  <2> HIDE DEF f, keys, S
  <2> QED
    BY <1>3, <2>1, FS_Surjection
<1>5. List!STATE_FILTER_ORDER \in Seq(KnownStates)
  BY DEF List!STATE_FILTER_ORDER, KnownStates
<1> HIDE DEF keys
<1>6. first \in Seq(KnownStates) /\ ToSet(first) = ToSet(List!STATE_FILTER_ORDER) \intersect keys
  BY <1>5, KeptMembers
<1>7. IsFiniteSet(others)
  BY <1>4, FS_Subset
<1> DEFINE m == Cardinality(others)
<1>8. /\ rest \in [1..m -> others] /\ m \in Nat
      /\ \A x \in others : \E i \in 1..m : rest[i] = x
  <2> HIDE DEF others
  <2> QED
    BY <1>7, SetToSeqLists
<1>9. others \subseteq keys
  OBVIOUS
<1> HIDE DEF first, rest, m
<1>10. first \in Seq(all) /\ rest \in Seq(all) /\ Len(rest) = m
  <2>1. first \in Seq(all)
    BY <1>6, SeqMonotonic
  <2>2. rest \in Seq(others) /\ Len(rest) = m
    BY <1>8
  <2>3. others \subseteq all
    BY <1>9
  <2>4. rest \in Seq(all)
    <3> HIDE DEF others, all
    <3> QED
      BY <2>2, <2>3, SeqMonotonic
  <2> QED
    BY <2>1, <2>2, <2>4
<1> HIDE DEF all
<1>11. /\ first \o rest \in Seq(all)
       /\ Len(first \o rest) = Len(first) + Len(rest)
       /\ \A i \in 1..Len(first) : (first \o rest)[i] = first[i]
       /\ \A i \in 1..Len(rest) : (first \o rest)[Len(first) + i] = rest[i]
       /\ Len(first) \in Nat /\ Len(rest) \in Nat
  BY <1>10
<1> DEFINE whole == first \o rest
<1> HIDE DEF whole
<1>12. DOMAIN whole = 1..(Len(first) + Len(rest)) /\ DOMAIN first = 1..Len(first)
  <2>1. DOMAIN whole = 1..Len(whole)
    BY <1>11 DEF whole
  <2>2. DOMAIN first = 1..Len(first)
    BY <1>10
  <2> QED
    BY <1>11, <2>1, <2>2 DEF whole
<1>13. ASSUME NEW k \in keys PROVE k \in ToSet(whole)
  <2>1. CASE k \in ToSet(List!STATE_FILTER_ORDER)
    <3>1. PICK i \in 1..Len(first) : first[i] = k
      BY <1>6, <1>12, <2>1 DEF ToSet
    <3>2. i \in DOMAIN whole /\ whole[i] = k
      BY <1>11, <1>12, <3>1 DEF whole
    <3> QED
      BY <3>2 DEF ToSet
  <2>2. CASE k \notin ToSet(List!STATE_FILTER_ORDER)
    <3>1. PICK i \in 1..Len(rest) : rest[i] = k
      BY <1>8, <1>10, <2>2
    <3>2. Len(first) + i \in DOMAIN whole /\ whole[Len(first) + i] = k
      BY <1>11, <1>12, <3>1 DEF whole
    <3> QED
      BY <3>2 DEF ToSet
  <2> QED
    BY <2>1, <2>2
<1> QED
  BY <1>2, <1>11, <1>13 DEF whole, all, keys, S

\* A list is empty for a search only, and a row is left out for a chip that is there.
LEMMA ListShows == List!VisibleUnlessSearched
<1> DEFINE S == List!Listed
           n == Cardinality(S)
           key_(m) == List!remediationStateKey(remediations[m])
           keys == {key_(m) : m \in S}
           on == stateFilters \intersect keys
           of == {m \in S : on # {} => key_(m) \in on}
<1> SUFFICES ASSUME query = Absent
             PROVE  /\ S # {} => List!visible # <<>>
                    /\ Len(List!visible) < Len(List!ordered) =>
                            List!chipsShown /\ \E k \in stateFilters : k \in List!ToSet(List!stateKeys)
  BY DEF List!VisibleUnlessSearched
<1>1. List!activeStates = on
  BY DEF List!activeStates, List!stateCounts
<1>2. List!visible = Kept(List!ordered, of)
  BY <1>1, PartsKeep DEF List!visible
<1>3. /\ n \in Nat /\ List!ordered \in [1..n -> S]
      /\ \A x \in S : \E i \in 1..n : List!ordered[i] = x
  BY ListIsOrdered
<1>4. List!stateKeys \in Seq(KnownStates \union keys) /\ keys \subseteq ToSet(List!stateKeys)
  BY ChipsAreThere
<1>5. of \subseteq S
  OBVIOUS
<1>6. of = {} => S = {}
  OBVIOUS
<1>7. of # S => \E k, l \in keys : k # l /\ k \in stateFilters
  OBVIOUS
<1> HIDE DEF S, of, keys, on
<1>8. List!ordered \in Seq(S) /\ ToSet(List!ordered) = S
  <2>1. List!ordered \in Seq(S) /\ DOMAIN List!ordered = 1..n
    BY <1>3
  <2> QED
    BY <1>3, <2>1 DEF ToSet
<1>9. List!visible \in Seq(S) /\ ToSet(List!visible) = of
  <2>1. /\ Kept(List!ordered, of) \in Seq(S)
        /\ ToSet(Kept(List!ordered, of)) = ToSet(List!ordered) \intersect of
    BY <1>8, KeptMembers
  <2>2. S \intersect of = of
    BY <1>5
  <2> QED
    BY <1>2, <1>8, <2>1, <2>2
<1>10. ASSUME S # {} PROVE List!visible # <<>>
  <2>1. PICK x \in of : TRUE
    BY <1>6, <1>10
  <2>2. PICK i \in DOMAIN List!visible : List!visible[i] = x
    BY <1>9, <2>1 DEF ToSet
  <2> QED
    BY <2>2
<1>11. ASSUME Len(List!visible) < Len(List!ordered)
       PROVE  List!chipsShown /\ \E k \in stateFilters : k \in List!ToSet(List!stateKeys)
  <2>1. of # S
    <3> SUFFICES ASSUME of = S PROVE FALSE
      OBVIOUS
    <3>1. Len(List!visible) = Len(List!ordered)
      BY <1>2, <1>8, KeptWhole
    <3>2. Len(List!ordered) \in Nat
      BY <1>8
    <3> QED
      BY <1>11, <3>1, <3>2
  <2>2. PICK k \in keys, l \in keys : k # l /\ k \in stateFilters
    BY <1>7, <2>1
  <2>3. k \in ToSet(List!stateKeys) /\ l \in ToSet(List!stateKeys)
    BY <1>4
  <2>4. PICK i \in DOMAIN List!stateKeys, j \in DOMAIN List!stateKeys :
            List!stateKeys[i] = k /\ List!stateKeys[j] = l
    BY <2>3 DEF ToSet
  <2>5. i # j
    BY <2>2, <2>4
  <2>6. DOMAIN List!stateKeys = 1..Len(List!stateKeys) /\ Len(List!stateKeys) \in Nat
    BY <1>4
  <2>7. Len(List!stateKeys) > 1
    BY <2>4, <2>5, <2>6
  <2> QED
    BY <2>2, <2>3, <2>7, PartsList DEF List!chipsShown
<1> QED
  BY <1>10, <1>11

\* The page, the Overview and the list say what is, whatever was read, clicked and
\* written in between.
THEOREM ConsoleSaysWhatIs == Spec => []SaysWhatIs
<1> DEFINE Inv == /\ route = "page" => PageInv
                  /\ route = "overview" => OverviewInv
<1>1. Init => Inv
  BY PageStart, OverviewStart DEF Init
<1>2. Inv /\ [Next]_vars => Inv'
  BY OnePart, PageStep, OverviewStep
<1>3. Inv => SaysWhatIs
  BY NoBaselineIsRead, PageSays, OverviewAgrees, ListShows DEF SaysWhatIs
<1> QED
  BY <1>1, <1>2, <1>3, PTL DEF Spec

------------------------------------------------------------------------------
(* the form of a tailored profile *)

\* names a list of rules may hold, and the profiles there may be
RuleNames == Rules \union {BadRule}
Profiles == [extends : Bases, disable : Seq(RuleNames), enable : Seq(RuleNames)]

\* The catalog lists rules, the pickers and the cluster hold lists of names.
RulesInv ==
    /\ catalog \in [Bases -> SUBSET Rules]
    /\ rulesBase \in Bases
    /\ disable \in Seq(RuleNames) /\ enable \in Seq(RuleNames)
    /\ existing \in Profiles \union {Absent}

\* one more name, if it is one and new
OneName(out, n) == IF n = BadRule \/ n \in ToSet(out) THEN out ELSE Append(out, n)

\* A cleaned list has the valid names of the list, and no other.
LEMMA CleanNames ==
    ASSUME NEW list \in Seq(RuleNames)
    PROVE  /\ Tailored!cleanRuleNames(list) \in Seq(RuleNames)
           /\ ToSet(Tailored!cleanRuleNames(list)) = ToSet(list) \ {BadRule}
<1> DEFINE V == Seq(RuleNames)
           n == Len(list)
           F(g) == [s \in SUBSET (1..n) |->
                        IF s = {} THEN <<>> ELSE OneName(g[s \ {Max(s)}], list[Max(s)])]
           it == CHOOSE g : g = F(g)
           h == [p \in (1..n) \X V |-> OneName(p[2], list[p[1]])]
<1>0. n \in Nat /\ list \in [1..n -> RuleNames] /\ DOMAIN list = 1..n
  OBVIOUS
<1>1. Tailored!cleanRuleNames(list) = it[1..n]
  <2>1. \A s : Tailored!Max(s) = Max(s)
    BY DEF Tailored!Max, Max
  <2>2. \A x : Tailored!ToSet(x) = ToSet(x)
    BY PartsList
  <2>3. Tailored!cleanRuleNames(list)
            = (CHOOSE g : g = [s \in SUBSET (1..n) |->
                                  IF s = {} THEN <<>>
                                  ELSE IF list[Tailored!Max(s)] = BadRule
                                            \/ list[Tailored!Max(s)] \in Tailored!ToSet(g[s \ {Tailored!Max(s)}])
                                       THEN g[s \ {Tailored!Max(s)}]
                                       ELSE Append(g[s \ {Tailored!Max(s)}], list[Tailored!Max(s)])])[1..n]
    BY <1>0 DEF Tailored!cleanRuleNames, Tailored!FoldLeft, Tailored!MapThenFoldSet
  <2> QED
    BY <2>1, <2>2, <2>3 DEF OneName
<1> HIDE DEF n
<1>2. ASSUME NEW out \in V, NEW i \in 1..n PROVE OneName(out, list[i]) \in V
  BY <1>0 DEF OneName
<1>3. h \in [(1..n) \X V -> V]
  <2> HIDE DEF V
  <2> QED
    BY <1>2
<1>4. <<>> \in V
  OBVIOUS
<1>5. PICK g : IsFold(n, V, <<>>, h, g)
  <2> HIDE DEF h, V
  <2> QED
    BY <1>0, <1>3, <1>4, FoldExists
<1>6. g = F(g)
  <2>1. ASSUME NEW s \in SUBSET (1..n), s # {}
        PROVE  h[<<Max(s), g[s \ {Max(s)}]>>] = OneName(g[s \ {Max(s)}], list[Max(s)])
    <3> HIDE DEF V
    <3>1. s \ {Max(s)} \in SUBSET (1..n) /\ g[s \ {Max(s)}] \in V
      BY <1>5 DEF IsFold
    <3>2. Max(s) \in 1..n
      BY <1>0, <2>1, MaxIsIn
    <3> QED
      BY <3>1, <3>2
  <2>2. g = [s \in SUBSET (1..n) |-> g[s]]
    BY <1>5 DEF IsFold
  <2> HIDE DEF h, V
  <2> QED
    BY <1>5, <2>1, <2>2 DEF IsFold
<1>7. it = F(it)
  <2> HIDE DEF F
  <2> QED
    BY <1>6
<1> HIDE DEF it
<1>8. it[{}] = <<>>
  BY <1>7
<1>9. \A s \in SUBSET (1..n) : (s # {} /\ it[s \ {Max(s)}] \in V) =>
          it[s] = h[<<Max(s), it[s \ {Max(s)}]>>]
  <2> SUFFICES ASSUME NEW s \in SUBSET (1..n), s # {}, it[s \ {Max(s)}] \in V
               PROVE  it[s] = h[<<Max(s), it[s \ {Max(s)}]>>]
    OBVIOUS
  <2>1. it[s] = OneName(it[s \ {Max(s)}], list[Max(s)])
    BY <1>7
  <2>2. Max(s) \in 1..n
    BY <1>0, MaxIsIn
  <2> HIDE DEF V
  <2> QED
    BY <2>1, <2>2
<1>10. PICK r : Chain(r, n, V, <<>>, h, it[1..n])
  <2>1. FoldsBy(it, n, V, <<>>, h)
    <3> HIDE DEF h, F, V
    <3> QED
      BY <1>8, <1>9 DEF FoldsBy
  <2> HIDE DEF h, F, V
  <2> QED
    BY <1>0, <1>3, <1>4, <2>1, FoldChain
<1>11. r \in [0..n -> V] /\ r[0] = <<>> /\ r[n] = it[1..n]
  <2> HIDE DEF V
  <2> QED
    BY <1>10 DEF Chain
<1>12. \A k \in 1..n : r[k] = OneName(r[k - 1], list[k])
  <2> HIDE DEF V
  <2>1. \A k \in 1..n : k - 1 \in 0..n
    BY <1>0
  <2> QED
    BY <1>10, <1>11, <2>1 DEF Chain
<1> HIDE DEF h, F
<1> DEFINE upTo(k) == {list[i] : i \in 1..k} \ {BadRule}
           G == {k \in Nat : k <= n => ToSet(r[k]) = upTo(k)}
<1>13. 0 \in G
  <2>1. 1..0 = {} /\ ToSet(<<>>) = {}
    BY DEF ToSet
  <2> QED
    BY <1>11, <2>1
<1>14. ASSUME NEW k \in Nat, k \in G PROVE k + 1 \in G
  <2> SUFFICES ASSUME k + 1 <= n PROVE ToSet(r[k + 1]) = upTo(k + 1)
    OBVIOUS
  <2>1. k + 1 \in 1..n /\ (k + 1) - 1 = k /\ k \in 0..n
    BY <1>0
  <2>2. ToSet(r[k]) = upTo(k)
    BY <1>0, <1>14, <2>1
  <2>3. r[k] \in V /\ r[k + 1] = OneName(r[k], list[k + 1])
    BY <1>11, <1>12, <2>1
  <2>4. \A i : i \in 1..(k + 1) <=> i \in 1..k \/ i = k + 1
    OBVIOUS
  <2>5. upTo(k + 1) = (upTo(k) \union {list[k + 1]}) \ {BadRule}
    BY <2>4
  <2> HIDE DEF upTo
  <2>6. CASE list[k + 1] = BadRule \/ list[k + 1] \in ToSet(r[k])
    <3>1. r[k + 1] = r[k]
      BY <2>3, <2>6 DEF OneName
    <3>2. BadRule \notin upTo(k)
      BY DEF upTo
    <3> QED
      BY <2>2, <2>5, <2>6, <3>1, <3>2
  <2>7. CASE list[k + 1] # BadRule /\ list[k + 1] \notin ToSet(r[k])
    <3>1. r[k + 1] = Append(r[k], list[k + 1])
      BY <2>3, <2>7 DEF OneName
    <3> DEFINE a == r[k]
               b == Append(a, list[k + 1])
    <3>2. a \in Seq(RuleNames) /\ list[k + 1] \in RuleNames
      BY <1>0, <2>1, <2>3
    <3> HIDE DEF a
    <3>3. /\ DOMAIN b = 1..(Len(a) + 1) /\ DOMAIN a = 1..Len(a) /\ Len(a) \in Nat
          /\ b[Len(a) + 1] = list[k + 1] /\ \A i \in 1..Len(a) : b[i] = a[i]
      BY <3>2
    <3>4. \A i : i \in 1..(Len(a) + 1) <=> i \in 1..Len(a) \/ i = Len(a) + 1
      BY <3>3
    <3> HIDE DEF b
    <3>5. ToSet(b) = ToSet(a) \union {list[k + 1]}
      BY <3>3, <3>4 DEF ToSet
    <3>6. BadRule \notin upTo(k)
      BY DEF upTo
    <3> QED
      BY <2>2, <2>5, <2>7, <3>1, <3>5, <3>6 DEF a, b
  <2> QED
    BY <2>6, <2>7
<1>15. Nat \subseteq G
  <2> HIDE DEF G
  <2> QED
    BY <1>13, <1>14, NaturalsByStep
<1>16. ToSet(r[n]) = ToSet(list) \ {BadRule}
  <2>1. ToSet(r[n]) = upTo(n)
    BY <1>0, <1>15
  <2> QED
    BY <1>0, <2>1 DEF ToSet
<1>17. r[n] \in V
  <2>1. n \in 0..n
    BY <1>0
  <2> HIDE DEF V
  <2> QED
    BY <1>11, <2>1
<1> QED
  BY <1>1, <1>11, <1>16, <1>17

\* What a save writes is a profile.
LEMMA ManifestIsProfile ==
    ASSUME RulesInv
    PROVE  LET manifest == Tailored!tailoredProfileManifest(rulesBase, disable, enable)
           IN  /\ manifest \in Profiles /\ manifest # Absent
               /\ manifest.extends = rulesBase
               /\ manifest.disable = Tailored!cleanRuleSelection(disable, enable).disable
               /\ manifest.enable = Tailored!cleanRuleSelection(disable, enable).enable
               /\ ToSet(manifest.disable) = ToSet(disable) \ {BadRule}
               /\ ToSet(manifest.enable)
                    = (ToSet(enable) \ {BadRule}) \intersect (ToSet(enable) \ (ToSet(disable) \ {BadRule}))
<1> DEFINE off == Tailored!cleanRuleNames(disable)
           on == Tailored!cleanRuleNames(enable)
           of == ToSet(enable) \ ToSet(off)
           manifest == Tailored!tailoredProfileManifest(rulesBase, disable, enable)
<1>1. /\ off \in Seq(RuleNames) /\ on \in Seq(RuleNames)
      /\ ToSet(off) = ToSet(disable) \ {BadRule} /\ ToSet(on) = ToSet(enable) \ {BadRule}
  BY CleanNames DEF RulesInv
<1>2. manifest = [extends |-> rulesBase, disable |-> off, enable |-> Kept(on, of)]
  BY PartsKeep, PartsList DEF Tailored!tailoredProfileManifest, Tailored!cleanRuleSelection
<1>3. Tailored!cleanRuleSelection(disable, enable) = [disable |-> off, enable |-> Kept(on, of)]
  BY PartsKeep, PartsList DEF Tailored!cleanRuleSelection
<1> HIDE DEF off, on, of, manifest
<1>4. Kept(on, of) \in Seq(RuleNames) /\ ToSet(Kept(on, of)) = ToSet(on) \intersect of
  BY <1>1, KeptMembers
<1>5. manifest \in Profiles
  BY <1>1, <1>2, <1>4 DEF Profiles, RulesInv
<1>6. manifest # Absent
  BY <1>5, MarkersAssumption DEF Profiles, RuleNames
<1>7. /\ manifest.extends = rulesBase
      /\ manifest.disable = off /\ manifest.enable = Kept(on, of)
  BY <1>2
<1>8. /\ manifest.disable = Tailored!cleanRuleSelection(disable, enable).disable
      /\ manifest.enable = Tailored!cleanRuleSelection(disable, enable).enable
  BY <1>3, <1>7
<1>9. ToSet(manifest.disable) = ToSet(disable) \ {BadRule}
  BY <1>1, <1>7
<1>10. ToSet(manifest.enable)
           = (ToSet(enable) \ {BadRule}) \intersect (ToSet(enable) \ (ToSet(disable) \ {BadRule}))
  BY <1>1, <1>4, <1>7 DEF of
<1> QED
  BY <1>5, <1>6, <1>7, <1>8, <1>9, <1>10 DEF manifest

\* Lists with the same names as often hold the same names.
LEMMA SameNamesSameSet ==
    ASSUME NEW one \in Seq(RuleNames), NEW other \in Seq(RuleNames),
           Tailored!SameNames(one, other)
    PROVE  ToSet(one) = ToSet(other)
<1> DEFINE at(list, n) == {i \in DOMAIN list : list[i] = n}
<1>1. ASSUME NEW list \in Seq(RuleNames), NEW n
      PROVE  IsFiniteSet(at(list, n)) /\ (Cardinality(at(list, n)) = 0 <=> n \notin ToSet(list))
  <2>1. DOMAIN list = 1..Len(list) /\ Len(list) \in Nat
    OBVIOUS
  <2>2. IsFiniteSet(1..Len(list))
    BY <2>1, FS_Interval
  <2>3. at(list, n) \in SUBSET (1..Len(list))
    BY <2>1
  <2>4. at(list, n) = {} <=> n \notin ToSet(list)
    BY DEF ToSet
  <2> HIDE DEF at
  <2>5. IsFiniteSet(at(list, n))
    BY <2>2, <2>3, FS_Subset
  <2> QED
    BY <2>4, <2>5, FS_EmptySet
<1>2. \A n \in ToSet(one) \union ToSet(other) :
          Cardinality(at(one, n)) = Cardinality(at(other, n))
  BY PartsList, PartsOrder DEF Tailored!SameNames
<1> HIDE DEF at
<1>3. ASSUME NEW n \in ToSet(one) \union ToSet(other) PROVE n \in ToSet(one) <=> n \in ToSet(other)
  BY <1>1, <1>2
<1> QED
  BY <1>3

\* A creation adopts what scans the same, and its own earlier attempt.
LEMMA FormAdopts == RulesInv => Tailored!AdoptOnlySame
<1> SUFFICES ASSUME RulesInv PROVE Tailored!AdoptOnlySame
  OBVIOUS
<1> DEFINE manifest == Tailored!tailoredProfileManifest(rulesBase, disable, enable)
           matches == Tailored!tailoredProfileSpecMatches(rulesBase, disable, enable)
<1>1. /\ manifest \in Profiles /\ manifest # Absent
      /\ manifest.extends = rulesBase
      /\ manifest.disable = Tailored!cleanRuleSelection(disable, enable).disable
      /\ manifest.enable = Tailored!cleanRuleSelection(disable, enable).enable
  BY ManifestIsProfile
<1>2. matches <=> /\ existing # Absent /\ existing.extends = rulesBase
                  /\ Tailored!SameNames(existing.disable, manifest.disable)
                  /\ Tailored!SameNames(existing.enable, manifest.enable)
  BY <1>1 DEF Tailored!tailoredProfileSpecMatches
<1> HIDE DEF manifest, matches
<1>3. existing = manifest => matches
  BY <1>1, <1>2 DEF Tailored!SameNames
<1>4. ASSUME matches
      PROVE  /\ Tailored!Scanned(existing) = Tailored!Scanned(manifest)
             /\ existing.extends = manifest.extends
  <2>1. /\ existing \in Profiles
        /\ existing.disable \in Seq(RuleNames) /\ existing.enable \in Seq(RuleNames)
        /\ manifest.disable \in Seq(RuleNames) /\ manifest.enable \in Seq(RuleNames)
    BY <1>1, <1>2, <1>4 DEF RulesInv, Profiles
  <2>2. ToSet(existing.disable) = ToSet(manifest.disable)
    BY <1>2, <1>4, <2>1, SameNamesSameSet
  <2>3. ToSet(existing.enable) = ToSet(manifest.enable)
    BY <1>2, <1>4, <2>1, SameNamesSameSet
  <2> QED
    BY <1>1, <1>2, <1>4, <2>2, <2>3, PartsList DEF Tailored!Scanned
<1> QED
  BY <1>3, <1>4 DEF Tailored!AdoptOnlySame, manifest, matches

\* The counts of the form are those of what a save writes.
LEMMA FormCounts == RulesInv => Tailored!CountsAreSaved
<1> DEFINE C == catalog[rulesBase]
           D == ToSet(disable)
           E == ToSet(enable)
           saved == Tailored!tailoredProfileManifest(rulesBase, disable, enable)
           said == Tailored!tailoredEffectiveCounts(disable, enable)
<1> SUFFICES ASSUME RulesInv, D \intersect E = {}, BadRule \notin E
             PROVE  /\ said.remainingBase + said.extraEnabled = Tailored!Cardinality(Tailored!Scanned(saved))
                    /\ said.remainingBase <= Tailored!Cardinality(C)
  BY PartsList DEF Tailored!CountsAreSaved
<1>1. /\ C \in SUBSET Rules /\ E \in SUBSET Rules
      /\ IsFiniteSet(Rules) /\ BadRule \notin Rules
  <2>1. DOMAIN enable = 1..Len(enable) /\ \A i \in 1..Len(enable) : enable[i] \in RuleNames
    BY DEF RulesInv
  <2>2. E \subseteq RuleNames
    BY <2>1 DEF ToSet
  <2>3. E \in SUBSET Rules
    BY <2>2 DEF RuleNames
  <2> QED
    BY <2>3, NamesAssumption DEF RulesInv
<1>2. said.remainingBase = Cardinality(C \ D) /\ said.extraEnabled = Cardinality(E \ C)
  BY PartsList, PartsOrder DEF Tailored!tailoredEffectiveCounts
<1>3. Tailored!Scanned(saved) = (C \ (D \ {BadRule})) \union ((E \ {BadRule}) \intersect (E \ (D \ {BadRule})))
  BY ManifestIsProfile, PartsList DEF Tailored!Scanned
<1> HIDE DEF saved, said, C, D, E
<1>4. Tailored!Scanned(saved) = (C \ D) \union (E \ C)
  BY <1>1, <1>3
<1>5. IsFiniteSet(C) /\ IsFiniteSet(C \ D) /\ IsFiniteSet(E \ C)
  <2>1. (C \ D) \in SUBSET Rules /\ (E \ C) \in SUBSET Rules
    BY <1>1
  <2> QED
    BY <1>1, <2>1, FS_Subset
<1>6. /\ Cardinality(C \ D) \in Nat /\ Cardinality(E \ C) \in Nat
      /\ Cardinality({}) = 0
  BY <1>5, FS_CardinalityType, FS_EmptySet
<1>7. Cardinality((C \ D) \union (E \ C)) = Cardinality(C \ D) + Cardinality(E \ C)
  <2>1. (C \ D) \intersect (E \ C) = {}
    OBVIOUS
  <2> QED
    BY <1>5, <2>1, DisjointUnion
<1>8. Cardinality(C \ D) <= Cardinality(C)
  <2>1. C \ D \in SUBSET C
    OBVIOUS
  <2> QED
    BY <1>5, <2>1, FS_Subset
<1> QED
  BY <1>2, <1>4, <1>7, <1>8, PartsOrder DEF C

\* The form opens empty, over a catalog.
LEMMA RulesStart == Tailored!Init => RulesInv
<1> SUFFICES ASSUME Tailored!Init PROVE RulesInv
  OBVIOUS
<1>1. (CHOOSE n \in Rules : TRUE) \in Rules
  BY NamesAssumption
<1> DEFINE first == CHOOSE n \in Rules : TRUE
<1> HIDE DEF first
<1>2. catalog = [b \in Bases |-> IF b = DEFAULT_BASE_PROFILE THEN {first} ELSE Rules]
  BY DEF Tailored!Init, first
<1>3. catalog \in [Bases -> SUBSET Rules]
  BY <1>1, <1>2 DEF first
<1> QED
  BY <1>3, NamesAssumption DEF Tailored!Init, RulesInv

\* The options of a picker are rules.
LEMMA MatchesAreRules == RulesInv => Tailored!matches \in Seq(Rules)
<1> SUFFICES ASSUME RulesInv PROVE Tailored!matches \in Seq(Rules)
  OBVIOUS
<1> DEFINE S == Tailored!allMatches
           before == {p \in Rules \X Rules : p[1] < p[2]}
           all == Ordered(S, before)
           n == Cardinality(S)
<1>1. S \in SUBSET Rules /\ Rules \subseteq Int /\ IsFiniteSet(Rules) /\ RULE_OPTION_CAP \in Nat
  BY NamesAssumption DEF Tailored!allMatches, Tailored!Options, Tailored!enableCandidates, RulesInv
<1>2. Tailored!matches = IF Tailored!searchOnly /\ picker.query = Absent THEN <<>>
                         ELSE SubSeq(all, 1, IF Len(all) < RULE_OPTION_CAP THEN Len(all)
                                             ELSE RULE_OPTION_CAP)
  BY PartsOrder DEF Tailored!matches
<1> HIDE DEF S
<1>3. TotalOrder(S, before)
  <2>1. \A x, y \in S : <<x, y>> \in before <=> x < y
    BY <1>1
  <2>2. \A x \in S : x \in Int
    BY <1>1
  <2> HIDE DEF before
  <2> QED
    BY <2>1, <2>2 DEF TotalOrder
<1> HIDE DEF before
<1>4. n \in Nat /\ all \in [1..n -> S]
  <2>1. IsFiniteSet(S)
    BY <1>1, FS_Subset
  <2> QED
    BY <1>3, <2>1, OrderedSorts
<1> HIDE DEF n, all
<1>5. all \in Seq(Rules) /\ Len(all) \in Nat
  <2>1. all \in [1..n -> Rules] /\ n \in Nat
    BY <1>1, <1>4
  <2> QED
    BY <2>1
<1>6. ASSUME NEW m \in Nat, m <= Len(all) PROVE SubSeq(all, 1, m) \in Seq(Rules)
  <2>1. 1 \in Int /\ m \in Int /\ \A i \in 1..m : all[i] \in Rules
    BY <1>5, <1>6
  <2> QED
    BY <2>1, SubSeqProperties
<1> DEFINE k == IF Len(all) < RULE_OPTION_CAP THEN Len(all) ELSE RULE_OPTION_CAP
<1>7. k \in Nat /\ k <= Len(all)
  BY <1>1, <1>5
<1> HIDE DEF k
<1>8. SubSeq(all, 1, k) \in Seq(Rules)
  BY <1>6, <1>7
<1>9. Tailored!matches = IF Tailored!searchOnly /\ picker.query = Absent THEN <<>>
                         ELSE SubSeq(all, 1, k)
  BY <1>2 DEF all, k
<1> QED
  BY <1>8, <1>9

\* A choice is a list of names.
LEMMA ChoiceKeeps ==
    ASSUME RulesInv, NEW list \in Seq(RuleNames), Tailored!Choose(list)
    PROVE  disable' \in Seq(RuleNames) /\ enable' \in Seq(RuleNames)
BY DEF RulesInv, Tailored!Choose

\* What is picked is a list of names, also without one of them.
LEMMA PickedNames ==
    ASSUME RulesInv
    PROVE  /\ Tailored!Picked \in Seq(RuleNames)
           /\ \A n : Tailored!Without(Tailored!Picked, n) \in Seq(RuleNames)
<1>1. Tailored!Picked \in Seq(RuleNames)
  BY DEF RulesInv, Tailored!Picked
<1>2. ASSUME NEW n PROVE Tailored!Without(Tailored!Picked, n) \in Seq(RuleNames)
  BY <1>1, PartsKeep, KeptMembers DEF Tailored!Without
<1> QED
  BY <1>1, <1>2

\* Picking a rule leaves a list of names.
LEMMA PickKeeps ==
    ASSUME RulesInv, NEW n \in Rules, Tailored!pick(n)
    PROVE  disable' \in Seq(RuleNames) /\ enable' \in Seq(RuleNames)
<1> DEFINE list == IF n \in Tailored!ToSet(Tailored!Picked) THEN Tailored!Without(Tailored!Picked, n)
                   ELSE Append(Tailored!Picked, n)
<1>1. Tailored!Choose(list)
  BY DEF Tailored!pick
<1>2. list \in Seq(RuleNames)
  <2>1. n \in RuleNames
    BY DEF RuleNames
  <2>2. Append(Tailored!Picked, n) \in Seq(RuleNames)
    BY <2>1, PickedNames
  <2> QED
    BY <2>2, PickedNames
<1> HIDE DEF list
<1> QED
  BY <1>1, <1>2, ChoiceKeeps

\* Every step leaves a catalog, lists of names and a profile or none.
LEMMA RulesStep ==
    ASSUME RulesInv, Tailored!Next \/ UNCHANGED ofRules
    PROVE  RulesInv'
<1>1. CASE UNCHANGED ofRules
  BY <1>1 DEF ofRules, RulesInv
<1>2. CASE Tailored!Focus \/ Tailored!Type \/ Tailored!ToggleList
  BY <1>2 DEF RulesInv, Tailored!Focus, Tailored!Type, Tailored!ToggleList,
              Tailored!picked, Tailored!cluster
<1>3. CASE Tailored!PickOption
  <2>1. PICK n \in ToSet(Tailored!matches) : Tailored!pick(n)
    BY <1>3, PartsList DEF Tailored!PickOption
  <2>2. n \in Rules
    BY <2>1, MatchesAreRules DEF ToSet
  <2>3. disable' \in Seq(RuleNames) /\ enable' \in Seq(RuleNames)
    BY <2>1, <2>2, PickKeeps
  <2> QED
    BY <1>3, <2>3 DEF RulesInv, Tailored!PickOption, Tailored!cluster
<1>4. CASE Tailored!PickFirst
  <2>1. Head(Tailored!matches) \in Rules /\ Tailored!pick(Head(Tailored!matches))
    BY <1>4, MatchesAreRules DEF Tailored!PickFirst
  <2>2. disable' \in Seq(RuleNames) /\ enable' \in Seq(RuleNames)
    BY <2>1, PickKeeps
  <2> QED
    BY <1>4, <2>2 DEF RulesInv, Tailored!PickFirst, Tailored!cluster
<1>5. CASE Tailored!RemoveChip
  <2>1. PICK n : Tailored!Choose(Tailored!Without(Tailored!Picked, n))
    BY <1>5 DEF Tailored!RemoveChip
  <2>2. disable' \in Seq(RuleNames) /\ enable' \in Seq(RuleNames)
    BY <2>1, PickedNames, ChoiceKeeps
  <2> QED
    BY <1>5, <2>2 DEF RulesInv, Tailored!RemoveChip, Tailored!cluster
<1>6. CASE Tailored!ClearPicker
  <2>1. disable' \in Seq(RuleNames) /\ enable' \in Seq(RuleNames)
    <3>1. <<>> \in Seq(RuleNames)
      OBVIOUS
    <3> QED
      BY <1>6, <3>1, ChoiceKeeps DEF Tailored!ClearPicker
  <2> QED
    BY <1>6, <2>1 DEF RulesInv, Tailored!ClearPicker, Tailored!cluster
<1>7. CASE Tailored!ChangeBase
  BY <1>7 DEF RulesInv, Tailored!ChangeBase, Tailored!cluster
<1>8. CASE Tailored!openEdit
  BY <1>8 DEF RulesInv, Tailored!openEdit, Tailored!cluster, Profiles
<1>9. CASE Tailored!Create \/ Tailored!Update \/ Tailored!Close
  <2>1. \/ existing' = existing
        \/ existing' = Tailored!tailoredProfileManifest(rulesBase, disable, enable)
    BY <1>9 DEF Tailored!Create, Tailored!Update, Tailored!Close, Tailored!cluster
  <2>2. existing' \in Profiles \union {Absent}
    BY <2>1, ManifestIsProfile DEF RulesInv
  <2>3. \/ rulesBase' = rulesBase /\ disable' = disable /\ enable' = enable
        \/ rulesBase' = DEFAULT_BASE_PROFILE /\ disable' = <<>> /\ enable' = <<>>
    BY <1>9 DEF Tailored!Create, Tailored!Update, Tailored!Close, Tailored!Cleared, Tailored!picked
  <2>4. catalog' = catalog
    BY <1>9 DEF Tailored!Create, Tailored!Update, Tailored!Close, Tailored!cluster
  <2>5. <<>> \in Seq(RuleNames)
    OBVIOUS
  <2>6. disable' \in Seq(RuleNames) /\ enable' \in Seq(RuleNames)
    BY <2>3, <2>5 DEF RulesInv
  <2>7. rulesBase' \in Bases
    BY <2>3, NamesAssumption DEF RulesInv
  <2> QED
    BY <2>2, <2>4, <2>6, <2>7 DEF RulesInv
<1>10. CASE Tailored!CatalogChanges
  <2>1. PICK b \in Bases, n \in Rules :
            catalog' = [catalog EXCEPT ![b] = IF n \in @ THEN @ \ {n} ELSE @ \union {n}]
    BY <1>10 DEF Tailored!CatalogChanges
  <2>2. catalog' \in [Bases -> SUBSET Rules]
    BY <2>1 DEF RulesInv
  <2> QED
    BY <1>10, <2>2 DEF RulesInv, Tailored!CatalogChanges, Tailored!picked
<1>11. CASE Tailored!OtherWrites
  <2>1. existing' \in Profiles \union {Absent}
    BY <1>11, NamesAssumption DEF Tailored!OtherWrites, Profiles, RuleNames
  <2> QED
    BY <1>11, <2>1 DEF RulesInv, Tailored!OtherWrites, Tailored!picked
<1> QED
  BY <1>1, <1>2, <1>3, <1>4, <1>5, <1>6, <1>7, <1>8, <1>9, <1>10, <1>11 DEF Tailored!Next

\* A creation adopts what scans the same as its form and its own attempt always, and
\* what the form counts is what a save makes it scan: for any lists, in any order and
\* with any names, picked here or written by others.
THEOREM FormIsKept == Spec => []FormKeepsWord
<1> DEFINE Inv == route = "rules" => RulesInv
<1>1. Init => Inv
  BY RulesStart DEF Init
<1>2. Inv /\ [Next]_vars => Inv'
  BY OnePart, RulesStep
<1>3. Inv => FormKeepsWord
  BY FormAdopts, FormCounts DEF FormKeepsWord
<1> QED
  BY <1>1, <1>2, <1>3, PTL DEF Spec

------------------------------------------------------------------------------
(* the counts and scores of the operator and of the console *)

\* The results are of the checks.
ViewsInv == results \in [Checks -> Rows \union {Absent}]

\* It holds when the console opens, and whatever result changes.
LEMMA ViewsKeep ==
    /\ Views!Init => ViewsInv
    /\ ViewsInv /\ (Views!Next \/ UNCHANGED ofViews) => ViewsInv'
BY DEF Views!Init, Views!Next, Views!ResultChanges, Views!WaiverChanges, Views!ModeChanges,
       Views!HistoryChanges, ofViews, ViewsInv

\* Both read the annotations of an inconsistent result the same way.
LEMMA TokensAgree ==
    ASSUME NEW row \in Views!AllRows, row.status = "INCONSISTENT"
    PROVE  /\ Views!effectiveStatus(row) = Views!effectiveInconsistentStatus(row.tokens)
           /\ Views!effectiveStatus(row) \in {"PASS", "NOT-APPLICABLE", "INCONSISTENT"}
<1> DEFINE bad == {"UNKNOWN", "FAIL", "ERROR"}
           tokens == row.tokens
<1>1. tokens \subseteq Views!Tokens
  BY DEF Views!AllRows, Views!Statuses
<1>2. Views!effectiveStatus(row)
          = IF tokens \intersect bad # {} THEN "INCONSISTENT"
            ELSE IF "PASS" \in tokens THEN "PASS"
            ELSE IF tokens # {} THEN "NOT-APPLICABLE" ELSE "INCONSISTENT"
  BY DEF Views!effectiveStatus
<1> HIDE DEF tokens
<1>3. CASE tokens \intersect bad # {}
  BY <1>2, <1>3 DEF Views!effectiveInconsistentStatus, tokens
<1>4. CASE tokens \intersect bad = {}
  <2>1. tokens \subseteq {"PASS", "NOT-APPLICABLE", "SKIP"}
    BY <1>1, <1>4 DEF Views!Tokens
  <2>2. CASE "PASS" \in tokens
    <3>1. Views!effectiveInconsistentStatus(tokens) = "PASS"
      BY <1>4, <2>1, <2>2 DEF Views!effectiveInconsistentStatus
    <3> QED
      BY <1>2, <1>4, <2>2, <3>1 DEF tokens
  <2>3. CASE "PASS" \notin tokens /\ tokens # {}
    <3>1. tokens \subseteq {"NOT-APPLICABLE", "SKIP"}
      BY <2>1, <2>3
    <3>2. Views!effectiveInconsistentStatus(tokens) = "NOT-APPLICABLE"
      BY <1>4, <2>3, <3>1 DEF Views!effectiveInconsistentStatus
    <3> QED
      BY <1>2, <1>4, <2>3, <3>2 DEF tokens
  <2>4. CASE tokens = {}
    <3>1. Views!effectiveInconsistentStatus(tokens) = "INCONSISTENT"
      BY <2>4 DEF Views!effectiveInconsistentStatus
    <3>2. "PASS" \notin tokens
      BY <2>4
    <3> QED
      BY <1>2, <1>4, <2>4, <3>1, <3>2 DEF tokens
  <2> QED
    BY <2>2, <2>3, <2>4
<1> QED
  BY <1>3, <1>4

\* Both put a result into the same place.
LEMMA StatusAgrees ==
    ASSUME ViewsInv, NEW n \in Views!Present
    PROVE  /\ Views!CounterOf(Views!Tallied(n)) = Views!resultFilterStatus(n)
           /\ Views!resultFilterStatus(n) \in Views!RESULT_FILTER_STATUSES
           /\ Views!Tallied(n) = "PASS" <=> Views!effectiveStatus(results[n]) = "PASS"
           /\ Views!Tallied(n) = "FAIL" <=> /\ Views!effectiveStatus(results[n]) = "FAIL"
                                            /\ n \notin Views!activeWaivedNames
<1> DEFINE row == results[n]
           raw == CASE row.status = "WAIVED" -> "ERROR"
                    [] row.status = "INCONSISTENT" -> Views!effectiveInconsistentStatus(row.tokens)
                    [] OTHER -> row.status
           eff == Views!effectiveStatus(row)
           waived == n \in Views!activeWaivedNames
<1>1. row \in Views!AllRows
  BY NamesAssumption DEF ViewsInv, Views!Present
<1>2. row.status \in Views!Statuses \union {"INCONSISTENT"}
  BY <1>1 DEF Views!AllRows
<1>3. Views!Tallied(n) = IF raw = "FAIL" /\ waived THEN "WAIVED" ELSE raw
  BY DEF Views!Tallied, Views!OperatorWaived, Views!activeWaivedNames
<1>4. Views!resultFilterStatus(n) = IF eff = "FAIL" /\ waived THEN "WAIVED" ELSE eff
  BY DEF Views!resultFilterStatus, Views!activeWaivedNames
<1> HIDE DEF waived
<1>5. /\ raw = "PASS" <=> eff = "PASS"
      /\ raw = "FAIL" <=> eff = "FAIL"
      /\ Views!CounterOf(raw) = eff
      /\ eff \in Views!RESULT_FILTER_STATUSES \ {"WAIVED"}
  <2>1. CASE row.status = "INCONSISTENT"
    <3>1. eff = raw /\ eff \in {"PASS", "NOT-APPLICABLE", "INCONSISTENT"}
      BY <1>1, <2>1, TokensAgree
    <3> HIDE DEF eff, raw
    <3> QED
      BY <3>1 DEF Views!CounterOf, Views!RESULT_FILTER_STATUSES
  <2>2. CASE row.status \in {"PASS", "FAIL", "ERROR", "INFO", "MANUAL", "NOT-APPLICABLE"}
    <3>1. eff = row.status /\ raw = row.status
      BY <2>2 DEF Views!effectiveStatus
    <3> HIDE DEF eff, raw
    <3> QED
      BY <2>2, <3>1 DEF Views!CounterOf, Views!RESULT_FILTER_STATUSES
  <2>3. CASE row.status = "SKIP"
    <3>1. eff = "NOT-APPLICABLE" /\ raw = "SKIP"
      BY <2>3 DEF Views!effectiveStatus
    <3> HIDE DEF eff, raw
    <3> QED
      BY <3>1 DEF Views!CounterOf, Views!RESULT_FILTER_STATUSES
  <2>4. CASE row.status = "WAIVED"
    <3>1. eff = "ERROR" /\ raw = "ERROR"
      BY <2>4 DEF Views!effectiveStatus
    <3> HIDE DEF eff, raw
    <3> QED
      BY <3>1 DEF Views!CounterOf, Views!RESULT_FILTER_STATUSES
  <2>5. CASE row.status \in {"unknown", "missing"}
    <3>1. eff = "ERROR" /\ raw = row.status
      BY <2>5 DEF Views!effectiveStatus
    <3> HIDE DEF eff, raw
    <3> QED
      BY <2>5, <3>1 DEF Views!CounterOf, Views!RESULT_FILTER_STATUSES
  <2> QED
    BY <1>2, <2>1, <2>2, <2>3, <2>4, <2>5 DEF Views!Statuses
<1> HIDE DEF raw, eff
<1>6. CASE eff = "FAIL" /\ waived
  <2>1. /\ Views!Tallied(n) = "WAIVED" /\ Views!resultFilterStatus(n) = "WAIVED"
        /\ Views!CounterOf("WAIVED") = "WAIVED"
    BY <1>3, <1>4, <1>5, <1>6 DEF Views!CounterOf
  <2> QED
    BY <1>6, <2>1 DEF Views!RESULT_FILTER_STATUSES, eff, waived
<1>7. CASE ~(eff = "FAIL" /\ waived)
  <2>1. Views!Tallied(n) = raw /\ Views!resultFilterStatus(n) = eff
    BY <1>3, <1>4, <1>5, <1>7
  <2> QED
    BY <1>5, <1>7, <2>1 DEF eff, waived
<1> QED
  BY <1>6, <1>7

\* the rows of a status, as the chips of the table know it
RowsOf(of) == {n \in Views!Owned : Views!resultFilterStatus(n) \in of}

\* Rows of the checks there are are finitely many.
LEMMA RowsFinite ==
    /\ IsFiniteSet(Views!Owned)
    /\ \A of : IsFiniteSet(RowsOf(of))
    /\ \A bucket : IsFiniteSet(Views!In(bucket))
<1>1. Views!Owned \in SUBSET Checks /\ \A bucket : Views!In(bucket) \in SUBSET Checks
  BY DEF Views!Owned, Views!In, Views!Present
<1>2. \A of : RowsOf(of) \in SUBSET Checks
  BY <1>1 DEF RowsOf
<1>3. \A S \in SUBSET Checks : IsFiniteSet(S)
  BY NamesAssumption, FS_Subset
<1> QED
  BY <1>1, <1>2, <1>3

\* The count of a status, over both profiles, is the number of its rows.
LEMMA CountsAreRows ==
    ASSUME ViewsInv, NEW s
    PROVE  /\ Views!aggregateCounts(s) = Cardinality(RowsOf({s}))
           /\ Views!aggregateCounts(s) \in Nat
<1> DEFINE of(bucket) == {n \in Views!In(bucket) : Views!CounterOf(Views!Tallied(n)) = s}
<1>1. ASSUME NEW bucket PROVE IsFiniteSet(of(bucket)) /\ Views!ResultCounts(bucket, s) = Cardinality(of(bucket))
  <2>1. of(bucket) \in SUBSET Views!In(bucket)
    OBVIOUS
  <2> QED
    BY <2>1, RowsFinite, FS_Subset, PartsOrder DEF Views!ResultCounts
<1>2. of("cis") \intersect of("tp-own") = {}
  BY DEF Views!In
<1>3. of("cis") \union of("tp-own") = RowsOf({s})
  BY StatusAgrees DEF Views!In, RowsOf, Views!Owned, Views!Buckets
<1> HIDE DEF of
<1>4. /\ Cardinality(of("cis") \union of("tp-own")) = Cardinality(of("cis")) + Cardinality(of("tp-own"))
      /\ Cardinality(of("cis")) \in Nat /\ Cardinality(of("tp-own")) \in Nat
  BY <1>1, <1>2, DisjointUnion
<1>5. Views!aggregateCounts(s) = Views!ResultCounts("cis", s) + Views!ResultCounts("tp-own", s)
  BY DEF Views!aggregateCounts
<1>6. /\ Views!ResultCounts("cis", s) = Cardinality(of("cis"))
      /\ Views!ResultCounts("tp-own", s) = Cardinality(of("tp-own"))
  BY <1>1
<1>7. Views!aggregateCounts(s) = Cardinality(of("cis")) + Cardinality(of("tp-own"))
  BY <1>5, <1>6
<1>8. Cardinality(of("cis")) + Cardinality(of("tp-own")) \in Nat
  BY <1>4
<1> QED
  BY <1>3, <1>4, <1>7, <1>8

\* The rows of one more status.
LEMMA OneMoreStatus ==
    ASSUME NEW of, NEW s, s \notin of
    PROVE  /\ Cardinality(RowsOf(of \union {s})) = Cardinality(RowsOf(of)) + Cardinality(RowsOf({s}))
           /\ Cardinality(RowsOf(of)) \in Nat /\ Cardinality(RowsOf({s})) \in Nat
<1>1. RowsOf(of \union {s}) = RowsOf(of) \union RowsOf({s})
  BY DEF RowsOf
<1>2. RowsOf(of) \intersect RowsOf({s}) = {}
  BY DEF RowsOf
<1> QED
  BY <1>1, <1>2, RowsFinite, DisjointUnion

\* What the operator counts is what the console shows, exports and reports.
LEMMA ViewsCount == ViewsInv => Views!CountsAgree
<1> SUFFICES ASSUME ViewsInv PROVE Views!CountsAgree
  OBVIOUS
<1> DEFINE all == Views!RESULT_FILTER_STATUSES
<1>1. ASSUME NEW bucket \in Views!Buckets, NEW s \in all
      PROVE  Views!ResultCounts(bucket, s) = Views!Cardinality(Views!Shown(s, bucket))
  <2>1. s # "any" /\ bucket # "any"
    BY DEF Views!RESULT_FILTER_STATUSES, Views!Buckets
  <2>2. Views!Shown(s, bucket) = {n \in Views!In(bucket) : Views!resultFilterStatus(n) = s}
    BY <2>1 DEF Views!Shown, Views!Owned, Views!In
  <2>3. {n \in Views!In(bucket) : Views!resultFilterStatus(n) = s}
            = {n \in Views!In(bucket) : Views!CounterOf(Views!Tallied(n)) = s}
    BY StatusAgrees DEF Views!In
  <2> QED
    BY <2>2, <2>3 DEF Views!ResultCounts
<1>2. Views!Cardinality({row \in Views!resultsCsv(Views!Owned) : row.waived})
          = Views!aggregateCounts("WAIVED")
  <2> DEFINE W == RowsOf({"WAIVED"})
             line(n) == [name |-> n, status |-> Views!resultFilterStatus(n),
                         waived |-> Views!resultFilterStatus(n) = "WAIVED"]
             T == {row \in Views!resultsCsv(Views!Owned) : row.waived}
             f == [n \in W |-> line(n)]
  <2>1. ASSUME NEW n \in W PROVE line(n) \in T
    BY DEF RowsOf, Views!resultsCsv
  <2>2. ASSUME NEW row \in T PROVE \E n \in W : row = line(n)
    <3>1. PICK n \in Views!Owned : row = line(n)
      BY DEF Views!resultsCsv
    <3>2. row.waived
      OBVIOUS
    <3>3. Views!resultFilterStatus(n) = "WAIVED"
      BY <3>1, <3>2
    <3>4. n \in W
      BY <3>3 DEF RowsOf
    <3> HIDE DEF line, W
    <3> QED
      BY <3>1, <3>4
  <2>3. \A m, n \in W : line(m) = line(n) => m = n
    <3>1. \A n \in W : line(n).name = n
      OBVIOUS
    <3> HIDE DEF W, line
    <3> QED
      BY <3>1
  <2>4. IsFiniteSet(W)
    BY RowsFinite
  <2> HIDE DEF W, T, line
  <2>5. f \in Surjection(W, T) /\ f \in Injection(W, T)
    BY <2>1, <2>2, <2>3 DEF Surjection, Injection, IsInjective
  <2> HIDE DEF f
  <2>6. Cardinality(T) = Cardinality(W)
    BY <2>4, <2>5, FS_Surjection
  <2>7. Views!aggregateCounts("WAIVED") = Cardinality(W)
    BY CountsAreRows DEF W
  <2> QED
    BY <2>6, <2>7, PartsOrder DEF T
<1>3. Views!aggregateCounts("FAIL") = Views!Cardinality(Views!ReportFailing)
  <2>1. Views!ReportFailing = RowsOf({"FAIL"})
    BY DEF RowsOf, Views!ReportFailing, Views!Owned, Views!resultFilterStatus,
           Views!activeWaivedNames
  <2> QED
    BY <2>1, CountsAreRows, PartsOrder
<1>4. Views!ReportTotal = Views!Cardinality(Views!Owned)
  <2> DEFINE c(s) == Cardinality(RowsOf({s}))
             upTo(of) == Cardinality(RowsOf(of))
  <2>1. ASSUME NEW of, NEW s, s \notin of
        PROVE  upTo(of \union {s}) = upTo(of) + c(s) /\ upTo(of) \in Nat /\ c(s) \in Nat
    BY <2>1, OneMoreStatus
  <2>2. \A s : Views!aggregateCounts(s) = c(s)
    BY CountsAreRows
  <2>3. RowsOf(all) = Views!Owned
    BY StatusAgrees DEF RowsOf, Views!Owned
  <2>4. upTo(all) = Cardinality(Views!Owned)
    BY <2>3
  <2> HIDE DEF c, upTo
  <2> DEFINE s1 == {"PASS"}
             s2 == s1 \union {"FAIL"}
             s3 == s2 \union {"WAIVED"}
             s4 == s3 \union {"MANUAL"}
             s5 == s4 \union {"ERROR"}
             s6 == s5 \union {"INFO"}
             s7 == s6 \union {"INCONSISTENT"}
             s8 == s7 \union {"NOT-APPLICABLE"}
  <2>5. s8 = all
    BY DEF Views!RESULT_FILTER_STATUSES
  <2>6. /\ "FAIL" \notin s1 /\ "WAIVED" \notin s2 /\ "MANUAL" \notin s3 /\ "ERROR" \notin s4
        /\ "INFO" \notin s5 /\ "INCONSISTENT" \notin s6 /\ "NOT-APPLICABLE" \notin s7
    OBVIOUS
  <2> HIDE DEF s1, s2, s3, s4, s5, s6, s7, s8
  <2>7. upTo(s1) = c("PASS") /\ c("PASS") \in Nat
    <3>1. upTo({"PASS"}) = c("PASS") /\ c("PASS") \in Nat
      BY <2>2, CountsAreRows DEF upTo, c
    <3> QED
      BY <3>1 DEF s1
  <2>8. upTo(s2) = upTo(s1) + c("FAIL") /\ c("FAIL") \in Nat
    BY <2>1, <2>6 DEF s2
  <2>9. upTo(s3) = upTo(s2) + c("WAIVED") /\ c("WAIVED") \in Nat
    BY <2>1, <2>6 DEF s3
  <2>10. upTo(s4) = upTo(s3) + c("MANUAL") /\ c("MANUAL") \in Nat
    BY <2>1, <2>6 DEF s4
  <2>11. upTo(s5) = upTo(s4) + c("ERROR") /\ c("ERROR") \in Nat
    BY <2>1, <2>6 DEF s5
  <2>12. upTo(s6) = upTo(s5) + c("INFO") /\ c("INFO") \in Nat
    BY <2>1, <2>6 DEF s6
  <2>13. upTo(s7) = upTo(s6) + c("INCONSISTENT") /\ c("INCONSISTENT") \in Nat
    BY <2>1, <2>6 DEF s7
  <2>14. upTo(s8) = upTo(s7) + c("NOT-APPLICABLE") /\ c("NOT-APPLICABLE") \in Nat
    BY <2>1, <2>6 DEF s8
  <2>15. Views!ReportTotal
            = c("PASS") + c("FAIL") + c("WAIVED") + c("MANUAL") + c("ERROR") + c("INFO")
                + c("INCONSISTENT") + c("NOT-APPLICABLE")
    BY <2>2 DEF Views!ReportTotal
  <2>16. Views!ReportTotal = upTo(s8)
    BY <2>7, <2>8, <2>9, <2>10, <2>11, <2>12, <2>13, <2>14, <2>15
  <2> QED
    BY <2>4, <2>5, <2>16, PartsOrder
<1> QED
  BY <1>1, <1>2, <1>3, <1>4 DEF Views!CountsAgree

\* Nothing weighs nothing.
LEMMA MassOfNothing ==
    ASSUME NEW w, DOMAIN w = {}
    PROVE  Views!Mass(w) = 0
<1> DEFINE F(g) == [s \in SUBSET {} |-> IF s = {} THEN 0
                        ELSE w[CHOOSE x \in s : TRUE] + g[s \ {CHOOSE x \in s : TRUE}]]
           it == CHOOSE g : g = F(g)
           zero == [s \in SUBSET {} |-> 0]
<1>1. Views!Mass(w) = it[{}]
  BY DEF Views!Mass, Views!FoldFunction, Views!FoldFunctionOnSet, Views!MapThenFoldSet
<1>2. zero = F(zero)
  OBVIOUS
<1>3. it = F(it)
  <2> HIDE DEF F, zero
  <2> QED
    BY <1>2
<1> HIDE DEF it
<1> QED
  BY <1>1, <1>3

\* The console's score of a profile is the operator's, or the last one without results.
LEMMA ViewsScore == ViewsInv => Views!ScoreParity
<1> SUFFICES ASSUME ViewsInv, NEW bucket \in Views!Buckets
             PROVE  IF mode = "SeverityWeighted" /\ Views!In(bucket) = {}
                    THEN /\ Views!profileBucketScore(bucket) = Absent
                         /\ Views!profileScore(bucket) = tips[bucket]
                    ELSE Views!profileScore(bucket) = Views!profileBucketScore(bucket)
  BY DEF Views!ScoreParity
<1> DEFINE passed == {n \in Views!In(bucket) : Views!Tallied(n) = "PASS"}
           failed == {n \in Views!In(bucket) : Views!Tallied(n) = "FAIL"}
           weights(names) == [n \in names |-> Views!weightOf(Views!OperatorSeverity(results[n]))]
           shownWeights(names) == [n \in names |-> Views!weightOf(Views!checkSeverity(results[n]))]
<1>1. /\ passed = {n \in Views!In(bucket) : Views!effectiveStatus(results[n]) = "PASS"}
      /\ failed = {n \in Views!In(bucket) : /\ Views!effectiveStatus(results[n]) = "FAIL"
                                            /\ n \notin Views!activeWaivedNames}
  BY StatusAgrees DEF Views!In
<1>2. ASSUME NEW n \in Views!In(bucket)
      PROVE  Views!weightOf(Views!OperatorSeverity(results[n])) = Views!weightOf(Views!checkSeverity(results[n]))
  BY DEF Views!weightOf, Views!OperatorSeverity, Views!checkSeverity
<1>3. /\ weights(passed) = shownWeights(passed) /\ weights(failed) = shownWeights(failed)
  BY <1>2
<1>4. /\ Views!ResultCounts(bucket, "PASS") = Views!Cardinality(passed)
      /\ Views!ResultCounts(bucket, "FAIL") = Views!Cardinality(failed)
  <2>1. \A t : /\ Views!CounterOf(t) = "PASS" <=> t = "PASS"
               /\ Views!CounterOf(t) = "FAIL" <=> t = "FAIL"
    BY DEF Views!CounterOf
  <2> QED
    BY <2>1 DEF Views!ResultCounts
<1>5. Views!profileBucketScore(bucket)
          = IF mode = "SeverityWeighted"
            THEN Views!Ratio(Views!Mass(weights(passed)), Views!Mass(weights(failed)))
            ELSE Views!Ratio(Views!Cardinality(passed), Views!Cardinality(failed))
  BY DEF Views!profileBucketScore
<1>6. Views!profileScore(bucket)
          = IF mode = "SeverityWeighted" /\ Views!In(bucket) # {}
            THEN Views!Ratio(Views!Mass(weights(passed)), Views!Mass(weights(failed)))
            ELSE IF mode = "SeverityWeighted" /\ tips[bucket] # Absent THEN tips[bucket]
            ELSE Views!Ratio(Views!Cardinality(passed), Views!Cardinality(failed))
  BY <1>1, <1>3, <1>4 DEF Views!profileScore, Views!flatProfileScore
<1>7. CASE mode = "SeverityWeighted" /\ Views!In(bucket) = {}
  <2>1. passed = {} /\ failed = {}
    BY <1>7
  <2>2. /\ Views!Mass(weights(passed)) = 0 /\ Views!Mass(weights(failed)) = 0
    <3>1. DOMAIN weights(passed) = {} /\ DOMAIN weights(failed) = {}
      BY <2>1
    <3> HIDE DEF weights, passed, failed
    <3> QED
      BY <3>1, MassOfNothing
  <2>3. Views!Cardinality(passed) = 0 /\ Views!Cardinality(failed) = 0
    BY <2>1, PartsOrder, FS_EmptySet
  <2>4. Views!Ratio(0, 0) = Absent
    BY DEF Views!Ratio
  <2> HIDE DEF passed, failed, weights, shownWeights
  <2> QED
    BY <1>5, <1>6, <1>7, <2>2, <2>3, <2>4
<1>8. CASE ~(mode = "SeverityWeighted" /\ Views!In(bucket) = {})
  BY <1>5, <1>6, <1>8
<1> QED
  BY <1>7, <1>8

------------------------------------------------------------------------------
(* the badge and the trend of a score *)

\* The history is a list of points.
TrendInv == history \in Seq(Trend!Points)

\* It holds when the console opens, and after each scan and restore.
LEMMA TrendKeeps ==
    /\ Trend!Init => TrendInv
    /\ TrendInv /\ (Trend!Next \/ UNCHANGED ofTrend) => TrendInv'
<1>1. Trend!Init => TrendInv
  BY DEF Trend!Init, TrendInv
<1>2. ASSUME TrendInv, Trend!Next \/ UNCHANGED ofTrend PROVE TrendInv'
  <2>1. CASE UNCHANGED history
    BY <1>2, <2>1 DEF TrendInv
  <2>2. CASE Trend!Scanned
    <3>1. PICK v \in Scores, t \in Times : history' = Append(history, [time |-> t, score |-> v])
      BY <2>2 DEF Trend!Scanned
    <3>2. [time |-> t, score |-> v] \in Trend!Points
      BY DEF Trend!Points
    <3> QED
      BY <1>2, <3>1, <3>2 DEF TrendInv
  <2>3. CASE Trend!Restored
    <3>1. CASE \E i \in DOMAIN history, p \in Trend!Points : history' = [history EXCEPT ![i] = p]
      <4>1. PICK i \in DOMAIN history, p \in Trend!Points : history' = [history EXCEPT ![i] = p]
        BY <3>1
      <4>2. history' \in Seq(Trend!Points)
        BY <1>2, <4>1 DEF TrendInv
      <4> QED
        BY <4>2 DEF TrendInv
    <3> QED
      BY <2>1, <2>3, <3>1 DEF Trend!Restored
  <2> QED
    BY <1>2, <2>1, <2>2, <2>3 DEF Trend!Next, Trend!ModeChanges, ofTrend
<1> QED
  BY <1>1, <1>2

\* what the badge shows of a point, and before any
BadgeOf(point) == [time |-> point.time, score |-> Trend!Floor(Trend!normalizeScore(point.score))]
NoBadge == [time |-> 0, score |-> Absent]

\* the badge after one more point
OneBadge(latest, point) ==
    IF Trend!Usable(point) /\ point.time >= latest.time THEN BadgeOf(point) ELSE latest

\* what it can be
Badges == {BadgeOf(point) : point \in Trend!Points} \union {NoBadge}

\* the point at j is the last one of the first k: none is later, nor at the same
\* instant behind it
IsLast(j, k) ==
    /\ j \in 1..k /\ Trend!Usable(history[j])
    /\ \A i \in 1..k : Trend!Usable(history[i]) =>
          \/ history[i].time < history[j].time
          \/ history[i].time = history[j].time /\ i <= j

\* A badge has a time, as every point.
LEMMA BadgesHaveTimes ==
    /\ \A b \in Badges : b.time \in Nat
    /\ \A point \in Trend!Points : point.time \in Nat /\ BadgeOf(point) \in Badges
<1>1. \A point \in Trend!Points : point.time \in Nat
  <2>1. \A t \in Times \union {Trend!BadTime} : t \in Nat
    BY TimeAssumption DEF Trend!BadTime
  <2>2. \A point \in Trend!Points : point.time \in Times \union {Trend!BadTime}
    BY DEF Trend!Points
  <2> QED
    BY <2>1, <2>2
<1>2. \A point : BadgeOf(point).time = point.time
  BY DEF BadgeOf
<1>3. \A point \in Trend!Points : BadgeOf(point) \in Badges
  BY DEF Badges
<1>4. NoBadge.time \in Nat
  BY DEF NoBadge
<1>5. \A b \in Badges : b = NoBadge \/ \E point \in Trend!Points : b = BadgeOf(point)
  BY DEF Badges
<1>6. \A b \in Badges : b.time \in Nat
  BY <1>1, <1>2, <1>4, <1>5
<1> QED
  BY <1>1, <1>3, <1>6

\* The badge goes through the history from its first point to its last.
LEMMA BadgeChain ==
    ASSUME TrendInv, NEW n, n = Len(history)
    PROVE  /\ n \in Nat
           /\ \E r : /\ r \in [0..n -> Badges]
                     /\ r[0] = NoBadge /\ Trend!latestSnapshotScore = r[n].score
                     /\ \A k \in 1..n : r[k] = OneBadge(r[k - 1], history[k])
<1> DEFINE V == Badges
           F(g) == [s \in SUBSET (1..n) |->
                        IF s = {} THEN NoBadge ELSE OneBadge(g[s \ {Max(s)}], history[Max(s)])]
           it == CHOOSE g : g = F(g)
           h == [p \in (1..n) \X V |-> OneBadge(p[2], history[p[1]])]
<1>0. n \in Nat /\ DOMAIN history = 1..n /\ \A i \in 1..n : history[i] \in Trend!Points
  BY DEF TrendInv
<1>1. Trend!latestSnapshotScore = it[1..n].score
  <2>1. \A s : Trend!Max(s) = Max(s)
    BY DEF Trend!Max, Max
  <2>2. Trend!latestSnapshotScore
            = (CHOOSE g : g = [s \in SUBSET (1..n) |->
                 IF s = {} THEN NoBadge
                 ELSE OneBadge(g[s \ {Trend!Max(s)}], history[Trend!Max(s)])])[1..n].score
    BY <1>0 DEF Trend!latestSnapshotScore, Trend!FoldLeft, Trend!MapThenFoldSet, OneBadge, BadgeOf,
                NoBadge, Trend!BadTime
  <2> QED
    BY <2>1, <2>2
<1>2. ASSUME NEW latest \in V, NEW i \in 1..n PROVE OneBadge(latest, history[i]) \in V
  BY <1>0, BadgesHaveTimes DEF OneBadge
<1> HIDE DEF V
<1>3. h \in [(1..n) \X V -> V]
  BY <1>2
<1>4. NoBadge \in V
  BY DEF V, Badges
<1>5. PICK g : IsFold(n, V, NoBadge, h, g)
  <2> HIDE DEF h
  <2> QED
    BY <1>0, <1>3, <1>4, FoldExists
<1>6. g = F(g)
  <2>1. ASSUME NEW s \in SUBSET (1..n), s # {}
        PROVE  h[<<Max(s), g[s \ {Max(s)}]>>] = OneBadge(g[s \ {Max(s)}], history[Max(s)])
    <3>1. s \ {Max(s)} \in SUBSET (1..n) /\ g[s \ {Max(s)}] \in V
      BY <1>5 DEF IsFold
    <3>2. Max(s) \in 1..n
      BY <1>0, <2>1, MaxIsIn
    <3> QED
      BY <3>1, <3>2
  <2>2. g = [s \in SUBSET (1..n) |-> g[s]]
    BY <1>5 DEF IsFold
  <2> HIDE DEF h
  <2> QED
    BY <1>5, <2>1, <2>2 DEF IsFold
<1>7. it = F(it)
  <2> HIDE DEF F
  <2> QED
    BY <1>6
<1> HIDE DEF it
<1>8. it[{}] = NoBadge
  BY <1>7
<1>9. \A s \in SUBSET (1..n) : (s # {} /\ it[s \ {Max(s)}] \in V) =>
          it[s] = h[<<Max(s), it[s \ {Max(s)}]>>]
  <2> SUFFICES ASSUME NEW s \in SUBSET (1..n), s # {}, it[s \ {Max(s)}] \in V
               PROVE  it[s] = h[<<Max(s), it[s \ {Max(s)}]>>]
    OBVIOUS
  <2>1. it[s] = OneBadge(it[s \ {Max(s)}], history[Max(s)])
    BY <1>7
  <2>2. Max(s) \in 1..n
    BY <1>0, MaxIsIn
  <2> QED
    BY <2>1, <2>2
<1>10. PICK r : Chain(r, n, V, NoBadge, h, it[1..n])
  <2>1. FoldsBy(it, n, V, NoBadge, h)
    <3> HIDE DEF h, F
    <3> QED
      BY <1>8, <1>9 DEF FoldsBy
  <2> HIDE DEF h, F
  <2> QED
    BY <1>0, <1>3, <1>4, <2>1, FoldChain
<1>11. r \in [0..n -> V] /\ r[0] = NoBadge /\ r[n] = it[1..n]
  BY <1>10 DEF Chain
<1>12. \A k \in 1..n : r[k] = OneBadge(r[k - 1], history[k])
  <2>1. \A k \in 1..n : k - 1 \in 0..n
    BY <1>0
  <2> QED
    BY <1>10, <1>11, <2>1 DEF Chain
<1> QED
  BY <1>0, <1>1, <1>11, <1>12 DEF V

\* In the end the badge is of the last point, if there is one.
LEMMA BadgeIsLast ==
    ASSUME TrendInv
    PROVE  LET n == Len(history)
           IN  \/ /\ Trend!latestSnapshotScore = Absent
                  /\ \A i \in 1..n : ~Trend!Usable(history[i])
               \/ \E j : /\ IsLast(j, n)
                         /\ Trend!latestSnapshotScore = Trend!Floor(Trend!normalizeScore(history[j].score))
<1> DEFINE n == Len(history)
<1>0. n \in Nat /\ \A i \in 1..n : history[i] \in Trend!Points
  BY DEF TrendInv
<1> HIDE DEF n
<1>1. PICK r : /\ r \in [0..n -> Badges]
               /\ r[0] = NoBadge /\ Trend!latestSnapshotScore = r[n].score
               /\ \A k \in 1..n : r[k] = OneBadge(r[k - 1], history[k])
  BY BadgeChain DEF n
<1> DEFINE none(k) == r[k] = NoBadge /\ \A i \in 1..k : ~Trend!Usable(history[i])
           some(k) == \E j : IsLast(j, k) /\ r[k] = BadgeOf(history[j])
           G == {k \in Nat : k <= n => none(k) \/ some(k)}
<1>2. 0 \in G
  BY <1>1
<1>3. ASSUME NEW k \in Nat, k \in G PROVE k + 1 \in G
  <2> SUFFICES ASSUME k + 1 <= n PROVE none(k + 1) \/ some(k + 1)
    OBVIOUS
  <2> DEFINE m == k + 1
             point == history[m]
  <2>1. m \in 1..n /\ m - 1 = k /\ k \in 0..n /\ k <= n /\ m \in 1..m
    BY <1>0
  <2>2. none(k) \/ some(k)
    BY <1>3, <2>1
  <2>3. \A i : i \in 1..m <=> i \in 1..k \/ i = m
    OBVIOUS
  <2> HIDE DEF m
  <2>4. r[m] = OneBadge(r[k], point)
    BY <1>1, <2>1
  <2>5. point.time \in Nat /\ \A i \in 1..k : history[i].time \in Nat
    <3>1. \A i \in 1..k : i \in 1..n
      BY <1>0, <2>1
    <3> QED
      BY <1>0, <2>1, <3>1, BadgesHaveTimes
  <2>6. r[k].time \in Nat
    BY <1>1, <2>1, BadgesHaveTimes
  <2>7. CASE Trend!Usable(point) /\ point.time >= r[k].time
    <3>1. r[m] = BadgeOf(point)
      BY <2>4, <2>7 DEF OneBadge
    <3>2. \A i \in 1..k : Trend!Usable(history[i]) => history[i].time <= r[k].time
      <4>1. CASE none(k)
        BY <4>1
      <4>2. CASE some(k)
        <5>1. PICK j : IsLast(j, k) /\ r[k] = BadgeOf(history[j])
          BY <4>2
        <5>2. r[k].time = history[j].time /\ history[j].time \in Nat
          BY <2>5, <5>1 DEF BadgeOf, IsLast
        <5>3. \A i \in 1..k : Trend!Usable(history[i]) =>
                  history[i].time < history[j].time \/ history[i].time = history[j].time
          BY <5>1 DEF IsLast
        <5> QED
          BY <2>5, <5>2, <5>3
      <4> QED
        BY <2>2, <4>1, <4>2
    <3>3. \A i \in 1..m : Trend!Usable(history[i]) =>
              \/ history[i].time < point.time
              \/ history[i].time = point.time /\ i <= m
      <4> SUFFICES ASSUME NEW i \in 1..m, Trend!Usable(history[i])
                   PROVE  \/ history[i].time < point.time
                          \/ history[i].time = point.time /\ i <= m
        OBVIOUS
      <4>1. i <= m
        BY <2>1
      <4>2. CASE i \in 1..k
        <5>1. history[i].time <= r[k].time /\ history[i].time \in Nat
          BY <2>5, <3>2, <4>2
        <5> QED
          BY <2>5, <2>6, <2>7, <4>1, <5>1
      <4>3. CASE i = m
        BY <4>1, <4>3
      <4> QED
        BY <2>3, <4>2, <4>3
    <3>4. IsLast(m, m)
      BY <2>1, <2>7, <3>3 DEF IsLast
    <3> QED
      BY <3>1, <3>4 DEF m
  <2>8. CASE ~(Trend!Usable(point) /\ point.time >= r[k].time)
    <3>1. r[m] = r[k]
      BY <2>4, <2>8 DEF OneBadge
    <3>2. CASE none(k)
      <4>1. ~Trend!Usable(point)
        BY <2>5, <2>8, <3>2 DEF NoBadge
      <4>2. none(m)
        BY <2>3, <3>1, <3>2, <4>1
      <4> QED
        BY <4>2 DEF m
    <3>3. CASE some(k)
      <4>1. PICK j : IsLast(j, k) /\ r[k] = BadgeOf(history[j])
        BY <3>3
      <4>2. r[k].time = history[j].time
        BY <4>1 DEF BadgeOf
      <4>3. Trend!Usable(point) => point.time < history[j].time
        BY <2>5, <2>6, <2>8, <4>2
      <4>4. IsLast(j, m)
        BY <2>3, <4>1, <4>3 DEF IsLast
      <4> QED
        BY <3>1, <4>1, <4>4 DEF m
    <3> QED
      BY <2>2, <3>2, <3>3
  <2> QED
    BY <2>7, <2>8
<1>4. Nat \subseteq G
  <2> HIDE DEF G
  <2> QED
    BY <1>2, <1>3, NaturalsByStep
<1>5. none(n) \/ some(n)
  BY <1>0, <1>4
<1>6. CASE none(n)
  BY <1>1, <1>6 DEF NoBadge, n
<1>7. CASE some(n)
  BY <1>1, <1>7 DEF BadgeOf, n
<1> QED
  BY <1>5, <1>6, <1>7

\* what is kept of the history, and how two of its points are ordered
KeptPoints == Kept(history, {point \in Trend!Points : Trend!Usable(point)})
Earlier(i, j) == \/ KeptPoints[i].time < KeptPoints[j].time
                 \/ KeptPoints[i].time = KeptPoints[j].time /\ i < j
EarlierPairs ==
    {p \in (DOMAIN KeptPoints) \X (DOMAIN KeptPoints) : Earlier(p[1], p[2])}
Sorted == Ordered(DOMAIN KeptPoints, EarlierPairs)

\* The trend is the kept points in that order.
LEMMA TrendIsSorted ==
    Trend!toTrendData = [i \in DOMAIN KeptPoints |->
        [x |-> KeptPoints[Sorted[i]].time, y |-> Trend!normalizeScore(KeptPoints[Sorted[i]].score)]]
<1> DEFINE usable == {point \in Trend!Points : Trend!Usable(point)}
           kept == Trend!Kept(history, usable)
           pairs == {p \in (DOMAIN kept) \X (DOMAIN kept) :
                        \/ kept[p[1]].time < kept[p[2]].time
                        \/ kept[p[1]].time = kept[p[2]].time /\ p[1] < p[2]}
           order == Trend!Ordered(DOMAIN kept, pairs)
<1>1. Trend!toTrendData = [i \in DOMAIN kept |->
          [x |-> kept[order[i]].time, y |-> Trend!normalizeScore(kept[order[i]].score)]]
  BY DEF Trend!toTrendData
<1>2. kept = KeptPoints
  BY PartsKeep DEF KeptPoints
<1>3. pairs = EarlierPairs
  BY <1>2 DEF EarlierPairs, Earlier
<1>4. order = Sorted
  <2> HIDE DEF kept, pairs
  <2> QED
    BY <1>2, <1>3, PartsOrder DEF Sorted
<1> HIDE DEF kept, pairs, order
<1> QED
  BY <1>1, <1>2, <1>4

\* The points that are kept are the usable ones of the history, in its order.
LEMMA KeptPointsAre ==
    ASSUME TrendInv
    PROVE  LET n == Len(history)
               m == Len(KeptPoints)
           IN  /\ n \in Nat /\ m \in Nat /\ DOMAIN KeptPoints = 1..m
               /\ \A i \in 1..m : KeptPoints[i].time \in Nat
               /\ \E p : /\ p \in [1..m -> 1..n]
                         /\ \A i, j \in 1..m : i < j => p[i] < p[j]
                         /\ \A i \in 1..m : KeptPoints[i] = history[p[i]] /\ Trend!Usable(history[p[i]])
                         /\ \A k \in 1..n : Trend!Usable(history[k]) => \E i \in 1..m : p[i] = k
<1> DEFINE n == Len(history)
           m == Len(KeptPoints)
           usable == {point \in Trend!Points : Trend!Usable(point)}
<1>1. n \in Nat /\ history \in [1..n -> Trend!Points]
  BY DEF TrendInv
<1>2. KeptPoints = Kept(history, usable)
  BY DEF KeptPoints
<1>3. \A k \in 1..n : Trend!Usable(history[k]) <=> history[k] \in usable
  BY <1>1
<1> HIDE DEF n, usable
<1>4. KeptPoints \in Seq(Trend!Points) /\ \E p : Places(p, KeptPoints, history, n, usable)
  BY <1>1, <1>2, KeptPlaces
<1>5. m \in Nat /\ DOMAIN KeptPoints = 1..m /\ \A i \in 1..m : KeptPoints[i] \in Trend!Points
  BY <1>4
<1>6. \A i \in 1..m : KeptPoints[i].time \in Nat
  BY <1>5, BadgesHaveTimes
<1>7. PICK p : Places(p, KeptPoints, history, n, usable)
  BY <1>4
<1>8. /\ p \in [1..m -> 1..n]
      /\ \A i, j \in 1..m : i < j => p[i] < p[j]
      /\ \A i \in 1..m : KeptPoints[i] = history[p[i]] /\ history[p[i]] \in usable
      /\ \A k \in 1..n : history[k] \in usable => \E i \in 1..m : p[i] = k
  BY <1>7 DEF Places
<1>9. /\ \A i \in 1..m : KeptPoints[i] = history[p[i]] /\ Trend!Usable(history[p[i]])
      /\ \A k \in 1..n : Trend!Usable(history[k]) => \E i \in 1..m : p[i] = k
  BY <1>3, <1>8
<1> QED
  BY <1>1, <1>5, <1>6, <1>8, <1>9 DEF n

\* The order is one: it has each of the points, the later ones behind the earlier.
LEMMA PointsAreSorted ==
    ASSUME TrendInv
    PROVE  LET m == Len(KeptPoints)
           IN  /\ Sorted \in [1..m -> 1..m]
               /\ \A i, j \in 1..m : i < j => Earlier(Sorted[i], Sorted[j])
               /\ \A x \in 1..m : \E i \in 1..m : Sorted[i] = x
<1> DEFINE m == Len(KeptPoints)
<1>1. /\ m \in Nat /\ DOMAIN KeptPoints = 1..m
      /\ \A i \in 1..m : KeptPoints[i].time \in Nat
  BY KeptPointsAre
<1> HIDE DEF m
<1>2. IsFiniteSet(1..m) /\ Cardinality(1..m) = m
  BY <1>1, FS_Interval
<1>3. \A i, j \in 1..m : <<i, j>> \in EarlierPairs <=> Earlier(i, j)
  BY <1>1 DEF EarlierPairs
<1>4. TotalOrder(1..m, EarlierPairs)
  <2>1. \A x \in 1..m : ~Earlier(x, x)
    BY <1>1 DEF Earlier
  <2>2. \A x, y, z \in 1..m : Earlier(x, y) /\ Earlier(y, z) => Earlier(x, z)
    BY <1>1 DEF Earlier
  <2>3. \A x, y \in 1..m : x # y => Earlier(x, y) \/ Earlier(y, x)
    BY <1>1 DEF Earlier
  <2> QED
    BY <1>3, <2>1, <2>2, <2>3 DEF TotalOrder
<1>5. Sorted = Ordered(1..m, EarlierPairs)
  BY <1>1 DEF Sorted
<1>6. /\ Sorted \in [1..m -> 1..m]
      /\ \A i, j \in 1..m : i < j => <<Sorted[i], Sorted[j]>> \in EarlierPairs
      /\ \A x \in 1..m : \E i \in 1..m : Sorted[i] = x
  BY <1>2, <1>4, <1>5, OrderedSorts
<1>7. \A i, j \in 1..m : i < j => Earlier(Sorted[i], Sorted[j])
  BY <1>3, <1>6
<1> QED
  BY <1>6, <1>7 DEF m

\* The badge and the last point of the trend are one number.
LEMMA TrendShows ==
    ASSUME TrendInv
    PROVE  Trend!TrendAgrees
<1> DEFINE n == Len(history)
           m == Len(KeptPoints)
           data == Trend!toTrendData
<1>1. /\ n \in Nat /\ m \in Nat /\ DOMAIN KeptPoints = 1..m
      /\ \A i \in 1..m : KeptPoints[i].time \in Nat
  BY KeptPointsAre
<1>2. PICK p : /\ p \in [1..m -> 1..n]
               /\ \A i, j \in 1..m : i < j => p[i] < p[j]
               /\ \A i \in 1..m : KeptPoints[i] = history[p[i]] /\ Trend!Usable(history[p[i]])
               /\ \A k \in 1..n : Trend!Usable(history[k]) => \E i \in 1..m : p[i] = k
  BY KeptPointsAre
<1>3. /\ Sorted \in [1..m -> 1..m]
      /\ \A i, j \in 1..m : i < j => Earlier(Sorted[i], Sorted[j])
      /\ \A x \in 1..m : \E i \in 1..m : Sorted[i] = x
  BY PointsAreSorted
<1>4. data = [i \in 1..m |->
          [x |-> KeptPoints[Sorted[i]].time, y |-> Trend!normalizeScore(KeptPoints[Sorted[i]].score)]]
  BY <1>1, TrendIsSorted
<1>5. \/ /\ Trend!latestSnapshotScore = Absent
         /\ \A i \in 1..n : ~Trend!Usable(history[i])
      \/ \E j : /\ IsLast(j, n)
                /\ Trend!latestSnapshotScore = Trend!Floor(Trend!normalizeScore(history[j].score))
  BY BadgeIsLast
<1> HIDE DEF n, m, data
<1>6. data = <<>> <=> m = 0
  <2>1. data \in Seq({data[i] : i \in 1..m}) /\ Len(data) = m
    BY <1>1, <1>4
  <2> QED
    BY <2>1, EmptySeq
<1>7. m # 0 => Trend!Last(data).y = Trend!normalizeScore(KeptPoints[Sorted[m]].score)
  <2> SUFFICES ASSUME m # 0 PROVE Trend!Last(data).y = Trend!normalizeScore(KeptPoints[Sorted[m]].score)
    OBVIOUS
  <2>1. m \in 1..m
    BY <1>1
  <2>2. Len(data) = m
    BY <1>1, <1>4
  <2>3. Trend!Last(data) = data[m]
    BY <2>2 DEF Trend!Last
  <2> QED
    BY <1>4, <2>1, <2>3
<1>8. CASE /\ Trend!latestSnapshotScore = Absent
           /\ \A i \in 1..n : ~Trend!Usable(history[i])
  <2>1. m = 0
    <3> SUFFICES ASSUME m # 0 PROVE FALSE
      OBVIOUS
    <3>1. 1 \in 1..m
      BY <1>1
    <3> QED
      BY <1>2, <1>8, <3>1
  <2> QED
    BY <1>6, <1>8, <2>1 DEF Trend!TrendAgrees, data
<1>9. CASE \E j : /\ IsLast(j, n)
                  /\ Trend!latestSnapshotScore = Trend!Floor(Trend!normalizeScore(history[j].score))
  <2>1. PICK j : /\ IsLast(j, n)
                 /\ Trend!latestSnapshotScore = Trend!Floor(Trend!normalizeScore(history[j].score))
    BY <1>9
  <2>2. /\ j \in 1..n /\ Trend!Usable(history[j])
        /\ \A i \in 1..n : Trend!Usable(history[i]) =>
              \/ history[i].time < history[j].time
              \/ history[i].time = history[j].time /\ i <= j
    BY <2>1 DEF IsLast
  <2>3. PICK a \in 1..m : p[a] = j
    BY <1>2, <2>2
  <2>4. m # 0 /\ m \in 1..m
    BY <1>1, <2>3
  <2>5. PICK b \in 1..m : Sorted[b] = a
    BY <1>3, <2>3
  <2> DEFINE c == Sorted[m]
  <2>6. c \in 1..m /\ p[c] \in 1..n
    BY <1>2, <1>3, <2>4
  <2> HIDE DEF c
  <2>7. /\ KeptPoints[a] = history[j] /\ KeptPoints[c] = history[p[c]]
        /\ Trend!Usable(history[p[c]])
    BY <1>2, <2>3, <2>6
  <2>8. /\ KeptPoints[a].time \in Nat /\ KeptPoints[c].time \in Nat
        /\ \/ KeptPoints[c].time < KeptPoints[a].time
           \/ KeptPoints[c].time = KeptPoints[a].time /\ p[c] <= p[a]
    BY <1>1, <2>2, <2>3, <2>6, <2>7
  <2>9. b = m
    <3> SUFFICES ASSUME b # m PROVE FALSE
      OBVIOUS
    <3>1. b < m
      BY <1>1, <2>5
    <3>2. Earlier(a, c)
      BY <1>3, <2>4, <2>5, <3>1 DEF c
    <3>3. KeptPoints[c].time = KeptPoints[a].time /\ p[c] <= p[a] /\ a < c
      BY <2>8, <3>2 DEF Earlier
    <3>4. p[a] < p[c]
      BY <1>2, <2>3, <2>6, <3>3
    <3>5. p[a] \in Int /\ p[c] \in Int
      BY <1>1, <2>2, <2>3, <2>6
    <3> QED
      BY <3>3, <3>4, <3>5
  <2>10. KeptPoints[Sorted[m]] = history[j]
    BY <2>5, <2>7, <2>9
  <2> QED
    BY <1>6, <1>7, <2>1, <2>4, <2>10 DEF Trend!TrendAgrees, data
<1> QED
  BY <1>5, <1>8, <1>9

\* A number is the same wherever it is shown, whatever scans, edits and restores come
\* between.
THEOREM NumbersAreOne == Spec => []NumbersAgree
<1> DEFINE Inv == /\ route = "views" => ViewsInv
                  /\ route = "trend" => TrendInv
<1>1. Init => Inv
  BY ViewsKeep, TrendKeeps DEF Init
<1>2. Inv /\ [Next]_vars => Inv'
  BY OnePart, ViewsKeep, TrendKeeps
<1>3. Inv => NumbersAgree
  BY ViewsCount, ViewsScore, TrendShows DEF NumbersAgree
<1> QED
  BY <1>1, <1>2, <1>3, PTL DEF Spec
================================================================================
