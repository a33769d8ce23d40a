---------------------------- MODULE RemediationsTab ----------------------------
(***************************************************************************)
(* The Remediations tab (components/RemediationsTab.tsx): applying one       *)
(* remediation, the batch of all node remediations, the switch of the        *)
(* automatic application, each with the dialog that confirms it.  It reads    *)
(* two watches that move independently: the baseline and the remediations.    *)
(*                                                                           *)
(* The operator appears as what it does to the two kinds of object: it takes  *)
(* up a requested batch, applies what the batch names and clears the request. *)
(* The dialog with the rendered object is in PageParts, search and chips are  *)
(* in RemediationList.  Of an error the state keeps that there is             *)
(* one; the success banner, which decides nothing, is left out.               *)
(***************************************************************************)
EXTENDS ConsoleWrites

CONSTANTS
    Rems,      \* names of remediations
    NodeRems,  \* those isNodeRemediation recognises
    NoRem      \* no dialog about one

\* a stored remediation has a name the API server accepted, which isValidK8sName does too
ASSUME RemediationsAssumption ==
    /\ NodeRems \subseteq Rems /\ IsFiniteSet(Rems)
    /\ BadName \notin Rems /\ NoRem \notin Rems

VARIABLES
    rems,    \* the stored remediations
    listed   \* what their watch delivered last

remediationsVars == <<shared, rems, listed, ui>>

RemediationsFresh ==
    [target |-> NoRem, snapshot |-> Absent, want |-> FALSE, auto |-> FALSE,
     batch |-> FALSE, busy |-> FALSE, error |-> FALSE]

------------------------------------------------------------------------------
(* what is shown *)

batchInProgress == watched.there /\ (watched.running \/ batchApplyRequested(watched.annotations))

\* node remediations not applied and not blocked
Batchable(list) ==
    {r \in NodeRems : /\ list[r].there /\ ~list[r].apply
                      /\ list[r].state \notin {"MissingDependencies", "Applied"}}

batchable == Batchable(listed)

canDelegateRemediationApply == mayWrite("baseline") /\ mayWrite("remediation")

anyModalOpen == ui.target # NoRem \/ ui.batch \/ ui.auto

applyDisabled == ~mayWrite("remediation") \/ ui.busy
baselineEditDisabled == ~watched.there \/ ~mayWrite("baseline") \/ ui.busy
delegatedApplyDisabled == ~watched.there \/ ~canDelegateRemediationApply \/ ui.busy

\* what the action cell of a row offers
RowOffers(r) ==
    CASE listed[r].apply -> "unapply"
      [] ~listed[r].apply /\ listed[r].state = "MissingDependencies" -> "blocked"
      [] OTHER -> "apply"

\* the button that confirms a batch
BatchConfirmEnabled == ui.batch /\ batchable # {} /\ ~delegatedApplyDisabled

\* where an error is read: in the dialog that is open, else above the list
ErrorShownIn ==
    CASE ~ui.error -> "nowhere"
      [] ui.error /\ anyModalOpen -> "dialog"
      [] OTHER -> "page"

------------------------------------------------------------------------------
(* clicks *)

RemediationsElsewhere == UNCHANGED <<server, author, watched, access, mount, turns, rems, listed>>
RemediationsStill == UNCHANGED calls /\ RemediationsElsewhere

\* run: one request at a time, and a refusal says so
run(of, kind, about, base, patch) ==
    IF ui.busy THEN ui' = [ui EXCEPT !.error = TRUE] /\ UNCHANGED calls
    ELSE /\ Send(of, kind, about, base, patch)
         /\ ui' = [ui EXCEPT !.busy = TRUE, !.error = FALSE]

OpenApply(r) ==
    /\ ~anyModalOpen /\ listed[r].there /\ RowOffers(r) # "blocked" /\ ~applyDisabled
    /\ ui' = [ui EXCEPT !.target = r, !.snapshot = listed[r], !.want = (RowOffers(r) = "apply"),
                        !.error = FALSE]
    /\ RemediationsStill

OpenBatch ==
    /\ ~anyModalOpen /\ ~batchInProgress /\ batchable # {} /\ ~delegatedApplyDisabled
    /\ ui' = [ui EXCEPT !.batch = TRUE, !.error = FALSE]
    /\ RemediationsStill

\* the switch turned on asks first; turned off it writes at once
onAutoApplyChange ==
    /\ ~anyModalOpen /\ ~baselineEditDisabled
    /\ IF watched.remediation # Absent /\ watched.remediation.apply = "Automatic"
       THEN run("baseline", "autoOff", NoRem, watched,
                WithVersion(remediationApplyPatch(watched.remediation # Absent, FALSE), watched.rv))
       ELSE /\ ui' = [ui EXCEPT !.auto = TRUE, !.error = FALSE]
            /\ UNCHANGED calls
    /\ RemediationsElsewhere

\* a dialog is dismissed, which a request under way prevents
Cancel ==
    /\ anyModalOpen /\ ~ui.busy
    /\ ui' = [ui EXCEPT !.target = NoRem, !.snapshot = Absent, !.auto = FALSE, !.batch = FALSE]
    /\ RemediationsStill

\* mutation: the row as it was when the dialog opened
OpenedRow == ui.snapshot

\* the row as it is now, not as it was when the dialog opened
LiveRow == IF listed[ui.target].there THEN listed[ui.target] ELSE ui.snapshot

ApplyPatch == resourceVersionTest(LiveRow.rv, {}, Set("apply", ui.want))

setApply ==
    /\ ui.target # NoRem /\ RoomFor(rems[ui.target])
    /\ IF mayWrite("remediation")
       THEN run("remediation", "apply", ui.target, LiveRow, ApplyPatch)
       ELSE ui' = [ui EXCEPT !.error = TRUE] /\ UNCHANGED calls
    /\ RemediationsElsewhere

AutoPatch == WithVersion(remediationApplyPatch(watched.remediation # Absent, TRUE), watched.rv)

toggleAutoApply ==
    /\ ui.auto /\ watched.there
    /\ IF canDelegateRemediationApply
       THEN run("baseline", "autoOn", NoRem, watched, AutoPatch)
       ELSE ui' = [ui EXCEPT !.error = TRUE] /\ UNCHANGED calls
    /\ RemediationsElsewhere

BatchPatch ==
    batchApplyPatch(watched.annotations # Absent, SetToSeq(batchable), watched.rv)

\* mutation: a dialog opened before a batch was requested does not look again
ApplyRegardless ==
    /\ ui.batch /\ watched.there /\ batchable # {}
    /\ IF canDelegateRemediationApply /\ ~Empty(BatchPatch)
       THEN run("baseline", "batch", NoRem, watched, BatchPatch)
       ELSE ui' = [ui EXCEPT !.error = TRUE] /\ UNCHANGED calls
    /\ RemediationsElsewhere

doBatchApply ==
    /\ ui.batch
    /\ watched.there /\ ~batchInProgress /\ batchable # {}
    /\ IF canDelegateRemediationApply
       THEN IF Empty(BatchPatch)
            THEN ui' = [ui EXCEPT !.error = TRUE] /\ UNCHANGED calls
            ELSE run("baseline", "batch", NoRem, watched, BatchPatch)
       ELSE ui' = [ui EXCEPT !.error = TRUE] /\ UNCHANGED calls
    /\ RemediationsElsewhere

------------------------------------------------------------------------------
(* what happens by itself *)

\* the code after the await closes the dialog it belongs to
RemediationsAnswered(s, fulfilled) ==
    /\ Settled(s, fulfilled)
    /\ LET kind == calls[s].kind
           idle == [ui EXCEPT !.busy = FALSE]
       IN  ui' = CASE ~Heard(s) -> ui
                   [] Heard(s) /\ ~fulfilled -> [idle EXCEPT !.error = TRUE]
                   [] Heard(s) /\ fulfilled /\ kind = "apply" ->
                        [idle EXCEPT !.target = NoRem, !.snapshot = Absent]
                   [] Heard(s) /\ fulfilled /\ kind = "batch" ->
                        [idle EXCEPT !.batch = FALSE]
                   [] OTHER -> [idle EXCEPT !.auto = FALSE]
    /\ UNCHANGED <<rems, listed>>

\* a dialog about a set that has become empty closes in the same render and says why
Rendered(list) ==
    IF ui.batch /\ Batchable(list) = {}
    THEN [ui EXCEPT !.batch = FALSE] ELSE ui

ListDelivered ==
    /\ listed # rems
    /\ listed' = rems
    /\ ui' = Rendered(rems)
    /\ UNCHANGED <<shared, rems>>

\* the API server serves a request that patches a remediation
ServeRemediation(s) ==
    /\ Pending(s) /\ calls[s].of = "remediation"
    /\ LET call == calls[s]
           ok   == Accepts(rems[call.about], call.patch)
       IN  /\ rems' = IF ok THEN [rems EXCEPT ![call.about] = Written(@, call.patch)] ELSE rems
           /\ Decided(s, ok)
    /\ UNCHANGED <<server, author, watched, access, mount, turns, listed, ui>>

\* a scan, the Compliance Operator or another administrator changes a remediation
OthersRemediate ==
    /\ Turn
    /\ \E r \in Rems :
        /\ rems[r].there
        /\ \E next \in {[rems[r] EXCEPT !.apply = ~@],
                        [rems[r] EXCEPT !.state = IF rems[r].apply THEN "Applied" ELSE "NotApplied"],
                        [rems[r] EXCEPT !.state = "MissingDependencies"],
                        [rems[r] EXCEPT !.there = FALSE]} :
            /\ next # rems[r]
            /\ rems' = [rems EXCEPT ![r] = [next EXCEPT !.rv = @ + 1]]
    /\ UNCHANGED <<server, author, watched, access, calls, mount, listed, ui>>

\* somebody else writes the baseline: the switch, or something not shown here
OthersWrite ==
    /\ \/ OtherWrites(server)
       \/ server.there /\ \E apply \in {"Automatic", "Manual"} :
            /\ server.remediation # [apply |-> apply]
            /\ OtherWrites([server EXCEPT !.remediation = [apply |-> apply]])
    /\ UNCHANGED <<rems, listed, ui>>

\* the operator takes up a requested batch
BatchTakenUp ==
    /\ server.there /\ batchApplyRequested(server.annotations) /\ ~server.running
    /\ OtherWrites([server EXCEPT !.running = TRUE])
    /\ UNCHANGED <<rems, listed, ui>>

\* the operator applied what the batch names and clears the request
BatchDone ==
    /\ server.there /\ server.running
    /\ OtherWrites([server EXCEPT !.running = FALSE, !.annotations = [batch |-> <<>>]])
    /\ rems' = [r \in Rems |->
                  IF r \in ToSet(server.annotations.batch) /\ rems[r].there
                  THEN [rems[r] EXCEPT !.apply = TRUE, !.state = "Applied", !.rv = @ + 1]
                  ELSE rems[r]]
    /\ UNCHANGED <<listed, ui>>

RemediationsReopen == Remount /\ ui' = RemediationsFresh /\ UNCHANGED <<rems, listed>>

RemediationsEnvironment ==
    \/ OthersRemediate
    \/ OthersWrite
    \/ BatchTakenUp
    \/ BatchDone
    \/ RemediationsReopen
    \/ (Deliver \/ Review) /\ UNCHANGED <<rems, listed, ui>>

RemediationsClicks ==
    \/ \E r \in Rems : OpenApply(r)
    \/ OpenBatch \/ onAutoApplyChange \/ Cancel
    \/ setApply \/ toggleAutoApply \/ doBatchApply

RemediationsServer(s) == Serve(s) /\ UNCHANGED <<rems, listed, ui>>

RemediationsNext ==
    \/ RemediationsClicks
    \/ ListDelivered
    \/ \E s \in Slots :
        \/ RemediationsServer(s) \/ ServeRemediation(s)
        \/ \E fulfilled \in BOOLEAN : RemediationsAnswered(s, fulfilled)
    \/ RemediationsEnvironment

RemediationsInit ==
    /\ server = [rv |-> 1, there |-> TRUE, remediation |-> Absent,
                 annotations |-> Absent, running |-> FALSE]
    /\ watched = server /\ author = "other"
    /\ access = [r \in {"baseline", "remediation"} |-> "allowed"]
    /\ calls = [s \in Slots |-> NoCall]
    /\ mount = 0 /\ turns = 0
    /\ rems \in [Rems -> [rv : {1}, there : {TRUE}, apply : {FALSE},
                          state : {"NotApplied", "MissingDependencies"}]]
    /\ listed = rems
    /\ ui = RemediationsFresh

RemediationsSpec == RemediationsInit /\ [][RemediationsNext]_remediationsVars

------------------------------------------------------------------------------
(* properties *)

\* A batch is stored only over a baseline on which none is requested or under
\* way, whatever was clicked twice, answered late or retried: the pools are not
\* paused for the same remediations again.
DecidesBatch ==
    \A s \in Slots :
        Pending(s) /\ calls[s].kind = "batch" /\ server' # server /\ author' = "console"
            /\ calls'[s] # calls[s] =>
                ~server.running /\ ~batchApplyRequested(server.annotations)

\* Once the watches have caught up, confirming again what failed is accepted:
\* the request is built from the live objects, not from those the dialog opened on.
RemediationsRetryLands ==
    /\ ui.target # NoRem /\ listed = rems /\ listed[ui.target].there =>
            Accepts(rems[ui.target], ApplyPatch)
    /\ watched = server /\ server.there /\ ui.auto => Accepts(server, AutoPatch)
    /\ watched = server /\ server.there /\ ui.batch /\ batchable # {} =>
            Accepts(server, BatchPatch)

\* The tab is busy exactly while a request it sent since it was opened is
\* unanswered: never for ever after an error, never free while one is under way.
RemediationsBusyIsRequest ==
    ui.busy <=> \E s \in Slots : calls[s] # NoCall /\ ~calls[s].given /\ Heard(s)
===============================================================================
