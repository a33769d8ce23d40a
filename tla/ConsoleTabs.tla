------------------------------ MODULE ConsoleTabs -------------------------------
(***************************************************************************)
(* The tabs of the console that write.  The router mounts one tab at a time,  *)
(* and a tab that is left forgets its state, so a behaviour is one of one     *)
(* tab: the initial state picks it.  The tabs share the variables of          *)
(* ConsoleWrites; what a tab has besides is Absent in the others.             *)
(***************************************************************************)
EXTENDS ResultsTab, RemediationsTab, ProfilesTab, ScheduleEditor

VARIABLE route   \* the tab that is mounted

ofResults == <<results, listing>>
ofRemediations == <<rems, listed>>
ofProfiles == <<stored, fetches>>

vars == <<shared, ui, route, ofResults, ofRemediations, ofProfiles>>

NoResults == results = Absent /\ listing = Absent
NoRemediations == rems = Absent /\ listed = Absent
NoProfiles == stored = Absent /\ fetches = Absent

Init ==
    \/ /\ route = "results" /\ ResultsInit
       /\ NoRemediations /\ NoProfiles
    \/ /\ route = "remediations" /\ RemediationsInit
       /\ NoResults /\ NoProfiles
    \/ /\ route = "profiles" /\ ProfilesInit
       /\ NoResults /\ NoRemediations
    \/ /\ route = "schedule" /\ ScheduleInit
       /\ NoResults /\ NoRemediations /\ NoProfiles

Next ==
    \/ /\ route = "results" /\ ResultsNext
       /\ UNCHANGED <<route, ofRemediations, ofProfiles>>
    \/ /\ route = "remediations" /\ RemediationsNext
       /\ UNCHANGED <<route, ofResults, ofProfiles>>
    \/ /\ route = "profiles" /\ ProfilesNext
       /\ UNCHANGED <<route, ofResults, ofRemediations>>
    \/ /\ route = "schedule" /\ ScheduleNext
       /\ UNCHANGED <<route, ofResults, ofRemediations, ofProfiles>>

Spec == Init /\ [][Next]_vars

------------------------------------------------------------------------------
(* properties, of every tab that has them; WritesOptimistic is in ConsoleWrites *)

\* A tab is busy exactly while a request it sent since it was opened is unanswered:
\* never for ever after an error, never free while one is under way.
BusyIsRequest ==
    /\ route = "results" => ResultsBusyIsRequest
    /\ route = "remediations" => RemediationsBusyIsRequest
    /\ route = "profiles" => ProfilesBusyIsRequest
    /\ route = "schedule" => ScheduleBusyIsRequest

\* Once the watches have caught up, doing again what failed is accepted: a patch of
\* the baseline or of a remediation is built from the live object, not from the one
\* a dialog opened on.  The Save of a tailored profile is the exception: it replaces
\* the object fetched when the form opened, and lands exactly while that is stored.
RetryLands ==
    /\ route = "results" => ResultsRetryLands
    /\ route = "remediations" => RemediationsRetryLands
    /\ route = "profiles" => ProfilesRetryLands
    /\ route = "schedule" => ScheduleRetryLands

\* What the administrator types is lost by their own hand, by a request that
\* succeeded, or with a baseline that was deleted: never because a check healed, a
\* list was delivered again, a request failed or the schedule changed under the
\* form.  Each tab names the cases it leaves.
InputKept ==
    [][/\ route = "results" => ResultsKeepsInput
       /\ route = "profiles" => ProfilesKeepsInput
       /\ route = "schedule" => ScheduleKeepsInput]_vars

\* The form that edits a tailored profile is about the profile whose Edit was
\* clicked last, in whatever order the fetches come back.
FormIsWanted == route = "profiles" => ProfilesFormIsWanted

\* A batch is stored only over a baseline on which none is requested or under way,
\* whatever was clicked twice, answered late or retried.
BatchesDecided == [][route = "remediations" => DecidesBatch]_vars

\* A write of the console that leaves nothing to scan was confirmed in the dialog
\* that says so.
LastConfirmed == [][route = "profiles" => ConfirmsLast]_vars

\* A profile is bound as the one that was typed only if it is: created by this
\* form, or found to say the same, and not rewritten since.
BoundAsTyped == route = "profiles" => ProfilesBoundAsTyped

\* No sequence of clicks, retries and lost answers stores two waivers for one
\* check, or more waivers than the object may hold.
WaiversSound == route = "results" => ResultsWaiversSound
===============================================================================
