---------------------------- MODULE CompliancePage -----------------------------
(***************************************************************************)
(* The page around the tabs (components/CompliancePage.tsx): the watches     *)
(* every tab shares, which body a tab shows while they load or fail, the     *)
(* buttons Rescan now and Export HTML report, and the empty state that        *)
(* offers to create the baseline (components/BaselineNotConfigured.tsx).      *)
(*                                                                           *)
(* A rescan sends one patch per scan and waits for all of them; a reload of    *)
(* the page forgets what was under way, the clock has moved on by then.        *)
(* External: the API server, the watches, the access reviews, the operator     *)
(* that creates the default baseline.                                         *)
(***************************************************************************)
EXTENDS ConsolePatches, FiniteSets

CONSTANTS
    Scans,      \* names of the owned scans
    MaxClicks,  \* bound: rescans, exports and creations
    MaxTurns    \* bound: deliveries, failures, writes of others, reloads

VARIABLES
    stored,    \* is there a baseline, and does it select a profile
    base,      \* what its watch delivered last
    scans,     \* the stored ComplianceScan objects
    seen,      \* what their watch delivered last
    lists,     \* the two suite-scoped lists: "loading", "failed", "loaded"
    requests,  \* patches of scans under way
    creation,  \* the request that creates the baseline: "none", "sent", "landed", "taken"
    access,    \* allowed by the reviews: of "rescan", of "create"
    stamped,   \* tokens that reached a scan (history)
    clock,     \* the wall clock, as a reload reads it
    clicks, turns,
    ui         \* the state of the component

vars == <<stored, base, scans, seen, lists, requests, creation, access, stamped,
          clock, clicks, turns, ui>>

objects == <<stored, scans>>
cluster == <<stored, base, scans, seen, lists, access, stamped, clock>>

Fresh == [fan |-> FALSE, seq |-> 0, ok |-> 0, bad |-> 0,
          started |-> FALSE, error |-> FALSE,
          exporting |-> FALSE, notice |-> "none",
          creating |-> FALSE, created |-> FALSE, createError |-> FALSE]

------------------------------------------------------------------------------
(* what the tabs are given, and what they show *)

baseline == base.there

\* without owned suites no list is watched
ownedSuiteSelector(b) == b.loaded /\ b.there /\ b.profiles
suiteSel == ownedSuiteSelector(base)

ownedScans == IF suiteSel /\ lists.scans # "loading" THEN Scans ELSE {}

\* an error resolves the watch as a load does, so that no tab waits for ever
ctxLoaded == base.loaded \/ base.error
checkResultsLoaded == base.loaded /\ (~suiteSel \/ lists.results = "loaded")
checkResultsError == suiteSel /\ lists.results = "failed"

\* mutation: an object that was not read counts as absent
Unread == "notConfigured"

\* no object: unread and absent need different words
NoBaseline == IF base.error THEN "unavailable" ELSE "notConfigured"

TabBody(tab) ==
    CASE tab \in {"overview", "profiles"} /\ ~ctxLoaded -> "loading"
      [] tab = "remediations" /\ ~ctxLoaded -> "loading"
      [] tab \in {"overview", "profiles", "remediations"} /\ ctxLoaded /\ ~baseline -> NoBaseline
      [] tab = "results" /\ checkResultsLoaded /\ ~checkResultsError /\ ~baseline -> NoBaseline
      [] tab = "card" /\ base.error -> "unavailable"
      [] tab = "card" /\ ~base.error /\ ~base.loaded -> "loading"
      [] OTHER -> "tab"

Tabs == {"overview", "results", "remediations", "profiles", "card"}
CreateOffered == \E tab \in Tabs : TabBody(tab) = "notConfigured"

exportDisabled == ~baseline \/ ~checkResultsLoaded \/ checkResultsError \/ ui.exporting

exportDisabledReason ==
    CASE ui.exporting -> "none"
      [] ~ui.exporting /\ ~baseline -> "notConfigured"
      [] ~ui.exporting /\ baseline /\ checkResultsError -> "failed"
      [] OTHER -> IF checkResultsLoaded THEN "none" ELSE "waiting"

rescanWatchError == base.error \/ (suiteSel /\ lists.scans = "failed")

rescanDisabled ==
    ui.fan \/ ~base.loaded \/ ownedScans = {} \/ "rescan" \notin access \/ rescanWatchError

rescanDisabledReason ==
    CASE ui.fan -> "none"
      [] ~ui.fan /\ rescanWatchError -> "failed"
      [] ~ui.fan /\ ~rescanWatchError /\ ~base.loaded -> "waiting"
      [] OTHER -> CASE "rescan" \notin access -> "denied"
                    [] "rescan" \in access /\ ownedScans # {} -> "none"
                    [] OTHER -> IF ~baseline THEN "notConfigured"
                                ELSE IF base.profiles THEN "noScansYet" ELSE "disabled"

\* the banner a rescan leaves
RescanAlert ==
    CASE ui.error -> IF ui.started THEN "warning" ELSE "danger"
      [] ~ui.error /\ ui.started -> "success"
      [] OTHER -> "none"

------------------------------------------------------------------------------
(* rescan *)

\* mutation: the clock alone tells two clicks apart
ClockToken(ms, seq) == <<ms>>

rescanToken(ms, seq) == <<ms, seq>>

Click == clicks < MaxClicks /\ clicks' = clicks + 1

rescan ==
    /\ Click /\ ~ui.fan
    /\ IF "rescan" \notin access \/ ownedScans = {}
       THEN ui' = [ui EXCEPT !.error = TRUE] /\ UNCHANGED requests
       ELSE LET token == rescanToken(clock, ui.seq + 1) IN
            /\ ui' = [ui EXCEPT !.fan = TRUE, !.seq = @ + 1, !.ok = 0, !.bad = 0,
                                !.started = FALSE, !.error = FALSE]
            /\ requests' = requests \union
                {[scan |-> s, token |-> token, live |-> TRUE, served |-> "no",
                  patch |-> rescanPatch(seen[s].annotations # Absent, token, seen[s].rv)] :
                    s \in ownedScans}
    /\ UNCHANGED <<creation, turns>> /\ UNCHANGED cluster

Replace(r, next) == requests' = (requests \ {r}) \union next

ServePatch(r) ==
    /\ r \in requests /\ r.served = "no"
    /\ LET object == scans[r.scan]
           ok == Accepts(object, r.patch)
       IN  /\ scans' = IF ok THEN [scans EXCEPT ![r.scan] =
                                     [Patched(object, r.patch.write) EXCEPT !.rv = @ + 1]]
                       ELSE scans
           /\ stamped' = IF ok THEN stamped \union {r.token} ELSE stamped
           /\ Replace(r, IF r.live THEN {[r EXCEPT !.served = IF ok THEN "landed" ELSE "refused"]}
                         ELSE {})
    /\ UNCHANGED <<stored, base, seen, lists, creation, access, clock, clicks, turns, ui>>

\* one of the promises settles; with the last one the outcome is shown: what
\* started and what failed, both when both happened
Finish(u) ==
    [u EXCEPT !.fan = FALSE, !.started = (@ \/ u.ok > 0), !.error = (@ \/ u.bad > 0)]

PatchAnswered(r, fulfilled) ==
    /\ r \in requests /\ r.live
    /\ fulfilled => r.served = "landed"
    /\ Replace(r, IF r.served = "no" THEN {[r EXCEPT !.live = FALSE]} ELSE {})
    /\ LET counted == IF fulfilled THEN [ui EXCEPT !.ok = @ + 1] ELSE [ui EXCEPT !.bad = @ + 1]
       IN  ui' = IF \E q \in requests' : q.live THEN counted ELSE Finish(counted)
    /\ UNCHANGED <<creation, clicks, turns>> /\ UNCHANGED cluster

------------------------------------------------------------------------------
(* export *)

exportReport ==
    /\ Click /\ ~exportDisabled
    /\ ui' = [ui EXCEPT !.exporting = TRUE, !.notice = "none"]
    /\ UNCHANGED <<requests, creation, turns>> /\ UNCHANGED cluster

\* the exporter's chunk fails to load, the report opens in a tab, is downloaded
\* because the popup was blocked, or cannot be built
Exported ==
    /\ ui.exporting
    /\ \E notice \in {"none", "info", "danger"} :
        ui' = [ui EXCEPT !.exporting = FALSE, !.notice = notice]
    /\ UNCHANGED <<requests, creation, clicks, turns>> /\ UNCHANGED cluster

\* useAutoDismiss: what went well goes after eight seconds, an error stays
AutoDismiss ==
    /\ \/ ui.started /\ ~ui.error /\ ui' = [ui EXCEPT !.started = FALSE]
       \/ ui.notice = "info" /\ ui' = [ui EXCEPT !.notice = "none"]
    /\ UNCHANGED <<requests, creation, clicks, turns>> /\ UNCHANGED cluster

\* the close buttons of the banners
CloseAlert ==
    /\ \/ (ui.error \/ ui.started) /\ ui' = [ui EXCEPT !.started = FALSE, !.error = FALSE]
       \/ ui.notice # "none" /\ ui' = [ui EXCEPT !.notice = "none"]
    /\ UNCHANGED <<requests, creation, clicks, turns>> /\ UNCHANGED cluster

------------------------------------------------------------------------------
(* creating the default baseline *)

create ==
    /\ Click /\ CreateOffered /\ ~ui.creating
    /\ IF "create" \in access
       THEN /\ ui' = [ui EXCEPT !.creating = TRUE, !.createError = FALSE, !.created = FALSE]
            /\ creation' = "sent"
       ELSE ui' = [ui EXCEPT !.createError = TRUE] /\ UNCHANGED creation
    /\ UNCHANGED <<requests, turns>> /\ UNCHANGED cluster

defaultClusterBaselineManifest == [there |-> TRUE, profiles |-> TRUE]

ServeCreate ==
    /\ creation = "sent"
    /\ creation' = IF stored.there THEN "taken" ELSE "landed"
    /\ stored' = IF stored.there THEN stored ELSE defaultClusterBaselineManifest
    /\ UNCHANGED <<base, scans, seen, lists, requests, access, stamped, clock, clicks, turns, ui>>

\* that somebody else was faster is not an error
CreateAnswered ==
    /\ ui.creating
    /\ \E outcome \in {creation, "lost"} \ {"sent"} :
        ui' = [ui EXCEPT !.creating = FALSE, !.created = (outcome # "lost"),
                         !.createError = (outcome = "lost")]
    /\ creation' = IF creation = "sent" THEN "sent" ELSE "none"
    /\ UNCHANGED <<requests, clicks, turns>> /\ UNCHANGED cluster

------------------------------------------------------------------------------
(* the environment *)

Turn == turns < MaxTurns /\ turns' = turns + 1

\* the empty state leaves the screen with what it says
LeaveEmpty(u) ==
    IF \E tab \in Tabs : TabBody(tab)' = "notConfigured" THEN u
    ELSE [u EXCEPT !.creating = FALSE, !.created = FALSE, !.createError = FALSE]

\* what the watch of the baseline delivers
Delivered == [loaded |-> TRUE, error |-> FALSE, there |-> stored.there, profiles |-> stored.profiles]

\* the watch of the baseline delivers what is stored, or fails, keeping or
\* dropping what it had; another selection of suites opens the lists anew
BaselineDelivered ==
    /\ Turn
    /\ \/ base' = Delivered
       \/ ~base.error /\ \E there \in {FALSE, base.there} :
            base' = [base EXCEPT !.error = TRUE, !.there = there]
    /\ lists' = IF suiteSel' = suiteSel THEN lists
                ELSE [scans |-> "loading", results |-> "loading"]
    /\ ui' = LeaveEmpty(ui)
    /\ creation' = IF ui'.creating THEN creation ELSE IF creation = "sent" THEN "sent" ELSE "none"
    /\ UNCHANGED <<objects, seen, requests, access, stamped, clock, clicks>>

ListDelivered ==
    /\ Turn /\ suiteSel
    /\ \E state \in {"failed", "loaded"}, list \in {"scans", "results"} :
        lists' = [lists EXCEPT ![list] = state]
    /\ seen' = IF lists'.scans = "loaded" THEN scans ELSE seen
    /\ UNCHANGED <<objects, base, requests, creation, access, stamped, clock, clicks, ui>>

\* somebody deletes the baseline, creates it as the operator does at its start,
\* or empties its selection
OthersConfigure ==
    /\ Turn
    /\ \/ stored.there /\ stored' = [stored EXCEPT !.there = FALSE, !.profiles = FALSE]
       \/ ~stored.there /\ stored' = defaultClusterBaselineManifest
       \/ stored.there /\ stored' = [stored EXCEPT !.profiles = ~@]
    /\ UNCHANGED <<base, scans, seen, lists, requests, creation, access, stamped, clock, clicks, ui>>

\* somebody else annotates a scan, or the Compliance Operator takes the rescan
\* annotation away when the scan is done
OthersAnnotate ==
    /\ Turn
    /\ \E s \in Scans :
        \/ scans' = [scans EXCEPT ![s].rv = @ + 1, ![s].annotations =
                        IF @ = Absent THEN [other |-> "theirs"] ELSE WithKey(@, "other", "theirs")]
        \/ /\ scans[s].annotations # Absent
           /\ "rescan" \in DOMAIN scans[s].annotations
           /\ scans' = [scans EXCEPT ![s].rv = @ + 1, ![s].annotations =
                           IF DOMAIN @ = {"rescan"} THEN Absent
                           ELSE [k \in DOMAIN @ \ {"rescan"} |-> @[k]]]
    /\ UNCHANGED <<stored, base, seen, lists, requests, creation, access, stamped, clock, clicks, ui>>

Review ==
    /\ Turn
    /\ \E verb \in {"rescan", "create"} :
        access' = IF verb \in access THEN access \ {verb} ELSE access \union {verb}
    /\ UNCHANGED <<stored, base, scans, seen, lists, requests, creation, stamped, clock, clicks, ui>>

\* the page is left and loaded again
Reload ==
    /\ Turn
    /\ ui' = Fresh /\ clock' = clock + 1
    /\ requests' = {[r EXCEPT !.live = FALSE] : r \in {q \in requests : q.served = "no"}}
    /\ creation' = IF creation = "sent" THEN "sent" ELSE "none"
    /\ UNCHANGED <<stored, base, scans, seen, lists, access, stamped, clicks>>

Next ==
    \/ rescan
    \/ \E r \in requests : ServePatch(r) \/ \E fulfilled \in BOOLEAN : PatchAnswered(r, fulfilled)
    \/ exportReport \/ Exported \/ AutoDismiss \/ CloseAlert
    \/ create \/ ServeCreate \/ CreateAnswered
    \/ BaselineDelivered \/ ListDelivered
    \/ OthersConfigure \/ OthersAnnotate
    \/ Review \/ Reload

Init ==
    /\ \E there \in BOOLEAN : stored = [there |-> there, profiles |-> there]
    /\ base \in {[loaded |-> FALSE, error |-> FALSE, there |-> FALSE, profiles |-> FALSE],
                 Delivered}
    /\ scans \in [Scans -> [there : {TRUE}, rv : {1}, annotations : {Absent, [other |-> "theirs"]}]]
    /\ seen = scans
    /\ lists = IF base.loaded /\ base.profiles THEN [scans |-> "loaded", results |-> "loaded"]
               ELSE [scans |-> "loading", results |-> "loading"]
    /\ requests = {} /\ creation = "none" /\ access = {"rescan", "create"}
    /\ stamped = {} /\ clock = 0 /\ clicks = 0 /\ turns = 0
    /\ ui = Fresh

Spec == Init /\ [][Next]_vars

------------------------------------------------------------------------------
(* properties *)

\* The console says that there is no baseline, and offers to create one, only
\* when the watch was read and holds none: never because it failed or loads.
NotConfiguredIsTrue == CreateOffered => base.loaded /\ ~base.error /\ ~base.there

\* No rescan takes an annotation of somebody else off a scan, whoever wrote
\* first and however late the patch arrives.
KeepsAnnotations ==
    \A r \in requests, s \in Scans :
        ServePatch(r) /\ scans[s].annotations # Absent =>
            \A k \in DOMAIN scans[s].annotations \ {"rescan"} :
                k \in DOMAIN scans'[s].annotations

\* A rescan that lands changes what the Compliance Operator watches, also after
\* a reload, a retry and a patch that arrives late: no scan is asked for in vain.
AsksAnew ==
    \A r \in requests : ServePatch(r) /\ scans' # scans =>
        scans'[r.scan].annotations # scans[r.scan].annotations

\* "Rescan started" is said only when the API server took a patch of that click.
StartedIsReal == ui.started => rescanToken(clock, ui.seq) \in stamped

\* The button waits exactly as long as patches of its click are unanswered.
BusyIsRequest == ui.fan <=> \E r \in requests : r.live
===============================================================================
