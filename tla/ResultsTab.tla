------------------------------ MODULE ResultsTab ------------------------------
(***************************************************************************)
(* The Results tab (components/ResultsTab.tsx): the table of checks, the    *)
(* dialog of one check with its waiver form, the removal of waivers whose   *)
(* check is gone.                                                           *)
(*                                                                          *)
(* A click is one step up to the await of its request; what follows the     *)
(* await is the step ResultsAnswered.  A control may be clicked once more in the  *)
(* frame that sent a request, so no action is guarded by the busy state the *)
(* buttons show; the synchronous guard of the code is.                      *)
(*                                                                          *)
(* Simplifications: of the five fields of the form the state keeps whether  *)
(* anything was typed, and what they hold is chosen when they are read; a   *)
(* waiver is its name and whether the console wrote it.                     *)
(***************************************************************************)
EXTENDS ConsoleWrites

CONSTANTS
    Checks,   \* names of checks
    NoCheck   \* no row is selected

VARIABLES
    results,  \* effective status of each check in the watched list, "absent" when not in it
    listing   \* the watch of the results: "loading", "failed", "loaded"

resultsVars == <<shared, results, listing, ui>>

\* the state a fresh mount has
ResultsFresh ==
    [selected |-> NoCheck, asFail |-> FALSE, text |-> FALSE, error |-> "none", busy |-> FALSE,
     removing |-> NoCheck, success |-> "none"]

\* resetWaiverForm
Closed(u) == [u EXCEPT !.selected = NoCheck, !.asFail = FALSE, !.text = FALSE, !.error = "none"]

------------------------------------------------------------------------------
(* what is shown *)

waivers == IF watched.there THEN watched.waivers ELSE Absent
WaivedNames == IF waivers = Absent THEN {} ELSE {waivers[i].name : i \in DOMAIN waivers}
findWaiver(name) == name \in WaivedNames

\* the page below the tabs
Body ==
    CASE listing = "loaded" /\ ~watched.there -> "unconfigured"
      [] listing = "loaded" /\ watched.there /\ (\A c \in Checks : results[c] = "absent") -> "empty"
      [] OTHER -> "table"

\* a row offers the waiver controls: its check fails, or it has a waiver to remove
showWaiver(name, fails) == findWaiver(name) \/ (watched.there /\ fails)

\* mutation: decided on the row as it is now
FormOfLiveRow == ui.selected # NoCheck /\ showWaiver(ui.selected, results[ui.selected] = "FAIL")

\* decided on the row as it was when the dialog opened
showWaiverForm == ui.selected # NoCheck /\ showWaiver(ui.selected, ui.asFail)

\* the button of the dialog
DialogOffers ==
    CASE ~showWaiverForm -> "close"
      [] showWaiverForm /\ findWaiver(ui.selected) -> "remove"
      [] OTHER -> "waive"

\* the form to type into is on the screen
FormShown == Body = "table" /\ DialogOffers = "waive"

\* waivers no row stands for
orphanWaivers ==
    IF listing # "loaded" THEN {} ELSE {n \in WaivedNames : results[n] = "absent"}

orphanWaiverAlert ==
    IF mayWrite("baseline") /\ Body \in {"table", "empty"} THEN orphanWaivers ELSE {}

waiveDisabled == ~watched.there \/ ~mayWrite("baseline") \/ ui.busy

\* rows the download holds, and whether the button is enabled
exportCsvDisabled == listing # "loaded" \/ \A c \in Checks : results[c] = "absent"

------------------------------------------------------------------------------
(* clicks *)

Fail(error) == ui' = [ui EXCEPT !.error = error]

\* patchWaivers up to its await; nothing is done without a baseline
patchWaivers(kind, name, patch, next) ==
    CASE ~watched.there -> ui' = next /\ UNCHANGED calls
      [] watched.there /\ ui.busy ->
            /\ ui' = [next EXCEPT !.error = "busy"]
            /\ UNCHANGED calls
      [] watched.there /\ ~ui.busy /\ ~mayWrite("baseline") ->
            /\ ui' = [next EXCEPT !.error = "denied"]
            /\ UNCHANGED calls
      [] OTHER ->
            /\ Send("baseline", kind, name, watched, patch)
            /\ ui' = [next EXCEPT !.busy = TRUE, !.error = "none"]

ResultsElsewhere == UNCHANGED <<server, author, watched, access, mount, turns, results, listing>>

\* a row is clicked; nothing holds it back while a request is under way
OpenRow(c) ==
    /\ Body = "table" /\ ui.selected = NoCheck
    /\ results[c] # "absent"
    /\ ui' = [ui EXCEPT !.selected = c, !.asFail = (results[c] = "FAIL"),
                        !.success = "none", !.error = "none"]
    /\ UNCHANGED calls /\ ResultsElsewhere

\* a field is edited
waiveEdit ==
    /\ FormShown
    /\ ui' = [ui EXCEPT !.text = TRUE, !.error = "none"]
    /\ UNCHANGED calls /\ ResultsElsewhere

closeModal ==
    /\ ui.selected # NoCheck
    /\ ~ui.busy
    /\ ui' = Closed(ui)
    /\ UNCHANGED calls /\ ResultsElsewhere

\* the waive button: the limit, the dates, the builder, then the request
addSelectedWaiver ==
    /\ FormShown /\ (~waiveDisabled \/ ui.busy)
    /\ \E dates, valid \in BOOLEAN :
        LET entry == [name |-> ui.selected, by |-> "console"]
            patch == addWaiverPatch(waivers, entry, valid, watched.rv)
            full  == waivers # Absent /\ Len(waivers) >= MaxWaivers
            fault == CASE full -> "full"
                       [] ~full /\ ~dates -> "dates"
                       [] OTHER -> "fields"
        IN  IF full \/ ~dates \/ Empty(patch)
            THEN Fail(fault) /\ UNCHANGED calls
            ELSE patchWaivers("waive", ui.selected, patch, ui)
    /\ ResultsElsewhere

\* removeWaiverByIndex: the name is marked before patchWaivers decides; a refusal
\* settles at once and takes the mark back
removeWaiverByIndex(kind, name) ==
    LET patch == removeWaiverPatch(IndexOf(waivers, name), name, watched.rv)
        held  == ui.busy \/ ~mayWrite("baseline")
    IN  IF Empty(patch) THEN Fail("failed") /\ UNCHANGED calls
        ELSE patchWaivers(kind, name, patch,
                          [ui EXCEPT !.removing = IF held THEN NoCheck ELSE name])

removeSelectedWaiver ==
    /\ Body = "table" /\ DialogOffers = "remove"
    /\ ~waiveDisabled \/ ui.busy
    /\ removeWaiverByIndex("unwaive", ui.selected)
    /\ ResultsElsewhere

removeOrphan(c) ==
    /\ ui.selected = NoCheck
    /\ c \in orphanWaiverAlert
    /\ removeWaiverByIndex("orphan", c)
    /\ ResultsElsewhere

downloadCsv ==
    /\ Body = "table" /\ ui.selected = NoCheck /\ ~exportCsvDisabled
    /\ ui' = [ui EXCEPT !.success = "exported"]
    /\ UNCHANGED calls /\ ResultsElsewhere

------------------------------------------------------------------------------
(* what happens by itself *)

\* the code after the await: the dialog is reset on success, whichever it is
ResultsAnswered(s, fulfilled) ==
    /\ Settled(s, fulfilled)
    /\ LET call == calls[s]
           idle == [ui EXCEPT !.busy = FALSE, !.removing = NoCheck]
       IN  ui' = CASE ~Heard(s) -> ui
                   [] Heard(s) /\ fulfilled ->
                        [Closed(idle) EXCEPT !.success =
                            IF call.kind = "waive" THEN "waived" ELSE "removed"]
                   [] OTHER -> [idle EXCEPT !.error = "failed"]
    /\ UNCHANGED <<results, listing>>

\* the banner goes after eight seconds
DismissSuccess ==
    /\ ui.success # "none"
    /\ ui' = [ui EXCEPT !.success = "none"]
    /\ UNCHANGED calls /\ ResultsElsewhere

\* the watch of the results: a list, a change of a check, a failure
Listed ==
    /\ Turn
    /\ \/ \E state \in {"failed", "loaded"} :
            listing # state /\ listing' = state /\ UNCHANGED results
       \/ \E c \in Checks, status \in {"FAIL", "PASS", "absent"} :
            /\ listing = "loaded" /\ results[c] # status
            /\ results' = [results EXCEPT ![c] = status]
            /\ UNCHANGED listing
    /\ UNCHANGED <<server, author, watched, access, calls, mount, ui>>

\* another administrator adds or removes a waiver, writes something else,
\* deletes the object or creates it again
ResultsOthers ==
    /\ \/ OtherWrites(server)
       \/ \E c \in Checks : LET list == IF server.waivers = Absent THEN <<>> ELSE server.waivers IN
            /\ server.there
            /\ IF IndexOf(list, c) # 0
               THEN OtherWrites([server EXCEPT !.waivers = RemoveAt(list, IndexOf(list, c))])
               ELSE /\ Len(list) < MaxWaivers
                    /\ OtherWrites([server EXCEPT !.waivers = Append(list, [name |-> c, by |-> "other"])])
       \/ OtherWrites([server EXCEPT !.there = ~@, !.waivers = Absent])
    /\ UNCHANGED <<results, listing, ui>>

ResultsReopen == Remount /\ ui' = ResultsFresh /\ UNCHANGED <<results, listing>>

ResultsEnvironment ==
    \/ Listed
    \/ ResultsOthers
    \/ ResultsReopen
    \/ (Deliver \/ Review) /\ UNCHANGED <<results, listing, ui>>

ResultsClicks ==
    \/ \E c \in Checks : OpenRow(c) \/ removeOrphan(c)
    \/ waiveEdit \/ closeModal \/ addSelectedWaiver \/ removeSelectedWaiver \/ downloadCsv

ResultsServer(s) == Serve(s) /\ UNCHANGED <<results, listing, ui>>

ResultsNext ==
    \/ ResultsClicks
    \/ DismissSuccess
    \/ \E s \in Slots : ResultsServer(s) \/ \E fulfilled \in BOOLEAN : ResultsAnswered(s, fulfilled)
    \/ ResultsEnvironment

Start(object) ==
    /\ server = object /\ watched = object /\ author = "other"
    /\ access = [r \in {"baseline"} |-> "denied"]
    /\ calls = [s \in Slots |-> NoCall]
    /\ mount = 0 /\ turns = 0

ResultsInit ==
    /\ \E list \in {Absent} \union {<<[name |-> c, by |-> "other"]>> : c \in Checks} :
        Start([rv |-> 1, there |-> TRUE, waivers |-> list])
    /\ results \in [Checks -> {"FAIL", "absent"}]
    /\ listing = "loaded"
    /\ ui = ResultsFresh

ResultsSpec == ResultsInit /\ [][ResultsNext]_resultsVars

------------------------------------------------------------------------------
(* properties *)

\* No sequence of clicks, retries and lost answers stores two waivers for one
\* check, or more waivers than the object may hold.
ResultsWaiversSound ==
    server.waivers # Absent =>
        /\ Len(server.waivers) <= MaxWaivers
        /\ \A i, j \in DOMAIN server.waivers :
            server.waivers[i].name = server.waivers[j].name => i = j

\* What is typed for a check is lost only when the administrator dismisses it or
\* leaves the tab, or when a request of the tab succeeds: any of them, the removal
\* of another waiver too.  It leaves the screen unlost only when the watch delivers
\* that somebody waived the check or deleted the baseline, or with the whole table:
\* never because a request fails, the check heals or the list is delivered again.
ResultsKeepsInput ==
    /\ ui.selected # NoCheck /\ ui.text /\ ~(ui'.text /\ ui'.selected = ui.selected) =>
        \/ closeModal \/ mount' # mount
        \/ Succeeds /\ ui'.success \in {"waived", "removed"}
    /\ FormShown /\ ui.text /\ ui'.text /\ ~FormShown' => watched' # watched \/ Body' # "table"

\* Once the watch has caught up, waiving again what the dialog shows is accepted,
\* and so is removing a waiver.
ResultsRetryLands ==
    watched = server /\ server.there =>
        /\ FormShown =>
            LET patch == addWaiverPatch(waivers, [name |-> ui.selected, by |-> "console"], TRUE, watched.rv)
            IN  ~Empty(patch) => Accepts(server, patch)
        /\ \A c \in WaivedNames :
            Accepts(server, removeWaiverPatch(IndexOf(waivers, c), c, watched.rv))

\* The tab is busy exactly while a request it sent since it was opened is
\* unanswered: never for ever after an error, never free while one is under way.
ResultsBusyIsRequest ==
    ui.busy <=> \E s \in Slots : calls[s] # NoCall /\ ~calls[s].given /\ Heard(s)
===============================================================================
