---------------------------- MODULE ScheduleEditor ----------------------------
(***************************************************************************)
(* The inline editor of spec.schedule in the Details card of the Overview   *)
(* (ScheduleEditor in components/Overview.tsx).  The card, and the editor    *)
(* with whatever is typed in it, is on the screen as long as the watch       *)
(* delivers a baseline.                                                      *)
(*                                                                           *)
(* Simplification: a schedule is one of a few, or BadCron for every text      *)
(* isValidCron refuses; which texts those are is not modelled.                *)
(***************************************************************************)
EXTENDS ConsoleWrites

CONSTANTS
    Crons,    \* schedules isValidCron accepts
    Default   \* DEFAULT_SCAN_SCHEDULE

scheduleVars == <<shared, ui>>

ScheduleFresh == [editing |-> FALSE, text |-> Default, busy |-> FALSE, error |-> FALSE, saved |-> FALSE]

effectiveSchedule(schedule) == IF schedule = Absent THEN Default ELSE schedule

currentSchedule == effectiveSchedule(watched.schedule)
validText == ui.text # BadCron

\* the link that opens the form
EditOffered == watched.there /\ ~ui.editing /\ mayWrite("baseline")

SavePatch == WithVersion(schedulePatch(ui.text), watched.rv)

------------------------------------------------------------------------------
(* clicks and keys *)

ScheduleElsewhere == UNCHANGED <<server, author, watched, access, mount, turns>>
ScheduleStill == UNCHANGED calls /\ ScheduleElsewhere

StartEdit ==
    /\ EditOffered
    /\ ui' = [ui EXCEPT !.text = currentSchedule, !.error = FALSE, !.saved = FALSE, !.editing = TRUE]
    /\ ScheduleStill

Type(text) ==
    /\ watched.there /\ ui.editing /\ text # ui.text
    /\ ui' = [ui EXCEPT !.text = text, !.error = FALSE]
    /\ ScheduleStill

\* Cancel, or Escape, which a request under way ignores
cancelEdit ==
    /\ watched.there /\ ui.editing /\ ~ui.busy
    /\ ui' = [ui EXCEPT !.text = currentSchedule, !.error = FALSE, !.editing = FALSE]
    /\ ScheduleStill

\* Enter says why it does nothing when the text is no schedule
EnterInvalid ==
    /\ watched.there /\ ui.editing /\ ~validText
    /\ ui' = [ui EXCEPT !.error = TRUE]
    /\ ScheduleStill

\* Save, or Enter; a second one while the request is under way does nothing
save ==
    /\ watched.there /\ ui.editing /\ validText /\ ~ui.busy
    /\ IF mayWrite("baseline") /\ ~Empty(SavePatch)
       THEN /\ Send("baseline", "schedule", ui.text, watched, SavePatch)
            /\ ui' = [ui EXCEPT !.busy = TRUE, !.error = FALSE]
       ELSE ui' = [ui EXCEPT !.error = TRUE] /\ UNCHANGED calls
    /\ ScheduleElsewhere

------------------------------------------------------------------------------
(* what happens by itself *)

\* mutation: an error leaves the form busy
StuckOnError(s, fulfilled) ==
    /\ Settled(s, fulfilled)
    /\ ui' = CASE ~Heard(s) -> ui
               [] Heard(s) /\ fulfilled ->
                    [ui EXCEPT !.busy = FALSE, !.saved = TRUE, !.editing = FALSE]
               [] OTHER -> [ui EXCEPT !.error = TRUE]

ScheduleAnswered(s, fulfilled) ==
    /\ Settled(s, fulfilled)
    /\ ui' = CASE ~Heard(s) -> ui
               [] Heard(s) /\ fulfilled ->
                    [ui EXCEPT !.busy = FALSE, !.saved = TRUE, !.editing = FALSE]
               [] OTHER -> [ui EXCEPT !.busy = FALSE, !.error = TRUE]

\* the confirmation goes after eight seconds
DismissSaved ==
    /\ ui.saved
    /\ ui' = [ui EXCEPT !.saved = FALSE]
    /\ ScheduleStill

\* a delivery without a baseline takes the card off the screen, form and all
Delivered ==
    /\ watched # server
    /\ watched' = server
    /\ IF server.there THEN UNCHANGED <<mount, ui>> ELSE mount' = mount + 1 /\ ui' = ScheduleFresh
    /\ UNCHANGED <<server, author, access, calls, turns>>

\* another administrator changes the schedule, back to the default too, writes
\* something else, deletes the object or creates it again
ScheduleOthers ==
    /\ \/ OtherWrites(server)
       \/ \E schedule \in Crons \union {Absent} :
            /\ server.there /\ server.schedule # schedule
            /\ OtherWrites([server EXCEPT !.schedule = schedule])
       \/ OtherWrites([server EXCEPT !.there = ~@, !.schedule = Absent])
    /\ UNCHANGED ui

ScheduleReopen == Remount /\ ui' = ScheduleFresh

ScheduleEnvironment ==
    \/ Delivered
    \/ ScheduleOthers
    \/ ScheduleReopen
    \/ Review /\ UNCHANGED ui

ScheduleClicks ==
    \/ \E text \in Crons \union {BadCron} : Type(text)
    \/ StartEdit \/ cancelEdit \/ EnterInvalid \/ save

ScheduleServer(s) == Serve(s) /\ UNCHANGED ui

ScheduleNext ==
    \/ ScheduleClicks
    \/ DismissSaved
    \/ \E s \in Slots : ScheduleServer(s) \/ \E fulfilled \in BOOLEAN : ScheduleAnswered(s, fulfilled)
    \/ ScheduleEnvironment

ScheduleInit ==
    /\ \E schedule \in {Absent, Default} :
        server = [rv |-> 1, there |-> TRUE, schedule |-> schedule]
    /\ watched = server /\ author = "other"
    /\ access = [r \in {"baseline"} |-> "denied"]
    /\ calls = [s \in Slots |-> NoCall]
    /\ mount = 0 /\ turns = 0
    /\ ui = ScheduleFresh

ScheduleSpec == ScheduleInit /\ [][ScheduleNext]_scheduleVars

------------------------------------------------------------------------------
(* properties *)

\* What is in the form is lost only when the administrator types over it, cancels
\* or leaves, when a save lands, which closes the form over what was typed after
\* it too, or with the card when the baseline is gone: never because a request
\* failed or the schedule changed under the form.
ScheduleKeepsInput ==
    ui.editing /\ ~(ui'.editing /\ ui'.text = ui.text) =>
        \/ cancelEdit \/ \E text \in Crons \union {BadCron} : Type(text)
        \/ Succeeds /\ ui'.saved
        \/ mount' # mount

\* Once the watch has caught up, saving again what failed is accepted.
ScheduleRetryLands == watched = server /\ server.there /\ ui.editing /\ validText => Accepts(server, SavePatch)

\* The form is busy exactly while a request of its own is unanswered.
ScheduleBusyIsRequest ==
    ui.busy <=> \E s \in Slots : calls[s] # NoCall /\ ~calls[s].given /\ Heard(s)
===============================================================================
