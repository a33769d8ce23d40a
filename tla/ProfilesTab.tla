------------------------------ MODULE ProfilesTab ------------------------------
(***************************************************************************)
(* The Profiles tab (components/ProfilesTab.tsx): the switches of the        *)
(* built-in profiles, the list of bound tailored profiles, and the form that  *)
(* makes a tailored profile and binds it, or edits one.                       *)
(*                                                                           *)
(* Creating is a chain of requests with one baseline captured at its start:   *)
(* create the profile, look at it when its name is taken, bind it.  Editing    *)
(* fetches the profile first, and a fetch may be overtaken: the code numbers   *)
(* them (editSeq), the model marks those that were superseded.                *)
(*                                                                           *)
(* Simplifications: what a profile says (base, rules) is one of a few specs;   *)
(* what is typed is chosen when it is read; messages, which decide nothing     *)
(* here, are left out.                                                         *)
(***************************************************************************)
EXTENDS ConsoleWrites, Lists

CONSTANTS
    Keys,      \* built-in profiles
    Names,     \* names of tailored profiles
    Specs,     \* what a tailored profile may say
    None,      \* no profile, no form
    MaxFetches \* bound: reads of profiles under way at one time

\* the marker Absent stands for no list, the marker None for no name
ASSUME ProfilesAssumption ==
    /\ Keys # {} /\ IsFiniteSet(Names)
    /\ Absent \notin Seq(Keys) /\ Absent \notin Seq(Names) /\ None \notin Names

VARIABLES
    stored,   \* the TailoredProfile objects
    fetches   \* reads of openEdit under way

profilesVars == <<shared, stored, fetches, ui>>

\* wanted, the profile whose Edit was clicked last, is not in the code
ProfilesFresh ==
    [form |-> None, loading |-> None, pending |-> FALSE, unbinding |-> None,
     last |-> None, wanted |-> None]

------------------------------------------------------------------------------
(* what is shown *)

ListOf(member) == IF member = Absent THEN <<>> ELSE member

\* filter, as the code uses it: the entries of the list other than this one
Without(list, entry) ==
    Kept(list, ToSet(list) \ {entry})

boundTailored == ToSet(ListOf(watched.tailored))

updateGate == mayWrite("update") /\ mayWrite("baseline")
createGate == mayWrite("create") /\ mayWrite("baseline")

editDisabled == ~mayWrite("baseline") \/ ui.pending
createDisabled == editDisabled \/ ~mayWrite("create")
tailoredEditDisabled ==
    editDisabled \/ ~mayWrite("create") \/ ~mayWrite("update") \/ ui.loading # None

toggledProfiles(current, key, checked) ==
    CASE ~checked -> Without(current, key)
      [] checked /\ key \in ToSet(current) -> current
      [] OTHER -> Append(current, key)

\* turning the switch off would leave nothing to scan
wouldStopScanning(key, checked) ==
    /\ ~checked
    /\ toggledProfiles(ListOf(watched.profiles), key, FALSE) = <<>>
    /\ watched.tailored \in {Absent, <<>>}

scanningDisabled(object) ==
    object.profiles \in {Absent, <<>>} /\ object.tailored \in {Absent, <<>>}

\* the dialog that unbinds warns that nothing will be scanned
UnbindWarns ==
    /\ watched.profiles \in {Absent, <<>>}
    /\ Without(ListOf(watched.tailored), ui.unbinding) = <<>>

anyDialogOpen == ui.form # None \/ ui.unbinding # None \/ ui.last # None

------------------------------------------------------------------------------
(* patches this tab builds itself *)

\* mutation: only the member itself is tested
MemberAlone(field, old, new) ==
    resourceVersionTest(0, IF old = Absent THEN {} ELSE {TestMember(field, old)}, Set(field, new))

Member(field, old, new) ==
    resourceVersionTest(watched.rv, IF old = Absent THEN {} ELSE {TestMember(field, old)},
                        Set(field, new))

TogglePatch(key, checked) ==
    Member("profiles", watched.profiles,
           toggledProfiles(ListOf(watched.profiles), key, checked))

UnbindPatch(name) ==
    Member("tailored", watched.tailored, Without(watched.tailored, name))

------------------------------------------------------------------------------
(* clicks *)

ProfilesElsewhere == UNCHANGED <<server, author, watched, access, mount, turns, stored>>
Refused == UNCHANGED <<calls, fetches, ui>>
Superseded == {[f EXCEPT !.live = FALSE] : f \in fetches}

\* a switch is moved; the one that would stop all scanning asks first
Switch(key) ==
    LET checked == key \notin ToSet(ListOf(watched.profiles)) IN
    /\ watched.there /\ ~anyDialogOpen /\ (~editDisabled \/ ui.pending)
    /\ IF wouldStopScanning(key, checked)
       THEN ui' = [ui EXCEPT !.last = key] /\ UNCHANGED calls
       ELSE /\ ~ui.pending
            /\ Send("baseline", "toggle", checked, watched, TogglePatch(key, checked))
            /\ ui' = [ui EXCEPT !.pending = TRUE]
    /\ UNCHANGED fetches /\ ProfilesElsewhere

\* the dialog confirms turning the last one off
TurnOffScanning ==
    /\ ui.last # None /\ watched.there /\ ~ui.pending
    /\ IF mayWrite("baseline")
       THEN /\ Send("baseline", "last", FALSE, watched, TogglePatch(ui.last, FALSE))
            /\ ui' = [ui EXCEPT !.pending = TRUE]
            /\ UNCHANGED fetches
       ELSE Refused
    /\ ProfilesElsewhere

OpenUnbind(name) ==
    /\ name \in boundTailored /\ ~anyDialogOpen /\ ~editDisabled
    /\ ui' = [ui EXCEPT !.unbinding = name]
    /\ UNCHANGED <<calls, fetches>> /\ ProfilesElsewhere

unbindTailored ==
    /\ ui.unbinding # None /\ watched.there /\ ~ui.pending
    /\ CASE ~mayWrite("baseline") -> Refused
         [] mayWrite("baseline") /\ ui.unbinding \notin boundTailored ->
                ui' = [ui EXCEPT !.unbinding = None] /\ UNCHANGED <<calls, fetches>>
         [] OTHER ->
                /\ Send("baseline", "unbind", UnbindWarns, watched, UnbindPatch(ui.unbinding))
                /\ fetches' = Superseded
                /\ ui' = [ui EXCEPT !.pending = TRUE, !.loading = None]
    /\ ProfilesElsewhere

\* Edit is clicked: the form opens when the profile has been fetched
openEdit(name) ==
    /\ name \in boundTailored /\ ~anyDialogOpen /\ ~ui.pending
    /\ ~tailoredEditDisabled \/ ui.loading # None
    /\ Cardinality(fetches) < MaxFetches
    /\ IF updateGate
       THEN /\ fetches' = Superseded \union {[name |-> name, live |-> TRUE]}
            /\ ui' = [ui EXCEPT !.loading = name, !.wanted = name]
            /\ UNCHANGED calls
       ELSE Refused
    /\ ProfilesElsewhere

OpenCreate ==
    /\ ~anyDialogOpen /\ ~createDisabled
    /\ ui' = [ui EXCEPT !.form = [mode |-> "create", name |-> None, obj |-> None, typed |-> FALSE]]
    /\ UNCHANGED <<calls, fetches>> /\ ProfilesElsewhere

\* a field of the form is edited, which a request under way does not prevent
TypeProfile ==
    /\ ui.form # None /\ ~ui.form.typed
    /\ ui' = [ui EXCEPT !.form.typed = TRUE]
    /\ UNCHANGED <<calls, fetches>> /\ ProfilesElsewhere

\* Save, or Create and bind, up to the first await; the name of a profile that
\* is edited is fixed, and a form nobody typed in says what it was filled with
createTailored ==
    /\ ui.form # None /\ watched.there /\ ~ui.pending
    /\ \E name \in Names \union {BadName}, spec \in Specs :
        LET edit == ui.form.mode = "edit" IN
        /\ edit => name = ui.form.name /\ RoomFor(stored[name])
        /\ ui.form.typed \/ (IF edit THEN spec = ui.form.obj.spec ELSE name = BadName)
        /\ IF ~(IF edit THEN updateGate ELSE createGate) \/ name = BadName
           THEN Refused
           ELSE /\ Send("profile", IF edit THEN "update" ELSE "create",
                        [name |-> name, spec |-> spec, rv |-> 0], watched, ui.form.obj)
                /\ fetches' = Superseded
                /\ ui' = [ui EXCEPT !.pending = TRUE, !.loading = None]
    /\ ProfilesElsewhere

\* a dialog is dismissed, which a request under way prevents
closeCreateModal ==
    /\ anyDialogOpen /\ ~ui.pending
    /\ fetches' = IF ui.form # None THEN Superseded ELSE fetches
    /\ ui' = [ui EXCEPT !.form = None, !.unbinding = None, !.last = None,
                        !.loading = IF ui.form # None THEN None ELSE @]
    /\ UNCHANGED calls /\ ProfilesElsewhere

------------------------------------------------------------------------------
(* what happens by itself *)

\* the form as a fetch fills it
Filled(name) == [mode |-> "edit", name |-> name, obj |-> stored[name], typed |-> FALSE]

\* mutation: every fetch counts
EveryFetchAnswers(f, found) ==
    /\ f \in fetches
    /\ found => stored[f.name].there
    /\ fetches' = fetches \ {f}
    /\ ui' = [ui EXCEPT !.loading = None, !.form = IF found THEN Filled(f.name) ELSE @]
    /\ UNCHANGED <<shared, stored>>

\* a fetch comes back: the one that still counts fills the form
FetchAnswered(f, found) ==
    /\ f \in fetches
    /\ found => stored[f.name].there
    /\ fetches' = fetches \ {f}
    /\ ui' = CASE ~f.live -> ui
               [] f.live /\ ~found -> [ui EXCEPT !.loading = None]
               [] OTHER -> [ui EXCEPT !.loading = None, !.form = Filled(f.name)]
    /\ UNCHANGED <<shared, stored>>

\* an update is accepted on the version of the profile it was built from
UpdateAccepted(name, version) == stored[name].there /\ stored[name].rv = version

\* the API server serves a request for a TailoredProfile: created when the name
\* is free, replaced on the version it was fetched with, or just read
ServeProfile(s) ==
    /\ Pending(s) /\ calls[s].of = "profile"
    /\ LET call == calls[s]
           name == call.about.name
           ok   == CASE call.kind = "create" -> ~stored[name].there
                     [] call.kind = "update" -> UpdateAccepted(name, call.patch.rv)
                     [] OTHER -> stored[name].there
           next == [there |-> TRUE, rv |-> stored[name].rv + 1, spec |-> call.about.spec]
       IN  /\ stored' = IF ok /\ call.kind # "adopt" THEN [stored EXCEPT ![name] = next] ELSE stored
           /\ calls' = [calls EXCEPT ![s] =
                 IF call.given THEN NoCall
                 ELSE [call EXCEPT !.served = IF ok THEN "landed" ELSE "refused",
                                   !.patch = stored'[name]]]
    /\ UNCHANGED <<server, author, watched, access, mount, turns, fetches, ui>>

\* the next request of the chain goes out in the same slot
Chained(s, next) ==
    /\ calls' = [calls EXCEPT ![s] = next]
    /\ UNCHANGED <<server, author, watched, access, mount, turns>>

\* what is on the screen after a failure, and after a success, which closes the
\* dialog of its kind
Failed(s) == ui' = IF Heard(s) THEN [ui EXCEPT !.pending = FALSE] ELSE ui

Finished(s) ==
    LET closes(kinds, dialog) == IF calls[s].kind \in kinds THEN None ELSE dialog
    IN  ui' = IF Heard(s)
              THEN [ui EXCEPT !.pending = FALSE,
                        !.form = closes({"create", "adopt", "update", "bind"}, @),
                        !.last = closes({"toggle", "last"}, @),
                        !.unbinding = closes({"unbind"}, @)]
              ELSE ui

\* the profile is there as typed: it is bound to the baseline the chain started on
Bind(s, seen) ==
    LET call  == calls[s]
        patch == tailoredProfileBindingPatch(call.base.tailored, call.about.name, call.base.rv)
    IN  IF Empty(patch)
        THEN /\ Settled(s, TRUE)
             /\ IF call.about.name \in ToSet(ListOf(call.base.tailored)) THEN Finished(s) ELSE Failed(s)
        ELSE /\ Chained(s, [call EXCEPT !.of = "baseline", !.kind = "bind", !.served = "no",
                                        !.patch = patch, !.about.rv = seen.rv])
             /\ UNCHANGED ui

\* mutation: the name is enough
SameName(stands, typed) == TRUE

\* the profile of the taken name says what was typed (its rules are in TailoredRules)
tailoredProfileSpecMatches(stands, typed) == stands = typed

\* the code after each await of createTailored.  The name being taken is an
\* answer of its own, and the profile of that name is bound only if it is the
\* one that would have been created
ProfilesAnswered(s, fulfilled) ==
    /\ calls[s] # NoCall /\ ~calls[s].given
    /\ LET call == calls[s] IN
        CASE call.kind = "create" /\ fulfilled -> call.served = "landed" /\ Bind(s, call.patch)
          [] call.kind = "create" /\ ~fulfilled ->
                \/ /\ call.served = "refused"
                   /\ Chained(s, [call EXCEPT !.kind = "adopt", !.served = "no"])
                   /\ UNCHANGED ui
                \/ call.served # "refused" /\ Settled(s, FALSE) /\ Failed(s)
          [] call.kind = "adopt" /\ fulfilled ->
                /\ call.served = "landed"
                /\ IF tailoredProfileSpecMatches(call.patch.spec, call.about.spec)
                   THEN Bind(s, call.patch)
                   ELSE Settled(s, TRUE) /\ Failed(s)
          [] OTHER -> Settled(s, fulfilled) /\ IF fulfilled THEN Finished(s) ELSE Failed(s)
    /\ UNCHANGED <<stored, fetches>>

\* another administrator: writes something else, binds or unbinds a profile,
\* turns a built-in one on or off, creates or rewrites a TailoredProfile
ProfilesOthers ==
    \/ /\ \/ OtherWrites(server)
          \/ \E key \in Keys : OtherWrites([server EXCEPT !.profiles =
                toggledProfiles(ListOf(@), key, key \notin ToSet(ListOf(@)))])
          \/ \E name \in Names :
                name \in ToSet(ListOf(server.tailored)) /\ OtherWrites([server EXCEPT !.tailored =
                    Without(@, name)])
       /\ UNCHANGED <<stored, fetches, ui>>
    \/ /\ Turn
       /\ \E name \in Names, spec \in Specs :
            /\ stored[name].spec # spec \/ ~stored[name].there
            /\ stored' = [stored EXCEPT ![name] = [there |-> TRUE, rv |-> @.rv + 1, spec |-> spec]]
       /\ UNCHANGED <<server, author, watched, access, calls, mount, fetches, ui>>

ProfilesReopen == Remount /\ ui' = ProfilesFresh /\ fetches' = {} /\ UNCHANGED stored

ProfilesEnvironment ==
    \/ ProfilesOthers
    \/ ProfilesReopen
    \/ (Deliver \/ Review) /\ UNCHANGED <<stored, fetches, ui>>

ProfilesClicks ==
    \/ \E key \in Keys : Switch(key)
    \/ \E name \in Names : OpenUnbind(name) \/ openEdit(name)
    \/ TurnOffScanning \/ unbindTailored \/ OpenCreate
    \/ TypeProfile \/ createTailored \/ closeCreateModal

ProfilesServer(s) == Serve(s) /\ UNCHANGED <<stored, fetches, ui>>

ProfilesNext ==
    \/ ProfilesClicks
    \/ \E f \in fetches, found \in BOOLEAN : FetchAnswered(f, found)
    \/ \E s \in Slots :
        \/ ProfilesServer(s) \/ ServeProfile(s)
        \/ \E fulfilled \in BOOLEAN : ProfilesAnswered(s, fulfilled)
    \/ ProfilesEnvironment

ProfilesInit ==
    /\ \E bound \in {Absent} \union {SetToSeq(names) : names \in SUBSET Names} :
        server = [rv |-> 1, there |-> TRUE, profiles |-> <<CHOOSE k \in Keys : TRUE>>,
                  tailored |-> bound]
    /\ watched = server /\ author = "other"
    /\ access = [r \in {"baseline", "create", "update"} |-> "allowed"]
    /\ calls = [s \in Slots |-> NoCall]
    /\ mount = 0 /\ turns = 0
    /\ stored = [n \in Names |-> [there |-> n \in ToSet(ListOf(server.tailored)), rv |-> 1,
                                  spec |-> CHOOSE spec \in Specs : TRUE]]
    /\ fetches = {}
    /\ ui = ProfilesFresh

ProfilesSpec == ProfilesInit /\ [][ProfilesNext]_profilesVars

------------------------------------------------------------------------------
(* properties *)

\* The form that edits a profile is about the profile whose Edit was clicked
\* last, so that Save never rewrites another one, in whatever order the fetches
\* come back.
ProfilesFormIsWanted == ui.form # None /\ ui.form.mode = "edit" => ui.form.name = ui.wanted

\* A profile is bound as the one that was typed only if it is: it was created
\* by this form, or found to say the same, and has not been rewritten since.
ProfilesBoundAsTyped ==
    \A s \in Slots :
        LET call == calls[s] IN
        call # NoCall /\ call.kind = "bind" /\ stored[call.about.name].rv = call.about.rv =>
            /\ stored[call.about.name].there
            /\ stored[call.about.name].spec = call.about.spec

\* Scanning is never turned off by a click that did not say so: a write of the
\* console that leaves nothing to scan was confirmed in the dialog that warns.
ConfirmsLast ==
    author' = "console" /\ server' # server
        /\ scanningDisabled(server') /\ ~scanningDisabled(server) =>
            \E s \in Slots : /\ Pending(s) /\ calls'[s] # calls[s]
                             /\ calls[s].kind = "last" \/ (calls[s].kind = "unbind" /\ calls[s].about)

\* Once the watch has caught up, moving a switch, unbinding or binding again is
\* accepted.  Saving an edit is accepted exactly while the profile is what the form
\* was filled with: it is built on the object fetched when the form opened, so once
\* somebody rewrote the profile, or a save landed whose answer was lost, every
\* retry is refused until the form is opened again.
ProfilesRetryLands ==
    /\ watched = server /\ server.there =>
        /\ \A key \in Keys, checked \in BOOLEAN : Accepts(server, TogglePatch(key, checked))
        /\ \A name \in boundTailored : Accepts(server, UnbindPatch(name))
        /\ \A name \in Names :
            LET patch == tailoredProfileBindingPatch(watched.tailored, name, watched.rv)
            IN  ~Empty(patch) => Accepts(server, patch)
    /\ ui.form # None /\ ui.form.mode = "edit" =>
        (UpdateAccepted(ui.form.name, ui.form.obj.rv) <=> stored[ui.form.name] = ui.form.obj)

\* What is typed into the form is lost only when the administrator dismisses it,
\* leaves the tab, or a request that landed is answered.  One case is left to the
\* fetch of an edit: still under way when New tailored profile was clicked, it
\* turns the new form into the edit.
ProfilesKeepsInput ==
    ui.form # None /\ ui.form.typed /\ ui'.form # ui.form =>
        \/ closeCreateModal \/ mount' # mount \/ Succeeds
        \/ ui.form.mode = "create" /\ ui.loading # None /\ ui'.form = Filled(ui.loading)

\* The tab is busy exactly while a request it sent since it was opened is
\* unanswered: never for ever after an error, never free while one is under way.
ProfilesBusyIsRequest ==
    ui.pending <=> \E s \in Slots : calls[s] # NoCall /\ ~calls[s].given /\ Heard(s)
===============================================================================
