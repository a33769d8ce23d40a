----------------------------- MODULE MCConsoleTabs ------------------------------
(***************************************************************************)
(* The tabs of the console that write, for TLC.  A behaviour keeps to one set of *)
(* bounds, and two tabs have two sets: two requests at a time over few versions,  *)
(* and one request over more versions or names.                                   *)
(***************************************************************************)
EXTENDS ConsoleTabs

VARIABLE bounds   \* the set of bounds: "wide" or "long"

\* bound: requests under way, versions of the baseline, turns
Within(requests, versions, most) ==
    LET pending == Cardinality({s \in Slots : calls[s] # NoCall})
    IN  pending <= requests /\ server.rv + pending <= versions /\ turns <= most

\* bound: versions of the other objects
Versions(objects, most) == \A o \in DOMAIN objects : objects[o].rv <= most

\* bound: this profile is not bound and nothing is done with it, and one is fetched
\* at a time
LeftAlone(name) ==
    /\ name \notin ToSet(ListOf(server.tailored))
    /\ Cardinality(fetches) <= 1
    /\ name \notin {ui.loading, ui.unbinding}
    /\ ui.form # None => ui.form.name # name
    /\ \A s \in Slots : calls[s] # NoCall /\ calls[s].of = "profile" => calls[s].about.name # name

\* bound: nothing is typed over a profile that was fetched
EditsUntouched == ui.form # None /\ ui.form.mode = "edit" => ~ui.form.typed

Bounded ==
    /\ route = "results" => bounds = "wide" /\ Within(2, 3, 2)
    /\ route = "remediations" =>
        IF bounds = "wide" THEN Within(2, 3, 1) /\ Versions(rems, 3)
        ELSE Within(1, 4, 0) /\ Versions(rems, 4)
    /\ route = "profiles" =>
        IF bounds = "wide" THEN Within(2, 3, 0) /\ Versions(stored, 3) /\ LeftAlone("p2")
        ELSE Within(1, 2, 1) /\ Versions(stored, 2) /\ EditsUntouched
    /\ route = "schedule" => bounds = "long" /\ Within(2, 4, 1)

\* bound: in the long behaviours of the Profiles tab no or every profile is bound at first
MCInit ==
    /\ Init /\ bounds \in {"wide", "long"}
    /\ route = "profiles" /\ bounds = "long" =>
        server.tailored \in {Absent, SetToSeq(Names)}
MCSpec == MCInit /\ [][Next /\ UNCHANGED bounds]_<<vars, bounds>>
===============================================================================
