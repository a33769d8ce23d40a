---------------------------- MODULE ConsoleWrites -----------------------------
(***************************************************************************)
(* How a tab of the console writes an object of the cluster: it reads the   *)
(* last state the watch delivered, sends a patch built from it, and goes on *)
(* when the answer comes.  Each tab extends this module and adds what it    *)
(* shows and what a click does.                                             *)
(*                                                                          *)
(* External to src/console-plugin/src, and modelled from how the tabs use   *)
(* them: the API server (k8sPatch), the watch (useK8sWatchResource), the    *)
(* access reviews (useAccessReview) and the router that mounts a tab.       *)
(***************************************************************************)
EXTENDS ConsolePatches, FiniteSets

CONSTANTS
    MaxCalls,    \* bound: requests under way at one time
    MaxVersion,  \* bound: versions of the object
    MaxTurns     \* bound: reviews answered anew, openings of the tab, changes of other objects

ASSUME BoundsAssumption == MaxCalls \in Nat /\ MaxVersion \in Nat /\ MaxTurns \in Nat

VARIABLES
    server,   \* the stored object
    author,   \* who wrote its present version: "console" or "other"
    watched,  \* the state of it the watch delivered last
    access,   \* answer of each access review: "denied" (as one not yet answered) or "allowed"
    calls,    \* requests under way, by slot
    mount,    \* which opening of the tab is on the screen
    turns,    \* what MaxTurns bounds, so far
    ui        \* the state of the component that is the tab

shared == <<server, author, watched, access, calls, mount, turns>>

Slots == 1..MaxCalls
NoCall == [of |-> "nothing"]   \* the content of a free slot
Pending(s) == calls[s] # NoCall /\ calls[s].served = "no"

\* bound: every request under way, and what follows it, may still become a version
RoomFor(object) == object.rv + Cardinality({s \in Slots : calls[s] # NoCall}) < MaxVersion
Room == RoomFor(server)

\* what a review says, as the hook returns it: not allowed until it is answered
mayWrite(review) == access[review] = "allowed"

\* a request goes out in the lowest free slot: of which object, for what, about
\* what in it
Send(of, kind, about, base, patch) ==
    /\ Room
    /\ \E s \in Slots :
        /\ calls[s] = NoCall
        /\ \A r \in Slots : r < s => calls[r] # NoCall
        /\ calls' = [calls EXCEPT ![s] =
                        [of |-> of, kind |-> kind, about |-> about, base |-> base,
                         patch |-> patch, mount |-> mount, served |-> "no", given |-> FALSE]]

\* the API server has decided a request; one that was given up is forgotten
Decided(s, ok) ==
    calls' = [calls EXCEPT ![s] =
                 IF @.given THEN NoCall
                 ELSE [@ EXCEPT !.served = IF ok THEN "landed" ELSE "refused"]]

\* an accepted write makes the next version of its object
Written(object, patch) == [Patched(object, patch.write) EXCEPT !.rv = object.rv + 1]

\* the API server serves a request that patches the baseline
Serve(s) ==
    /\ Pending(s) /\ calls[s].of = "baseline"
    /\ LET ok == Accepts(server, calls[s].patch)
       IN  /\ IF ok THEN server' = Written(server, calls[s].patch) /\ author' = "console"
              ELSE UNCHANGED <<server, author>>
           /\ Decided(s, ok)
    /\ UNCHANGED <<watched, access, mount, turns>>

\* the promise of a request settles.  It fulfils only when the write landed; it
\* rejects when the write was refused, and also when the answer is lost, before
\* or after the API server decides
Settled(s, fulfilled) ==
    /\ calls[s] # NoCall /\ ~calls[s].given
    /\ fulfilled => calls[s].served = "landed"
    /\ calls' = [calls EXCEPT ![s] =
                    IF Pending(s) THEN [@ EXCEPT !.given = TRUE] ELSE NoCall]
    /\ UNCHANGED <<server, author, watched, access, mount, turns>>

\* somebody else writes the object: an administrator, another console, the operator
OtherWrites(object) ==
    /\ Room
    /\ server' = [object EXCEPT !.rv = server.rv + 1]
    /\ author' = "other"
    /\ UNCHANGED <<watched, access, calls, mount, turns>>

\* the watch catches up; states in between may never be delivered
Deliver ==
    /\ watched # server
    /\ watched' = server
    /\ UNCHANGED <<server, author, access, calls, mount, turns>>

\* bound: one more of the things MaxTurns counts
Turn == turns < MaxTurns /\ turns' = turns + 1

\* a review is answered, or its answer changes
Review ==
    /\ Turn
    /\ \E r \in DOMAIN access, verdict \in {"denied", "allowed"} :
        /\ access[r] # verdict
        /\ access' = [access EXCEPT ![r] = verdict]
    /\ UNCHANGED <<server, author, watched, calls, mount>>

\* the tab is left and opened again: requests stay under way, their answers go nowhere
Remount ==
    /\ Turn
    /\ mount' = mount + 1
    /\ UNCHANGED <<server, author, watched, access, calls>>

\* an answer still has somebody to hear it
Heard(s) == calls[s].mount = mount

\* a step that answers a request of this opening that landed
Succeeds ==
    \E s \in Slots : /\ calls[s] # NoCall /\ Heard(s) /\ calls[s].served = "landed"
                     /\ calls'[s] = NoCall

------------------------------------------------------------------------------
(* the refinement mapping *)

Members(object) == [object EXCEPT !.rv = 0]

Decisions ==
    {[version |-> calls[s].base.rv,
      read    |-> Members(calls[s].base),
      written |-> Members(Patched(calls[s].base, calls[s].patch.write))] :
        s \in {r \in DOMAIN calls : calls[r] # NoCall /\ calls[r].of = "baseline"}}

Optimistic == INSTANCE OptimisticObject
    WITH version <- server.rv, value <- Members(server), decisions <- Decisions

\* Every tab writes the baseline as an optimistic writer does: what was decided on
\* a version that is not the present one never lands, so no tab undoes what
\* somebody else wrote after it looked.
WritesOptimistic == Optimistic!Spec
===============================================================================
