--------------------------- MODULE ConsolePluginReg ---------------------------
(***************************************************************************)
(* The console plugin: its objects, and its entry in the list of plugins   *)
(* of the one Console, which every operator with a plugin writes           *)
(* (operator/internal/controller/plugin.go).  ensureConsolePlugin adds the *)
(* entry after the objects, removeConsolePlugin takes it out after them,   *)
(* and the deletion of the ClusterBaseline before its finalizer.           *)
(*                                                                         *)
(* Abstractions:                                                           *)
(*  - the list is a set: the code appends its name if it is not there and  *)
(*    removes every copy of it; a list of the wrong type cannot be stored; *)
(*  - an object of the plugin is there as the code writes it or not at     *)
(*    all, and the Deployment has a number of replicas; whether its pods   *)
(*    are up is a choice, and Unavailable is WaitingForPods for longer;    *)
(*  - a CreateOrUpdate is one step, which works on the current object or   *)
(*    fails; a failed call may have taken effect.  The Console is read and *)
(*    written in two steps, as other operators do the same;                *)
(*  - the steps of the reconcile before and behind this one are left out,  *)
(*    but for the status write and the finalizer; the informer's copy of   *)
(*    the ClusterBaseline is current.                                      *)
(***************************************************************************)
EXTENDS Integers, Sequences

CONSTANTS
    Others,          \* plugins of other operators
    Attempts,        \* conflictRetryAttempts
    MaxMoves,        \* bound: steps of everybody else
    MaxDisruptions   \* bound: failed calls and crashes

VARIABLES
    baseline,    \* the ClusterBaseline: its phase and spec.console.managementState
    cond,        \* its stored condition ConsolePluginReady
    image,       \* RELATED_IMAGE_CONSOLE_PLUGIN names an image
    single,      \* the cluster has one node
    crds,        \* the Console capability is enabled
    console,     \* the Console: whether it exists, and its list
    objects,     \* the objects of the plugin
    replicas,    \* of its Deployment
    pc,          \* the call the reconciler makes next
    cb,          \* the copy of the ClusterBaseline it works on
    oneNode,     \* infrastructureSingleReplica as it was read
    left,        \* objects still to be removed
    got,         \* the list it read
    fresh,       \* nobody wrote the Console since
    tries,       \* attempts of retryOnConflict
    rvOK,        \* nobody wrote the ClusterBaseline since cb was read
    seen,        \* history: the entry was in the list since the reconcile began
    byHand,      \* history: somebody else put it in during a deletion
    moves, disruptions

cluster == <<image, single, crds, console, objects, replicas>>
locals  == <<cb, oneNode, left, got, fresh, tries>>
vars    == <<baseline, cond, cluster, pc, locals, rvOK, seen, byHand, moves, disruptions>>

Ours      == "ours"
Removal   == <<"plugin", "deployment", "service", "pdb">>
NoCopy    == [phase |-> "live", managed |-> TRUE, cond |-> "none"]
NoConsole == [exists |-> FALSE, plugins |-> {}]
HasConsole == crds /\ console.exists

Init ==
    /\ baseline = [phase |-> "live", managed |-> TRUE] /\ cond = "none"
    /\ image \in BOOLEAN /\ single \in BOOLEAN
    /\ crds = TRUE /\ console = [exists |-> TRUE, plugins |-> Others]
    /\ objects = {} /\ replicas = 0
    /\ pc = "idle" /\ cb = NoCopy /\ oneNode = FALSE /\ left = <<>> /\ got = {}
    /\ fresh = TRUE /\ tries = 0 /\ rvOK = TRUE /\ seen = FALSE /\ byHand = FALSE
    /\ moves = MaxMoves /\ disruptions = MaxDisruptions

------------------------------------------------------------------------------
(* The reconcile *)

Deletes   == cb.phase = "deleting"
Registers == ~Deletes /\ cb.managed

Disrupt == disruptions > 0 /\ disruptions' = disruptions - 1
Succeed == UNCHANGED disruptions

Err  == pc' = "error"
Fail == Disrupt /\ Err

Say(reason) == cb' = [cb EXCEPT !.cond = reason] /\ pc' = "status"

Begin ==
    /\ pc = "idle" /\ baseline.phase # "gone"
    /\ cb' = [phase |-> baseline.phase, managed |-> baseline.managed,
              cond |-> IF baseline.phase = "live" /\ baseline.managed /\ ~image
                       THEN "ImageMissing" ELSE cond]
    /\ pc' = CASE baseline.phase = "deleting" -> "get"
               [] baseline.phase = "live" /\ ~baseline.managed -> "remove"
               [] baseline.phase = "live" /\ baseline.managed ->
                     IF image THEN "topology" ELSE "status"
    /\ left' = Removal /\ tries' = 1 /\ rvOK' = TRUE
    /\ Succeed /\ UNCHANGED <<cluster, cond, oneNode, got, fresh>>

\* The namespace, and the topology, which counts as several nodes when it
\* cannot be read.
ReadTopology ==
    /\ pc = "topology"
    /\ \/ oneNode' = single /\ pc' = "service" /\ Succeed
       \/ oneNode' = FALSE /\ pc' = "service" /\ Disrupt
       \/ Fail /\ UNCHANGED oneNode
    /\ UNCHANGED <<cluster, cond, cb, left, got, fresh, tries, rvOK>>

\* An object is written, and the reconcile goes on to the next step.
Ensure(step, next, set, count) ==
    /\ pc = step
    /\ \/ objects' = set /\ replicas' = count /\ ((pc' = next /\ Succeed) \/ Fail)
       \/ Fail /\ UNCHANGED <<objects, replicas>>
    /\ UNCHANGED <<image, single, crds, console, cond, locals, rvOK>>

EnsureService == Ensure("service", "deployment", objects \union {"service"}, replicas)
EnsureDeployment ==
    Ensure("deployment", "pdb", objects \union {"deployment"}, IF oneNode THEN 1 ELSE 2)
EnsurePDB ==
    Ensure("pdb", "plugin",
           IF oneNode THEN objects \ {"pdb"} ELSE objects \union {"pdb"}, replicas)
EnsurePlugin ==
    \/ crds /\ Ensure("plugin", "get", objects \union {"plugin"}, replicas)
    \/ /\ pc = "plugin" /\ ~crds /\ Say("ConsoleMissing") /\ Succeed
       /\ UNCHANGED <<cluster, cond, oneNode, left, got, fresh, tries, rvOK>>

\* removeConsolePlugin: one object after the other, then the entry.
RemoveObject ==
    /\ pc = "remove"
    /\ \/ /\ left = <<>> /\ pc' = "get" /\ Succeed /\ UNCHANGED <<objects, replicas, left>>
       \/ /\ left # <<>> /\ objects' = objects \ {Head(left)}
          /\ replicas' = IF "deployment" \in objects' THEN replicas ELSE 0
          /\ \/ left' = Tail(left) /\ Succeed /\ UNCHANGED pc
             \/ Fail /\ UNCHANGED left
       \/ left # <<>> /\ Fail /\ UNCHANGED <<objects, replicas, left>>
    /\ UNCHANGED <<image, single, crds, console, cond, cb, oneNode, got, fresh, tries, rvOK>>

\* The list is as it should be: what follows it.
ListDone ==
    \/ Registers /\ pc' = "pods" /\ UNCHANGED cb
    \/ Deletes /\ pc' = "finalizer" /\ UNCHANGED cb
    \/ ~Registers /\ ~Deletes /\ Say("Disabled")

WantedList == IF Registers THEN got \union {Ours} ELSE got \ {Ours}

\* A Console that is not there holds no entry, so that a deletion is not stuck.
StuckIfMissing == Err /\ UNCHANGED cb
GoOnIfMissing  == ListDone

GetConsole ==
    /\ pc = "get"
    /\ \/ /\ ~HasConsole /\ Succeed /\ UNCHANGED <<got, fresh>>
          /\ \/ Registers /\ Say("ConsoleMissing")
             \/ ~Registers /\ GoOnIfMissing
       \/ /\ HasConsole /\ got' = console.plugins /\ fresh' = TRUE /\ Succeed
          /\ \/ (Ours \in got') = Registers /\ ListDone
             \/ (Ours \in got') # Registers /\ pc' = "update" /\ UNCHANGED cb
       \/ Fail /\ UNCHANGED <<cb, got, fresh>>
    /\ UNCHANGED <<cluster, cond, oneNode, left, tries, rvOK>>

\* The API server takes the update of the object that was read.
Blindly == TRUE
Current == fresh

UpdateConsole ==
    /\ pc = "update"
    /\ \/ /\ HasConsole /\ Current
          /\ console' = [console EXCEPT !.plugins = WantedList]
          /\ \/ ListDone /\ Succeed
             \/ Fail /\ UNCHANGED cb
          /\ UNCHANGED <<fresh, tries>>
       \/ /\ HasConsole /\ ~Current /\ Succeed /\ UNCHANGED <<console, cb, fresh>>
          /\ \/ tries < Attempts /\ tries' = tries + 1 /\ pc' = "get"
             \/ tries = Attempts /\ Err /\ UNCHANGED tries
       \/ /\ ~HasConsole /\ Succeed /\ UNCHANGED <<console, fresh, tries>>
          /\ \/ Registers /\ Say("ConsoleMissing")
             \/ ~Registers /\ Err /\ UNCHANGED cb
       \/ Fail /\ UNCHANGED <<console, cb, fresh, tries>>
    /\ UNCHANGED <<image, single, crds, objects, replicas, cond, oneNode, left, got, rvOK>>

\* The Deployment is read back from the informer, which may be behind.
ReadPods ==
    /\ pc = "pods"
    /\ \/ (\E reason \in {"Deployed", "WaitingForPods"} : Say(reason)) /\ Succeed
       \/ Fail /\ UNCHANGED cb
    /\ UNCHANGED <<cluster, cond, oneNode, left, got, fresh, tries, rvOK>>

\* The reconcile is over, and its variables are gone.
Return ==
    /\ pc' = "idle" /\ cb' = NoCopy /\ oneNode' = FALSE /\ left' = <<>> /\ got' = {}
    /\ fresh' = TRUE /\ tries' = 0 /\ rvOK' = TRUE /\ UNCHANGED cluster

\* The status write after success or error; the deletion returns without one.
StatusWrite ==
    /\ pc \in {"status", "error"} /\ Return
    /\ \/ cond' = (IF rvOK /\ ~Deletes THEN cb.cond ELSE cond) /\ Succeed
       \/ UNCHANGED cond /\ Disrupt

\* The finalizer goes, unless somebody wrote the object since it was read.
RemoveFinalizer ==
    /\ pc = "finalizer" /\ Return /\ UNCHANGED cond
    /\ \/ rvOK /\ baseline' = [baseline EXCEPT !.phase = "gone"]
          /\ (Succeed \/ Disrupt)
       \/ UNCHANGED baseline /\ ((~rvOK /\ Succeed) \/ Disrupt)

Crash == pc # "idle" /\ Return /\ Disrupt /\ UNCHANGED cond

Operator ==
    /\ \/ /\ \/ Begin \/ ReadTopology
             \/ EnsureService \/ EnsureDeployment \/ EnsurePDB \/ EnsurePlugin
             \/ RemoveObject \/ GetConsole \/ UpdateConsole \/ ReadPods \/ StatusWrite
          /\ UNCHANGED baseline
       \/ RemoveFinalizer
    /\ UNCHANGED <<byHand, moves>>

------------------------------------------------------------------------------
(* Everybody else *)

\* The objects of the plugin go with their owner.
Collect ==
    /\ baseline.phase = "gone" /\ objects # {} /\ objects' = {} /\ replicas' = 0
    /\ UNCHANGED <<baseline, cond, image, single, crds, console, pc, locals, rvOK,
                   byHand, moves, disruptions>>

EditBaseline ==
    /\ \/ baseline' = [baseline EXCEPT !.managed = ~baseline.managed]
       \/ baseline.phase = "live" /\ baseline' = [baseline EXCEPT !.phase = "deleting"]
    /\ baseline.phase # "gone" /\ rvOK' = FALSE
    /\ UNCHANGED <<crds, console, objects, replicas, fresh, byHand>>

\* Other operators and administrators change the list, or the Console goes or comes.
EditConsole ==
    /\ crds
    /\ \/ \E l \in SUBSET (Others \union {Ours}) :
              l # console.plugins /\ console' = [exists |-> TRUE, plugins |-> l]
       \/ console.exists /\ console' = NoConsole
    /\ fresh' = FALSE
    /\ byHand' = (byHand \/ (/\ baseline.phase # "live"
                             /\ Ours \in console'.plugins \ console.plugins))
    /\ UNCHANGED <<baseline, crds, objects, replicas, rvOK>>

\* The capability goes with its objects, and comes back without them.
ToggleConsole ==
    /\ crds' = ~crds /\ console' = NoConsole /\ fresh' = FALSE
    /\ objects' = objects \ {"plugin"}
    /\ UNCHANGED <<baseline, replicas, rvOK, byHand>>

DeleteObject ==
    /\ \E o \in objects :
          /\ objects' = objects \ {o}
          /\ replicas' = IF o = "deployment" THEN 0 ELSE replicas
    /\ UNCHANGED <<baseline, crds, console, fresh, rvOK, byHand>>

Environment ==
    /\ moves > 0 /\ moves' = moves - 1
    /\ EditBaseline \/ EditConsole \/ ToggleConsole \/ DeleteObject
    /\ UNCHANGED <<cond, image, single, pc, cb, oneNode, left, got, tries, disruptions>>

Observe == seen' = (pc' # "idle" /\ (seen \/ Ours \in console.plugins \/ Ours \in console'.plugins))

Next ==
    /\ \/ Operator \/ Collect \/ Environment
       \/ Crash /\ UNCHANGED <<baseline, byHand, moves>>
    /\ Observe

------------------------------------------------------------------------------
(* Properties *)

\* Whoever else writes the list at the same time, no step of the operator puts
\* in or takes out the plugin of another one (plugin.go:97-128, 381-397).
KeepsOthers == moves' = moves => console'.plugins \ {Ours} = console.plugins \ {Ours}

\* The ClusterBaseline goes only after its entry, unless somebody put that in
\* again during the deletion: the console would load a plugin that is gone.
LeavesNothing ==
    baseline.phase = "deleting" /\ baseline'.phase = "gone" =>
        Ours \notin console'.plugins \/ byHand

\* Deployed is concluded only in a reconcile during which the entry was listed.
DeployedIsListed == pc = "status" /\ cb.cond = "Deployed" => seen

\* Once nobody else writes, there is what managementState and the topology ask
\* for, a plugin that is removed or deleted leaves nothing, and no deletion hangs.
Followed ==
    /\ baseline.phase # "deleting"
    /\ baseline.phase = "gone" => objects = {}
    /\ baseline.phase = "live" /\ ~baseline.managed =>
          objects = {} /\ Ours \notin console.plugins /\ cond = "Disabled"
    /\ baseline.phase = "live" /\ baseline.managed /\ image =>
          /\ {"service", "deployment"} \subseteq objects
          /\ ("pdb" \in objects) = ~single /\ replicas = IF single THEN 1 ELSE 2
          /\ crds => "plugin" \in objects
          /\ HasConsole => Ours \in console.plugins /\ cond \in {"Deployed", "WaitingForPods"}
          /\ ~HasConsole => cond = "ConsoleMissing"

------------------------------------------------------------------------------
(* The argument for the first three *)

Phases == {"live", "deleting", "gone"}
Reasons == {"none", "ImageMissing", "ConsoleMissing", "Disabled", "Deployed", "WaitingForPods"}
Copies == [phase : Phases, managed : BOOLEAN, cond : Reasons]
Lists  == SUBSET (Others \union {Ours})

PluginTypes ==
    /\ baseline \in [phase : Phases, managed : BOOLEAN]
    /\ cb \in Copies /\ cond \in Reasons /\ moves \in Nat /\ byHand \in BOOLEAN
    /\ console \in [exists : BOOLEAN, plugins : Lists] /\ got \in Lists

\* What the worker read is still there when its update is taken; a deletion that
\* is past the list has left it without the entry; and a registration has seen it.
PluginInv ==
    /\ PluginTypes
    /\ ~console.exists => console.plugins = {}
    /\ ~crds => ~console.exists
    /\ pc = "update" /\ fresh => got = console.plugins
    /\ pc # "idle" /\ cb.phase # "live" => baseline.phase # "live"
    /\ pc = "finalizer" => Deletes /\ (Ours \notin console.plugins \/ byHand)
    /\ pc = "pods" => seen
    /\ DeployedIsListed
================================================================================
