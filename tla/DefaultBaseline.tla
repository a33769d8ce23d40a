---------------------------- MODULE DefaultBaseline ----------------------------
(***************************************************************************)
(* The ClusterBaseline a fresh installation gets: DefaultClusterBaseline   *)
(* of operator/internal/controller/default_cr.go, which runs once in every *)
(* process that leads, retries what fails, and shares the object with an   *)
(* administrator who creates and deletes it.                               *)
(*                                                                         *)
(* Abstractions: the list comes from the informer, which may be behind;    *)
(* a deletion is one step, and an object that is being deleted is there;   *)
(* every error that isPermanentDefaultCRError accepts is a refusal; an     *)
(* attempt that runs into its deadline is a failed call, whose create may  *)
(* have landed.                                                            *)
(***************************************************************************)
EXTENDS Integers

CONSTANTS MaxMoves, MaxDisruptions   \* bounds: steps of others; failures and restarts

VARIABLES
    object,       \* ClusterBaseline/cluster: none, the default one, or theirs
    listed,       \* whether the informer has it
    refused,      \* an RBAC rule or a webhook refuses the creation
    at,           \* where Start is
    answered,     \* history: this process was told that the object is there
    moves, disruptions

vars == <<object, listed, refused, at, answered, moves, disruptions>>

There == object # "none"

Init ==
    /\ object \in {"none", "theirs"} /\ listed = FALSE /\ refused \in BOOLEAN
    /\ at = "sync" /\ answered = FALSE
    /\ moves = MaxMoves /\ disruptions = MaxDisruptions

Disrupt == disruptions > 0 /\ disruptions' = disruptions - 1
Succeed == UNCHANGED disruptions

WaitForCacheSync ==
    /\ at = "sync" /\ at' = "list" /\ listed' = There
    /\ Succeed /\ UNCHANGED <<object, refused, answered>>

\* ensureOnce: the list ...
List ==
    /\ at = "list" /\ UNCHANGED <<object, listed, refused>>
    /\ \/ listed /\ at' = "over" /\ answered' = TRUE /\ Succeed
       \/ ~listed /\ at' = "create" /\ Succeed /\ UNCHANGED answered
       \/ Disrupt /\ at' = "sleep" /\ UNCHANGED answered

\* ... and the creation; one that is refused or that finds the object there is
\* the last.
AfterConflict == "sleep"
AfterAlreadyExists == "over"

Create ==
    /\ at = "create" /\ UNCHANGED <<listed, refused>>
    /\ \/ refused /\ at' = "over" /\ Succeed /\ UNCHANGED <<object, answered>>
       \/ /\ ~refused /\ There /\ at' = AfterAlreadyExists
          /\ answered' = TRUE /\ Succeed /\ UNCHANGED object
       \/ /\ ~refused /\ ~There /\ object' = "default"
          /\ \/ at' = "over" /\ answered' = TRUE /\ Succeed
             \/ at' = "sleep" /\ Disrupt /\ UNCHANGED answered
       \/ at' = "sleep" /\ Disrupt /\ UNCHANGED <<object, answered>>

Sleep ==
    /\ at = "sleep" /\ at' = "list"
    /\ Succeed /\ UNCHANGED <<object, listed, refused, answered>>

Operator == (WaitForCacheSync \/ List \/ Create \/ Sleep) /\ UNCHANGED moves

\* Another process leads.
Restart ==
    /\ Disrupt /\ at' = "sync" /\ answered' = FALSE
    /\ UNCHANGED <<object, listed, refused, moves>>

Deliver ==
    /\ listed # There /\ at # "sync" /\ listed' = There
    /\ UNCHANGED <<object, refused, at, answered, moves, disruptions>>

Administrator ==
    /\ moves > 0 /\ moves' = moves - 1
    /\ \/ ~There /\ object' = "theirs" /\ UNCHANGED refused
       \/ There /\ object' = "none" /\ UNCHANGED refused
       \/ refused' = ~refused /\ UNCHANGED object
    /\ UNCHANGED <<listed, at, answered, disruptions>>

Next == Operator \/ Restart \/ Deliver \/ Administrator

------------------------------------------------------------------------------
(* Properties *)

\* A process that was told once, by the list, by the answer of its creation or
\* by AlreadyExists, that the object is there does not create it again, although
\* it retries: what an administrator deletes then stays deleted (default_cr.go:153-174).
NotAgain == object' = "default" /\ object # "default" => ~answered

\* It is inductive that such a process is over.
AnsweredIsOver == answered => at = "over"

\* Provisioning comes to its end.
Provisioned == at = "over"
================================================================================
