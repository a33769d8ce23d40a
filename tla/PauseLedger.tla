------------------------------ MODULE PauseLedger ------------------------------
(***************************************************************************)
(* What the batch promises to the owner of the cluster: a write-ahead      *)
(* ledger of pauses.  A pool is paused only once the ledger lists it, and  *)
(* the ledger may be rewritten or dropped only as long as it keeps every   *)
(* pool that is still held, so that whoever reads the ledger, after any    *)
(* crash, can release them all.                                            *)
(***************************************************************************)
CONSTANT Pools

VARIABLES
    held,    \* the pools that are paused
    ledger   \* the pools the durable record lists

Init == held = {} /\ ledger = {}

Record ==
    /\ ledger' \in SUBSET Pools
    /\ held \subseteq ledger'
    /\ UNCHANGED held

Pause(p) ==
    /\ p \in ledger
    /\ held' = held \union {p}
    /\ UNCHANGED ledger

Release(p) ==
    /\ held' = held \ {p}
    /\ UNCHANGED ledger

Next == Record \/ \E p \in Pools : Pause(p) \/ Release(p)

Spec == Init /\ [][Next]_<<held, ledger>>

\* No pool is paused without a record of it.
Covered == held \subseteq ledger
=============================================================================
