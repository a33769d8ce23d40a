--------------------------- MODULE OptimisticObject ---------------------------
(***************************************************************************)
(* What the console's writes promise one another and everybody else: an     *)
(* object that several writers change, each of them having read a version   *)
(* of it and decided on that version what to write.  A decision may wait as *)
(* long as it likes, be made twice or never arrive, but it takes effect     *)
(* only on the very version it was made on, so that no change made in       *)
(* between is ever undone by it.                                            *)
(***************************************************************************)
EXTENDS Integers

VARIABLES
    version,    \* of the object
    value,      \* of the object
    author,     \* of its present version: "console" or "other"
    decisions   \* the console's writes under way: what each read, what it writes

vars == <<version, value, author, decisions>>

Init == author = "other" /\ decisions = {}

\* a version is read, and what shall become of it is decided
Decide == \E d \in decisions' :
    /\ d.version <= version
    /\ d.version = version => d.read = value
    /\ decisions' = decisions \union {d}
    /\ UNCHANGED <<version, value, author>>

\* a decision takes effect: nothing was written since its version was read (its
\* author may have stopped waiting, then it is forgotten)
Land == \E d \in decisions :
    /\ d.version = version
    /\ d.read = value
    /\ value' = d.written
    /\ version' = version + 1
    /\ author' = "console"
    /\ decisions' \subseteq decisions

\* somebody else writes
Foreign ==
    /\ version' = version + 1
    /\ author' = "other"
    /\ UNCHANGED decisions

\* a decision took effect, was refused or is given up
Discard == decisions' \subseteq decisions /\ UNCHANGED <<version, value, author>>

Next == Decide \/ Land \/ Foreign \/ Discard

Spec == Init /\ [][Next]_vars
===============================================================================
