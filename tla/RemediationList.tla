---------------------------- MODULE RemediationList ----------------------------
(***************************************************************************)
(* The list of the Remediations tab (console-plugin/src/remediation.ts,        *)
(* components/RemediationsTab.tsx): how a remediation is classified, in what     *)
(* order it stands, under which chips and search it is shown, and which ones a   *)
(* batch would apply.                                                            *)
(*                                                                              *)
(* Simplifications: names are numbers, in the order the collator puts them; a    *)
(* search is the set of names it matches; the row label shows the state of its    *)
(* chip (stateStyle), so only the chip is kept.                                   *)
(***************************************************************************)
EXTENDS Lists, Integers, FiniteSets, Sequences

CONSTANTS
    Names,        \* of remediations, numbers
    Absent,
    Rendered,     \* what a remediation may render, among Kinds
    States,       \* what the Compliance Operator may report, also a state unknown here
    batchApplyMaxNames

VARIABLES
    remediations,   \* the owned ones the watch delivered, by name
    stateFilters,   \* the state chips that are selected
    query           \* the names the search box matches, Absent when it is empty

vars == <<remediations, stateFilters, query>>

\* a remediation: the kind it renders, the pool in the name of its scan, spec.apply
\* and the state the Compliance Operator reports
Kinds == [kind : {"MachineConfig", "other", Absent}, scan : {"pool", "no pool"}]
Remediations == [of : Rendered, apply : BOOLEAN, state : States \union {Absent}]

Listed == {n \in Names : remediations[n] # Absent}

------------------------------------------------------------------------------
(* one remediation *)

isNodeRemediation(of) == of.kind = "MachineConfig" \/ of.scan = "pool"

stateOf(r) == IF r.state = Absent THEN "NotApplied" ELSE r.state

\* applied as far as the spec goes, and not yet reported
isApplying(r) == r.apply /\ stateOf(r) \in {"NotApplied", "Outdated"}

\* the chip it stands under
remediationStateKey(r) == IF isApplying(r) THEN "Applying" ELSE stateOf(r)

------------------------------------------------------------------------------
(* the list *)

\* what can be applied first, what waits for something else after it
compareRemediationsForApplyOrder(m, n) ==
    LET blocked(k) == remediations[k].state = "MissingDependencies"
    IN  (~blocked(m) /\ blocked(n)) \/ ((blocked(m) <=> blocked(n)) /\ m < n)

ordered ==
    Ordered(Listed, {p \in Listed \X Listed : compareRemediationsForApplyOrder(p[1], p[2])})

batchable ==
    Kept(ordered, {n \in Listed : /\ ~remediations[n].apply
                                  /\ isNodeRemediation(remediations[n].of)
                                  /\ remediations[n].state \notin {"MissingDependencies", "Applied"}})

applyCount == IF Len(batchable) < batchApplyMaxNames THEN Len(batchable) ELSE batchApplyMaxNames

\* the chips, each with its count
stateCounts ==
    [key \in {remediationStateKey(remediations[n]) : n \in Listed} |->
        Cardinality({n \in Listed : remediationStateKey(remediations[n]) = key})]

STATE_FILTER_ORDER ==
    <<"NotApplied", "Applying", "Outdated", "MissingDependencies", "Error", "Applied">>

\* the ones known first, in the order of what an administrator does first
stateKeys ==
    Kept(STATE_FILTER_ORDER, DOMAIN stateCounts)
        \o SetToSeq(DOMAIN stateCounts \ ToSet(STATE_FILTER_ORDER))

\* a chip that is gone does not filter
activeStates == stateFilters \intersect DOMAIN stateCounts

filtering == query # Absent \/ activeStates # {}

\* one state needs no chips
chipsShown == Len(stateKeys) > 1

visible ==
    Kept(ordered, {n \in Listed : /\ query # Absent => n \in query
                                  /\ activeStates # {} =>
                                        remediationStateKey(remediations[n]) \in activeStates})

\* what the tab shows in place of the rows, and the way out of it
NoMatch ==
    CASE visible # <<>> -> Absent
      [] visible = <<>> /\ activeStates # {} -> "Clear filters"
      [] OTHER -> "Clear search"

\* the action of a row, its label and whether it says that it reboots nodes
Row(n) ==
    [action |-> CASE remediations[n].apply -> "Unapply"
                  [] ~remediations[n].apply /\ stateOf(remediations[n]) = "MissingDependencies"
                        -> "Blocked"
                  [] OTHER -> "Apply",
     label  |-> remediationStateKey(remediations[n]),
     reboots |-> isNodeRemediation(remediations[n].of)]

rebootWarning == \E n \in Listed : Row(n).reboots

------------------------------------------------------------------------------
(* steps *)

\* the watch delivers a remediation that is new, changed or gone
Delivered ==
    /\ \E n \in Names, r \in Remediations \union {Absent} :
        /\ remediations' = [remediations EXCEPT ![n] = r]
        /\ r # remediations[n]
    /\ UNCHANGED <<stateFilters, query>>

\* a chip is clicked: only one that is there can be
ToggleState ==
    /\ chipsShown
    /\ \E key \in ToSet(stateKeys) :
        stateFilters' = IF key \in stateFilters THEN stateFilters \ {key}
                        ELSE stateFilters \union {key}
    /\ UNCHANGED <<remediations, query>>

\* the button of an empty view
ClearFilters ==
    /\ Listed # {} /\ NoMatch # Absent
    /\ query' = Absent
    /\ stateFilters' = IF NoMatch = "Clear filters" THEN {} ELSE stateFilters
    /\ UNCHANGED remediations

Search ==
    /\ Listed # {}
    /\ query' \in (SUBSET Names \union {Absent}) \ {query}
    /\ UNCHANGED <<remediations, stateFilters>>

Next == Delivered \/ ToggleState \/ ClearFilters \/ Search

Init ==
    /\ remediations = [n \in Names |-> Absent]
    /\ stateFilters = {} /\ query = Absent

Spec == Init /\ [][Next]_vars

------------------------------------------------------------------------------
(* properties *)

\* "Dropping it here keeps the filter from hiding rows behind a chip that no longer
\* renders" (RemediationsTab.tsx): a list with remediations in it shows some of them
\* unless the search matches none, and rows a state filter hides can be brought back
\* by a chip that is there, whatever was selected before the states changed.
VisibleUnlessSearched ==
    /\ (query = Absent /\ Listed # {}) => visible # <<>>
    /\ (query = Absent /\ Len(visible) < Len(ordered)) =>
            chipsShown /\ \E key \in stateFilters : key \in ToSet(stateKeys)
===============================================================================
