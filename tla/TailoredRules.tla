----------------------------- MODULE TailoredRules -----------------------------
(***************************************************************************)
(* The rules of a tailored profile on their way from the form to the cluster  *)
(* and back (console-plugin/src/profiles.ts, and RuleMultiSelect in             *)
(* components/ProfilesTab.tsx): the two pickers, the counts under them, what a   *)
(* save writes, and how a creation that finds its name taken tells its own       *)
(* earlier attempt from somebody else's profile.                                 *)
(*                                                                              *)
(* Simplifications: a rule is a name, BadRule stands for every name the           *)
(* validators drop; lists are in the order of the catalog; a search is the set    *)
(* of the rules it matches.  Requests, retries and the form's own states are in   *)
(* ProfilesTab.                                                                   *)
(***************************************************************************)
EXTENDS Lists, Integers, Sequences, FiniteSets

CONSTANTS
    Rules, BadRule, Absent,
    Bases,              \* base profiles
    DEFAULT_BASE_PROFILE,
    ForeignLists,       \* lists of rules others may write
    RULE_OPTION_CAP,
    MaxTurns            \* bound: changes of the catalog and writes of others

VARIABLES
    catalog,    \* the rules of each base profile, as its watch delivered them
    base,       \* the base of the form
    disable,    \* the rules picked to disable, in the order they were picked
    enable,     \* those picked to enable
    picker,     \* the picker in use, what its box matches (Absent: empty), whether it is open
    form,       \* what a save does: "create", "update", or "stale" when the object changed
    existing,   \* the profile of that name in the cluster, Absent if there is none
    turns       \* what MaxTurns bounds, so far

vars == <<catalog, base, disable, enable, picker, form, existing, turns>>
picked == <<disable, enable>>
cluster == <<catalog, existing, turns>>

Closed == [of |-> "none", query |-> Absent, open |-> FALSE]

------------------------------------------------------------------------------
(* what a selection means *)

\* valid names, each once
cleanRuleNames(rules) ==
    FoldLeft(LAMBDA out, n : IF n = BadRule \/ n \in ToSet(out) THEN out ELSE Append(out, n),
             <<>>, rules)

\* a rule in both lists is disabled
cleanRuleSelection(off, on) ==
    [disable |-> cleanRuleNames(off),
     enable  |-> Kept(cleanRuleNames(on), ToSet(on) \ ToSet(cleanRuleNames(off)))]

\* what a creation writes
tailoredProfileManifest(of, off, on) ==
    [extends |-> of, disable |-> cleanRuleSelection(off, on).disable,
     enable  |-> cleanRuleSelection(off, on).enable]

\* two lists hold the same names the same number of times
SameNames(one, other) ==
    /\ Len(one) = Len(other)
    /\ \A n \in ToSet(one) \union ToSet(other) :
        Cardinality({i \in DOMAIN one : one[i] = n}) = Cardinality({i \in DOMAIN other : other[i] = n})

\* mutation: compared as picked, not as cleaned
MatchesAsPicked(of, off, on) ==
    /\ existing # Absent
    /\ existing.extends = of
    /\ SameNames(existing.disable, off) /\ SameNames(existing.enable, on)

\* the profile of the taken name is the one this form would have written
tailoredProfileSpecMatches(of, off, on) ==
    /\ existing # Absent
    /\ existing.extends = of
    /\ SameNames(existing.disable, cleanRuleSelection(off, on).disable)
    /\ SameNames(existing.enable, cleanRuleSelection(off, on).enable)

\* what the form says will be scanned
tailoredEffectiveCounts(off, on) ==
    [remainingBase |-> Cardinality(catalog[base] \ ToSet(off)),
     extraEnabled  |-> Cardinality(ToSet(on) \ catalog[base])]

\* what a profile scans
Scanned(profile) ==
    (catalog[profile.extends] \ ToSet(profile.disable)) \union ToSet(profile.enable)

------------------------------------------------------------------------------
(* the pickers *)

enableCandidates == Rules \ catalog[base]
Options == IF picker.of = "disable" THEN catalog[base] ELSE enableCandidates
Picked == IF picker.of = "disable" THEN disable ELSE enable

allMatches == IF picker.query = Absent THEN Options ELSE Options \intersect picker.query

\* the options in the list: the enable picker lists none before a search
searchOnly == picker.of = "enable"
matches ==
    IF searchOnly /\ picker.query = Absent THEN <<>>
    ELSE LET all == Ordered(allMatches, {p \in Rules \X Rules : p[1] < p[2]})
         IN  SubSeq(all, 1, IF Len(all) < RULE_OPTION_CAP THEN Len(all) ELSE RULE_OPTION_CAP)

truncated ==
    ~(searchOnly /\ picker.query = Absent) /\ Cardinality(allMatches) > Len(matches)

\* the one line of a list without options
EmptyText == CASE matches # <<>> -> Absent
               [] matches = <<>> /\ picker.query # Absent -> "no matches"
               [] OTHER -> "type to search"

Without(list, n) == Kept(list, ToSet(list) \ {n})

\* the selection of the picker in use becomes another
Choose(list) ==
    IF picker.of = "disable" THEN disable' = list /\ UNCHANGED enable
    ELSE enable' = list /\ UNCHANGED disable

pick(n) == Choose(IF n \in ToSet(Picked) THEN Without(Picked, n) ELSE Append(Picked, n))

\* the other picker's list closes when this one is clicked
Focus ==
    /\ \E of \in {"disable", "enable"} :
        /\ picker.of # of
        /\ of = "disable" => catalog[base] # {}
        /\ picker' = [of |-> of, query |-> Absent, open |-> TRUE]
    /\ UNCHANGED <<base, picked, form, cluster>>

\* typing opens the list
Type ==
    /\ picker.of # "none"
    /\ \E q \in {{n} : n \in Rules} : picker' = [picker EXCEPT !.query = q, !.open = TRUE]
    /\ UNCHANGED <<base, picked, form, cluster>>

ToggleList ==
    /\ picker.of # "none"
    /\ picker' = [picker EXCEPT !.open = ~@]
    /\ UNCHANGED <<base, picked, form, cluster>>

\* an option is clicked
PickOption ==
    /\ picker.of # "none" /\ picker.open
    /\ \E n \in ToSet(matches) : pick(n)
    /\ UNCHANGED <<base, picker, form, cluster>>

\* Enter takes the first match, also of a list that is closed
PickFirst ==
    /\ picker.of # "none" /\ matches # <<>>
    /\ pick(Head(matches))
    /\ UNCHANGED <<base, picker, form, cluster>>

RemoveChip ==
    /\ picker.of # "none"
    /\ \E n \in ToSet(Picked) : Choose(Without(Picked, n))
    /\ UNCHANGED <<base, picker, form, cluster>>

ClearPicker ==
    /\ picker.of # "none" /\ (Picked # <<>> \/ picker.query # Absent)
    /\ Choose(<<>>)
    /\ picker' = [picker EXCEPT !.query = Absent]
    /\ UNCHANGED <<base, form, cluster>>

------------------------------------------------------------------------------
(* the form and the cluster *)

Cleared ==
    /\ base' = DEFAULT_BASE_PROFILE /\ disable' = <<>> /\ enable' = <<>>
    /\ picker' = Closed /\ form' = "create"

\* rules differ per base: both selections start over
ChangeBase ==
    /\ base' \in Bases \ {base}
    /\ disable' = <<>> /\ enable' = <<>>
    /\ picker' = Closed
    /\ UNCHANGED <<form, cluster>>

\* the form is opened on the profile there is, with whatever names it holds
openEdit ==
    /\ existing # Absent
    /\ base' = existing.extends
    /\ disable' = existing.disable /\ enable' = existing.enable
    /\ picker' = Closed /\ form' = "update"
    /\ UNCHANGED cluster

\* a creation: a taken name is adopted when it matches.  What follows, the binding,
\* may fail, and then the form stays as it is for another try
Create ==
    /\ form = "create"
    /\ \/ existing = Absent /\ existing' = tailoredProfileManifest(base, disable, enable)
       \/ tailoredProfileSpecMatches(base, disable, enable) /\ UNCHANGED existing
    /\ Cleared \/ UNCHANGED <<base, picked, picker, form>>
    /\ UNCHANGED <<catalog, turns>>

\* an update lands on the very object the form was opened on
Update ==
    /\ form = "update"
    /\ existing' = tailoredProfileManifest(base, disable, enable)
    /\ Cleared
    /\ UNCHANGED <<catalog, turns>>

Close == Cleared /\ UNCHANGED cluster

Turn == turns < MaxTurns /\ turns' = turns + 1

\* the content of a base profile changes
CatalogChanges ==
    /\ Turn
    /\ \E b \in Bases, n \in Rules :
        catalog' = [catalog EXCEPT ![b] = IF n \in @ THEN @ \ {n} ELSE @ \union {n}]
    /\ UNCHANGED <<base, picked, picker, form, existing>>

\* somebody else writes the profile, in any order and with any names, or deletes it
OtherWrites ==
    /\ Turn
    /\ \/ existing' = Absent
       \/ \E of \in Bases, off, on \in ForeignLists :
            existing' = [extends |-> of, disable |-> off, enable |-> on]
    /\ existing' # existing
    /\ form' = IF form = "update" THEN "stale" ELSE form
    /\ UNCHANGED <<catalog, base, picked, picker>>

Next ==
    \/ Focus \/ Type \/ ToggleList \/ PickOption \/ PickFirst \/ RemoveChip \/ ClearPicker
    \/ ChangeBase \/ openEdit \/ Create \/ Update \/ Close \/ CatalogChanges \/ OtherWrites

Init ==
    /\ catalog = [b \in Bases |-> IF b = DEFAULT_BASE_PROFILE THEN {CHOOSE n \in Rules : TRUE}
                                  ELSE Rules]
    /\ base = DEFAULT_BASE_PROFILE /\ disable = <<>> /\ enable = <<>>
    /\ picker = Closed /\ form = "create" /\ existing = Absent /\ turns = 0

Spec == Init /\ [][Next]_vars

------------------------------------------------------------------------------
(* properties *)

\* A creation that finds its name taken adopts its own earlier attempt, and adopts
\* nothing else: a profile it takes for its own scans what the form would.
AdoptOnlySame ==
    LET manifest == tailoredProfileManifest(base, disable, enable)
    IN  /\ existing = manifest => tailoredProfileSpecMatches(base, disable, enable)
        /\ tailoredProfileSpecMatches(base, disable, enable) =>
                Scanned(existing) = Scanned(manifest) /\ existing.extends = manifest.extends

\* "Scans N of M base rules, plus P added" is what a save makes it scan, with the
\* selections there are now over the catalog there is now, unless a name is in both
\* selections or is none (which the form counts and a save drops).
CountsAreSaved ==
    LET saved == tailoredProfileManifest(base, disable, enable)
        said  == tailoredEffectiveCounts(disable, enable)
    IN  (ToSet(disable) \intersect ToSet(enable) = {} /\ BadRule \notin ToSet(enable)) =>
            /\ said.remainingBase + said.extraEnabled = Cardinality(Scanned(saved))
            /\ said.remainingBase <= Cardinality(catalog[base])
===============================================================================
