----------------------------- MODULE OverviewRules -----------------------------
(***************************************************************************)
(* What the Overview tab says of the status the operator wrote                *)
(* (console-plugin/src/components/Overview.tsx, results.ts): its alerts, the    *)
(* names of the checks that changed, and the details.  The status, the check    *)
(* results it is read against and the page change one at a time, in any order:   *)
(* the two watches are independent of each other.                                *)
(*                                                                              *)
(* Simplifications: titles, icons and layout; a condition is its reason, or its  *)
(* status where the reason decides nothing; co is the version of the Compliance   *)
(* Operator when the status has one, else the reason or the truth of its           *)
(* condition; counts and scores of the cards are CheckViews and ScoreTrend.         *)
(***************************************************************************)
EXTENDS Lists, Integers, Sequences, FiniteSets

CONSTANTS
    Names,                  \* names a list of changes may hold
    NoName,                 \* one that is empty, or no text
    Absent,
    CHANGES_RENDER_LIMIT,
    MaxChanges,             \* bound: names in one list
    MaxApart                \* bound: members of the status that differ from a fresh one

VARIABLES
    page,     \* what the watches answered: "loading", "error", "none" or "baseline"
    status,   \* of the baseline
    found,    \* names that have a check result
    resultsError,     \* the list of check results could not be read
    showAllChanges    \* the administrator asked for every change

vars == <<page, status, found, resultsError, showAllChanges>>

Lists == {list \in UNION {[1..k -> Names] : k \in 0..MaxChanges} :
            \A i, j \in DOMAIN list : list[i] = list[j] => i = j}

\* what each member of the status may be
Fields ==
    [newlyFailed |-> Lists, fixed |-> {list \in Lists : Len(list) < 2},
     degraded    |-> {"no", "InstallStalled", "other"}, progressing |-> BOOLEAN,
     co          |-> {Absent, "NotInstalled", "CSVFailed", "True", "version"},
     scanned     |-> BOOLEAN,     \* a scan completed, and another before it
     scores      |-> BOOLEAN,     \* scores of profiles were written
     disabled    |-> BOOLEAN]     \* no profile is selected

FreshStatus ==
    [newlyFailed |-> <<>>, fixed |-> <<>>, degraded |-> "no", progressing |-> TRUE,
     co |-> Absent, scanned |-> FALSE, scores |-> FALSE, disabled |-> FALSE]

------------------------------------------------------------------------------
(* the names of the checks that changed *)

\* every name that is one gets an item; its title is the check's, if there is one
Items(list) ==
    LET kept == Kept(list, Names \ {NoName})
    IN  [i \in DOMAIN kept |-> [name |-> kept[i],
                                title |-> IF kept[i] \in found THEN "of the check" ELSE kept[i]]]

changedChecksMany == <<Items(status.newlyFailed), Items(status.fixed)>>

newlyFailedItems == changedChecksMany[1]
fixedItems == changedChecksMany[2]

Visible(items) ==
    IF showAllChanges \/ Len(items) <= CHANGES_RENDER_LIMIT THEN items
    ELSE SubSeq(items, 1, CHANGES_RENDER_LIMIT)

changesTruncated ==
    ~showAllChanges /\ \E items \in {newlyFailedItems, fixedItems} : Visible(items) # items

unresolvedNewlyFailed == Len(status.newlyFailed) - Len(newlyFailedItems)

------------------------------------------------------------------------------
(* what the tab shows *)

View ==
    CASE page = "loading" -> "skeleton"
      [] page = "error"   -> "could not be loaded"
      [] page = "none"    -> "not configured"
      [] OTHER            -> "overview"

InfoAlerts ==
    (IF status.disabled THEN {"Scanning is disabled"} ELSE {})
    \union (IF status.degraded # "no" THEN {"Scanning degraded"} ELSE {})
    \union (IF status.progressing /\ status.degraded = "no" THEN {"Baseline is progressing"} ELSE {})

\* the danger alert: shown, its count, its links, how many more, how many unmatched
BannerShown == status.newlyFailed # <<>>

BannerTitle == IF newlyFailedItems = <<>> THEN Len(status.newlyFailed) ELSE Len(newlyFailedItems)

BannerText ==
    [links |-> IF newlyFailedItems = <<>> THEN <<"Review check results">> ELSE Visible(newlyFailedItems),
     more  |-> IF changesTruncated /\ newlyFailedItems # <<>>
               THEN Len(newlyFailedItems) - Len(Visible(newlyFailedItems)) ELSE Absent,
     unmatched |-> CASE unresolvedNewlyFailed = 0 -> Absent
                     [] unresolvedNewlyFailed # 0 /\ resultsError -> "could not be read"
                     [] OTHER -> "no longer in the results",
     fixed |-> CASE status.fixed = <<>> -> Absent
                 [] status.fixed # <<>> /\ fixedItems = <<>> -> Len(status.fixed)
                 [] OTHER -> Len(fixedItems)]

\* the card of recent changes: its lists, or what it says when it has none
CardListed == newlyFailedItems # <<>> \/ fixedItems # <<>>

CardText ==
    CASE CardListed -> "lists"
      [] ~CardListed /\ unresolvedNewlyFailed > 0 /\ resultsError -> "could not be matched"
      [] ~CardListed /\ unresolvedNewlyFailed > 0 /\ ~resultsError -> "no longer in the results"
      [] ~CardListed /\ unresolvedNewlyFailed = 0 /\ status.scanned -> "no changes"
      [] OTHER -> "no previous scan"

\* the button under the card
CardButton ==
    CASE changesTruncated -> "Show all changes"
      [] showAllChanges /\ \E items \in {newlyFailedItems, fixedItems} :
            Len(items) > CHANGES_RENDER_LIMIT -> "Show fewer changes"
      [] OTHER -> Absent

coLabel ==
    CASE status.co = "version" -> "its version"
      [] status.co = "NotInstalled" -> "Not installed"
      [] status.co = "CSVFailed" -> "Failed"
      [] status.co \in {Absent, "True"} /\ status.degraded = "InstallStalled" -> "Install stalled"
      [] status.co = "True" /\ status.degraded # "InstallStalled" -> "Installed"
      [] OTHER -> "Installing"

NextScanText == IF status.disabled THEN "Scanning is disabled" ELSE "its time, or n/a"

ScoreCards ==
    CASE status.scores -> "cards"
      [] ~status.scores /\ ~status.disabled -> "No profile scores yet"
      [] OTHER -> "nothing"

------------------------------------------------------------------------------
(* steps *)

\* the operator, or a restore, writes part of the status
StatusChanges ==
    /\ page = "baseline"
    /\ \E field \in DOMAIN status : \E val \in Fields[field] :
        status' = [status EXCEPT ![field] = val]
    /\ Cardinality({field \in DOMAIN status : status'[field] # FreshStatus[field]}) <= MaxApart
    /\ UNCHANGED <<page, found, resultsError, showAllChanges>>

\* a check result comes or goes
ResultsChange ==
    /\ ~resultsError
    /\ \E n \in Names \ {NoName} : found' = IF n \in found THEN found \ {n} ELSE found \union {n}
    /\ UNCHANGED <<page, status, resultsError, showAllChanges>>

\* the watch of the results fails, with an empty list, or recovers
ResultsFail ==
    /\ resultsError' = ~resultsError
    /\ found' = {}
    /\ UNCHANGED <<page, status, showAllChanges>>

\* the watch of the baseline answers
PageChanges ==
    /\ page' \in {"error", "none", "baseline"} \ {page}
    /\ UNCHANGED <<status, found, resultsError, showAllChanges>>

ToggleChanges ==
    /\ View = "overview" /\ CardButton # Absent
    /\ showAllChanges' = (CardButton = "Show all changes")
    /\ UNCHANGED <<page, status, found, resultsError>>

Next == StatusChanges \/ ResultsChange \/ ResultsFail \/ PageChanges \/ ToggleChanges

Init ==
    /\ page = "loading"
    /\ status = FreshStatus
    /\ found = {} /\ resultsError = FALSE /\ showAllChanges = FALSE

Spec == Init /\ [][Next]_vars

------------------------------------------------------------------------------
(* properties *)

\* The alert and the card under it never contradict each other: an alert that is
\* shown counts something, the card counts the same newly failing checks when it
\* lists any, and it never says that nothing changed under an alert.
BannerAgreesWithCard ==
    (View = "overview" /\ BannerShown) =>
        /\ BannerTitle > 0
        /\ newlyFailedItems # <<>> => CardText = "lists" /\ BannerTitle = Len(newlyFailedItems)
        /\ CardText \notin {"no changes", "no previous scan"}
===============================================================================
