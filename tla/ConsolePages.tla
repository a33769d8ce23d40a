------------------------------ MODULE ConsolePages ------------------------------
(***************************************************************************)
(* The parts of the console that read: the page around the tabs, what answers   *)
(* late in a tab, and the rules by which the tabs turn objects into words and     *)
(* numbers.  They share no state, so a behaviour is one of one part: the initial  *)
(* state picks it, and what belongs to the others is Absent.                      *)
(***************************************************************************)
EXTENDS ConsolePatches, FiniteSets

CONSTANTS
    Scans, MaxClicks, MaxTurns,                                   \* of CompliancePage
    Objects, MaxSteps,                                            \* of PageParts
    Waived, Expiries, Never, Unreadable, Soon,                    \* of WaiverClock
    TICK_PAD_MS, MAX_TIMEOUT_MS, MaxDrift, Horizon,
    Checks, NoName, Rows, Tips,                                   \* of CheckViews
    Changed, CHANGES_RENDER_LIMIT, MaxChanges, MaxApart,          \* of OverviewRules
    Times, Scores, Unit, MaxPoints,                               \* of ScoreTrend
    Rems, Rendered, States, batchApplyMaxNames,                   \* of RemediationList
    Rules, BadRule, Bases, DEFAULT_BASE_PROFILE, ForeignLists,    \* of TailoredRules
    RULE_OPTION_CAP, MaxEdits,
    Chars, Digits, Numeral, MaxText, MaxList                      \* of ContentKeys

VARIABLES
    route,   \* the part
    stored, base, scans, seen, lists, requests, creation, access,         \* of CompliancePage
    stamped, clock, clicks, turns, ui,
    viewer, writes, gate, imports, focus, frame, steps,                   \* of PageParts
    now, clockWaivers, memo, timer, due, renderedAt, armedAt,             \* of WaiverClock
    results, waivers, mode, tips,                                         \* of CheckViews
    page, status, found, resultsError, showAllChanges,                    \* of OverviewRules
    history, score, trendMode, trendStamped,                              \* of ScoreTrend
    remediations, stateFilters, query,                                    \* of RemediationList
    catalog, rulesBase, disable, enable, picker, form, existing,          \* of TailoredRules
    rulesTurns,
    values, key, derived                                                  \* of ContentKeys

ofPage == <<stored, base, scans, seen, lists, requests, creation, access, stamped,
          clock, clicks, turns, ui>>
ofParts == <<viewer, writes, gate, imports, focus, frame, steps>>
ofClock == <<now, clockWaivers, memo, timer, due, renderedAt, armedAt>>
ofViews == <<results, waivers, mode, tips>>
ofOverview == <<page, status, found, resultsError, showAllChanges>>
ofTrend == <<history, score, trendMode, trendStamped>>
ofList == <<remediations, stateFilters, query>>
ofRules == <<catalog, rulesBase, disable, enable, picker, form, existing, rulesTurns>>
ofKeys == <<values, key, derived>>

vars == <<route, ofPage, ofParts, ofClock, ofViews, ofOverview, ofTrend, ofList,
          ofRules, ofKeys>>

Page == INSTANCE CompliancePage

Parts == INSTANCE PageParts WITH NoObject <- Absent

Clock == INSTANCE WaiverClock
    WITH Names <- Waived, Instants <- Expiries, Unwaived <- Absent, waivers <- clockWaivers

Views == INSTANCE CheckViews WITH Names <- Checks

Overview == INSTANCE OverviewRules WITH Names <- Changed

Trend == INSTANCE ScoreTrend
    WITH Instants <- Times, mode <- trendMode, stamped <- trendStamped

List == INSTANCE RemediationList WITH Names <- Rems

Tailored == INSTANCE TailoredRules
    WITH MaxTurns <- MaxEdits, base <- rulesBase, turns <- rulesTurns

Keys == INSTANCE ContentKeys

\* what is not there is no object, no map of annotations and no profile; the marker of
\* a dialog that shows no remediation is no remediation
ASSUME MarkersAssumption ==
    /\ Absent \notin Objects /\ "other" \notin Objects
    /\ Absent \notin [{"rescan"} -> Nat \X Nat]
    /\ Absent \notin [extends : Bases, disable : Seq(Rules \union {BadRule}),
                      enable : Seq(Rules \union {BadRule})]

\* instants are points of one time line, 0 is none of them
ASSUME TimeAssumption ==
    /\ Expiries \subseteq Int /\ Soon \in Nat
    /\ TICK_PAD_MS \in Nat /\ MAX_TIMEOUT_MS \in Nat \ {0} /\ MaxDrift \in Nat
    /\ Times \subseteq Nat \ {0} /\ Scores \subseteq Int /\ Unit \in Nat \ {0}

\* lists are finite; names that are sorted are numbers; the cap of the options is one
ASSUME NamesAssumption ==
    /\ IsFiniteSet(Checks) /\ Rows \subseteq Views!AllRows
    /\ IsFiniteSet(Rems) /\ Rems \subseteq Int
    /\ IsFiniteSet(Rules) /\ Rules \subseteq Int /\ Rules # {} /\ BadRule \notin Rules
    /\ DEFAULT_BASE_PROFILE \in Bases /\ RULE_OPTION_CAP \in Nat
    /\ ForeignLists \subseteq Seq(Rules \union {BadRule})

\* no digit is the first character of a key, a length has one numeral, of digits
ASSUME KeysAssumption ==
    /\ MaxText \in Nat /\ MaxList \in Nat
    /\ Digits \intersect {"n", "u", "z", "s"} = {}
    /\ \A k \in 0..MaxText : Numeral[k] \in Seq(STRING \ {":"})
    /\ \A j, k \in 0..MaxText : Numeral[j] = Numeral[k] => j = k

NoPage ==
    /\ stored = Absent /\ base = Absent /\ scans = Absent /\ seen = Absent
    /\ lists = Absent /\ requests = Absent /\ creation = Absent /\ access = Absent
    /\ stamped = Absent /\ clock = Absent /\ clicks = Absent /\ turns = Absent
    /\ ui = Absent
NoParts ==
    /\ viewer = Absent /\ writes = Absent /\ gate = Absent /\ imports = Absent
    /\ focus = Absent /\ frame = Absent /\ steps = Absent
NoClock ==
    /\ now = Absent /\ clockWaivers = Absent /\ memo = Absent /\ timer = Absent
    /\ due = Absent /\ renderedAt = Absent /\ armedAt = Absent
NoViews ==
    /\ results = Absent /\ waivers = Absent /\ mode = Absent /\ tips = Absent
NoOverview ==
    /\ page = Absent /\ status = Absent /\ found = Absent /\ resultsError = Absent
    /\ showAllChanges = Absent
NoTrend ==
    /\ history = Absent /\ score = Absent /\ trendMode = Absent /\ trendStamped = Absent
NoList ==
    /\ remediations = Absent /\ stateFilters = Absent /\ query = Absent
NoRules ==
    /\ catalog = Absent /\ rulesBase = Absent /\ disable = Absent /\ enable = Absent
    /\ picker = Absent /\ form = Absent /\ existing = Absent /\ rulesTurns = Absent
NoKeys ==
    /\ values = Absent /\ key = Absent /\ derived = Absent

Init ==
    \/ /\ route = "page" /\ Page!Init
       /\ NoParts /\ NoClock /\ NoViews /\ NoOverview /\ NoTrend /\ NoList /\ NoRules /\ NoKeys
    \/ /\ route = "parts" /\ Parts!Init
       /\ NoPage /\ NoClock /\ NoViews /\ NoOverview /\ NoTrend /\ NoList /\ NoRules /\ NoKeys
    \/ /\ route = "clock" /\ Clock!Init
       /\ NoPage /\ NoParts /\ NoViews /\ NoOverview /\ NoTrend /\ NoList /\ NoRules /\ NoKeys
    \/ /\ route = "views" /\ Views!Init
       /\ NoPage /\ NoParts /\ NoClock /\ NoOverview /\ NoTrend /\ NoList /\ NoRules /\ NoKeys
    \/ /\ route = "overview" /\ Overview!Init
       /\ NoPage /\ NoParts /\ NoClock /\ NoViews /\ NoTrend /\ NoList /\ NoRules /\ NoKeys
    \/ /\ route = "trend" /\ Trend!Init
       /\ NoPage /\ NoParts /\ NoClock /\ NoViews /\ NoOverview /\ NoList /\ NoRules /\ NoKeys
    \/ /\ route = "list" /\ List!Init
       /\ NoPage /\ NoParts /\ NoClock /\ NoViews /\ NoOverview /\ NoTrend /\ NoRules /\ NoKeys
    \/ /\ route = "rules" /\ Tailored!Init
       /\ NoPage /\ NoParts /\ NoClock /\ NoViews /\ NoOverview /\ NoTrend /\ NoList /\ NoKeys
    \/ /\ route = "keys" /\ Keys!Init
       /\ NoPage /\ NoParts /\ NoClock /\ NoViews /\ NoOverview /\ NoTrend /\ NoList /\ NoRules

Next ==
    \/ /\ route = "page" /\ Page!Next
       /\ UNCHANGED <<route, ofParts, ofClock, ofViews, ofOverview, ofTrend, ofList, ofRules, ofKeys>>
    \/ /\ route = "parts" /\ Parts!Next
       /\ UNCHANGED <<route, ofPage, ofClock, ofViews, ofOverview, ofTrend, ofList, ofRules, ofKeys>>
    \/ /\ route = "clock" /\ Clock!Next
       /\ UNCHANGED <<route, ofPage, ofParts, ofViews, ofOverview, ofTrend, ofList, ofRules, ofKeys>>
    \/ /\ route = "views" /\ Views!Next
       /\ UNCHANGED <<route, ofPage, ofParts, ofClock, ofOverview, ofTrend, ofList, ofRules, ofKeys>>
    \/ /\ route = "overview" /\ Overview!Next
       /\ UNCHANGED <<route, ofPage, ofParts, ofClock, ofViews, ofTrend, ofList, ofRules, ofKeys>>
    \/ /\ route = "trend" /\ Trend!Next
       /\ UNCHANGED <<route, ofPage, ofParts, ofClock, ofViews, ofOverview, ofList, ofRules, ofKeys>>
    \/ /\ route = "list" /\ List!Next
       /\ UNCHANGED <<route, ofPage, ofParts, ofClock, ofViews, ofOverview, ofTrend, ofRules, ofKeys>>
    \/ /\ route = "rules" /\ Tailored!Next
       /\ UNCHANGED <<route, ofPage, ofParts, ofClock, ofViews, ofOverview, ofTrend, ofList, ofKeys>>
    \/ /\ route = "keys" /\ Keys!Next
       /\ UNCHANGED <<route, ofPage, ofParts, ofClock, ofViews, ofOverview, ofTrend, ofList, ofRules>>

Spec == Init /\ [][Next]_vars

------------------------------------------------------------------------------
(* properties *)

\* The console says what is: that there is no baseline only when it read that there
\* is none, that a rescan started only when the API server took a patch of that
\* click, that it is starting exactly while one is unanswered; the alert and the card
\* of the Overview say the same of a change; and a list without a search text leaves
\* out a remediation only for a filter that is on the screen.
SaysWhatIs ==
    /\ route = "page" => Page!NotConfiguredIsTrue /\ Page!StartedIsReal /\ Page!BusyIsRequest
    /\ route = "overview" => Overview!BannerAgreesWithCard
    /\ route = "list" => List!VisibleUnlessSearched

\* A rescan that lands changes what the Compliance Operator watches and takes no
\* annotation of somebody else off a scan, also after a reload, a retry, another
\* writer and a patch that arrives late.
RescansLand == [][route = "page" => Page!KeepsAnnotations /\ Page!AsksAnew]_vars

\* Giving the focus back never pulls it out of a dialog opened in between.
FocusNotStolen == [][route = "parts" => Parts!LeavesDialogs]_vars

\* What is on the screen belongs to what it stands beside and to the present: a late
\* answer of a copy or an import is not shown for another one, a waiver that ran out
\* not as active (unless it ran out between a render and its effect: NeverStaleLong), a
\* computed list not after the list has changed.
ShownIsCurrent ==
    /\ route = "parts" => Parts!AnswersBelong
    /\ route = "clock" => Clock!NeverStaleLong
    /\ route = "keys" => Keys!MemoFresh

\* A number is the same wherever it is shown: the operator's counts, the rows their
\* links lead to, the export and the report; the badge of a score card, the score the
\* operator writes for that profile, in both modes (without results, the newest one of
\* its history: ScoreParity), and the last point of its trend, rounded down.
NumbersAgree ==
    /\ route = "views" => Views!CountsAgree /\ Views!ScoreParity
    /\ route = "trend" => Trend!TrendAgrees

\* The form of a tailored profile keeps its word: a creation that finds its name taken
\* adopts its own earlier attempt and nothing else, and the counts under the pickers
\* are those of what a save writes.
FormKeepsWord == route = "rules" => Tailored!AdoptOnlySame /\ Tailored!CountsAreSaved
===============================================================================
