-------------------------- MODULE ConsoleTabsProofs ---------------------------
(***************************************************************************)
(* Every property of ConsoleTabs, for every value of the constants: first    *)
(* what each tab keeps true, tab by tab, then that a behaviour is one of one  *)
(* tab, so that what all of them keep true holds of the console.  Each tab    *)
(* writes the baseline as an optimistic writer does, is busy exactly while a  *)
(* request of its own is unanswered, and has a promise or two of its own.     *)
(***************************************************************************)
EXTENDS ConsoleTabs, ConsoleWritesProofs, FoldLemmas, SequenceTheorems

------------------------------------------------------------------------------
(* the Results tab: its writes are optimistic *)

LEMMA ResultsInitCoherent == ResultsInit => Coherent /\ Optimistic!Init
<1> SUFFICES ASSUME ResultsInit PROVE Coherent /\ Optimistic!Init
  OBVIOUS
<1>1. server.rv = 1 /\ "rv" \in DOMAIN server /\ watched = server
  BY DEF ResultsInit, Start
<1>2. calls = [s \in Slots |-> NoCall] /\ author = "other"
  BY DEF ResultsInit, Start
<1>3. Coherent
  BY <1>1, <1>2 DEF Coherent, Versioned, Read, CallsTyped
<1>4. Decisions = {}
  BY <1>2 DEF Decisions
<1> QED
  BY <1>2, <1>3, <1>4 DEF Optimistic!Init

\* both builders insist on the version they are given, or refuse
LEMMA WaiverPatchVersion ==
    /\ \A waivs, entry, valid, rv :
          LET patch == addWaiverPatch(waivs, entry, valid, rv)
          IN  Empty(patch) \/ patch.rv = rv
    /\ \A i, name, rv :
          LET patch == removeWaiverPatch(i, name, rv)
          IN  Empty(patch) \/ patch.rv = rv
<1>1. Empty(NoOps)
  BY DEF Empty, NoOps
<1>2. \A rv, tests, write : resourceVersionTest(rv, tests, write).rv = rv
  BY DEF resourceVersionTest
<1>3. ASSUME NEW waivs, NEW entry, NEW valid, NEW rv
      PROVE  LET patch == addWaiverPatch(waivs, entry, valid, rv)
             IN  Empty(patch) \/ patch.rv = rv
  BY <1>1, <1>2 DEF addWaiverPatch
<1>4. ASSUME NEW i, NEW name, NEW rv
      PROVE  LET patch == removeWaiverPatch(i, name, rv)
             IN  Empty(patch) \/ patch.rv = rv
  BY <1>1, <1>2 DEF removeWaiverPatch
<1> QED
  BY <1>3, <1>4

LEMMA PatchWaiversStep ==
    ASSUME Coherent, ResultsElsewhere, NEW kind, NEW name, NEW patch, NEW next,
           patch.rv = watched.rv, patchWaivers(kind, name, patch, next)
    PROVE  Coherent' /\ OptimisticStep
<1>1. CASE UNCHANGED calls
  BY <1>1, QuietStutters DEF ResultsElsewhere
<1>2. CASE Send("baseline", kind, name, watched, patch)
  BY <1>2, SendDecides DEF ResultsElsewhere, Coherent
<1> QED
  BY <1>1, <1>2 DEF patchWaivers

LEMMA RemoveStep ==
    ASSUME Coherent, ResultsElsewhere, NEW kind, NEW name, removeWaiverByIndex(kind, name)
    PROVE  Coherent' /\ OptimisticStep
<1> DEFINE patch == removeWaiverPatch(IndexOf(waivers, name), name, watched.rv)
<1>1. CASE UNCHANGED calls
  BY <1>1, QuietStutters DEF ResultsElsewhere
<1>2. CASE ~UNCHANGED calls
  <2>1. ~Empty(patch) /\ \E next : patchWaivers(kind, name, patch, next)
    BY <1>2 DEF removeWaiverByIndex
  <2> QED
    BY <2>1, WaiverPatchVersion, PatchWaiversStep
<1> QED
  BY <1>1, <1>2

\* what the steps of the tab do with the object and the requests
LEMMA ResultsClicksOptimistic ==
    ASSUME Coherent, ResultsClicks
    PROVE  Coherent' /\ OptimisticStep
<1>1. CASE \E c \in Checks : OpenRow(c)
  BY <1>1, QuietStutters DEF OpenRow, ResultsElsewhere
<1>2. CASE \E c \in Checks : removeOrphan(c)
  <2>1. PICK c \in Checks : removeOrphan(c)
    BY <1>2
  <2>2. ResultsElsewhere /\ removeWaiverByIndex("orphan", c)
    BY <2>1 DEF removeOrphan
  <2> QED
    BY <2>2, RemoveStep
<1>3. CASE waiveEdit \/ closeModal \/ downloadCsv
  BY <1>3, QuietStutters DEF waiveEdit, closeModal, downloadCsv, ResultsElsewhere
<1>4. CASE addSelectedWaiver
  <2>1. PICK dates \in BOOLEAN, valid \in BOOLEAN :
        LET entry == [name |-> ui.selected, by |-> "console"]
            patch == addWaiverPatch(waivers, entry, valid, watched.rv)
        IN  \/ UNCHANGED calls
            \/ ~Empty(patch) /\ patchWaivers("waive", ui.selected, patch, ui)
    BY <1>4 DEF addSelectedWaiver
  <2>2. ResultsElsewhere
    BY <1>4 DEF addSelectedWaiver
  <2>3. CASE UNCHANGED calls
    BY <2>2, <2>3, QuietStutters DEF ResultsElsewhere
  <2>4. CASE ~UNCHANGED calls
    BY <2>1, <2>2, <2>4, WaiverPatchVersion, PatchWaiversStep
  <2> QED
    BY <2>3, <2>4
<1>5. CASE removeSelectedWaiver
  <2>1. ResultsElsewhere /\ removeWaiverByIndex("unwaive", ui.selected)
    BY <1>5 DEF removeSelectedWaiver
  <2> QED
    BY <2>1, RemoveStep
<1> QED
  BY <1>1, <1>2, <1>3, <1>4, <1>5 DEF ResultsClicks

LEMMA ResultsStepOptimistic ==
    ASSUME Coherent, [ResultsNext]_resultsVars
    PROVE  Coherent' /\ OptimisticStep
<1>1. CASE ResultsClicks
  BY <1>1, ResultsClicksOptimistic
<1>2. CASE DismissSuccess
  BY <1>2, QuietStutters DEF DismissSuccess, ResultsElsewhere
<1>3. ASSUME NEW s \in Slots, ResultsServer(s)
      PROVE  Coherent' /\ OptimisticStep
  BY <1>3, ServeLands DEF ResultsServer
<1>4. ASSUME NEW s \in Slots, NEW fulfilled \in BOOLEAN, ResultsAnswered(s, fulfilled)
      PROVE  Coherent' /\ OptimisticStep
  BY <1>4, SettledDiscards DEF ResultsAnswered
<1>5. CASE Listed
  BY <1>5, QuietStutters DEF Listed
<1>6. CASE ResultsOthers
  <2>1. "rv" \in DOMAIN server
    BY DEF Coherent, Versioned
  <2>2. \E object : "rv" \in DOMAIN object /\ OtherWrites(object)
    BY <1>6, <2>1 DEF ResultsOthers
  <2> QED
    BY <2>2, OthersAreForeign
<1>7. CASE ResultsReopen \/ Deliver \/ Review
  BY <1>7, QuietStutters DEF ResultsReopen, Remount, Deliver, Review
<1>8. CASE UNCHANGED resultsVars
  BY <1>8, QuietStutters DEF resultsVars, shared
<1> QED
  BY <1>1, <1>2, <1>3, <1>4, <1>5, <1>6, <1>7, <1>8 DEF ResultsNext, ResultsEnvironment

\* The Results tab implements OptimisticObject: what it decided on a version that
\* is not the present one never lands.
THEOREM ResultsWriteOptimistically == ResultsSpec => WritesOptimistic
<1>1. Coherent /\ [ResultsNext]_resultsVars => Coherent' /\ [Optimistic!Next]_ovars
  BY ResultsStepOptimistic DEF OptimisticStep
<1> QED
  BY ResultsInitCoherent, <1>1, PTL
  DEF ResultsSpec, WritesOptimistic, Optimistic!Spec, Optimistic!vars, ovars

------------------------------------------------------------------------------
(* the Results tab is busy exactly while it waits *)

ResultsWaits ==
    /\ Bookkept
    /\ DOMAIN ui = DOMAIN ResultsFresh
    /\ ui.busy \in BOOLEAN
    /\ ui.busy <=> Asking

LEMMA ResultsInitWaits == ResultsInit => ResultsWaits
BY DEF ResultsInit, Start, ResultsFresh, ResultsWaits, Bookkept, CallsTyped, Asking, Asked

\* a tab that sends nothing and keeps its flag
LEMMA ResultsQuietWaits ==
    ASSUME ResultsWaits, UNCHANGED <<calls, mount>>, DOMAIN ui' = DOMAIN ui, ui'.busy = ui.busy
    PROVE  ResultsWaits'
BY QuietAsks DEF ResultsWaits

LEMMA PatchWaiversWaits ==
    ASSUME ResultsWaits, UNCHANGED mount, NEW kind, NEW name, NEW patch, NEW next,
           DOMAIN next = DOMAIN ui, next.busy = ui.busy,
           patchWaivers(kind, name, patch, next)
    PROVE  ResultsWaits'
<1>1. CASE UNCHANGED calls /\ DOMAIN ui' = DOMAIN next /\ ui'.busy = next.busy
  BY <1>1, ResultsQuietWaits
<1>2. CASE /\ ~ui.busy /\ Send("baseline", kind, name, watched, patch)
           /\ ui' = [next EXCEPT !.busy = TRUE, !.error = "none"]
  <2>1. Bookkept' /\ Asking'
    BY <1>2, SendAsks DEF ResultsWaits
  <2>2. DOMAIN ui' = DOMAIN ui /\ ui'.busy = TRUE
    BY <1>2 DEF ResultsWaits, ResultsFresh
  <2> QED
    BY <2>1, <2>2 DEF ResultsWaits
<1> QED
  BY <1>1, <1>2 DEF patchWaivers, ResultsWaits, ResultsFresh

LEMMA RemoveWaits ==
    ASSUME ResultsWaits, UNCHANGED mount, NEW kind, NEW name, removeWaiverByIndex(kind, name)
    PROVE  ResultsWaits'
<1> DEFINE patch == removeWaiverPatch(IndexOf(waivers, name), name, watched.rv)
           held  == ui.busy \/ ~mayWrite("baseline")
           next  == [ui EXCEPT !.removing = IF held THEN NoCheck ELSE name]
<1>1. CASE Fail("failed") /\ UNCHANGED calls
  BY <1>1, ResultsQuietWaits DEF Fail, ResultsWaits, ResultsFresh
<1>2. CASE patchWaivers(kind, name, patch, next)
  <2>1. DOMAIN next = DOMAIN ui /\ next.busy = ui.busy
    BY DEF ResultsWaits, ResultsFresh
  <2> HIDE DEF next
  <2> QED
    BY <1>2, <2>1, PatchWaiversWaits
<1> QED
  BY <1>1, <1>2 DEF removeWaiverByIndex

LEMMA ResultsStepWaits ==
    ASSUME ResultsWaits, [ResultsNext]_resultsVars
    PROVE  ResultsWaits'
<1>1. CASE \E c \in Checks : OpenRow(c)
  BY <1>1, ResultsQuietWaits DEF OpenRow, ResultsElsewhere, ResultsWaits, ResultsFresh
<1>2. CASE waiveEdit \/ closeModal \/ downloadCsv \/ DismissSuccess
  BY <1>2, ResultsQuietWaits
  DEF waiveEdit, closeModal, downloadCsv, DismissSuccess, ResultsElsewhere, Closed, ResultsWaits, ResultsFresh
<1>3. CASE \E c \in Checks : removeOrphan(c)
  BY <1>3, RemoveWaits DEF removeOrphan, ResultsElsewhere
<1>4. CASE removeSelectedWaiver
  BY <1>4, RemoveWaits DEF removeSelectedWaiver, ResultsElsewhere
<1>5. CASE addSelectedWaiver
  <2>1. \/ UNCHANGED calls /\ \E fault : Fail(fault)
        \/ \E patch : patchWaivers("waive", ui.selected, patch, ui)
    BY <1>5 DEF addSelectedWaiver
  <2>2. UNCHANGED mount
    BY <1>5 DEF addSelectedWaiver, ResultsElsewhere
  <2>3. CASE UNCHANGED calls /\ \E fault : Fail(fault)
    BY <2>2, <2>3, ResultsQuietWaits DEF Fail, ResultsWaits, ResultsFresh
  <2>4. CASE \E patch : patchWaivers("waive", ui.selected, patch, ui)
    BY <2>2, <2>4, PatchWaiversWaits
  <2> QED
    BY <2>1, <2>3, <2>4
<1>6. ASSUME NEW s \in Slots, ResultsServer(s) PROVE ResultsWaits'
  BY <1>6, ServeAsks DEF ResultsServer, ResultsWaits
<1>7. ASSUME NEW s \in Slots, NEW fulfilled \in BOOLEAN, ResultsAnswered(s, fulfilled)
      PROVE  ResultsWaits'
  <2>1. Settled(s, fulfilled)
    BY <1>7 DEF ResultsAnswered
  <2>2. CASE ~Heard(s)
    BY <1>7, <2>1, <2>2, SettledAsks DEF ResultsAnswered, ResultsWaits
  <2>3. CASE Heard(s)
    <3>1. DOMAIN ui' = DOMAIN ui /\ ui'.busy = FALSE
      BY <1>7, <2>3 DEF ResultsAnswered, Closed, ResultsWaits, ResultsFresh
    <3> QED
      BY <2>1, <2>3, <3>1, SettledAsks DEF ResultsWaits
  <2> QED
    BY <2>2, <2>3
<1>8. CASE ResultsReopen
  BY <1>8, RemountAsksNothing DEF ResultsReopen, Remount, ResultsWaits, ResultsFresh
<1>9. CASE Listed \/ ResultsOthers \/ (Deliver /\ UNCHANGED ui) \/ (Review /\ UNCHANGED ui) \/ UNCHANGED resultsVars
  <2>1. UNCHANGED <<calls, mount, ui>>
    BY <1>9 DEF Listed, ResultsOthers, OtherWrites, Deliver, Review, resultsVars, shared
  <2> QED
    BY <2>1, ResultsQuietWaits
<1> QED
  BY <1>1, <1>2, <1>3, <1>4, <1>5, <1>6, <1>7, <1>8, <1>9 DEF ResultsNext, ResultsClicks,
     ResultsEnvironment

\* The Results tab is busy exactly while a request it sent since it was opened is
\* unanswered, whatever is lost, refused, late or left.
THEOREM ResultsBusy == ResultsSpec => []ResultsBusyIsRequest
<1>1. ResultsWaits => ResultsBusyIsRequest
  BY DEF ResultsWaits, ResultsBusyIsRequest, Asking, Asked
<1> QED
  BY ResultsInitWaits, ResultsStepWaits, <1>1, PTL DEF ResultsSpec

------------------------------------------------------------------------------
(* the lists of waivers stay sound *)

WaiverSet == [name : Checks, by : {"console", "other"}]

\* no name twice, and no more entries than the object may hold
SoundList(list) ==
    /\ list \in Seq(WaiverSet)
    /\ Len(list) <= MaxWaivers
    /\ \A i, j \in DOMAIN list : list[i].name = list[j].name => i = j

SoundWaivers(list) == list = Absent \/ SoundList(list)

\* in a sound list a name stands where IndexOf says, or nowhere
LEMMA IndexOfFinds ==
    ASSUME NEW list, SoundList(list), NEW name
    PROVE  \/ IndexOf(list, name) = 0 /\ \A i \in DOMAIN list : list[i].name # name
           \/ IndexOf(list, name) \in DOMAIN list /\ list[IndexOf(list, name)].name = name
<1>1. CASE \E i \in DOMAIN list : list[i].name = name
  <2>1. PICK i \in DOMAIN list : list[i].name = name
    BY <1>1
  <2>2. i \in Nat /\ \A j \in DOMAIN list : list[j].name = name => i <= j
    BY <2>1 DEF SoundList
  <2>3. \E k \in DOMAIN list :
            list[k].name = name /\ \A j \in DOMAIN list : list[j].name = name => k <= j
    BY <2>1, <2>2
  <2> QED
    BY <1>1, <2>3 DEF IndexOf
<1>2. CASE ~\E i \in DOMAIN list : list[i].name = name
  BY <1>2 DEF IndexOf
<1> QED
  BY <1>1, <1>2

LEMMA AppendSound ==
    ASSUME NEW list, SoundList(list), Len(list) < MaxWaivers,
           NEW entry \in WaiverSet, IndexOf(list, entry.name) = 0
    PROVE  SoundList(Append(list, entry))
<1>1. \A i \in DOMAIN list : list[i].name # entry.name
  <2>1. 0 \notin DOMAIN list
    BY DEF SoundList
  <2> QED
    BY <2>1, IndexOfFinds
<1> DEFINE next == Append(list, entry)
<1>2. /\ next \in Seq(WaiverSet) /\ Len(next) = Len(list) + 1
      /\ DOMAIN next = 1..Len(list) + 1 /\ DOMAIN list = 1..Len(list)
      /\ \A i \in 1..Len(list) : next[i] = list[i]
      /\ next[Len(list) + 1] = entry
  BY DEF SoundList
<1>3. Len(list) \in Nat
  BY DEF SoundList
<1> HIDE DEF next
<1>4. \A i, j \in DOMAIN next : next[i].name = next[j].name => i = j
  <2> SUFFICES ASSUME NEW i \in DOMAIN next, NEW j \in DOMAIN next,
                      next[i].name = next[j].name
               PROVE  i = j
    OBVIOUS
  <2>1. \A k \in DOMAIN next : k \in DOMAIN list \/ k = Len(list) + 1
    BY <1>2, <1>3
  <2>2. CASE i \in DOMAIN list /\ j \in DOMAIN list
    BY <1>2, <2>2 DEF SoundList
  <2> QED
    BY <1>1, <1>2, <2>1, <2>2
<1>5. Len(next) <= MaxWaivers
  BY <1>2, <1>3, LimitsAssumption
<1> QED
  BY <1>2, <1>4, <1>5 DEF SoundList, next

LEMMA RewriteSound ==
    ASSUME NEW list, SoundList(list), NEW i \in DOMAIN list,
           NEW entry \in WaiverSet, list[i].name = entry.name
    PROVE  SoundList([list EXCEPT ![i] = entry])
<1> DEFINE next == [list EXCEPT ![i] = entry]
<1>1. next \in Seq(WaiverSet) /\ Len(next) = Len(list) /\ DOMAIN next = DOMAIN list
  BY DEF SoundList
<1>2. \A j \in DOMAIN list : next[j].name = list[j].name
  OBVIOUS
<1> HIDE DEF next
<1> QED
  BY <1>1, <1>2 DEF SoundList, next

LEMMA RemoveSound ==
    ASSUME NEW list, SoundList(list), NEW i \in DOMAIN list
    PROVE  SoundList(RemoveAt(list, i))
<1> DEFINE before == SubSeq(list, 1, i - 1)
           after  == SubSeq(list, i + 1, Len(list))
           next   == before \o after
           n      == Len(list)
<1>1. n \in Nat /\ i \in 1..n /\ DOMAIN list = 1..n
  BY DEF SoundList
<1>2. /\ before \in Seq(WaiverSet) /\ Len(before) = i - 1
      /\ \A j \in 1..i - 1 : before[j] = list[j]
  BY <1>1, SubSeqProperties DEF SoundList
<1>3. /\ after \in Seq(WaiverSet) /\ Len(after) = n - i
      /\ \A j \in 1..n - i : after[j] = list[i + j]
  BY <1>1, SubSeqProperties DEF SoundList
<1> HIDE DEF before, after, n
<1>4. /\ next \in Seq(WaiverSet) /\ Len(next) = Len(before) + Len(after)
      /\ \A j \in 1..Len(before) + Len(after) :
            next[j] = IF j <= Len(before) THEN before[j] ELSE after[j - Len(before)]
  BY <1>2, <1>3, ConcatProperties
<1>5. Len(next) = n - 1 /\ DOMAIN next = 1..n - 1
  BY <1>1, <1>2, <1>3, <1>4
<1> HIDE DEF next
<1>6. \A j \in 1..n - 1 : next[j] = list[IF j < i THEN j ELSE j + 1]
  <2> SUFFICES ASSUME NEW j \in 1..n - 1
               PROVE  next[j] = list[IF j < i THEN j ELSE j + 1]
    OBVIOUS
  <2>1. CASE j < i
    BY <1>1, <1>2, <1>3, <1>4, <2>1
  <2>2. CASE j >= i
    <3>1. next[j] = after[j - (i - 1)] /\ j - (i - 1) \in 1..n - i
      BY <1>1, <1>2, <1>3, <1>4, <2>2
    <3>2. i + (j - (i - 1)) = j + 1
      BY <1>1
    <3> QED
      BY <1>1, <1>3, <2>2, <3>1, <3>2
  <2> QED
    BY <1>1, <2>1, <2>2
<1>7. \A j, k \in DOMAIN next : next[j].name = next[k].name => j = k
  <2> SUFFICES ASSUME NEW j \in 1..n - 1, NEW k \in 1..n - 1, next[j].name = next[k].name
               PROVE  j = k
    BY <1>5
  <2> DEFINE f(l) == IF l < i THEN l ELSE l + 1
  <2>1. f(j) \in DOMAIN list /\ f(k) \in DOMAIN list /\ (f(j) = f(k) => j = k)
    BY <1>1
  <2>2. next[j] = list[f(j)] /\ next[k] = list[f(k)]
    BY <1>6
  <2> HIDE DEF f
  <2> QED
    BY <2>1, <2>2 DEF SoundList
<1>8. n - 1 <= MaxWaivers
  BY <1>1, LimitsAssumption DEF SoundList, n
<1> QED
  BY <1>4, <1>5, <1>7, <1>8 DEF SoundList, RemoveAt, next, before, after, n

------------------------------------------------------------------------------
(* what the patches of the tab make of an object *)

LEMMA WaiverWrites ==
    /\ \A object, val : Patched(object, Set("waivers", val)) = [object EXCEPT !.waivers = val]
    /\ \A object, val :
          Patched(object, Put("waivers", val)) = [object EXCEPT !.waivers = Append(@, val)]
    /\ \A object, val, i : Patched(object, Rewrite("waivers", i, val)) =
                              [object EXCEPT !.waivers = [@ EXCEPT ![i] = val]]
    /\ \A object, i : Patched(object, RemoveFrom("waivers", i)) =
                              [object EXCEPT !.waivers = RemoveAt(@, i)]
<1>1. \A object, val : Patched(object, Set("waivers", val)) = [object EXCEPT !.waivers = val]
  BY DEF Patched, Set
<1>2. \A object, val :
        Patched(object, Put("waivers", val)) = [object EXCEPT !.waivers = Append(@, val)]
  BY DEF Patched, Put
<1>3. \A object, val, i : Patched(object, Rewrite("waivers", i, val)) =
                            [object EXCEPT !.waivers = [@ EXCEPT ![i] = val]]
  BY DEF Patched, Rewrite
<1>4. \A object, i : Patched(object, RemoveFrom("waivers", i)) =
                            [object EXCEPT !.waivers = RemoveAt(@, i)]
  BY DEF Patched, RemoveFrom
<1> QED
  BY <1>1, <1>2, <1>3, <1>4

SoundObject(object) ==
    /\ DOMAIN object = {"rv", "there", "waivers"}
    /\ SoundWaivers(object.waivers)

LEMMA SoundExcept ==
    ASSUME NEW object, SoundObject(object), NEW list, SoundWaivers(list)
    PROVE  SoundObject([object EXCEPT !.waivers = list])
BY DEF SoundObject

LEMMA AddKeepsSound ==
    ASSUME NEW object, SoundObject(object), NEW entry \in WaiverSet, NEW valid \in BOOLEAN, NEW rv,
           ~Empty(addWaiverPatch(object.waivers, entry, valid, rv))
    PROVE  SoundObject(Patched(object, addWaiverPatch(object.waivers, entry, valid, rv).write))
<1> DEFINE list == object.waivers
           patch == addWaiverPatch(list, entry, valid, rv)
           at == IF list = Absent THEN 0 ELSE IndexOf(list, entry.name)
<1>1. valid
  BY DEF addWaiverPatch, Empty, NoOps
<1>2. CASE list = Absent
  <2>1. patch.write = Set("waivers", <<entry>>)
    BY <1>1, <1>2 DEF addWaiverPatch, resourceVersionTest
  <2>2. SoundList(<<entry>>)
    BY LimitsAssumption DEF SoundList
  <2>3. Patched(object, patch.write) = [object EXCEPT !.waivers = <<entry>>]
    BY <2>1, WaiverWrites
  <2> QED
    BY <2>2, <2>3, SoundExcept DEF SoundWaivers
<1>3. CASE list # Absent /\ at # 0
  <2>1. patch.write = Rewrite("waivers", at, entry)
    BY <1>1, <1>3 DEF addWaiverPatch, resourceVersionTest
  <2>2. SoundList(list)
    BY <1>3 DEF SoundObject, SoundWaivers
  <2>3. at \in DOMAIN list /\ list[at].name = entry.name
    BY <1>3, <2>2, IndexOfFinds
  <2>4. SoundList([list EXCEPT ![at] = entry])
    BY <2>2, <2>3, RewriteSound
  <2> HIDE DEF at
  <2>5. Patched(object, patch.write) = [object EXCEPT !.waivers = [list EXCEPT ![at] = entry]]
    BY <2>1, WaiverWrites
  <2> QED
    BY <2>4, <2>5, SoundExcept DEF SoundWaivers
<1>4. CASE list # Absent /\ at = 0
  <2>1. Len(list) < MaxWaivers
    <3>1. SoundList(list)
      BY <1>4 DEF SoundObject, SoundWaivers
    <3>2. Len(list) \in Nat
      BY <3>1 DEF SoundList
    <3>3. ~(Len(list) >= MaxWaivers)
      BY <1>1, <1>4 DEF addWaiverPatch, Empty, NoOps
    <3> QED
      BY <3>2, <3>3, LimitsAssumption
  <2>2. patch.write = Put("waivers", entry)
    <3>1. ~(Len(list) >= MaxWaivers)
      BY <1>1, <1>4 DEF addWaiverPatch, Empty, NoOps
    <3> QED
      BY <1>1, <1>4, <3>1 DEF addWaiverPatch, resourceVersionTest
  <2>3. SoundList(Append(list, entry))
    BY <1>4, <2>1, AppendSound DEF SoundObject, SoundWaivers
  <2>4. Patched(object, patch.write) = [object EXCEPT !.waivers = Append(list, entry)]
    BY <2>2, WaiverWrites
  <2>5. SoundObject([object EXCEPT !.waivers = Append(list, entry)])
    BY <2>3, SoundExcept DEF SoundWaivers
  <2> QED
    BY <2>4, <2>5
<1> QED
  BY <1>2, <1>3, <1>4

LEMMA RemoveKeepsSound ==
    ASSUME NEW object, SoundObject(object), object.waivers # Absent, NEW name, NEW rv,
           ~Empty(removeWaiverPatch(IndexOf(object.waivers, name), name, rv))
    PROVE  SoundObject(Patched(object,
               removeWaiverPatch(IndexOf(object.waivers, name), name, rv).write))
<1> DEFINE list == object.waivers
           i == IndexOf(list, name)
<1>1. i # 0
  BY DEF removeWaiverPatch, Empty, NoOps
<1>2. SoundList(list)
  BY DEF SoundObject, SoundWaivers
<1>3. i \in DOMAIN list
  BY <1>1, <1>2, IndexOfFinds
<1> HIDE DEF i
<1>4. removeWaiverPatch(i, name, rv).write = RemoveFrom("waivers", i)
  BY <1>1 DEF removeWaiverPatch, resourceVersionTest
<1>5. SoundList(RemoveAt(list, i))
  BY <1>2, <1>3, RemoveSound
<1>6. Patched(object, RemoveFrom("waivers", i)) = [object EXCEPT !.waivers = RemoveAt(list, i)]
  BY WaiverWrites
<1>7. SoundObject(Patched(object, RemoveFrom("waivers", i)))
  BY <1>5, <1>6, SoundExcept DEF SoundWaivers
<1> QED
  BY <1>4, <1>7 DEF i

------------------------------------------------------------------------------
(* no sequence of steps makes the stored list unsound *)

\* every object there is, was read, or that a request would make is sound
Sound ==
    /\ Coherent
    /\ SoundObject(server)
    /\ SoundObject(watched)
    /\ DOMAIN ui = DOMAIN ResultsFresh
    /\ ui.selected \in Checks \union {NoCheck}
    /\ \A s \in Slots :
          calls[s] # NoCall => SoundObject(Patched(calls[s].base, calls[s].patch.write))

LEMMA InitSound == ResultsInit => Sound
<1> SUFFICES ASSUME ResultsInit PROVE Sound
  OBVIOUS
<1>1. PICK list \in {Absent} \union {<<[name |-> c, by |-> "other"]>> : c \in Checks} :
        Start([rv |-> 1, there |-> TRUE, waivers |-> list])
  BY DEF ResultsInit
<1>2. SoundWaivers(list)
  <2>1. ASSUME NEW c \in Checks PROVE SoundList(<<[name |-> c, by |-> "other"]>>)
    <3> DEFINE entry == [name |-> c, by |-> "other"]
    <3>1. entry \in WaiverSet
      BY DEF WaiverSet
    <3> HIDE DEF entry
    <3>2. SoundList(<<entry>>)
      BY <3>1, LimitsAssumption DEF SoundList
    <3> QED
      BY <3>2 DEF entry
  <2> QED
    BY <2>1 DEF SoundWaivers
<1>3. SoundObject(server) /\ watched = server /\ calls = [s \in Slots |-> NoCall]
  BY <1>1, <1>2 DEF Start, SoundObject
<1>4. DOMAIN ui = DOMAIN ResultsFresh /\ ui.selected \in Checks \union {NoCheck}
  BY DEF ResultsInit, ResultsFresh
<1> QED
  BY <1>3, <1>4, ResultsInitCoherent DEF Sound

LEMMA QuietSound ==
    ASSUME Sound, Coherent', UNCHANGED <<server, calls>>, watched' \in {watched, server},
           DOMAIN ui' = DOMAIN ResultsFresh, ui'.selected \in Checks \union {NoCheck}
    PROVE  Sound'
BY DEF Sound

\* requests that were under way would make what they would have made
LEMMA SameSound ==
    ASSUME Sound, Coherent', SameRequests, SoundObject(server'), UNCHANGED watched,
           DOMAIN ui' = DOMAIN ResultsFresh, ui'.selected \in Checks \union {NoCheck}
    PROVE  Sound'
BY DEF Sound, SameRequests

\* a request is sent whose patch keeps a sound object sound
LEMMA SendSound ==
    ASSUME Sound, ResultsElsewhere, NEW kind, NEW name, NEW patch, NEW next,
           patch.rv = watched.rv, patchWaivers(kind, name, patch, next),
           DOMAIN next = DOMAIN ResultsFresh, next.selected \in Checks \union {NoCheck},
           watched.there => SoundObject(Patched(watched, patch.write))
    PROVE  Sound'
<1>1. Coherent'
  BY PatchWaiversStep DEF Sound
<1>2. DOMAIN ui' = DOMAIN ResultsFresh /\ ui'.selected \in Checks \union {NoCheck}
  BY DEF patchWaivers, ResultsFresh
<1>3. CASE UNCHANGED calls
  BY <1>1, <1>2, <1>3, QuietSound DEF ResultsElsewhere
<1>4. CASE watched.there /\ Send("baseline", kind, name, watched, patch)
  <2>1. Read(watched, server) /\ UNCHANGED <<server, author, watched>>
    BY DEF Sound, Coherent, ResultsElsewhere
  <2>2. \A s \in Slots : \/ calls'[s] = calls[s]
                         \/ calls'[s].base = watched /\ calls'[s].patch = patch
    BY <1>4, <2>1, SendDecides DEF Sound
  <2> QED
    BY <1>1, <1>2, <1>4, <2>1, <2>2 DEF Sound
<1> QED
  BY <1>3, <1>4 DEF patchWaivers

LEMMA RemovalSound ==
    ASSUME Sound, ResultsElsewhere, NEW kind, NEW name, name \in WaivedNames,
           removeWaiverByIndex(kind, name)
    PROVE  Sound'
<1> DEFINE patch == removeWaiverPatch(IndexOf(waivers, name), name, watched.rv)
           held  == ui.busy \/ ~mayWrite("baseline")
           next  == [ui EXCEPT !.removing = IF held THEN NoCheck ELSE name]
<1>1. CASE Fail("failed") /\ UNCHANGED calls
  <2>1. Coherent'
    BY <1>1, QuietStutters DEF Sound, ResultsElsewhere
  <2> QED
    BY <1>1, <2>1, QuietSound DEF Fail, ResultsElsewhere, Sound, ResultsFresh
<1>2. CASE ~Empty(patch) /\ patchWaivers(kind, name, patch, next)
  <2>1. waivers # Absent
    BY DEF WaivedNames
  <2>2. watched.there /\ waivers = watched.waivers
    BY <2>1 DEF waivers
  <2>3. SoundObject(Patched(watched, patch.write))
    BY <1>2, <2>1, <2>2, RemoveKeepsSound DEF Sound
  <2>4. patch.rv = watched.rv
    BY <1>2, WaiverPatchVersion
  <2>5. DOMAIN next = DOMAIN ResultsFresh /\ next.selected \in Checks \union {NoCheck}
    BY DEF Sound, ResultsFresh
  <2> HIDE DEF next, patch
  <2> QED
    BY <1>2, <2>3, <2>4, <2>5, SendSound
<1> QED
  BY <1>1, <1>2 DEF removeWaiverByIndex

LEMMA AdditionSound ==
    ASSUME Sound, addSelectedWaiver
    PROVE  Sound'
<1>1. PICK dates \in BOOLEAN, valid \in BOOLEAN :
        LET entry == [name |-> ui.selected, by |-> "console"]
            patch == addWaiverPatch(waivers, entry, valid, watched.rv)
        IN  \/ UNCHANGED calls /\ \E fault : Fail(fault)
            \/ ~Empty(patch) /\ patchWaivers("waive", ui.selected, patch, ui)
  BY DEF addSelectedWaiver
<1> DEFINE entry == [name |-> ui.selected, by |-> "console"]
           patch == addWaiverPatch(waivers, entry, valid, watched.rv)
<1>2. ResultsElsewhere
  BY DEF addSelectedWaiver
<1>3. CASE UNCHANGED calls /\ \E fault : Fail(fault)
  <2>1. Coherent'
    BY <1>2, <1>3, QuietStutters DEF Sound, ResultsElsewhere
  <2> QED
    BY <1>2, <1>3, <2>1, QuietSound DEF Fail, ResultsElsewhere, Sound, ResultsFresh
<1>4. CASE ~Empty(patch) /\ patchWaivers("waive", ui.selected, patch, ui)
  <2>1. entry \in WaiverSet
    BY DEF addSelectedWaiver, FormShown, DialogOffers, showWaiverForm, WaiverSet, Sound
  <2>2. watched.there => SoundObject(Patched(watched, patch.write))
    <3>1. watched.there => waivers = watched.waivers
      BY DEF waivers
    <3> HIDE DEF entry
    <3> QED
      BY <1>4, <2>1, <3>1, AddKeepsSound DEF Sound
  <2>3. patch.rv = watched.rv
    BY <1>4, WaiverPatchVersion
  <2> HIDE DEF patch
  <2> QED
    BY <1>2, <1>4, <2>2, <2>3, SendSound DEF Sound
<1> QED
  BY <1>1, <1>3, <1>4

LEMMA ServeSound ==
    ASSUME Sound, NEW s \in Slots, ResultsServer(s)
    PROVE  Sound'
<1>1. Serve(s) /\ UNCHANGED <<ui, watched>>
  BY DEF ResultsServer, Serve
<1>2. /\ Coherent' /\ SameRequests
      /\ \/ UNCHANGED server
         \/ calls[s].base = server /\ server' = Written(calls[s].base, calls[s].patch)
  BY <1>1, ServeLands DEF Sound
<1>3. SoundObject(server')
  <2>1. CASE UNCHANGED server
    BY <2>1 DEF Sound
  <2>2. CASE server' = Written(calls[s].base, calls[s].patch)
    <3> DEFINE next == Patched(calls[s].base, calls[s].patch.write)
    <3>1. SoundObject(next)
      BY <1>1 DEF Sound, Serve, Pending
    <3>2. \E version : server' = [next EXCEPT !.rv = version]
      BY <2>2 DEF Written
    <3> HIDE DEF next
    <3> QED
      BY <3>1, <3>2 DEF SoundObject
  <2> QED
    BY <1>2, <2>1, <2>2
<1> QED
  BY <1>1, <1>2, <1>3, SameSound DEF Sound

\* somebody else's writes are sound too: the API server holds them to the same limit
LEMMA OthersSound ==
    ASSUME Sound, ResultsOthers
    PROVE  Sound'
<1> DEFINE list == IF server.waivers = Absent THEN <<>> ELSE server.waivers
<1>1. SoundList(list)
  <2>1. SoundList(<<>>)
    BY LimitsAssumption DEF SoundList
  <2> QED
    BY <2>1 DEF Sound, SoundObject, SoundWaivers
<1>2. ASSUME NEW object, SoundObject(object), OtherWrites(object)
      PROVE  SoundObject(server') /\ Coherent'
  <2>1. Coherent'
    BY <1>2, OthersAreForeign DEF Sound, SoundObject
  <2>2. server' = [object EXCEPT !.rv = server.rv + 1]
    BY <1>2 DEF OtherWrites
  <2> QED
    BY <1>2, <2>1, <2>2 DEF SoundObject
<1>3. \E object : SoundObject(object) /\ OtherWrites(object)
  <2>1. CASE OtherWrites(server)
    BY <2>1 DEF Sound
  <2>2. ASSUME NEW c \in Checks, IndexOf(list, c) # 0,
               OtherWrites([server EXCEPT !.waivers = RemoveAt(list, IndexOf(list, c))])
        PROVE  \E object : SoundObject(object) /\ OtherWrites(object)
    <3>1. SoundList(RemoveAt(list, IndexOf(list, c)))
      BY <1>1, <2>2, IndexOfFinds, RemoveSound
    <3> QED
      BY <2>2, <3>1, SoundExcept DEF Sound, SoundWaivers
  <2>3. ASSUME NEW c \in Checks, IndexOf(list, c) = 0, Len(list) < MaxWaivers,
               OtherWrites([server EXCEPT !.waivers = Append(list, [name |-> c, by |-> "other"])])
        PROVE  \E object : SoundObject(object) /\ OtherWrites(object)
    <3> DEFINE entry == [name |-> c, by |-> "other"]
    <3>1. entry \in WaiverSet /\ entry.name = c
      BY DEF WaiverSet
    <3> HIDE DEF entry, list
    <3>2. SoundList(Append(list, entry))
      BY <1>1, <2>3, <3>1, AppendSound
    <3>3. SoundObject([server EXCEPT !.waivers = Append(list, entry)])
      BY <3>2, SoundExcept DEF Sound, SoundWaivers
    <3> QED
      BY <2>3, <3>3 DEF entry
  <2>4. CASE OtherWrites([server EXCEPT !.there = ~@, !.waivers = Absent])
    <3>1. SoundObject([server EXCEPT !.there = ~@, !.waivers = Absent])
      BY DEF Sound, SoundObject, SoundWaivers
    <3> QED
      BY <2>4, <3>1
  <2> QED
    BY <2>1, <2>2, <2>3, <2>4 DEF ResultsOthers
<1>4. UNCHANGED <<watched, calls, ui>>
  BY DEF ResultsOthers, OtherWrites
<1> QED
  BY <1>2, <1>3, <1>4 DEF Sound

LEMMA StepSound ==
    ASSUME Sound, [ResultsNext]_resultsVars
    PROVE  Sound'
<1>0. Coherent'
  BY ResultsStepOptimistic DEF Sound
<1>1. ASSUME NEW c \in Checks, OpenRow(c) PROVE Sound'
  BY <1>0, <1>1, QuietSound DEF OpenRow, ResultsElsewhere, Sound, ResultsFresh
<1>2. ASSUME NEW c \in Checks, removeOrphan(c) PROVE Sound'
  <2>1. c \in WaivedNames
    BY <1>2 DEF removeOrphan, orphanWaiverAlert, orphanWaivers
  <2> QED
    BY <1>2, <2>1, RemovalSound DEF removeOrphan
<1>3. CASE waiveEdit \/ closeModal \/ downloadCsv \/ DismissSuccess
  <2>1. DOMAIN ui' = DOMAIN ResultsFresh /\ ui'.selected \in Checks \union {NoCheck}
    BY <1>3 DEF waiveEdit, closeModal, downloadCsv, DismissSuccess, Closed, Sound, ResultsFresh
  <2>2. UNCHANGED <<server, calls, watched>>
    BY <1>3 DEF waiveEdit, closeModal, downloadCsv, DismissSuccess, ResultsElsewhere
  <2> QED
    BY <1>0, <2>1, <2>2, QuietSound
<1>4. CASE addSelectedWaiver
  BY <1>4, AdditionSound
<1>5. CASE removeSelectedWaiver
  <2>1. ui.selected \in WaivedNames
    BY <1>5 DEF removeSelectedWaiver, DialogOffers, findWaiver
  <2> QED
    BY <1>5, <2>1, RemovalSound DEF removeSelectedWaiver
<1>6. ASSUME NEW s \in Slots, ResultsServer(s) PROVE Sound'
  BY <1>6, ServeSound
<1>7. ASSUME NEW s \in Slots, NEW fulfilled \in BOOLEAN, ResultsAnswered(s, fulfilled) PROVE Sound'
  <2>1. Settled(s, fulfilled) /\ UNCHANGED <<server, watched>>
    BY <1>7 DEF ResultsAnswered, Settled
  <2>2. SameRequests
    BY <2>1, SettledIsOne DEF Sound
  <2>3. DOMAIN ui' = DOMAIN ResultsFresh /\ ui'.selected \in Checks \union {NoCheck}
    BY <1>7 DEF ResultsAnswered, Closed, Sound, ResultsFresh
  <2> QED
    BY <1>0, <2>1, <2>2, <2>3, SameSound DEF Sound
<1>8. CASE ResultsOthers
  BY <1>8, OthersSound
<1>9. CASE Listed \/ ResultsReopen \/ (Deliver /\ UNCHANGED ui) \/ (Review /\ UNCHANGED ui)
           \/ UNCHANGED resultsVars
  <2>1. UNCHANGED <<server, calls>> /\ watched' \in {watched, server}
    BY <1>9 DEF Listed, ResultsReopen, Remount, Deliver, Review, resultsVars, shared
  <2>2. DOMAIN ui' = DOMAIN ResultsFresh /\ ui'.selected \in Checks \union {NoCheck}
    BY <1>9 DEF Listed, ResultsReopen, resultsVars, Sound, ResultsFresh
  <2> QED
    BY <1>0, <2>1, <2>2, QuietSound
<1> QED
  BY <1>1, <1>2, <1>3, <1>4, <1>5, <1>6, <1>7, <1>8, <1>9 DEF ResultsNext, ResultsClicks,
     ResultsEnvironment

LEMMA SoundIsSound == Sound => ResultsWaiversSound
BY DEF Sound, SoundObject, SoundWaivers, SoundList, ResultsWaiversSound

\* No sequence of clicks, retries and lost answers stores two waivers for one check,
\* or more waivers than the object may hold: an entry is appended, replaced or removed
\* only in the very list it was decided on.
THEOREM ResultsWaivers == ResultsSpec => []ResultsWaiversSound
BY InitSound, StepSound, SoundIsSound, PTL DEF ResultsSpec

------------------------------------------------------------------------------
(* the Results tab keeps what is typed *)

\* the dialog, and what is typed in it, stay as they are
DialogStays ==
    /\ ui'.selected = ui.selected /\ ui'.asFail = ui.asFail /\ (ui.text => ui'.text)

LEMMA PatchWaiversStays ==
    ASSUME ResultsWaits, NEW kind, NEW name, NEW patch, NEW next,
           DOMAIN next = DOMAIN ui, next.selected = ui.selected,
           next.asFail = ui.asFail, next.text = ui.text,
           patchWaivers(kind, name, patch, next)
    PROVE  DialogStays
BY DEF patchWaivers, DialogStays, ResultsWaits, ResultsFresh

LEMMA RemoveStays ==
    ASSUME ResultsWaits, NEW kind, NEW name, removeWaiverByIndex(kind, name)
    PROVE  DialogStays
<1> DEFINE patch == removeWaiverPatch(IndexOf(waivers, name), name, watched.rv)
           held  == ui.busy \/ ~mayWrite("baseline")
           next  == [ui EXCEPT !.removing = IF held THEN NoCheck ELSE name]
<1>1. CASE Fail("failed")
  BY <1>1 DEF Fail, DialogStays, ResultsWaits, ResultsFresh
<1>2. CASE patchWaivers(kind, name, patch, next)
  <2>1. /\ DOMAIN next = DOMAIN ui /\ next.selected = ui.selected
        /\ next.asFail = ui.asFail /\ next.text = ui.text
    BY DEF ResultsWaits, ResultsFresh
  <2> HIDE DEF next, patch
  <2> QED
    BY <1>2, <2>1, PatchWaiversStays
<1> QED
  BY <1>1, <1>2 DEF removeWaiverByIndex

\* with a dialog open, a step leaves it as it is, or is one of those that may not
LEMMA DialogStep ==
    ASSUME ResultsWaits, [ResultsNext]_resultsVars, ui.selected # NoCheck
    PROVE  \/ DialogStays
           \/ ~ui'.text /\ (closeModal \/ mount' # mount
                              \/ (Succeeds /\ ui'.success \in {"waived", "removed"}))
<1>1. CASE closeModal
  BY <1>1 DEF closeModal, Closed, ResultsWaits, ResultsFresh
<1>2. CASE ResultsReopen
  BY <1>2 DEF ResultsReopen, Remount, ResultsFresh, ResultsWaits, Bookkept
<1>3. ASSUME NEW s \in Slots, NEW fulfilled \in BOOLEAN, ResultsAnswered(s, fulfilled)
      PROVE  \/ DialogStays
             \/ ~ui'.text /\ Succeeds /\ ui'.success \in {"waived", "removed"}
  <2>1. CASE ~Heard(s) \/ ~fulfilled
    BY <1>3, <2>1 DEF ResultsAnswered, DialogStays, ResultsWaits, ResultsFresh
  <2>2. CASE Heard(s) /\ fulfilled
    <3>1. /\ calls[s] # NoCall /\ calls[s].served = "landed"
          /\ calls' = [calls EXCEPT ![s] = NoCall]
      BY <1>3, <2>2 DEF ResultsAnswered, Settled, Pending
    <3>2. calls'[s] = NoCall
      BY <3>1 DEF ResultsWaits, Bookkept, CallsTyped
    <3>3. ~ui'.text /\ ui'.success \in {"waived", "removed"}
      BY <1>3, <2>2 DEF ResultsAnswered, Closed, ResultsWaits, ResultsFresh
    <3> QED
      BY <2>2, <3>1, <3>2, <3>3 DEF Succeeds
  <2> QED
    BY <2>1, <2>2
<1>4. CASE \E c \in Checks : removeOrphan(c)
  BY <1>4, RemoveStays DEF removeOrphan
<1>5. CASE removeSelectedWaiver
  BY <1>5, RemoveStays DEF removeSelectedWaiver
<1>6. CASE addSelectedWaiver
  <2>1. \/ \E fault : Fail(fault)
        \/ \E patch : patchWaivers("waive", ui.selected, patch, ui)
    BY <1>6 DEF addSelectedWaiver
  <2>2. ASSUME NEW fault, Fail(fault) PROVE DialogStays
    BY <2>2 DEF Fail, DialogStays, ResultsWaits, ResultsFresh
  <2> QED
    BY <2>1, <2>2, PatchWaiversStays
<1>7. CASE (\E c \in Checks : OpenRow(c)) \/ waiveEdit \/ downloadCsv \/ DismissSuccess
  BY <1>7 DEF OpenRow, waiveEdit, downloadCsv, DismissSuccess, DialogStays, ResultsWaits,
              ResultsFresh
<1>8. CASE \/ \E s \in Slots : ResultsServer(s)
           \/ Listed \/ ResultsOthers \/ ((Deliver \/ Review) /\ UNCHANGED <<results, listing, ui>>)
           \/ UNCHANGED resultsVars
  BY <1>8 DEF ResultsServer, Listed, ResultsOthers, resultsVars, DialogStays
<1> QED
  BY <1>1, <1>2, <1>3, <1>4, <1>5, <1>6, <1>7, <1>8
  DEF ResultsNext, ResultsClicks, ResultsEnvironment

LEMMA ResultsStepKeepsInput ==
    ASSUME ResultsWaits, [ResultsNext]_resultsVars
    PROVE  ResultsKeepsInput
<1>1. ASSUME ui.selected # NoCheck, ui.text, ~(ui'.text /\ ui'.selected = ui.selected)
      PROVE  \/ closeModal \/ mount' # mount
             \/ Succeeds /\ ui'.success \in {"waived", "removed"}
  BY <1>1, DialogStep DEF DialogStays
<1>2. ASSUME FormShown, ui.text, ui'.text, watched' = watched, Body' = "table"
      PROVE  FormShown'
  <2>1. ui.selected # NoCheck
    BY <1>2 DEF FormShown, DialogOffers, showWaiverForm
  <2>2. ui'.selected = ui.selected /\ ui'.asFail = ui.asFail
    BY <1>2, <2>1, DialogStep DEF DialogStays
  <2>3. DialogOffers' = DialogOffers
    BY <1>2, <2>2 DEF DialogOffers, showWaiverForm, showWaiver, findWaiver, WaivedNames, waivers
  <2> QED
    BY <1>2, <2>3 DEF FormShown
<1> QED
  BY <1>1, <1>2 DEF ResultsKeepsInput

------------------------------------------------------------------------------
(* the Results tab: what failed may be done again *)

\* a patch of the present version, whose tests hold and whose write goes somewhere
LEMMA PatchLands ==
    ASSUME server.there, NEW tests, NEW write, \A test \in tests : Holds(server, test),
           Reachable(server, write)
    PROVE  Accepts(server, [rv |-> server.rv, tests |-> tests, write |-> write])
BY DEF Accepts

LEMMA WaivingLands ==
    ASSUME watched = server, server.there, SoundObject(server), NEW entry,
           NEW patch, patch = addWaiverPatch(waivers, entry, TRUE, watched.rv), ~Empty(patch)
    PROVE  Accepts(server, patch)
<1> DEFINE at == IndexOf(server.waivers, entry.name)
<1>1. waivers = server.waivers
  BY DEF waivers
<1>2. CASE server.waivers = Absent
  <2>1. patch = [rv |-> server.rv, tests |-> {}, write |-> Set("waivers", <<entry>>)]
    BY <1>1, <1>2 DEF addWaiverPatch, resourceVersionTest
  <2>2. Reachable(server, Set("waivers", <<entry>>))
    BY DEF Reachable, Set
  <2> QED
    BY <2>1, <2>2, PatchLands
<1>3. CASE server.waivers # Absent /\ at # 0
  <2>1. patch = [rv |-> server.rv, tests |-> {TestNameAt("waivers", at, entry.name)},
                 write |-> Rewrite("waivers", at, entry)]
    BY <1>1, <1>3 DEF addWaiverPatch, resourceVersionTest
  <2>2. at \in DOMAIN server.waivers /\ server.waivers[at].name = entry.name
    BY <1>3, IndexOfFinds DEF SoundObject, SoundWaivers
  <2> HIDE DEF at
  <2>3. Holds(server, TestNameAt("waivers", at, entry.name))
    BY <1>3, <2>2 DEF Holds, TestNameAt
  <2>4. Reachable(server, Rewrite("waivers", at, entry))
    BY <1>3, <2>2 DEF Reachable, Rewrite
  <2> QED
    BY <2>1, <2>3, <2>4, PatchLands
<1>4. CASE server.waivers # Absent /\ at = 0
  <2>1. patch = [rv |-> server.rv, tests |-> {TestMember("waivers", server.waivers)},
                 write |-> Put("waivers", entry)]
    BY <1>1, <1>4 DEF addWaiverPatch, resourceVersionTest, Empty, NoOps
  <2>2. Holds(server, TestMember("waivers", server.waivers))
    BY DEF Holds, TestMember
  <2>3. Reachable(server, Put("waivers", entry))
    BY <1>4 DEF Reachable, Put
  <2> QED
    BY <2>1, <2>2, <2>3, PatchLands
<1> QED
  BY <1>2, <1>3, <1>4

LEMMA RemovingLands ==
    ASSUME watched = server, server.there, SoundObject(server), NEW c \in WaivedNames
    PROVE  Accepts(server, removeWaiverPatch(IndexOf(waivers, c), c, watched.rv))
<1> DEFINE at == IndexOf(server.waivers, c)
<1>1. /\ waivers = server.waivers /\ server.waivers # Absent
      /\ \E i \in DOMAIN server.waivers : server.waivers[i].name = c
  BY DEF waivers, WaivedNames
<1>2. at \in DOMAIN server.waivers /\ server.waivers[at].name = c /\ at # 0
  <2>1. SoundList(server.waivers)
    BY <1>1 DEF SoundObject, SoundWaivers
  <2>2. at \in DOMAIN server.waivers /\ server.waivers[at].name = c
    BY <1>1, <2>1, IndexOfFinds
  <2>3. 0 \notin DOMAIN server.waivers
    BY <2>1 DEF SoundList
  <2> QED
    BY <2>2, <2>3
<1> HIDE DEF at
<1>3. removeWaiverPatch(at, c, watched.rv) =
        [rv |-> server.rv, tests |-> {TestNameAt("waivers", at, c)},
         write |-> RemoveFrom("waivers", at)]
  BY <1>2 DEF removeWaiverPatch, resourceVersionTest
<1>4. Holds(server, TestNameAt("waivers", at, c))
  BY <1>1, <1>2 DEF Holds, TestNameAt
<1>5. Reachable(server, RemoveFrom("waivers", at))
  BY <1>1, <1>2 DEF Reachable, RemoveFrom
<1>6. Accepts(server, removeWaiverPatch(at, c, watched.rv))
  BY <1>3, <1>4, <1>5 DEF Accepts
<1> QED
  BY <1>1, <1>6 DEF at

LEMMA ResultsLandAgain == Sound => ResultsRetryLands
BY WaivingLands, RemovingLands DEF Sound, ResultsRetryLands

------------------------------------------------------------------------------
(* the Remediations tab: its writes are optimistic *)

LEMMA RemediationsInitCoherent == RemediationsInit => Coherent /\ Optimistic!Init
<1> SUFFICES ASSUME RemediationsInit PROVE Coherent /\ Optimistic!Init
  OBVIOUS
<1>1. server.rv = 1 /\ "rv" \in DOMAIN server /\ watched = server
  BY DEF RemediationsInit
<1>2. calls = [s \in Slots |-> NoCall] /\ author = "other"
  BY DEF RemediationsInit
<1>3. Coherent
  BY <1>1, <1>2 DEF Coherent, Versioned, Read, CallsTyped
<1>4. Decisions = {}
  BY <1>2 DEF Decisions
<1> QED
  BY <1>2, <1>3, <1>4 DEF Optimistic!Init

\* the patches for the baseline insist on the version that was read
LEMMA RemediationsPatchVersions ==
    /\ \A automatic :
          WithVersion(remediationApplyPatch(watched.remediation # Absent, automatic),
                      watched.rv).rv = watched.rv
    /\ Empty(BatchPatch) \/ BatchPatch.rv = watched.rv
<1>1. \A rv, tests, write : resourceVersionTest(rv, tests, write).rv = rv
  BY DEF resourceVersionTest
<1>2. Empty(NoOps)
  BY DEF Empty, NoOps
<1>3. Empty(BatchPatch) \/ BatchPatch.rv = watched.rv
  BY <1>1, <1>2 DEF BatchPatch, batchApplyPatch
<1> QED
  BY <1>1, <1>3 DEF WithVersion

LEMMA RunStep ==
    ASSUME Coherent, RemediationsElsewhere, NEW of, NEW kind, NEW about, NEW base, NEW patch,
           \/ of = "remediation"
           \/ of = "baseline" /\ base = watched /\ patch.rv = watched.rv,
           run(of, kind, about, base, patch)
    PROVE  Coherent' /\ OptimisticStep
<1>1. CASE UNCHANGED calls
  BY <1>1, QuietStutters DEF RemediationsElsewhere
<1>2. CASE Send(of, kind, about, base, patch)
  <2>1. Read(watched, server)
    BY DEF Coherent
  <2> QED
    BY <1>2, <2>1, SendDecides DEF RemediationsElsewhere
<1> QED
  BY <1>1, <1>2 DEF run

LEMMA RemediationsClicksOptimistic ==
    ASSUME Coherent, RemediationsClicks
    PROVE  Coherent' /\ OptimisticStep
<1>1. CASE (\E r \in Rems : OpenApply(r)) \/ OpenBatch \/ Cancel
  BY <1>1, QuietStutters DEF OpenApply, OpenBatch, Cancel, RemediationsStill, RemediationsElsewhere
<1>2. CASE onAutoApplyChange
  <2>1. RemediationsElsewhere
    BY <1>2 DEF onAutoApplyChange
  <2>2. CASE UNCHANGED calls
    BY <2>1, <2>2, QuietStutters DEF RemediationsElsewhere
  <2>3. CASE run("baseline", "autoOff", NoRem, watched,
                 WithVersion(remediationApplyPatch(watched.remediation # Absent, FALSE),
                             watched.rv))
    BY <2>1, <2>3, RemediationsPatchVersions, RunStep
  <2> QED
    BY <1>2, <2>2, <2>3 DEF onAutoApplyChange
<1>3. CASE setApply
  <2>1. RemediationsElsewhere
    BY <1>3 DEF setApply
  <2>2. CASE UNCHANGED calls
    BY <2>1, <2>2, QuietStutters DEF RemediationsElsewhere
  <2>3. CASE run("remediation", "apply", ui.target, LiveRow, ApplyPatch)
    BY <2>1, <2>3, RunStep
  <2> QED
    BY <1>3, <2>2, <2>3 DEF setApply
<1>4. CASE toggleAutoApply
  <2>1. RemediationsElsewhere
    BY <1>4 DEF toggleAutoApply
  <2>2. CASE UNCHANGED calls
    BY <2>1, <2>2, QuietStutters DEF RemediationsElsewhere
  <2>3. CASE run("baseline", "autoOn", NoRem, watched, AutoPatch)
    BY <2>1, <2>3, RemediationsPatchVersions, RunStep DEF AutoPatch
  <2> QED
    BY <1>4, <2>2, <2>3 DEF toggleAutoApply
<1>5. CASE doBatchApply
  <2>1. RemediationsElsewhere
    BY <1>5 DEF doBatchApply
  <2>2. CASE UNCHANGED calls
    BY <2>1, <2>2, QuietStutters DEF RemediationsElsewhere
  <2>3. CASE ~Empty(BatchPatch) /\ run("baseline", "batch", NoRem, watched, BatchPatch)
    BY <2>1, <2>3, RemediationsPatchVersions, RunStep
  <2> QED
    BY <1>5, <2>2, <2>3 DEF doBatchApply
<1> QED
  BY <1>1, <1>2, <1>3, <1>4, <1>5 DEF RemediationsClicks

\* a request for a remediation is served: the baseline stays as it is
LEMMA ServeRemediationStep ==
    ASSUME Coherent, NEW s \in Slots, ServeRemediation(s)
    PROVE  Coherent' /\ OptimisticStep
<1>1. Pending(s) /\ UNCHANGED <<server, author, watched>>
  BY DEF ServeRemediation
<1>2. \E ok : Decided(s, ok)
  BY DEF ServeRemediation
<1>3. /\ CallsTyped' /\ SameRequests
      /\ \A r \in Slots : calls'[r] # NoCall => CallCoherent(calls'[r], server)
  BY <1>1, <1>2, ServedIsOne
<1>4. Coherent'
  BY <1>1, <1>3 DEF Coherent
<1>5. Decisions' \subseteq Decisions
  BY <1>3, NothingDecided DEF Coherent, Standing, SameRequests
<1>6. Optimistic!Discard
  BY <1>1, <1>5 DEF Optimistic!Discard
<1> QED
  BY <1>4, <1>6 DEF OptimisticStep, Optimistic!Next

LEMMA RemediationsOthersOptimistic ==
    ASSUME Coherent, OthersWrite \/ BatchTakenUp \/ BatchDone
    PROVE  Coherent' /\ OptimisticStep
<1>1. "rv" \in DOMAIN server
  BY DEF Coherent, Versioned
<1>2. \E object : "rv" \in DOMAIN object /\ OtherWrites(object)
  <2>1. CASE OthersWrite
    BY <1>1, <2>1 DEF OthersWrite
  <2>2. CASE BatchTakenUp
    BY <1>1, <2>2 DEF BatchTakenUp
  <2>3. CASE BatchDone
    BY <1>1, <2>3 DEF BatchDone
  <2> QED
    BY <2>1, <2>2, <2>3
<1> QED
  BY <1>2, OthersAreForeign

LEMMA RemediationsStepOptimistic ==
    ASSUME Coherent, [RemediationsNext]_remediationsVars
    PROVE  Coherent' /\ OptimisticStep
<1>1. CASE RemediationsClicks
  BY <1>1, RemediationsClicksOptimistic
<1>2. CASE ListDelivered
  BY <1>2, QuietStutters DEF ListDelivered, shared
<1>3. ASSUME NEW s \in Slots, RemediationsServer(s)
      PROVE  Coherent' /\ OptimisticStep
  BY <1>3, ServeLands DEF RemediationsServer
<1>4. ASSUME NEW s \in Slots, ServeRemediation(s)
      PROVE  Coherent' /\ OptimisticStep
  BY <1>4, ServeRemediationStep
<1>5. ASSUME NEW s \in Slots, NEW fulfilled \in BOOLEAN, RemediationsAnswered(s, fulfilled)
      PROVE  Coherent' /\ OptimisticStep
  BY <1>5, SettledDiscards DEF RemediationsAnswered
<1>6. CASE OthersRemediate
  BY <1>6, QuietStutters DEF OthersRemediate
<1>7. CASE OthersWrite \/ BatchTakenUp \/ BatchDone
  BY <1>7, RemediationsOthersOptimistic
<1>8. CASE RemediationsReopen \/ Deliver \/ Review
  BY <1>8, QuietStutters DEF RemediationsReopen, Remount, Deliver, Review
<1>9. CASE UNCHANGED remediationsVars
  BY <1>9, QuietStutters DEF remediationsVars, shared
<1> QED
  BY <1>1, <1>2, <1>3, <1>4, <1>5, <1>6, <1>7, <1>8, <1>9 DEF RemediationsNext,
     RemediationsEnvironment

\* The Remediations tab implements OptimisticObject: what it decided on a version of
\* the baseline that is not the present one never lands, though the operator writes
\* the same object.
THEOREM RemediationsWriteOptimistically == RemediationsSpec => WritesOptimistic
<1>1. Coherent /\ [RemediationsNext]_remediationsVars => Coherent' /\ [Optimistic!Next]_ovars
  BY RemediationsStepOptimistic DEF OptimisticStep
<1> QED
  BY RemediationsInitCoherent, <1>1, PTL
  DEF RemediationsSpec, WritesOptimistic, Optimistic!Spec, Optimistic!vars, ovars

------------------------------------------------------------------------------
(* the Remediations tab is busy exactly while it waits *)

RemediationsWaits ==
    /\ Bookkept
    /\ DOMAIN ui = DOMAIN RemediationsFresh
    /\ ui.busy \in BOOLEAN
    /\ ui.busy <=> Asking

LEMMA RemediationsInitWaits == RemediationsInit => RemediationsWaits
BY DEF RemediationsInit, RemediationsFresh, RemediationsWaits, Bookkept, CallsTyped, Asking, Asked

\* a step that sends nothing and keeps the flag
LEMMA RemediationsQuietWaits ==
    ASSUME RemediationsWaits, UNCHANGED <<calls, mount>>, DOMAIN ui' = DOMAIN ui, ui'.busy = ui.busy
    PROVE  RemediationsWaits'
BY QuietAsks DEF RemediationsWaits

LEMMA RunWaits ==
    ASSUME RemediationsWaits, UNCHANGED mount, NEW of, NEW kind, NEW about, NEW base, NEW patch,
           run(of, kind, about, base, patch)
    PROVE  RemediationsWaits'
<1>1. CASE ui.busy
  BY <1>1, RemediationsQuietWaits DEF run, RemediationsWaits, RemediationsFresh
<1>2. CASE ~ui.busy
  <2>1. Send(of, kind, about, base, patch) /\ ui' = [ui EXCEPT !.busy = TRUE, !.error = FALSE]
    BY <1>2 DEF run
  <2>2. Bookkept' /\ Asking'
    BY <1>2, <2>1, SendAsks DEF RemediationsWaits
  <2>3. DOMAIN ui' = DOMAIN ui /\ ui'.busy = TRUE
    BY <2>1 DEF RemediationsWaits, RemediationsFresh
  <2> QED
    BY <2>2, <2>3 DEF RemediationsWaits
<1> QED
  BY <1>1, <1>2

LEMMA RemediationsClicksWait ==
    ASSUME RemediationsWaits, RemediationsClicks
    PROVE  RemediationsWaits'
<1>1. UNCHANGED mount
  BY DEF RemediationsClicks, OpenApply, OpenBatch, Cancel, onAutoApplyChange, setApply,
     toggleAutoApply,
         doBatchApply, RemediationsStill, RemediationsElsewhere
<1>2. CASE UNCHANGED calls /\ DOMAIN ui' = DOMAIN ui /\ ui'.busy = ui.busy
  BY <1>1, <1>2, RemediationsQuietWaits
<1>3. CASE \E of, kind, about, base, patch : run(of, kind, about, base, patch)
  BY <1>1, <1>3, RunWaits
<1>4. CASE (\E r \in Rems : OpenApply(r)) \/ OpenBatch \/ Cancel
  <2>1. UNCHANGED calls /\ DOMAIN ui' = DOMAIN ui /\ ui'.busy = ui.busy
    BY <1>4 DEF OpenApply, OpenBatch, Cancel, RemediationsStill, RemediationsWaits,
       RemediationsFresh
  <2> QED
    BY <1>2, <2>1
<1>5. CASE onAutoApplyChange \/ setApply \/ toggleAutoApply \/ doBatchApply
  <2>1. \/ \E of, kind, about, base, patch : run(of, kind, about, base, patch)
        \/ /\ UNCHANGED calls
           /\ \/ ui' = [ui EXCEPT !.auto = TRUE, !.error = FALSE]
              \/ ui' = [ui EXCEPT !.error = TRUE]
    BY <1>5 DEF onAutoApplyChange, setApply, toggleAutoApply, doBatchApply
  <2> QED
    BY <1>2, <1>3, <2>1 DEF RemediationsWaits, RemediationsFresh
<1> QED
  BY <1>4, <1>5 DEF RemediationsClicks

LEMMA ServeRemediationAsks ==
    ASSUME Bookkept, NEW s \in Slots, ServeRemediation(s)
    PROVE  Bookkept' /\ (Asking' <=> Asking)
<1>1. PICK ok : Pending(s) /\ Decided(s, ok) /\ UNCHANGED mount
  BY DEF ServeRemediation
<1> QED
  BY <1>1, DecidedAsks

LEMMA RemediationsStepWaits ==
    ASSUME RemediationsWaits, [RemediationsNext]_remediationsVars
    PROVE  RemediationsWaits'
<1>1. CASE RemediationsClicks
  BY <1>1, RemediationsClicksWait
<1>2. CASE ListDelivered
  BY <1>2, RemediationsQuietWaits DEF ListDelivered, Rendered, shared, RemediationsWaits,
     RemediationsFresh
<1>3. ASSUME NEW s \in Slots, RemediationsServer(s) PROVE RemediationsWaits'
  BY <1>3, ServeAsks DEF RemediationsServer, RemediationsWaits
<1>4. ASSUME NEW s \in Slots, ServeRemediation(s) PROVE RemediationsWaits'
  <2>1. UNCHANGED ui
    BY <1>4 DEF ServeRemediation
  <2> QED
    BY <1>4, <2>1, ServeRemediationAsks DEF RemediationsWaits
<1>5. ASSUME NEW s \in Slots, NEW fulfilled \in BOOLEAN, RemediationsAnswered(s, fulfilled)
      PROVE  RemediationsWaits'
  <2>1. Settled(s, fulfilled)
    BY <1>5 DEF RemediationsAnswered
  <2>2. CASE ~Heard(s)
    BY <1>5, <2>1, <2>2, SettledAsks DEF RemediationsAnswered, RemediationsWaits
  <2>3. CASE Heard(s)
    <3>1. DOMAIN ui' = DOMAIN ui /\ ui'.busy = FALSE
      BY <1>5, <2>3 DEF RemediationsAnswered, RemediationsWaits, RemediationsFresh
    <3> QED
      BY <2>1, <2>3, <3>1, SettledAsks DEF RemediationsWaits
  <2> QED
    BY <2>2, <2>3
<1>6. CASE RemediationsReopen
  BY <1>6, RemountAsksNothing DEF RemediationsReopen, Remount, RemediationsWaits, RemediationsFresh
<1>7. CASE OthersRemediate \/ OthersWrite \/ BatchTakenUp \/ BatchDone
           \/ (Deliver /\ UNCHANGED ui) \/ (Review /\ UNCHANGED ui) \/ UNCHANGED remediationsVars
  <2>1. UNCHANGED <<calls, mount, ui>>
    BY <1>7 DEF OthersRemediate, OthersWrite, BatchTakenUp, BatchDone, OtherWrites,
                Deliver, Review, remediationsVars, shared
  <2> QED
    BY <2>1, RemediationsQuietWaits
<1> QED
  BY <1>1, <1>2, <1>3, <1>4, <1>5, <1>6, <1>7 DEF RemediationsNext, RemediationsEnvironment

\* The Remediations tab is busy exactly while a request it sent since it was opened
\* is unanswered, whatever is lost, refused, late or left.
THEOREM RemediationsBusy == RemediationsSpec => []RemediationsBusyIsRequest
<1>1. RemediationsWaits => RemediationsBusyIsRequest
  BY DEF RemediationsWaits, RemediationsBusyIsRequest, Asking, Asked
<1> QED
  BY RemediationsInitWaits, RemediationsStepWaits, <1>1, PTL DEF RemediationsSpec

------------------------------------------------------------------------------
(* a batch is decided on a baseline without one *)

NoBatchOn(object) == ~object.running /\ ~batchApplyRequested(object.annotations)

Deciding ==
    /\ Coherent
    /\ \A s \in Slots :
          calls[s] # NoCall /\ calls[s].kind = "batch" => NoBatchOn(calls[s].base)

LEMMA InitDeciding == RemediationsInit => Deciding
BY RemediationsInitCoherent DEF RemediationsInit, Deciding

LEMMA RunDecides ==
    ASSUME Deciding, Coherent', UNCHANGED <<server, author, watched>>,
           NEW of \in {"baseline", "remediation"}, NEW kind, NEW about, NEW base, NEW patch,
           of = "baseline" => base = watched /\ patch.rv = watched.rv,
           kind = "batch" => NoBatchOn(base),
           run(of, kind, about, base, patch)
    PROVE  Deciding'
<1>1. CASE UNCHANGED calls
  BY <1>1 DEF Deciding
<1>2. CASE Send(of, kind, about, base, patch)
  <2>1. Read(watched, server)
    BY DEF Deciding, Coherent
  <2>2. \A r \in Slots : \/ calls'[r] = calls[r]
                         \/ calls'[r].kind = kind /\ calls'[r].base = base
    BY <1>2, <2>1, SendDecides DEF Deciding
  <2> QED
    BY <2>2 DEF Deciding
<1> QED
  BY <1>1, <1>2 DEF run

LEMMA ClicksDecide ==
    ASSUME Deciding, Coherent', RemediationsClicks
    PROVE  Deciding'
<1>1. UNCHANGED <<server, author, watched>>
  BY DEF RemediationsClicks, OpenApply, OpenBatch, Cancel, onAutoApplyChange, setApply,
     toggleAutoApply,
         doBatchApply, RemediationsStill, RemediationsElsewhere
<1>2. CASE UNCHANGED calls
  BY <1>2 DEF Deciding
<1>3. CASE run("baseline", "autoOff", NoRem, watched,
               WithVersion(remediationApplyPatch(watched.remediation # Absent, FALSE),
                           watched.rv))
  <2> DEFINE patch == WithVersion(remediationApplyPatch(watched.remediation # Absent, FALSE),
                                  watched.rv)
  <2>1. patch.rv = watched.rv
    BY RemediationsPatchVersions
  <2> HIDE DEF patch
  <2>2. run("baseline", "autoOff", NoRem, watched, patch)
    BY <1>3 DEF patch
  <2> QED
    BY <1>1, <2>1, <2>2, RunDecides
<1>4. CASE run("remediation", "apply", ui.target, LiveRow, ApplyPatch)
  BY <1>1, <1>4, RunDecides
<1>5. CASE run("baseline", "autoOn", NoRem, watched, AutoPatch)
  <2>1. AutoPatch.rv = watched.rv
    BY RemediationsPatchVersions DEF AutoPatch
  <2> QED
    BY <1>1, <1>5, <2>1, RunDecides
<1>6. CASE /\ watched.there /\ ~batchInProgress /\ ~Empty(BatchPatch)
           /\ run("baseline", "batch", NoRem, watched, BatchPatch)
  <2>1. NoBatchOn(watched)
    BY <1>6 DEF batchInProgress, NoBatchOn
  <2> QED
    BY <1>1, <1>6, <2>1, RemediationsPatchVersions, RunDecides
<1>7. CASE (\E r \in Rems : OpenApply(r)) \/ OpenBatch \/ Cancel
  BY <1>2, <1>7 DEF OpenApply, OpenBatch, Cancel, RemediationsStill
<1>8. CASE onAutoApplyChange
  BY <1>2, <1>3, <1>8 DEF onAutoApplyChange
<1>9. CASE setApply
  BY <1>2, <1>4, <1>9 DEF setApply
<1>10. CASE toggleAutoApply
  BY <1>2, <1>5, <1>10 DEF toggleAutoApply
<1>11. CASE doBatchApply
  BY <1>2, <1>6, <1>11 DEF doBatchApply
<1> QED
  BY <1>7, <1>8, <1>9, <1>10, <1>11 DEF RemediationsClicks

LEMMA SameDecide ==
    ASSUME Deciding, Coherent', SameRequests
    PROVE  Deciding'
BY DEF Deciding, SameRequests

LEMMA StepDeciding ==
    ASSUME Deciding, [RemediationsNext]_remediationsVars
    PROVE  Deciding' /\ [DecidesBatch]_remediationsVars
<1>0. Coherent'
  BY RemediationsStepOptimistic DEF Deciding
<1>1. CASE UNCHANGED server
  <2>1. DecidesBatch
    BY <1>1 DEF DecidesBatch
  <2>2. Deciding'
    <3>1. CASE RemediationsClicks
      BY <1>0, <3>1, ClicksDecide
    <3>2. ASSUME NEW s \in Slots, RemediationsServer(s) PROVE SameRequests
      BY <3>2, ServeLands DEF RemediationsServer, Deciding
    <3>3. ASSUME NEW s \in Slots, ServeRemediation(s) PROVE SameRequests
      BY <3>3, ServedIsOne DEF ServeRemediation, Deciding
    <3>4. ASSUME NEW s \in Slots, NEW fulfilled \in BOOLEAN, RemediationsAnswered(s, fulfilled)
          PROVE  SameRequests
      BY <3>4, SettledIsOne DEF RemediationsAnswered, Deciding
    <3>5. CASE ListDelivered \/ RemediationsEnvironment \/ UNCHANGED remediationsVars
      <4>1. UNCHANGED calls
        BY <3>5 DEF ListDelivered, RemediationsEnvironment, OthersRemediate, OthersWrite,
           BatchTakenUp,
                    BatchDone, OtherWrites, RemediationsReopen, Remount, Deliver, Review,
                       remediationsVars, shared
      <4> QED
        BY <1>0, <4>1 DEF Deciding
    <3> QED
      BY <1>0, <3>1, <3>2, <3>3, <3>4, <3>5, SameDecide DEF RemediationsNext
  <2> QED
    BY <2>1, <2>2
<1>2. ASSUME NEW s \in Slots, RemediationsServer(s) PROVE Deciding' /\ DecidesBatch
  <2>1. SameRequests /\ (UNCHANGED server \/ calls[s].base = server)
    BY <1>2, ServeLands DEF RemediationsServer, Deciding
  <2>2. \A r \in Slots : r # s => calls'[r] = calls[r]
    BY <1>2 DEF RemediationsServer, Serve, Decided, Deciding, Coherent, CallsTyped
  <2>3. DecidesBatch
    <3> SUFFICES ASSUME NEW r \in Slots, Pending(r), calls[r].kind = "batch",
                        server' # server, calls'[r] # calls[r]
                 PROVE  ~server.running /\ ~batchApplyRequested(server.annotations)
      BY DEF DecidesBatch
    <3>1. r = s /\ calls[r].base = server
      BY <2>1, <2>2
    <3> QED
      BY <3>1 DEF Deciding, Pending, NoBatchOn
  <2> QED
    BY <1>0, <2>1, <2>3, SameDecide
<1>3. CASE OthersWrite \/ BatchTakenUp \/ BatchDone
  <2>1. author' = "other" /\ UNCHANGED calls
    BY <1>3 DEF OthersWrite, BatchTakenUp, BatchDone, OtherWrites
  <2> QED
    BY <1>0, <2>1 DEF Deciding, DecidesBatch
<1>4. CASE RemediationsClicks \/ ListDelivered \/ OthersRemediate \/ RemediationsReopen \/ Deliver \/ Review
  <2>1. UNCHANGED server
    BY <1>4 DEF RemediationsClicks, OpenApply, OpenBatch, Cancel, onAutoApplyChange, setApply,
                toggleAutoApply, doBatchApply, RemediationsStill, RemediationsElsewhere,
                   ListDelivered,
                OthersRemediate, RemediationsReopen, Remount, Deliver, Review, shared
  <2> QED
    BY <1>1, <2>1
<1>5. ASSUME NEW s \in Slots,
             ServeRemediation(s) \/ \E fulfilled \in BOOLEAN : RemediationsAnswered(s, fulfilled)
      PROVE  Deciding' /\ [DecidesBatch]_remediationsVars
  <2>1. UNCHANGED server
    BY <1>5 DEF ServeRemediation, RemediationsAnswered, Settled
  <2> QED
    BY <1>1, <2>1
<1>6. CASE UNCHANGED remediationsVars
  BY <1>1, <1>6 DEF remediationsVars, shared
<1> QED
  BY <1>2, <1>3, <1>4, <1>5, <1>6 DEF RemediationsNext, RemediationsEnvironment

\* A batch is stored only over a baseline on which none is requested or under way,
\* whatever was clicked twice, answered late or retried, and whoever else wrote.
THEOREM RemediationsBatches == RemediationsSpec => [][DecidesBatch]_remediationsVars
<1>1. Deciding /\ [RemediationsNext]_remediationsVars => Deciding' /\ [DecidesBatch]_remediationsVars
  BY StepDeciding
<1> QED
  BY InitDeciding, <1>1, PTL DEF RemediationsSpec

------------------------------------------------------------------------------
(* the names of a batch, one by one *)

Added(list, name) ==
    IF name = BadName \/ name \in ToSet(list) \/ Len(list) >= MaxNames THEN list ELSE Append(list, name)

Gathering(r, names, n, S) ==
    /\ r \in [0..n -> Seq(S)]
    /\ r[0] = <<>>
    /\ \A k \in 1..n : r[k] = Added(r[k - 1], names[k])
    /\ BatchNames(names) = r[n]

LEMMA BatchNamesFold ==
    ASSUME NEW S, NEW n \in Nat, NEW names \in [1..n -> S]
    PROVE  \E r : Gathering(r, names, n, S)
<1> DEFINE F(g) == [s \in SUBSET (1..n) |-> IF s = {} THEN <<>> ELSE Added(g[s \ {Max(s)}], names[Max(s)])]
           it == CHOOSE g : g = F(g)
           h == [p \in (1..n) \X Seq(S) |-> Added(p[2], names[p[1]])]
<1>1. BatchNames(names) = it[1..n]
  <2>1. DOMAIN names = 1..n
    OBVIOUS
  <2> QED BY <2>1 DEF BatchNames, FoldLeft, MapThenFoldSet, Added
<1>2. h \in [(1..n) \X Seq(S) -> Seq(S)]
  <2>1. ASSUME NEW list \in Seq(S), NEW i \in 1..n PROVE Added(list, names[i]) \in Seq(S)
    BY DEF Added
  <2> QED BY <2>1
<1>3. PICK g : IsFold(n, Seq(S), <<>>, h, g)
  <2> HIDE DEF h
  <2>1. <<>> \in Seq(S)
    OBVIOUS
  <2> QED
    BY <1>2, <2>1, FoldExists
<1>4. g = F(g)
  <2>1. ASSUME NEW s \in SUBSET (1..n), s # {}
        PROVE  h[<<Max(s), g[s \ {Max(s)}]>>] = Added(g[s \ {Max(s)}], names[Max(s)])
    <3>1. s \ {Max(s)} \in SUBSET (1..n) /\ g[s \ {Max(s)}] \in Seq(S)
      BY <1>3 DEF IsFold
    <3>2. Max(s) \in 1..n
      BY <2>1, MaxIsIn
    <3> QED
      BY <3>1, <3>2
  <2>2. g = [s \in SUBSET (1..n) |-> g[s]]
    BY <1>3 DEF IsFold
  <2> HIDE DEF h
  <2> QED
    BY <1>3, <2>1, <2>2 DEF IsFold
<1>5. it = F(it)
  <2> HIDE DEF F
  <2> QED
    BY <1>4
<1> DEFINE r == [k \in 0..n |-> it[1..k]]
<1>6. r[0] = <<>>
  <2>1. 1..0 = {} /\ 1..0 \in SUBSET (1..n)
    OBVIOUS
  <2>2. it[1..0] = <<>>
    BY <1>5, <2>1
  <2> QED
    BY <2>2
<1>7. ASSUME NEW k \in 1..n PROVE r[k] = Added(r[k - 1], names[k])
  <2>1. k - 1 \in 0..n
    OBVIOUS
  <2>2. it[1..k] = Added(it[1..(k - 1)], names[k])
    <3>1. /\ (1..k) \in SUBSET (1..n) /\ 1..k # {}
          /\ Max(1..k) = k /\ (1..k) \ {k} = 1..(k - 1)
      BY FirstPlaces
    <3> HIDE DEF it
    <3> QED
      BY <1>5, <3>1
  <2> HIDE DEF it
  <2> QED
    BY <2>1, <2>2
<1>8. r[n] = it[1..n] /\ DOMAIN r = 0..n /\ r = [k \in 0..n |-> r[k]]
  OBVIOUS
<1> DEFINE G == {k \in Nat : k <= n => r[k] \in Seq(S)}
<1> HIDE DEF r
<1>9. 0 \in G
  <2>1. r[0] \in Seq(S)
    BY <1>6
  <2> QED
    BY <2>1
<1>10. ASSUME NEW k \in Nat, k \in G PROVE k + 1 \in G
  <2> SUFFICES ASSUME k + 1 <= n PROVE r[k + 1] \in Seq(S)
    OBVIOUS
  <2>1. r[k] \in Seq(S) /\ k + 1 \in 1..n /\ (k + 1) - 1 = k
    BY <1>10
  <2>2. r[k + 1] = Added(r[k], names[k + 1]) /\ names[k + 1] \in S
    BY <1>7, <2>1
  <2> QED
    BY <2>1, <2>2 DEF Added
<1>11. Nat \subseteq G
  <2> HIDE DEF G
  <2> QED
    BY <1>9, <1>10, NaturalsByStep
<1>12. r \in [0..n -> Seq(S)]
  BY <1>8, <1>11
<1> QED
  BY <1>1, <1>6, <1>7, <1>8, <1>12 DEF Gathering

LEMMA BatchNamesSome ==
    ASSUME NEW S, NEW n \in Nat, n # 0, NEW names \in [1..n -> S], BadName \notin S
    PROVE  BatchNames(names) # <<>>
<1>0. PICK r : Gathering(r, names, n, S)
  BY BatchNamesFold
<1>1. /\ r \in [0..n -> Seq(S)] /\ r[0] = <<>>
      /\ \A k \in 1..n : r[k] = Added(r[k - 1], names[k])
      /\ BatchNames(names) = r[n]
  BY <1>0 DEF Gathering
<1> DEFINE G == {k \in Nat : k + 1 <= n => r[k + 1] # <<>>}
<1>2. 0 \in G
  <2>1. 1 \in 1..n /\ names[1] # BadName /\ 1 - 1 = 0
    OBVIOUS
  <2>2. Len(<<>>) = 0 /\ ~(0 >= MaxNames) /\ ToSet(<<>>) = {}
    BY LimitsAssumption DEF ToSet
  <2>3. r[1] = Append(<<>>, names[1])
    BY <1>1, <2>1, <2>2 DEF Added
  <2>4. Append(<<>>, names[1]) # <<>>
    OBVIOUS
  <2>5. 0 + 1 = 1
    OBVIOUS
  <2> QED
    BY <2>3, <2>4, <2>5
<1>3. ASSUME NEW k \in Nat, k \in G PROVE k + 1 \in G
  <2> SUFFICES ASSUME (k + 1) + 1 <= n PROVE r[(k + 1) + 1] # <<>>
    OBVIOUS
  <2>1. r[k + 1] # <<>> /\ r[k + 1] \in Seq(S)
    BY <1>1, <1>3
  <2>2. (k + 1) + 1 \in 1..n /\ ((k + 1) + 1) - 1 = k + 1
    OBVIOUS
  <2>3. r[(k + 1) + 1] = Added(r[k + 1], names[(k + 1) + 1])
    BY <1>1, <2>2
  <2>4. ASSUME NEW list \in Seq(S), NEW e \in S PROVE Append(list, e) # <<>>
    <3>1. Len(Append(list, e)) = Len(list) + 1 /\ Len(list) \in Nat
      OBVIOUS
    <3>2. Len(<<>>) = 0
      OBVIOUS
    <3> QED
      BY <3>1, <3>2
  <2> QED
    BY <2>1, <2>2, <2>3, <2>4 DEF Added
<1>4. Nat \subseteq G
  <2> HIDE DEF G
  <2> QED
    BY <1>2, <1>3, NaturalsByStep
<1>5. n - 1 \in G /\ (n - 1) + 1 = n
  <2>1. n - 1 \in Nat /\ (n - 1) + 1 = n
    OBVIOUS
  <2> HIDE DEF G
  <2> QED
    BY <1>4, <2>1
<1> QED
  BY <1>1, <1>5

------------------------------------------------------------------------------
(* the Remediations tab: what failed may be done again *)

LEMMA BatchPatchOffers ==
    ASSUME watched = server, server.there, batchable # {}
    PROVE  Accepts(server, BatchPatch)
<1> DEFINE names == BatchNames(SetToSeq(batchable))
<1>1. batchable \subseteq Rems /\ IsFiniteSet(batchable) /\ BadName \notin batchable
  BY RemediationsAssumption, FS_Subset DEF batchable, Batchable
<1>2. names # <<>>
  BY <1>1, SetToSeqLists, BatchNamesSome
<1>3. BatchPatch = [rv |-> server.rv, tests |-> {},
                    write |-> IF watched.annotations # Absent THEN SetKey("annotations", "batch", names)
                              ELSE Set("annotations", [batch |-> names])]
  BY <1>2 DEF BatchPatch, batchApplyPatch, resourceVersionTest
<1> HIDE DEF names
<1>4. Reachable(server, BatchPatch.write)
  BY <1>3 DEF Reachable, Set, SetKey
<1> QED
  BY <1>3, <1>4 DEF Accepts

LEMMA RemediationsLandAgain == RemediationsRetryLands
<1>1. ASSUME ui.target # NoRem, listed = rems, listed[ui.target].there
      PROVE  Accepts(rems[ui.target], ApplyPatch)
  <2>1. ApplyPatch = [rv |-> rems[ui.target].rv, tests |-> {}, write |-> Set("apply", ui.want)]
    BY <1>1 DEF ApplyPatch, LiveRow, resourceVersionTest
  <2>2. Reachable(rems[ui.target], Set("apply", ui.want))
    BY DEF Reachable, Set
  <2> QED
    BY <1>1, <2>1, <2>2 DEF Accepts
<1>2. ASSUME watched = server, server.there PROVE Accepts(server, AutoPatch)
  <2>1. /\ AutoPatch.rv = server.rv /\ AutoPatch.tests = {}
        /\ AutoPatch.write = IF server.remediation # Absent THEN SetKey("remediation", "apply", "Automatic")
                             ELSE Set("remediation", [apply |-> "Automatic"])
    BY <1>2 DEF AutoPatch, WithVersion, remediationApplyPatch, resourceVersionTest
  <2>2. Reachable(server, AutoPatch.write)
    BY <2>1 DEF Reachable, Set, SetKey
  <2> QED
    BY <1>2, <2>1, <2>2 DEF Accepts
<1> QED
  BY <1>1, <1>2, BatchPatchOffers DEF RemediationsRetryLands
------------------------------------------------------------------------------
(* the Profiles tab: its writes are optimistic *)

LEMMA ProfilesInitCoherent == ProfilesInit => Coherent /\ Optimistic!Init
<1> SUFFICES ASSUME ProfilesInit PROVE Coherent /\ Optimistic!Init
  OBVIOUS
<1>1. server.rv = 1 /\ "rv" \in DOMAIN server /\ watched = server
  BY DEF ProfilesInit
<1>2. calls = [s \in Slots |-> NoCall] /\ author = "other"
  BY DEF ProfilesInit
<1>3. Coherent
  BY <1>1, <1>2 DEF Coherent, Versioned, Read, CallsTyped
<1>4. Decisions = {}
  BY <1>2 DEF Decisions
<1> QED
  BY <1>2, <1>3, <1>4 DEF Optimistic!Init

\* only requests for profiles are followed by another one
Chains ==
    /\ Coherent
    /\ \A s \in Slots :
          calls[s] # NoCall /\ calls[s].kind \in {"create", "adopt"} => calls[s].of = "profile"

LEMMA ProfilesPatchVersions ==
    /\ \A field, old, new : Member(field, old, new).rv = watched.rv
    /\ \A current, name, rv :
          LET patch == tailoredProfileBindingPatch(current, name, rv)
          IN  Empty(patch) \/ patch.rv = rv
<1>1. \A rv, tests, write : resourceVersionTest(rv, tests, write).rv = rv
  BY DEF resourceVersionTest
<1>2. Empty(NoOps)
  BY DEF Empty, NoOps
<1>3. ASSUME NEW current, NEW name, NEW rv
      PROVE  LET patch == tailoredProfileBindingPatch(current, name, rv)
             IN  Empty(patch) \/ patch.rv = rv
  BY <1>1, <1>2 DEF tailoredProfileBindingPatch
<1> QED
  BY <1>1, <1>3 DEF Member

\* what a step leaves of the requests, when it sends, or touches none
LEMMA SendStep ==
    ASSUME Chains, ProfilesElsewhere, NEW of \in {"baseline", "profile"}, NEW kind, NEW about, NEW patch,
           of = "baseline" => patch.rv = watched.rv,
           kind \in {"create", "adopt"} => of = "profile",
           Send(of, kind, about, watched, patch)
    PROVE  Chains' /\ OptimisticStep
<1>1. Read(watched, server)
  BY DEF Chains, Coherent
<1>2. /\ Coherent' /\ OptimisticStep
      /\ \A r \in Slots : \/ calls'[r] = calls[r]
                          \/ calls'[r].of = of /\ calls'[r].kind = kind
  BY <1>1, SendDecides DEF ProfilesElsewhere, Chains
<1> QED
  BY <1>2 DEF Chains

LEMMA QuietStep ==
    ASSUME Chains, UNCHANGED <<server, author, calls>>, watched' \in {watched, server}
    PROVE  Chains' /\ OptimisticStep
BY QuietStutters DEF Chains

LEMMA SameStep ==
    ASSUME Chains, Coherent', OptimisticStep, SameRequests
    PROVE  Chains' /\ OptimisticStep
BY DEF Chains, SameRequests

LEMMA ProfilesClicksOptimistic ==
    ASSUME Chains, ProfilesClicks
    PROVE  Chains' /\ OptimisticStep
<1>0. ProfilesElsewhere
  BY DEF ProfilesClicks, Switch, TurnOffScanning, OpenUnbind, unbindTailored, openEdit, OpenCreate,
         TypeProfile, createTailored, closeCreateModal
<1>1. CASE UNCHANGED calls
  BY <1>0, <1>1, QuietStep DEF ProfilesElsewhere
<1>2. ASSUME NEW key \in Keys, Switch(key)
      PROVE  Chains' /\ OptimisticStep
  <2> DEFINE checked == key \notin ToSet(ListOf(watched.profiles))
             patch == TogglePatch(key, checked)
  <2>1. UNCHANGED calls \/ Send("baseline", "toggle", checked, watched, patch)
    BY <1>2 DEF Switch
  <2>2. patch.rv = watched.rv
    BY ProfilesPatchVersions DEF TogglePatch
  <2> HIDE DEF patch, checked
  <2> QED
    BY <1>0, <1>1, <2>1, <2>2, SendStep
<1>3. CASE TurnOffScanning
  <2> DEFINE patch == TogglePatch(ui.last, FALSE)
  <2>1. UNCHANGED calls \/ Send("baseline", "last", FALSE, watched, patch)
    BY <1>3 DEF TurnOffScanning, Refused
  <2>2. patch.rv = watched.rv
    BY ProfilesPatchVersions DEF TogglePatch
  <2> HIDE DEF patch
  <2> QED
    BY <1>0, <1>1, <2>1, <2>2, SendStep
<1>4. CASE unbindTailored
  <2> DEFINE patch == UnbindPatch(ui.unbinding)
  <2>1. UNCHANGED calls \/ Send("baseline", "unbind", UnbindWarns, watched, patch)
    BY <1>4 DEF unbindTailored, Refused
  <2>2. patch.rv = watched.rv
    BY ProfilesPatchVersions DEF UnbindPatch
  <2> HIDE DEF patch
  <2> QED
    BY <1>0, <1>1, <2>1, <2>2, SendStep
<1>5. CASE createTailored
  <2>1. UNCHANGED calls \/ \E kind, about, patch : Send("profile", kind, about, watched, patch)
    BY <1>5 DEF createTailored, Refused
  <2> QED
    BY <1>0, <1>1, <2>1, SendStep
<1>6. CASE (\E name \in Names : OpenUnbind(name) \/ openEdit(name))
           \/ OpenCreate \/ TypeProfile \/ closeCreateModal
  <2>1. UNCHANGED calls
    BY <1>6 DEF OpenUnbind, openEdit, OpenCreate, TypeProfile, closeCreateModal, Refused
  <2> QED
    BY <1>1, <2>1
<1> QED
  BY <1>2, <1>3, <1>4, <1>5, <1>6 DEF ProfilesClicks

\* one request for a profile becomes another one, about the baseline that was read
LEMMA OneGoesOn ==
    ASSUME Chains, UNCHANGED <<server, author, watched>>, NEW s \in Slots,
           calls[s] # NoCall, calls[s].of = "profile",
           NEW next, calls' = [calls EXCEPT ![s] = next],
           \/ next = NoCall
           \/ /\ CallCoherent(next, server) /\ next # NoCall
              /\ next.kind \in {"create", "adopt"} => next.of = "profile"
    PROVE  Chains' /\ OptimisticStep
<1>1. CallsTyped' /\ calls'[s] = next /\ \A r \in Slots : r # s => calls'[r] = calls[r]
  BY DEF Chains, Coherent, CallsTyped
<1>2. ~Standing(s)
  BY DEF Standing
<1>3. Chains'
  BY <1>1 DEF Chains, Coherent
<1>4. CASE Standing(s)'
  <2>1. Read(next.base, server)
    BY <1>1, <1>4 DEF Standing, CallCoherent
  <2> QED
    BY <1>1, <1>2, <1>3, <1>4, <2>1, OneDecided DEF Chains, Coherent
<1>5. CASE ~Standing(s)'
  <2>1. \A r \in Slots : Standing(r)' => Standing(r) /\ calls'[r] = calls[r]
    BY <1>1, <1>5 DEF Standing
  <2>2. Decisions' \subseteq Decisions
    BY <1>1, <2>1, NothingDecided DEF Chains, Coherent
  <2>3. Optimistic!Discard
    BY <2>2 DEF Optimistic!Discard
  <2> QED
    BY <1>3, <2>3 DEF OptimisticStep, Optimistic!Next
<1> QED
  BY <1>4, <1>5

LEMMA ServeProfileStep ==
    ASSUME Chains, NEW s \in Slots, ServeProfile(s)
    PROVE  Chains' /\ OptimisticStep
<1> DEFINE call   == calls[s]
           name   == call.about.name
           ok     == CASE call.kind = "create" -> ~stored[name].there
                       [] call.kind = "update" -> UpdateAccepted(name, call.patch.rv)
                       [] OTHER -> stored[name].there
           served == IF ok THEN "landed" ELSE "refused"
           patch  == stored'[name]
<1>1. calls' = [calls EXCEPT ![s] =
            IF call.given THEN NoCall ELSE [call EXCEPT !.served = served, !.patch = patch]]
  BY DEF ServeProfile
<1> HIDE DEF served, patch
<1>2. calls[s] # NoCall /\ calls[s].of = "profile" /\ UNCHANGED <<server, author, watched>>
  BY DEF ServeProfile, Pending
<1> DEFINE went == [calls[s] EXCEPT !.served = served, !.patch = patch]
<1>3. CallCoherent(calls[s], server)
  BY <1>2 DEF Chains, Coherent
<1>4. CallCoherent(went, server) /\ went.of = "profile"
  BY <1>2, <1>3 DEF CallCoherent, CallFields
<1>5. went # NoCall
  BY <1>4 DEF NoCall
<1> HIDE DEF went
<1>6. calls' = [calls EXCEPT ![s] = IF calls[s].given THEN NoCall ELSE went]
  BY <1>1 DEF went
<1> QED
  BY <1>2, <1>4, <1>5, <1>6, OneGoesOn

\* the binding goes out with the version the chain started on, or nothing does
LEMMA BindStep ==
    ASSUME Chains, NEW s \in Slots, calls[s] # NoCall, calls[s].of = "profile",
           NEW seen, Bind(s, seen)
    PROVE  Chains' /\ OptimisticStep
<1> DEFINE call  == calls[s]
           patch == tailoredProfileBindingPatch(call.base.tailored, call.about.name, call.base.rv)
           next  == [call EXCEPT !.of = "baseline", !.kind = "bind", !.served = "no",
                                 !.patch = patch, !.about.rv = seen.rv]
<1>1. CASE Empty(patch)
  <2>1. Settled(s, TRUE)
    BY <1>1 DEF Bind
  <2>2. Coherent' /\ OptimisticStep
    BY <2>1, SettledDiscards DEF Chains
  <2>3. SameRequests
    BY <2>1, SettledIsOne DEF Chains
  <2> QED
    BY <2>2, <2>3, SameStep
<1>2. CASE ~Empty(patch)
  <2>1. Chained(s, next)
    BY <1>2 DEF Bind
  <2>2. patch.rv = call.base.rv
    BY <1>2, ProfilesPatchVersions
  <2>3. CallCoherent(call, server)
    BY DEF Chains, Coherent
  <2> HIDE DEF patch
  <2>4. CallCoherent(next, server) /\ next.of = "baseline" /\ next.kind = "bind"
    BY <2>2, <2>3 DEF CallCoherent, CallFields
  <2>5. next # NoCall
    BY <2>4 DEF NoCall
  <2> HIDE DEF next
  <2>6. calls' = [calls EXCEPT ![s] = next] /\ UNCHANGED <<server, author, watched>>
    BY <2>1 DEF Chained
  <2> QED
    BY <2>4, <2>5, <2>6, OneGoesOn
<1> QED
  BY <1>1, <1>2

LEMMA AnsweredStep ==
    ASSUME Chains, NEW s \in Slots, NEW fulfilled \in BOOLEAN, ProfilesAnswered(s, fulfilled)
    PROVE  Chains' /\ OptimisticStep
<1> DEFINE call == calls[s]
<1>1. calls[s] # NoCall /\ ~calls[s].given
  BY DEF ProfilesAnswered
<1>2. ASSUME NEW said \in BOOLEAN, Settled(s, said)
      PROVE  Chains' /\ OptimisticStep
  <2>1. Coherent' /\ OptimisticStep
    BY <1>2, SettledDiscards DEF Chains
  <2>2. SameRequests
    BY <1>2, SettledIsOne DEF Chains
  <2> QED
    BY <2>1, <2>2, SameStep
<1>3. CASE call.kind = "create" /\ fulfilled
  <2>1. Bind(s, call.patch)
    BY <1>3 DEF ProfilesAnswered
  <2>2. call.of = "profile"
    BY <1>1, <1>3 DEF Chains
  <2> QED
    BY <1>1, <2>1, <2>2, BindStep
<1>4. CASE call.kind = "create" /\ ~fulfilled
  <2> DEFINE next == [call EXCEPT !.kind = "adopt", !.served = "no"]
  <2>1. Chained(s, next) \/ Settled(s, FALSE)
    BY <1>4 DEF ProfilesAnswered
  <2>2. call.of = "profile" /\ CallCoherent(call, server)
    BY <1>1, <1>4 DEF Chains, Coherent
  <2>3. CallCoherent(next, server) /\ next.of = "profile"
    BY <2>2 DEF CallCoherent, CallFields
  <2>4. next # NoCall
    BY <2>3 DEF NoCall
  <2> HIDE DEF next
  <2>5. CASE Chained(s, next)
    <3>1. calls' = [calls EXCEPT ![s] = next] /\ UNCHANGED <<server, author, watched>>
      BY <2>5 DEF Chained
    <3> QED
      BY <1>1, <2>2, <2>3, <2>4, <3>1, OneGoesOn
  <2> QED
    BY <1>2, <2>1, <2>5
<1>5. CASE call.kind = "adopt" /\ fulfilled
  <2>1. Bind(s, call.patch) \/ Settled(s, TRUE)
    BY <1>5 DEF ProfilesAnswered
  <2>2. call.of = "profile"
    BY <1>1, <1>5 DEF Chains
  <2> QED
    BY <1>1, <1>2, <2>1, <2>2, BindStep
<1>6. CASE call.kind # "create" /\ ~(call.kind = "adopt" /\ fulfilled)
  <2>1. Settled(s, fulfilled)
    BY <1>6 DEF ProfilesAnswered
  <2> QED
    BY <1>2, <2>1
<1> QED
  BY <1>3, <1>4, <1>5, <1>6

LEMMA ProfilesOthersOptimistic ==
    ASSUME Chains, ProfilesOthers
    PROVE  Chains' /\ OptimisticStep
<1>1. CASE \E object : "rv" \in DOMAIN object /\ OtherWrites(object)
  <2>1. Coherent' /\ OptimisticStep /\ UNCHANGED calls
    BY <1>1, OthersAreForeign DEF Chains, OtherWrites
  <2> QED
    BY <2>1 DEF Chains
<1>2. CASE UNCHANGED <<server, author, watched, calls>>
  BY <1>2, QuietStep
<1>3. "rv" \in DOMAIN server
  BY DEF Chains, Coherent, Versioned
<1>4. CASE OtherWrites(server)
  BY <1>1, <1>3, <1>4
<1>5. ASSUME NEW list, OtherWrites([server EXCEPT !.profiles = list])
      PROVE  Chains' /\ OptimisticStep
  BY <1>1, <1>3, <1>5
<1>6. ASSUME NEW list, OtherWrites([server EXCEPT !.tailored = list])
      PROVE  Chains' /\ OptimisticStep
  BY <1>1, <1>3, <1>6
<1> QED
  BY <1>2, <1>4, <1>5, <1>6 DEF ProfilesOthers

LEMMA ProfilesStepOptimistic ==
    ASSUME Chains, [ProfilesNext]_profilesVars
    PROVE  Chains' /\ OptimisticStep
<1>1. CASE ProfilesClicks
  BY <1>1, ProfilesClicksOptimistic
<1>2. ASSUME NEW f \in fetches, NEW found \in BOOLEAN, FetchAnswered(f, found)
      PROVE  Chains' /\ OptimisticStep
  BY <1>2, QuietStep DEF FetchAnswered, shared
<1>3. ASSUME NEW s \in Slots, ProfilesServer(s)
      PROVE  Chains' /\ OptimisticStep
  BY <1>3, ServeLands, SameStep DEF ProfilesServer, Chains
<1>4. ASSUME NEW s \in Slots, ServeProfile(s)
      PROVE  Chains' /\ OptimisticStep
  BY <1>4, ServeProfileStep
<1>5. ASSUME NEW s \in Slots, NEW fulfilled \in BOOLEAN, ProfilesAnswered(s, fulfilled)
      PROVE  Chains' /\ OptimisticStep
  BY <1>5, AnsweredStep
<1>6. CASE ProfilesOthers
  BY <1>6, ProfilesOthersOptimistic
<1>7. CASE ProfilesReopen \/ Deliver \/ Review
  BY <1>7, QuietStep DEF ProfilesReopen, Remount, Deliver, Review
<1>8. CASE UNCHANGED profilesVars
  BY <1>8, QuietStep DEF profilesVars, shared
<1> QED
  BY <1>1, <1>2, <1>3, <1>4, <1>5, <1>6, <1>7, <1>8 DEF ProfilesNext, ProfilesEnvironment

LEMMA InitChains == ProfilesInit => Chains
BY ProfilesInitCoherent DEF ProfilesInit, Chains

\* The Profiles tab implements OptimisticObject: a switch, an unbinding, and the
\* binding at the end of a chain of requests land only on the version of the
\* baseline they were decided on, the chain's on the one it started on.
THEOREM ProfilesWriteOptimistically == ProfilesSpec => WritesOptimistic
<1>1. Chains /\ [ProfilesNext]_profilesVars => Chains' /\ [Optimistic!Next]_ovars
  BY ProfilesStepOptimistic DEF OptimisticStep
<1> QED
  BY ProfilesInitCoherent, InitChains, <1>1, PTL
  DEF ProfilesSpec, WritesOptimistic, Optimistic!Spec, Optimistic!vars, ovars

------------------------------------------------------------------------------
(* the Profiles tab is busy exactly while it waits *)

ProfilesWaits ==
    /\ Bookkept
    /\ DOMAIN ui = DOMAIN ProfilesFresh
    /\ ui.pending \in BOOLEAN
    /\ ui.pending <=> Asking

LEMMA ProfilesInitWaits == ProfilesInit => ProfilesWaits
BY DEF ProfilesInit, ProfilesFresh, ProfilesWaits, Bookkept, CallsTyped, Asking, Asked

\* a step that sends nothing and keeps the flag
LEMMA ProfilesQuietWaits ==
    ASSUME ProfilesWaits, UNCHANGED <<calls, mount>>, DOMAIN ui' = DOMAIN ui, ui'.pending = ui.pending
    PROVE  ProfilesWaits'
BY QuietAsks DEF ProfilesWaits

\* a request is sent while none is waited for
LEMMA SendWaits ==
    ASSUME ProfilesWaits, UNCHANGED mount, ~ui.pending,
           NEW of, NEW kind, NEW about, NEW base, NEW patch,
           Send(of, kind, about, base, patch), DOMAIN ui' = DOMAIN ui, ui'.pending = TRUE
    PROVE  ProfilesWaits'
BY SendAsks DEF ProfilesWaits

LEMMA ProfilesClicksWait ==
    ASSUME ProfilesWaits, ProfilesClicks
    PROVE  ProfilesWaits'
<1>1. UNCHANGED mount
  BY DEF ProfilesClicks, Switch, TurnOffScanning, OpenUnbind, unbindTailored, openEdit, OpenCreate,
         TypeProfile, createTailored, closeCreateModal, ProfilesElsewhere
<1>2. CASE UNCHANGED calls /\ DOMAIN ui' = DOMAIN ui /\ ui'.pending = ui.pending
  BY <1>1, <1>2, ProfilesQuietWaits
<1>3. CASE /\ ~ui.pending /\ DOMAIN ui' = DOMAIN ui /\ ui'.pending = TRUE
           /\ \E of, kind, about, base, patch : Send(of, kind, about, base, patch)
  BY <1>1, <1>3, SendWaits
<1>4. ASSUME NEW key \in Keys, Switch(key) PROVE ProfilesWaits'
  <2>1. \/ ui' = [ui EXCEPT !.last = key] /\ UNCHANGED calls
        \/ /\ ~ui.pending /\ ui' = [ui EXCEPT !.pending = TRUE]
           /\ \E of, kind, about, base, patch : Send(of, kind, about, base, patch)
    BY <1>4 DEF Switch
  <2> QED
    BY <1>2, <1>3, <2>1 DEF ProfilesWaits, ProfilesFresh
<1>5. CASE TurnOffScanning \/ unbindTailored \/ createTailored
  <2>1. \/ UNCHANGED <<calls, ui>>
        \/ ui' = [ui EXCEPT !.unbinding = None] /\ UNCHANGED calls
        \/ /\ ~ui.pending
           /\ \/ ui' = [ui EXCEPT !.pending = TRUE]
              \/ ui' = [ui EXCEPT !.pending = TRUE, !.loading = None]
           /\ \E of, kind, about, base, patch : Send(of, kind, about, base, patch)
    BY <1>5 DEF TurnOffScanning, unbindTailored, createTailored, Refused
  <2> QED
    BY <1>2, <1>3, <2>1 DEF ProfilesWaits, ProfilesFresh
<1>6. CASE (\E name \in Names : OpenUnbind(name) \/ openEdit(name))
           \/ OpenCreate \/ TypeProfile \/ closeCreateModal
  <2>1. UNCHANGED calls /\ DOMAIN ui' = DOMAIN ui /\ ui'.pending = ui.pending
    BY <1>6 DEF OpenUnbind, openEdit, OpenCreate, TypeProfile, closeCreateModal, Refused, ProfilesWaits,
       ProfilesFresh
  <2> QED
    BY <1>2, <2>1
<1> QED
  BY <1>4, <1>5, <1>6 DEF ProfilesClicks

\* a request that goes on is waited for as before
LEMMA GoesOnWaits ==
    ASSUME ProfilesWaits, UNCHANGED <<mount, ui>>, NEW s \in Slots, calls[s] # NoCall,
           NEW next, calls' = [calls EXCEPT ![s] = next],
           \/ calls[s].given /\ next = NoCall
           \/ /\ ~calls[s].given /\ ~next.given
              /\ DOMAIN next = CallFields /\ next.mount = calls[s].mount
    PROVE  ProfilesWaits'
<1>1. DOMAIN NoCall # CallFields
  BY DEF NoCall, CallFields
<1> QED
  BY <1>1, ServedIsAsked DEF ProfilesWaits

LEMMA ServeProfileWaits ==
    ASSUME ProfilesWaits, NEW s \in Slots, ServeProfile(s)
    PROVE  ProfilesWaits'
<1> DEFINE call   == calls[s]
           name   == call.about.name
           ok     == CASE call.kind = "create" -> ~stored[name].there
                       [] call.kind = "update" -> UpdateAccepted(name, call.patch.rv)
                       [] OTHER -> stored[name].there
           served == IF ok THEN "landed" ELSE "refused"
           patch  == stored'[name]
           went   == [call EXCEPT !.served = served, !.patch = patch]
<1>1. calls' = [calls EXCEPT ![s] = IF call.given THEN NoCall ELSE went]
  BY DEF ServeProfile
<1> HIDE DEF served, patch
<1>2. call # NoCall /\ UNCHANGED <<mount, ui>>
  BY DEF ServeProfile, Pending
<1>3. DOMAIN call = CallFields
  BY <1>2 DEF ProfilesWaits, Bookkept
<1>4. DOMAIN went = CallFields /\ went.mount = call.mount /\ (~call.given => ~went.given)
  BY <1>3 DEF CallFields
<1> HIDE DEF went
<1> QED
  BY <1>1, <1>2, <1>4, GoesOnWaits

LEMMA AnsweredWaits ==
    ASSUME ProfilesWaits, NEW s \in Slots, NEW fulfilled \in BOOLEAN, ProfilesAnswered(s, fulfilled)
    PROVE  ProfilesWaits'
<1> DEFINE call == calls[s]
<1>1. call # NoCall /\ ~call.given /\ DOMAIN call = CallFields
  BY DEF ProfilesAnswered, ProfilesWaits, Bookkept
<1>2. ASSUME NEW said \in BOOLEAN, Settled(s, said), Finished(s) \/ Failed(s)
      PROVE  ProfilesWaits'
  <2>1. CASE ~Heard(s)
    BY <1>2, <2>1, SettledAsks DEF Finished, Failed, ProfilesWaits
  <2>2. CASE Heard(s)
    <3>1. DOMAIN ui' = DOMAIN ui /\ ui'.pending = FALSE
      BY <1>2, <2>2 DEF Finished, Failed, ProfilesWaits, ProfilesFresh
    <3> QED
      BY <1>2, <2>2, <3>1, SettledAsks DEF ProfilesWaits
  <2> QED
    BY <2>1, <2>2
<1>3. ASSUME NEW next, Chained(s, next), UNCHANGED ui,
             DOMAIN next = CallFields /\ next.mount = call.mount /\ ~next.given
      PROVE  ProfilesWaits'
  BY <1>1, <1>3, GoesOnWaits DEF Chained
<1>4. ASSUME NEW seen, Bind(s, seen) PROVE ProfilesWaits'
  <2> DEFINE patch == tailoredProfileBindingPatch(call.base.tailored, call.about.name, call.base.rv)
             next  == [call EXCEPT !.of = "baseline", !.kind = "bind", !.served = "no",
                                   !.patch = patch, !.about.rv = seen.rv]
  <2>1. \/ Settled(s, TRUE) /\ (Finished(s) \/ Failed(s))
        \/ Chained(s, next) /\ UNCHANGED ui
    BY <1>4 DEF Bind
  <2> HIDE DEF patch
  <2>2. DOMAIN next = CallFields /\ next.mount = call.mount /\ ~next.given
    BY <1>1 DEF CallFields
  <2> HIDE DEF next
  <2> QED
    BY <1>2, <1>3, <2>1, <2>2
<1>5. CASE call.kind = "create" /\ fulfilled
  BY <1>4, <1>5 DEF ProfilesAnswered
<1>6. CASE call.kind = "create" /\ ~fulfilled
  <2> DEFINE next == [call EXCEPT !.kind = "adopt", !.served = "no"]
  <2>1. \/ Chained(s, next) /\ UNCHANGED ui
        \/ Settled(s, FALSE) /\ Failed(s)
    BY <1>6 DEF ProfilesAnswered
  <2>2. DOMAIN next = CallFields /\ next.mount = call.mount /\ ~next.given
    BY <1>1 DEF CallFields
  <2> HIDE DEF next
  <2> QED
    BY <1>2, <1>3, <2>1, <2>2
<1>7. CASE call.kind = "adopt" /\ fulfilled
  <2>1. Bind(s, call.patch) \/ (Settled(s, TRUE) /\ Failed(s))
    BY <1>7 DEF ProfilesAnswered
  <2> QED
    BY <1>2, <1>4, <2>1
<1>8. CASE call.kind # "create" /\ ~(call.kind = "adopt" /\ fulfilled)
  <2>1. Settled(s, fulfilled) /\ (Finished(s) \/ Failed(s))
    BY <1>8 DEF ProfilesAnswered
  <2> QED
    BY <1>2, <2>1
<1> QED
  BY <1>5, <1>6, <1>7, <1>8

LEMMA ProfilesStepWaits ==
    ASSUME ProfilesWaits, [ProfilesNext]_profilesVars
    PROVE  ProfilesWaits'
<1>1. CASE ProfilesClicks
  BY <1>1, ProfilesClicksWait
<1>2. ASSUME NEW f \in fetches, NEW found \in BOOLEAN, FetchAnswered(f, found) PROVE ProfilesWaits'
  <2>1. UNCHANGED <<calls, mount>> /\ DOMAIN ui' = DOMAIN ui /\ ui'.pending = ui.pending
    BY <1>2 DEF FetchAnswered, shared, ProfilesWaits, ProfilesFresh
  <2> QED
    BY <2>1, ProfilesQuietWaits
<1>3. ASSUME NEW s \in Slots, ProfilesServer(s) PROVE ProfilesWaits'
  BY <1>3, ServeAsks DEF ProfilesServer, ProfilesWaits
<1>4. ASSUME NEW s \in Slots, ServeProfile(s) PROVE ProfilesWaits'
  BY <1>4, ServeProfileWaits
<1>5. ASSUME NEW s \in Slots, NEW fulfilled \in BOOLEAN, ProfilesAnswered(s, fulfilled)
      PROVE  ProfilesWaits'
  BY <1>5, AnsweredWaits
<1>6. CASE ProfilesReopen
  BY <1>6, RemountAsksNothing DEF ProfilesReopen, Remount, ProfilesWaits, ProfilesFresh
<1>7. CASE ProfilesOthers \/ (Deliver /\ UNCHANGED ui) \/ (Review /\ UNCHANGED ui) \/ UNCHANGED profilesVars
  <2>1. UNCHANGED <<calls, mount, ui>>
    BY <1>7 DEF ProfilesOthers, OtherWrites, Deliver, Review, profilesVars, shared
  <2> QED
    BY <2>1, ProfilesQuietWaits
<1> QED
  BY <1>1, <1>2, <1>3, <1>4, <1>5, <1>6, <1>7 DEF ProfilesNext, ProfilesEnvironment

\* The Profiles tab is busy exactly while a request it sent since it was opened is
\* unanswered: through the whole chain, and no longer when it breaks off.
THEOREM ProfilesBusy == ProfilesSpec => []ProfilesBusyIsRequest
<1>1. ProfilesWaits => ProfilesBusyIsRequest
  BY DEF ProfilesWaits, ProfilesBusyIsRequest, Asking, Asked
<1> QED
  BY ProfilesInitWaits, ProfilesStepWaits, <1>1, PTL DEF ProfilesSpec

------------------------------------------------------------------------------
(* a profile is bound as the one that was typed *)

Profile(p) == DOMAIN p = {"there", "rv", "spec"} /\ p.rv \in Nat

\* who saw a profile say this, at this version, saw what it is or what it was
Sees(p, rv, spec) ==
    /\ rv \in Nat /\ rv <= p.rv
    /\ rv = p.rv => p.there /\ p.spec = spec

\* profiles are only ever replaced by their next version
Grown(old, new) ==
    \A n \in Names :
        /\ Profile(new[n])
        /\ new[n] = old[n] \/ (new[n].there /\ new[n].rv = old[n].rv + 1)

ChainOf(call) == call.kind \in {"create", "adopt", "update", "bind"}

\* what each request of the chain knows
Knows(call, profiles) ==
    /\ DOMAIN call = CallFields
    /\ ChainOf(call) =>
          DOMAIN call.about = {"name", "spec", "rv"} /\ call.about.name \in Names
    /\ call.kind \in {"create", "adopt"} /\ call.served = "landed" =>
          Sees(profiles[call.about.name], call.patch.rv, call.patch.spec)
    /\ call.kind = "create" /\ call.served = "landed" => call.patch.spec = call.about.spec
    /\ call.kind = "bind" =>
          Sees(profiles[call.about.name], call.about.rv, call.about.spec)

OfItsKind(call) == call.of = "profile" <=> call.kind \in {"create", "adopt", "update"}

Knowing ==
    /\ CallsTyped
    /\ stored = [n \in Names |-> stored[n]]
    /\ \A n \in Names : Profile(stored[n])
    /\ \A s \in Slots : calls[s] # NoCall => Knows(calls[s], stored)
    /\ \A s \in Slots : calls[s] # NoCall => OfItsKind(calls[s])

LEMMA InitKnowing == ProfilesInit => Knowing
BY DEF ProfilesInit, Knowing, CallsTyped, Profile

\* what was seen of a profile stays seen
LEMMA SeenStays ==
    ASSUME Knowing, Grown(stored, stored')
    PROVE  \A call : Knows(call, stored) => Knows(call, stored')
<1>1. \A n \in Names : \A rv, spec :
          Sees(stored[n], rv, spec) => Sees(stored'[n], rv, spec)
  BY DEF Knowing, Grown, Profile, Sees
<1> QED
  BY <1>1 DEF Knows, ChainOf

\* one request changes, and knows what it says
LEMMA OneKnows ==
    ASSUME Knowing, Grown(stored, stored'), stored' = [n \in Names |-> stored'[n]],
           NEW s \in Slots, NEW next, calls' = [calls EXCEPT ![s] = next],
           next # NoCall => Knows(next, stored') /\ OfItsKind(next)
    PROVE  Knowing'
<1>1. CallsTyped' /\ calls'[s] = next /\ \A r \in Slots : r # s => calls'[r] = calls[r]
  BY DEF Knowing, CallsTyped
<1>2. \A call : Knows(call, stored) => Knows(call, stored')
  BY SeenStays
<1> QED
  BY <1>1, <1>2 DEF Knowing, Grown

\* no request changes
LEMMA QuietKnows ==
    ASSUME Knowing, UNCHANGED calls, Grown(stored, stored'), stored' = [n \in Names |-> stored'[n]]
    PROVE  Knowing'
BY SeenStays DEF Knowing, Grown, CallsTyped

LEMMA SameGrown ==
    ASSUME Knowing, UNCHANGED stored
    PROVE  Grown(stored, stored') /\ stored' = [n \in Names |-> stored'[n]]
BY DEF Knowing, Grown

\* a new request that is not of a chain, or opens one
LEMMA SendKnows ==
    ASSUME Knowing, UNCHANGED stored, NEW of, NEW kind, NEW about, NEW base, NEW patch,
           Send(of, kind, about, base, patch),
           \/ of = "baseline" /\ kind \in {"toggle", "last", "unbind"}
           \/ /\ of = "profile" /\ kind \in {"create", "update"}
              /\ DOMAIN about = {"name", "spec", "rv"} /\ about.name \in Names
    PROVE  Knowing'
<1> DEFINE call == [of |-> of, kind |-> kind, about |-> about, base |-> base,
                    patch |-> patch, mount |-> mount, served |-> "no", given |-> FALSE]
<1>1. PICK s \in Slots : calls' = [calls EXCEPT ![s] = call]
  BY DEF Send
<1>2. /\ DOMAIN call = CallFields /\ call.of = of /\ call.kind = kind /\ call.about = about
      /\ call.served = "no"
  BY DEF CallFields
<1> HIDE DEF call
<1>3. Knows(call, stored')
  BY <1>2 DEF Knows, ChainOf
<1>4. OfItsKind(call)
  BY <1>2 DEF OfItsKind
<1> QED
  BY <1>1, <1>3, <1>4, SameGrown, OneKnows

\* a request settles
LEMMA SettledKnows ==
    ASSUME Knowing, UNCHANGED stored, NEW s \in Slots, NEW said, Settled(s, said)
    PROVE  Knowing'
<1> DEFINE gave == [calls[s] EXCEPT !.given = TRUE]
           next == IF Pending(s) THEN gave ELSE NoCall
<1>1. calls[s] # NoCall /\ calls' = [calls EXCEPT ![s] = next]
  BY DEF Settled
<1>2. Knows(calls[s], stored) /\ OfItsKind(calls[s])
  BY <1>1 DEF Knowing
<1>3. /\ DOMAIN gave = CallFields /\ gave.of = calls[s].of /\ gave.kind = calls[s].kind
      /\ gave.about = calls[s].about /\ gave.served = calls[s].served
      /\ gave.patch = calls[s].patch
  BY <1>2 DEF Knows, CallFields
<1> HIDE DEF gave
<1>4. Knows(gave, stored') /\ OfItsKind(gave)
  BY <1>2, <1>3 DEF Knows, ChainOf, OfItsKind
<1> QED
  BY <1>1, <1>4, SameGrown, OneKnows

LEMMA ClicksKnow ==
    ASSUME Knowing, ProfilesClicks
    PROVE  Knowing'
<1>1. UNCHANGED stored
  BY DEF ProfilesClicks, Switch, TurnOffScanning, OpenUnbind, unbindTailored, openEdit, OpenCreate,
         TypeProfile, createTailored, closeCreateModal, ProfilesElsewhere
<1>2. CASE UNCHANGED calls
  BY <1>1, <1>2, SameGrown, QuietKnows
<1>3. ASSUME NEW key \in Keys, Switch(key) PROVE Knowing'
  <2>1. UNCHANGED calls \/ \E about, patch : Send("baseline", "toggle", about, watched, patch)
    BY <1>3 DEF Switch
  <2> QED
    BY <1>1, <1>2, <2>1, SendKnows
<1>4. CASE TurnOffScanning
  <2>1. UNCHANGED calls \/ \E about, patch : Send("baseline", "last", about, watched, patch)
    BY <1>4 DEF TurnOffScanning, Refused
  <2> QED
    BY <1>1, <1>2, <2>1, SendKnows
<1>5. CASE unbindTailored
  <2>1. UNCHANGED calls \/ \E about, patch : Send("baseline", "unbind", about, watched, patch)
    BY <1>5 DEF unbindTailored, Refused
  <2> QED
    BY <1>1, <1>2, <2>1, SendKnows
<1>6. CASE createTailored
  <2>1. PICK name \in Names \union {BadName}, spec \in Specs :
          \/ UNCHANGED calls
          \/ /\ name # BadName
             /\ \E kind \in {"create", "update"} :
                  Send("profile", kind, [name |-> name, spec |-> spec, rv |-> 0], watched, ui.form.obj)
    BY <1>6 DEF createTailored, Refused
  <2> DEFINE about == [name |-> name, spec |-> spec, rv |-> 0]
  <2>2. DOMAIN about = {"name", "spec", "rv"} /\ about.name = name
    OBVIOUS
  <2>3. UNCHANGED calls \/ (name \in Names /\ \E kind \in {"create", "update"} :
                              Send("profile", kind, about, watched, ui.form.obj))
    BY <2>1
  <2> HIDE DEF about
  <2> QED
    BY <1>1, <1>2, <2>2, <2>3, SendKnows
<1>7. CASE (\E name \in Names : OpenUnbind(name) \/ openEdit(name))
           \/ OpenCreate \/ TypeProfile \/ closeCreateModal
  <2>1. UNCHANGED calls
    BY <1>7 DEF OpenUnbind, openEdit, OpenCreate, TypeProfile, closeCreateModal, Refused
  <2> QED
    BY <1>2, <2>1
<1> QED
  BY <1>3, <1>4, <1>5, <1>6, <1>7 DEF ProfilesClicks

\* the API server answers with the profile as it is then
LEMMA ServeProfileKnows ==
    ASSUME Knowing, NEW s \in Slots, ServeProfile(s)
    PROVE  Knowing'
<1> DEFINE call   == calls[s]
           name   == call.about.name
           ok     == CASE call.kind = "create" -> ~stored[name].there
                       [] call.kind = "update" -> UpdateAccepted(name, call.patch.rv)
                       [] OTHER -> stored[name].there
           served == IF ok THEN "landed" ELSE "refused"
           patch  == stored'[name]
           went   == [call EXCEPT !.served = served, !.patch = patch]
           next   == [there |-> TRUE, rv |-> stored[name].rv + 1, spec |-> call.about.spec]
<1>1. calls' = [calls EXCEPT ![s] = IF call.given THEN NoCall ELSE went]
  BY DEF ServeProfile
<1>2. stored' = IF ok /\ call.kind # "adopt" THEN [stored EXCEPT ![name] = next] ELSE stored
  BY DEF ServeProfile
<1>3. call # NoCall /\ call.of = "profile" /\ Knows(call, stored)
  BY DEF ServeProfile, Pending, Knowing
<1>4. call # NoCall /\ call.of = "profile" /\ call.kind \in {"create", "adopt", "update"}
  BY DEF ServeProfile, Pending, Knowing, OfItsKind
<1>5. DOMAIN call = CallFields /\ DOMAIN call.about = {"name", "spec", "rv"} /\ name \in Names
  BY <1>3, <1>4 DEF Knows, ChainOf
<1>6. next.there /\ next.rv = stored[name].rv + 1 /\ next.spec = call.about.spec /\ Profile(next)
  BY <1>5 DEF Profile, Knowing
<1>7. DOMAIN stored = Names
  BY DEF Knowing
<1> DEFINE changed == ok /\ call.kind # "adopt"
<1>8. /\ stored' = [n \in Names |-> stored'[n]]
      /\ \A n \in Names : n # name => stored'[n] = stored[n]
      /\ stored'[name] = IF changed THEN next ELSE stored[name]
  <2>1. stored' = IF changed THEN [stored EXCEPT ![name] = next] ELSE stored
    BY <1>2
  <2>2. stored = [n \in Names |-> stored[n]]
    BY DEF Knowing
  <2> HIDE DEF changed, next
  <2>3. CASE changed
    <3>1. stored' = [stored EXCEPT ![name] = next]
      BY <2>1, <2>3
    <3> QED
      BY <1>5, <1>7, <2>3, <3>1
  <2>4. CASE ~changed
    <3>1. stored' = stored
      BY <2>1, <2>4
    <3> QED
      BY <2>2, <2>4, <3>1
  <2> QED
    BY <2>3, <2>4
<1>9. Grown(stored, stored')
  BY <1>6, <1>8 DEF Grown, Knowing
<1>10. /\ call.kind = "create" /\ ok => patch = next
       /\ call.kind = "adopt" /\ ok => patch = stored[name] /\ stored[name].there
  BY <1>8
<1>11. /\ DOMAIN went = CallFields /\ went.kind = call.kind /\ went.of = call.of
       /\ went.about = call.about
       /\ went.patch = patch /\ went.served = served
  BY <1>5 DEF CallFields
<1>12. served = "landed" => ok
  OBVIOUS
<1>13. stored'[name] = patch
  OBVIOUS
<1>14. Profile(stored[name])
  BY <1>5 DEF Knowing
<1> HIDE DEF went, patch, served, next, ok
<1>15. Knows(went, stored')
  <2>1. went.kind \in {"create", "adopt"} /\ went.served = "landed" =>
            Sees(patch, patch.rv, patch.spec)
    BY <1>6, <1>10, <1>11, <1>12, <1>14 DEF Sees, Profile
  <2>2. went.kind = "create" /\ went.served = "landed" => patch.spec = call.about.spec
    BY <1>6, <1>10, <1>11, <1>12
  <2>3. went.kind # "bind"
    BY <1>4, <1>11
  <2> QED
    BY <1>5, <1>11, <1>13, <2>1, <2>2, <2>3 DEF Knows, ChainOf
<1>16. OfItsKind(went)
  BY <1>4, <1>11 DEF OfItsKind
<1> QED
  BY <1>1, <1>8, <1>9, <1>15, <1>16, OneKnows

\* the binding that goes out is of a profile that says what was typed
LEMMA BindKnows ==
    ASSUME Knowing, UNCHANGED stored, NEW s \in Slots, calls[s] # NoCall,
           calls[s].kind \in {"create", "adopt"},
           Sees(stored[calls[s].about.name], calls[s].patch.rv, calls[s].about.spec),
           Bind(s, calls[s].patch)
    PROVE  Knowing'
<1> DEFINE call  == calls[s]
           patch == tailoredProfileBindingPatch(call.base.tailored, call.about.name, call.base.rv)
           next  == [call EXCEPT !.of = "baseline", !.kind = "bind", !.served = "no",
                                 !.patch = patch, !.about.rv = call.patch.rv]
<1>1. CASE Settled(s, TRUE)
  BY <1>1, SettledKnows
<1>2. CASE Chained(s, next)
  <2>1. Knows(call, stored) /\ ChainOf(call)
    BY DEF Knowing, ChainOf
  <2> HIDE DEF patch
  <2>2. /\ DOMAIN next = CallFields /\ next.of = "baseline" /\ next.kind = "bind"
        /\ DOMAIN next.about = {"name", "spec", "rv"}
        /\ next.about.name = call.about.name /\ next.about.spec = call.about.spec
        /\ next.about.rv = call.patch.rv
    BY <2>1 DEF Knows, CallFields
  <2> HIDE DEF next
  <2>3. Knows(next, stored')
    BY <2>1, <2>2 DEF Knows, ChainOf
  <2>4. OfItsKind(next)
    BY <2>2 DEF OfItsKind
  <2>5. calls' = [calls EXCEPT ![s] = next]
    BY <1>2 DEF Chained
  <2> QED
    BY <2>3, <2>4, <2>5, SameGrown, OneKnows
<1> QED
  BY <1>1, <1>2 DEF Bind

LEMMA AnsweredKnows ==
    ASSUME Knowing, NEW s \in Slots, NEW fulfilled \in BOOLEAN, ProfilesAnswered(s, fulfilled)
    PROVE  Knowing'
<1> DEFINE call == calls[s]
<1>1. call # NoCall /\ UNCHANGED stored /\ Knows(call, stored)
  BY DEF ProfilesAnswered, Knowing
<1>2. CASE \E said : Settled(s, said)
  BY <1>1, <1>2, SettledKnows
<1>3. CASE call.kind = "create" /\ fulfilled
  <2>1. call.served = "landed" /\ Bind(s, call.patch)
    BY <1>3 DEF ProfilesAnswered
  <2> QED
    BY <1>1, <1>3, <2>1, BindKnows DEF Knows
<1>4. CASE call.kind = "create" /\ ~fulfilled
  <2> DEFINE next == [call EXCEPT !.kind = "adopt", !.served = "no"]
  <2>1. Chained(s, next) \/ Settled(s, FALSE)
    BY <1>4 DEF ProfilesAnswered
  <2>2. /\ DOMAIN next = CallFields /\ next.of = call.of /\ next.kind = "adopt"
        /\ next.about = call.about /\ next.served = "no"
    BY <1>1 DEF Knows, CallFields
  <2> HIDE DEF next
  <2>3. Knows(next, stored')
    BY <1>1, <1>4, <2>2 DEF Knows, ChainOf
  <2>4. OfItsKind(next)
    BY <1>1, <1>4, <2>2 DEF Knowing, OfItsKind
  <2>5. ASSUME Chained(s, next) PROVE Knowing'
    <3>1. calls' = [calls EXCEPT ![s] = next]
      BY <2>5 DEF Chained
    <3> QED
      BY <1>1, <2>3, <2>4, <3>1, SameGrown, OneKnows
  <2> QED
    BY <1>2, <2>1, <2>5
<1>5. CASE call.kind = "adopt" /\ fulfilled
  <2>1. /\ call.served = "landed"
        /\ \/ tailoredProfileSpecMatches(call.patch.spec, call.about.spec) /\ Bind(s, call.patch)
           \/ Settled(s, TRUE)
    BY <1>5 DEF ProfilesAnswered
  <2> QED
    BY <1>1, <1>2, <1>5, <2>1, BindKnows DEF Knows, tailoredProfileSpecMatches
<1>6. CASE call.kind # "create" /\ ~(call.kind = "adopt" /\ fulfilled)
  BY <1>2, <1>6 DEF ProfilesAnswered
<1> QED
  BY <1>3, <1>4, <1>5, <1>6

\* one profile is replaced by its next version
LEMMA NextVersionGrows ==
    ASSUME Knowing, NEW name \in Names, NEW spec,
           stored' = [stored EXCEPT ![name] =
                         [there |-> TRUE, rv |-> stored[name].rv + 1, spec |-> spec]]
    PROVE  Grown(stored, stored') /\ stored' = [n \in Names |-> stored'[n]]
<1> DEFINE next == [there |-> TRUE, rv |-> stored[name].rv + 1, spec |-> spec]
<1>1. next.there /\ next.rv = stored[name].rv + 1 /\ Profile(next)
  BY DEF Profile, Knowing
<1>2. stored' = [stored EXCEPT ![name] = next]
  OBVIOUS
<1> HIDE DEF next
<1> QED
  BY <1>1, <1>2 DEF Grown, Knowing

LEMMA OthersKnow ==
    ASSUME Knowing, ProfilesOthers
    PROVE  Knowing'
<1>1. CASE UNCHANGED <<calls, stored>>
  BY <1>1, SameGrown, QuietKnows
<1>2. ASSUME NEW name \in Names, NEW spec \in Specs, UNCHANGED calls,
             stored' = [stored EXCEPT ![name] =
                           [there |-> TRUE, rv |-> stored[name].rv + 1, spec |-> spec]]
      PROVE  Knowing'
  BY <1>2, NextVersionGrows, QuietKnows
<1> QED
  BY <1>1, <1>2 DEF ProfilesOthers, OtherWrites

LEMMA StepKnows ==
    ASSUME Knowing, [ProfilesNext]_profilesVars
    PROVE  Knowing'
<1>1. CASE ProfilesClicks
  BY <1>1, ClicksKnow
<1>2. ASSUME NEW s \in Slots, ProfilesServer(s) PROVE Knowing'
  <2>1. /\ calls[s] # NoCall /\ calls[s].of = "baseline" /\ UNCHANGED stored
        /\ \E ok : Decided(s, ok)
    BY <1>2 DEF ProfilesServer, Serve, Pending
  <2>2. Knows(calls[s], stored) /\ OfItsKind(calls[s])
    BY <2>1 DEF Knowing
  <2>3. PICK served : calls' = [calls EXCEPT ![s] =
                          IF calls[s].given THEN NoCall ELSE [calls[s] EXCEPT !.served = served]]
    BY <2>1 DEF Decided
  <2> DEFINE next == [calls[s] EXCEPT !.served = served]
  <2>4. /\ DOMAIN next = CallFields /\ next.of = calls[s].of /\ next.kind = calls[s].kind
        /\ next.about = calls[s].about
    BY <2>2 DEF Knows, CallFields
  <2> HIDE DEF next
  <2>5. Knows(next, stored') /\ OfItsKind(next)
    BY <2>1, <2>2, <2>4 DEF Knows, ChainOf, OfItsKind
  <2>6. calls' = [calls EXCEPT ![s] = IF calls[s].given THEN NoCall ELSE next]
    BY <2>3 DEF next
  <2> QED
    BY <2>1, <2>5, <2>6, SameGrown, OneKnows
<1>3. ASSUME NEW s \in Slots, ServeProfile(s) PROVE Knowing'
  BY <1>3, ServeProfileKnows
<1>4. ASSUME NEW s \in Slots, NEW fulfilled \in BOOLEAN, ProfilesAnswered(s, fulfilled)
      PROVE  Knowing'
  BY <1>4, AnsweredKnows
<1>5. CASE ProfilesOthers
  BY <1>5, OthersKnow
<1>6. CASE (\E f \in fetches, found \in BOOLEAN : FetchAnswered(f, found))
           \/ ProfilesReopen \/ ((Deliver \/ Review) /\ UNCHANGED stored) \/ UNCHANGED profilesVars
  <2>1. UNCHANGED <<calls, stored>>
    BY <1>6 DEF FetchAnswered, ProfilesReopen, Remount, Deliver, Review, profilesVars, shared
  <2> QED
    BY <2>1, SameGrown, QuietKnows
<1> QED
  BY <1>1, <1>2, <1>3, <1>4, <1>5, <1>6 DEF ProfilesNext, ProfilesEnvironment

LEMMA KnowingBinds == Knowing => ProfilesBoundAsTyped
<1> SUFFICES ASSUME Knowing, NEW s \in Slots, calls[s] # NoCall, calls[s].kind = "bind",
                    stored[calls[s].about.name].rv = calls[s].about.rv
             PROVE  /\ stored[calls[s].about.name].there
                    /\ stored[calls[s].about.name].spec = calls[s].about.spec
  BY DEF ProfilesBoundAsTyped
<1>1. Knows(calls[s], stored)
  BY DEF Knowing
<1> QED
  BY <1>1 DEF Knows, Sees

\* A profile that is bound, and was not rewritten since, says what was typed: a
\* profile of the same name that somebody else created is never taken for it.
THEOREM ProfilesBinding == ProfilesSpec => []ProfilesBoundAsTyped
BY InitKnowing, StepKnows, KnowingBinds, PTL DEF ProfilesSpec

------------------------------------------------------------------------------
(* the form is about the profile that is wanted *)

\* only the read of the profile whose Edit was clicked last still counts, and it
\* finds no form open but a new one
FormFields == {"mode", "name", "obj", "typed"}

Wanting ==
    /\ DOMAIN ui = DOMAIN ProfilesFresh
    /\ ui.form # None => DOMAIN ui.form = FormFields /\ ui.form.mode \in {"create", "edit"}
    /\ fetches \subseteq [name : Names, live : BOOLEAN]
    /\ \A f \in fetches : f.live => f.name = ui.wanted /\ f.name = ui.loading
    /\ ui.form # None /\ ui.form.mode = "edit" => \A f \in fetches : ~f.live
    /\ ProfilesFormIsWanted

LEMMA InitWanting == ProfilesInit => Wanting
BY DEF ProfilesInit, ProfilesFresh, Wanting, ProfilesFormIsWanted

\* none counts
LEMMA SupersededIsDead ==
    ASSUME Wanting
    PROVE  \A f \in Superseded : f \in [name : Names, live : BOOLEAN] /\ ~f.live
BY DEF Superseded, Wanting

\* a step that fills no form, and wants nothing else
LEMMA SameWanted ==
    ASSUME Wanting, DOMAIN ui' = DOMAIN ui, ui'.wanted = ui.wanted,
           ui'.form \in {ui.form, None},
           \/ fetches' \subseteq fetches /\ ui'.loading = ui.loading
           \/ fetches' = Superseded
    PROVE  Wanting'
BY SupersededIsDead DEF Wanting, ProfilesFormIsWanted

LEMMA ClicksWant ==
    ASSUME Wanting, ProfilesClicks
    PROVE  Wanting'
<1>1. CASE \E name \in Names : openEdit(name)
  <2>1. PICK name \in Names : openEdit(name)
    BY <1>1
  <2>2. ui.form = None
    BY <2>1 DEF openEdit, anyDialogOpen
  <2>3. CASE UNCHANGED <<fetches, ui>>
    BY <2>3 DEF Wanting, ProfilesFormIsWanted
  <2>4. CASE /\ fetches' = Superseded \union {[name |-> name, live |-> TRUE]}
             /\ ui' = [ui EXCEPT !.loading = name, !.wanted = name]
    <3>1. DOMAIN ui' = DOMAIN ProfilesFresh /\ ui'.form = None /\ ui'.wanted = name
      BY <2>2, <2>4 DEF Wanting, ProfilesFresh
    <3> DEFINE new == [name |-> name, live |-> TRUE]
    <3>2. \A f \in fetches' : f \in [name : Names, live : BOOLEAN] /\ (f.live => f.name = name)
      <4>1. new \in [name : Names, live : BOOLEAN] /\ new.name = name
        OBVIOUS
      <4>2. \A f \in fetches' : f \in Superseded \/ f = new
        BY <2>4
      <4> HIDE DEF new
      <4> QED
        BY <4>1, <4>2, SupersededIsDead
    <3>3. ui'.loading = name
      BY <2>4 DEF Wanting, ProfilesFresh
    <3> QED
      BY <3>1, <3>2, <3>3 DEF Wanting, ProfilesFormIsWanted
  <2> QED
    BY <2>1, <2>3, <2>4 DEF openEdit, Refused
<1>2. CASE OpenCreate
  <2>1. /\ DOMAIN ui' = DOMAIN ProfilesFresh /\ ui'.wanted = ui.wanted /\ UNCHANGED fetches
        /\ ui'.loading = ui.loading /\ DOMAIN ui'.form = FormFields /\ ui'.form.mode = "create"
    BY <1>2 DEF OpenCreate, Wanting, ProfilesFresh, FormFields
  <2> QED
    BY <2>1 DEF Wanting, ProfilesFormIsWanted
<1>3. CASE \/ \E key \in Keys : Switch(key)
           \/ \E name \in Names : OpenUnbind(name)
           \/ TurnOffScanning \/ unbindTailored \/ createTailored \/ closeCreateModal
  <2>1. /\ DOMAIN ui' = DOMAIN ui /\ ui'.wanted = ui.wanted /\ ui'.form \in {ui.form, None}
        /\ \/ fetches' \subseteq fetches /\ ui'.loading = ui.loading
           \/ fetches' = Superseded
    BY <1>3 DEF Switch, TurnOffScanning, OpenUnbind, unbindTailored, createTailored,
                closeCreateModal, Refused, Wanting, ProfilesFresh
  <2> QED
    BY <2>1, SameWanted
<1>4. CASE TypeProfile
  <2>1. /\ DOMAIN ui' = DOMAIN ui /\ UNCHANGED fetches
        /\ ui'.wanted = ui.wanted /\ ui'.loading = ui.loading
        /\ ui.form # None /\ ui'.form = [ui.form EXCEPT !.typed = TRUE]
    BY <1>4 DEF TypeProfile, Wanting, ProfilesFresh
  <2>2. /\ DOMAIN ui'.form = FormFields
        /\ ui'.form.mode = ui.form.mode /\ ui'.form.name = ui.form.name
    BY <2>1 DEF Wanting, FormFields
  <2> QED
    BY <2>1, <2>2 DEF Wanting, ProfilesFormIsWanted
<1> QED
  BY <1>1, <1>2, <1>3, <1>4 DEF ProfilesClicks

LEMMA FetchAnsweredWants ==
    ASSUME Wanting, NEW f \in fetches, NEW found \in BOOLEAN, FetchAnswered(f, found)
    PROVE  Wanting'
<1>1. fetches' \subseteq fetches
  BY DEF FetchAnswered
<1>2. CASE ~f.live
  <2>1. ui' = ui
    BY <1>2 DEF FetchAnswered
  <2> QED
    BY <1>1, <2>1, SameWanted DEF Wanting
<1>3. CASE f.live
  <2>1. \A g \in fetches : g.live => g = f
    BY <1>3 DEF Wanting
  <2>2. \A g \in fetches' : ~g.live
    BY <2>1 DEF FetchAnswered
  <2>3. CASE ~found
    <3>1. DOMAIN ui' = DOMAIN ui /\ ui'.wanted = ui.wanted /\ ui'.form = ui.form
      BY <1>3, <2>3 DEF FetchAnswered, Wanting, ProfilesFresh
    <3> QED
      BY <1>1, <2>2, <3>1 DEF Wanting, ProfilesFormIsWanted
  <2>4. CASE found
    <3>1. /\ DOMAIN ui' = DOMAIN ProfilesFresh /\ ui'.wanted = ui.wanted
          /\ ui'.form = Filled(f.name)
      BY <1>3, <2>4 DEF FetchAnswered, Wanting, ProfilesFresh
    <3>2. DOMAIN ui'.form = FormFields /\ ui'.form.name = f.name /\ ui'.form.mode = "edit"
      BY <3>1 DEF Filled, FormFields
    <3> QED
      BY <1>1, <1>3, <2>2, <3>1, <3>2 DEF Wanting, ProfilesFormIsWanted
  <2> QED
    BY <2>3, <2>4
<1> QED
  BY <1>2, <1>3

LEMMA StepWants ==
    ASSUME Wanting, [ProfilesNext]_profilesVars
    PROVE  Wanting'
<1>1. CASE ProfilesClicks
  BY <1>1, ClicksWant
<1>2. ASSUME NEW f \in fetches, NEW found \in BOOLEAN, FetchAnswered(f, found) PROVE Wanting'
  BY <1>2, FetchAnsweredWants
<1>3. ASSUME NEW s \in Slots, NEW fulfilled \in BOOLEAN, ProfilesAnswered(s, fulfilled)
      PROVE  Wanting'
  <2>1. UNCHANGED fetches /\ (UNCHANGED ui \/ Finished(s) \/ Failed(s))
    BY <1>3 DEF ProfilesAnswered, Bind
  <2>2. /\ DOMAIN ui' = DOMAIN ui /\ ui'.wanted = ui.wanted /\ ui'.form \in {ui.form, None}
        /\ ui'.loading = ui.loading
    BY <2>1 DEF Finished, Failed, Wanting, ProfilesFresh
  <2> QED
    BY <2>1, <2>2, SameWanted
<1>4. CASE ProfilesReopen
  BY <1>4 DEF ProfilesReopen, ProfilesFresh, Wanting, ProfilesFormIsWanted
<1>5. CASE \/ \E s \in Slots : ProfilesServer(s) \/ ServeProfile(s)
           \/ ProfilesOthers \/ ((Deliver \/ Review) /\ UNCHANGED <<stored, fetches, ui>>)
           \/ UNCHANGED profilesVars
  <2>1. UNCHANGED <<fetches, ui>>
    BY <1>5 DEF ProfilesServer, ServeProfile, ProfilesOthers, profilesVars
  <2> QED
    BY <2>1, SameWanted DEF Wanting
<1> QED
  BY <1>1, <1>2, <1>3, <1>4, <1>5 DEF ProfilesNext, ProfilesEnvironment

\* Save never rewrites a profile other than the one whose Edit was clicked last,
\* in whatever order the reads of openEdit come back.
THEOREM ProfilesForm == ProfilesSpec => []ProfilesFormIsWanted
<1>1. Wanting => ProfilesFormIsWanted
  BY DEF Wanting
<1> QED
  BY InitWanting, StepWants, <1>1, PTL DEF ProfilesSpec

------------------------------------------------------------------------------
(* lists without an entry *)

LEMMA WithoutIsList ==
    ASSUME NEW S, NEW list \in Seq(S), NEW entry
    PROVE  Without(list, entry) \in Seq(S)
BY KeptMembers DEF Without

LEMMA AppendIsNotEmpty ==
    ASSUME NEW S, NEW list \in Seq(S), NEW e \in S
    PROVE  Append(list, e) \in Seq(S) /\ Append(list, e) # <<>>
<1>1. Len(Append(list, e)) = Len(list) + 1 /\ Len(list) \in Nat
  OBVIOUS
<1>2. Len(<<>>) = 0
  OBVIOUS
<1> QED
  BY <1>1, <1>2

------------------------------------------------------------------------------
(* scanning is turned off only by who confirmed it *)

\* the two lists of what is scanned
ListsOf(object) ==
    /\ {"profiles", "tailored"} \subseteq DOMAIN object
    /\ object.profiles \in Seq(Keys) \union {Absent}
    /\ object.tailored \in Seq(Names) \union {Absent}

\* the dialog that sent it said that nothing would be scanned
Warned(call) == call.kind = "last" \/ (call.kind = "unbind" /\ call.about)

\* what a request makes of the baseline it was decided on
Leaves(call) ==
    LET next == Patched(call.base, call.patch.write)
    IN  /\ ListsOf(next)
        /\ Warned(call) \/ ~scanningDisabled(next)

Confirming ==
    /\ ListsOf(server) /\ ListsOf(watched)
    /\ \A s \in Slots : calls[s] # NoCall =>
          /\ ListsOf(calls[s].base)
          /\ calls[s].of = "baseline" => Leaves(calls[s])

LEMMA ListOfIsList ==
    ASSUME NEW S, NEW member \in Seq(S) \union {Absent}
    PROVE  ListOf(member) \in Seq(S)
BY DEF ListOf

\* the members of a list are told apart by setting one
LEMMA SetLeaves ==
    ASSUME NEW object, ListsOf(object), NEW val
    PROVE  /\ val \in Seq(Keys) =>
                /\ ListsOf(Patched(object, Set("profiles", val)))
                /\ Patched(object, Set("profiles", val)).profiles = val
                /\ Patched(object, Set("profiles", val)).tailored = object.tailored
           /\ val \in Seq(Names) =>
                /\ ListsOf(Patched(object, Set("tailored", val)))
                /\ Patched(object, Set("tailored", val)).tailored = val
                /\ Patched(object, Set("tailored", val)).profiles = object.profiles
<1>1. \A field \in {"profiles", "tailored"} :
        /\ DOMAIN Patched(object, Set(field, val)) = DOMAIN object
        /\ Patched(object, Set(field, val))[field] = val
        /\ \A other \in {"profiles", "tailored"} : other # field =>
              Patched(object, Set(field, val))[other] = object[other]
  BY DEF Patched, Set, ListsOf
<1> QED
  BY <1>1 DEF ListsOf

LEMMA PutLeaves ==
    ASSUME NEW object, ListsOf(object), object.tailored # Absent, NEW name \in Names
    PROVE  LET next == Patched(object, Put("tailored", name))
           IN  ListsOf(next) /\ ~scanningDisabled(next)
<1> DEFINE next == Patched(object, Put("tailored", name))
<1>1. object.tailored \in Seq(Names)
  BY DEF ListsOf
<1>2. Append(object.tailored, name) \in Seq(Names) /\ Append(object.tailored, name) # <<>>
  BY <1>1, AppendIsNotEmpty
<1>3. /\ DOMAIN next = DOMAIN object /\ next.profiles = object.profiles
      /\ next.tailored = Append(object.tailored, name)
  BY DEF Patched, Put, ListsOf
<1>4. next.tailored # Absent
  BY <1>2, <1>3, ProfilesAssumption
<1> HIDE DEF next
<1> QED
  BY <1>2, <1>3, <1>4 DEF ListsOf, scanningDisabled, next

\* a request goes out that says what it leaves
LEMMA SendConfirms ==
    ASSUME Confirming, UNCHANGED <<server, watched>>, CallsTyped,
           NEW of, NEW kind, NEW about, NEW patch, Send(of, kind, about, watched, patch),
           of = "baseline" =>
                LET next == Patched(watched, patch.write)
                IN  /\ ListsOf(next)
                    /\ kind = "last" \/ (kind = "unbind" /\ about) \/ ~scanningDisabled(next)
    PROVE  Confirming'
<1> DEFINE call == [of |-> of, kind |-> kind, about |-> about, base |-> watched,
                    patch |-> patch, mount |-> mount, served |-> "no", given |-> FALSE]
<1>1. PICK s \in Slots : calls' = [calls EXCEPT ![s] = call]
  BY DEF Send
<1>2. /\ call.of = of /\ call.kind = kind /\ call.about = about
      /\ call.base = watched /\ call.patch = patch
  OBVIOUS
<1> HIDE DEF call
<1>3. calls'[s] = call /\ \A r \in Slots : r # s => calls'[r] = calls[r]
  BY <1>1 DEF CallsTyped
<1>4. ListsOf(call.base) /\ (call.of = "baseline" => Leaves(call))
  BY <1>2 DEF Leaves, Warned, Confirming
<1> QED
  BY <1>3, <1>4 DEF Confirming

LEMMA SameConfirms ==
    ASSUME Confirming, ListsOf(server'), ListsOf(watched'), SameRequests
    PROVE  Confirming'
BY DEF Confirming, SameRequests, Leaves, Warned

LEMMA UnchangedConfirms ==
    ASSUME Confirming, ListsOf(server'), ListsOf(watched'), UNCHANGED calls
    PROVE  Confirming'
BY DEF Confirming

\* one request for a profile goes on, or ends
LEMMA OneConfirms ==
    ASSUME Confirming, CallsTyped, UNCHANGED <<server, watched>>, NEW s \in Slots, calls[s] # NoCall,
           NEW next, calls' = [calls EXCEPT ![s] = next],
           \/ next = NoCall
           \/ next.base = calls[s].base /\ (next.of = "baseline" => Leaves(next))
    PROVE  Confirming'
<1>1. calls'[s] = next /\ \A r \in Slots : r # s => calls'[r] = calls[r]
  BY DEF CallsTyped
<1> QED
  BY <1>1 DEF Confirming

LEMMA InitConfirming == ProfilesInit => Confirming
<1> SUFFICES ASSUME ProfilesInit PROVE Confirming
  OBVIOUS
<1>1. PICK bound \in {Absent} \union {SetToSeq(names) : names \in SUBSET Names} :
        server = [rv |-> 1, there |-> TRUE, profiles |-> <<CHOOSE k \in Keys : TRUE>>,
                  tailored |-> bound]
  BY DEF ProfilesInit
<1>2. \A names \in SUBSET Names : SetToSeq(names) \in Seq(Names)
  <2> TAKE names \in SUBSET Names
  <2>1. IsFiniteSet(names)
    BY ProfilesAssumption, FS_Subset
  <2> QED
    BY <2>1, SetToSeqLists
<1>3. (CHOOSE k \in Keys : TRUE) \in Keys
  BY ProfilesAssumption
<1>4. ListsOf(server)
  BY <1>1, <1>2, <1>3 DEF ListsOf
<1>5. watched = server /\ \A s \in Slots : calls[s] = NoCall
  BY DEF ProfilesInit
<1> QED
  BY <1>4, <1>5 DEF Confirming

\* a switch that leaves nothing to scan sends nothing
LEMMA SwitchConfirms ==
    ASSUME Confirming, CallsTyped, NEW key \in Keys, Switch(key)
    PROVE  Confirming'
<1> DEFINE checked == key \notin ToSet(ListOf(watched.profiles))
           list == toggledProfiles(ListOf(watched.profiles), key, checked)
           next == Patched(watched, Set("profiles", list))
<1>1. UNCHANGED <<server, watched>>
  BY DEF Switch, ProfilesElsewhere
<1>2. CASE UNCHANGED calls
  BY <1>1, <1>2, UnchangedConfirms DEF Confirming
<1>3. CASE /\ ~wouldStopScanning(key, checked)
           /\ Send("baseline", "toggle", checked, watched, TogglePatch(key, checked))
  <2>1. ListOf(watched.profiles) \in Seq(Keys)
    BY ListOfIsList DEF Confirming, ListsOf
  <2>2. list \in Seq(Keys) /\ (checked => list # <<>>)
    BY <2>1, WithoutIsList, AppendIsNotEmpty DEF toggledProfiles
  <2>3. list # <<>> \/ watched.tailored \notin {Absent, <<>>}
    BY <1>3, <2>2 DEF wouldStopScanning
  <2>4. TogglePatch(key, checked).write = Set("profiles", list)
    BY DEF TogglePatch, Member, resourceVersionTest
  <2> HIDE DEF list, checked
  <2>5. /\ ListsOf(next) /\ next.profiles = list /\ next.tailored = watched.tailored
    BY <2>2, SetLeaves DEF Confirming
  <2>6. list # Absent
    BY <2>2, ProfilesAssumption
  <2> HIDE DEF next
  <2>7. ~scanningDisabled(next)
    BY <2>3, <2>5, <2>6 DEF scanningDisabled
  <2>8. ListsOf(Patched(watched, TogglePatch(key, checked).write))
        /\ ~scanningDisabled(Patched(watched, TogglePatch(key, checked).write))
    BY <2>4, <2>5, <2>7 DEF next
  <2> QED
    BY <1>1, <1>3, <2>8, SendConfirms
<1> QED
  BY <1>2, <1>3 DEF Switch

LEMMA TurnOffConfirms ==
    ASSUME Confirming, CallsTyped, TurnOffScanning
    PROVE  Confirming'
<1> DEFINE patch == TogglePatch(ui.last, FALSE)
           list  == toggledProfiles(ListOf(watched.profiles), ui.last, FALSE)
<1>1. UNCHANGED <<server, watched>>
  BY DEF TurnOffScanning, ProfilesElsewhere
<1>2. CASE UNCHANGED calls
  BY <1>1, <1>2, UnchangedConfirms DEF Confirming
<1>3. CASE Send("baseline", "last", FALSE, watched, patch)
  <2>1. ListOf(watched.profiles) \in Seq(Keys)
    BY ListOfIsList DEF Confirming, ListsOf
  <2>2. list \in Seq(Keys)
    BY <2>1, WithoutIsList DEF toggledProfiles
  <2>3. patch.write = Set("profiles", list)
    BY DEF TogglePatch, Member, resourceVersionTest
  <2> HIDE DEF list, patch
  <2>4. ListsOf(Patched(watched, patch.write))
    BY <2>2, <2>3, SetLeaves DEF Confirming
  <2> QED
    BY <1>1, <1>3, <2>4, SendConfirms
<1> QED
  BY <1>2, <1>3 DEF TurnOffScanning, Refused

LEMMA UnbindConfirms ==
    ASSUME Confirming, CallsTyped, unbindTailored
    PROVE  Confirming'
<1> DEFINE patch == UnbindPatch(ui.unbinding)
           list  == Without(watched.tailored, ui.unbinding)
           next  == Patched(watched, Set("tailored", list))
<1>1. UNCHANGED <<server, watched>>
  BY DEF unbindTailored, ProfilesElsewhere
<1>2. CASE UNCHANGED calls
  BY <1>1, <1>2, UnchangedConfirms DEF Confirming
<1>3. CASE /\ ui.unbinding \in boundTailored
           /\ Send("baseline", "unbind", UnbindWarns, watched, patch)
  <2>1. watched.tailored # Absent
    <3>1. ToSet(<<>>) = {}
      BY DEF ToSet
    <3> QED
      BY <1>3, <3>1 DEF boundTailored, ListOf
  <2>2. watched.tailored \in Seq(Names)
    BY <2>1 DEF Confirming, ListsOf
  <2>3. list \in Seq(Names) /\ ListOf(watched.tailored) = watched.tailored
    BY <2>1, <2>2, WithoutIsList DEF ListOf
  <2>4. UnbindWarns \/ watched.profiles \notin {Absent, <<>>} \/ list # <<>>
    BY <2>3 DEF UnbindWarns
  <2>5. patch.write = Set("tailored", list)
    BY DEF UnbindPatch, Member, resourceVersionTest
  <2> HIDE DEF list, patch
  <2>6. /\ ListsOf(next) /\ next.tailored = list /\ next.profiles = watched.profiles
    BY <2>3, SetLeaves DEF Confirming
  <2>7. list # Absent
    BY <2>3, ProfilesAssumption
  <2> HIDE DEF next
  <2>8. UnbindWarns \/ ~scanningDisabled(next)
    BY <2>4, <2>6, <2>7 DEF scanningDisabled
  <2>9. /\ ListsOf(Patched(watched, patch.write))
        /\ UnbindWarns \/ ~scanningDisabled(Patched(watched, patch.write))
    BY <2>5, <2>6, <2>8 DEF next
  <2> QED
    BY <1>1, <1>3, <2>9, SendConfirms
<1> QED
  BY <1>2, <1>3 DEF unbindTailored, Refused

LEMMA ClicksConfirm ==
    ASSUME Confirming, CallsTyped, ProfilesClicks
    PROVE  Confirming'
<1>1. UNCHANGED <<server, watched>>
  BY DEF ProfilesClicks, Switch, TurnOffScanning, OpenUnbind, unbindTailored, openEdit, OpenCreate,
         TypeProfile, createTailored, closeCreateModal, ProfilesElsewhere
<1>2. CASE UNCHANGED calls
  BY <1>1, <1>2, UnchangedConfirms DEF Confirming
<1>3. CASE createTailored
  <2>1. UNCHANGED calls \/ \E kind, about, patch : Send("profile", kind, about, watched, patch)
    BY <1>3 DEF createTailored, Refused
  <2> QED
    BY <1>1, <1>2, <2>1, SendConfirms
<1>4. CASE (\E name \in Names : OpenUnbind(name) \/ openEdit(name)) \/ OpenCreate \/ TypeProfile \/ closeCreateModal
  <2>1. UNCHANGED calls
    BY <1>4 DEF OpenUnbind, openEdit, OpenCreate, TypeProfile, closeCreateModal, Refused
  <2> QED
    BY <1>2, <2>1
<1> QED
  BY <1>3, <1>4, SwitchConfirms, TurnOffConfirms, UnbindConfirms DEF ProfilesClicks

\* the binding at the end of a chain leaves something to scan
LEMMA BindingLeaves ==
    ASSUME NEW object, ListsOf(object), NEW name \in Names, NEW rv,
           NEW patch, patch = tailoredProfileBindingPatch(object.tailored, name, rv), ~Empty(patch)
    PROVE  LET next == Patched(object, patch.write)
           IN  ListsOf(next) /\ ~scanningDisabled(next)
<1>1. CASE object.tailored = Absent /\ patch.write = Set("tailored", <<name>>)
  <2> DEFINE next == Patched(object, Set("tailored", <<name>>))
  <2>1. <<name>> \in Seq(Names) /\ <<name>> # <<>>
    <3>1. Len(<<name>>) = 1 /\ Len(<<>>) = 0
      OBVIOUS
    <3> QED
      BY <3>1
  <2>2. ListsOf(next) /\ next.tailored = <<name>>
    BY <2>1, SetLeaves
  <2>3. next.tailored # Absent
    BY <2>1, <2>2, ProfilesAssumption
  <2> HIDE DEF next
  <2>4. ~scanningDisabled(next)
    BY <2>1, <2>2, <2>3 DEF scanningDisabled
  <2> QED
    BY <1>1, <2>2, <2>4 DEF next
<1>2. CASE object.tailored # Absent /\ patch.write = Put("tailored", name)
  BY <1>2, PutLeaves
<1>3. Empty(NoOps)
  BY DEF Empty, NoOps
<1> QED
  BY <1>1, <1>2, <1>3 DEF tailoredProfileBindingPatch, resourceVersionTest

LEMMA BindConfirms ==
    ASSUME Confirming, Chains, Knowing, NEW s \in Slots, calls[s] # NoCall,
           calls[s].kind \in {"create", "adopt"}, NEW seen, Bind(s, seen)
    PROVE  Confirming'
<1> DEFINE call  == calls[s]
           patch == tailoredProfileBindingPatch(call.base.tailored, call.about.name, call.base.rv)
           next  == [call EXCEPT !.of = "baseline", !.kind = "bind", !.served = "no",
                                 !.patch = patch, !.about.rv = seen.rv]
<1>0. CallsTyped /\ CallCoherent(call, server)
  BY DEF Chains, Coherent
<1>1. CASE Settled(s, TRUE)
  BY <1>1, SettledIsOne, SameConfirms DEF Chains, Confirming, Settled
<1>2. CASE Chained(s, next) /\ ~Empty(patch)
  <2>1. call.about.name \in Names /\ ListsOf(call.base)
    BY DEF Knowing, Knows, ChainOf, Confirming
  <2>2. LET made == Patched(call.base, patch.write) IN ListsOf(made) /\ ~scanningDisabled(made)
    BY <1>2, <2>1, BindingLeaves
  <2> HIDE DEF patch
  <2>3. next.base = call.base /\ next.patch = patch
    BY <1>0 DEF CallCoherent, CallFields
  <2> HIDE DEF next
  <2>4. Leaves(next)
    BY <2>2, <2>3 DEF Leaves
  <2>5. calls' = [calls EXCEPT ![s] = next] /\ UNCHANGED <<server, watched>>
    BY <1>2 DEF Chained
  <2> QED
    BY <1>0, <2>3, <2>4, <2>5, OneConfirms
<1> QED
  BY <1>1, <1>2 DEF Bind

LEMMA AnsweredConfirms ==
    ASSUME Confirming, Chains, Knowing, NEW s \in Slots, NEW fulfilled \in BOOLEAN,
           ProfilesAnswered(s, fulfilled)
    PROVE  Confirming'
<1> DEFINE call == calls[s]
<1>1. call # NoCall /\ CallsTyped /\ CallCoherent(call, server)
  BY DEF ProfilesAnswered, Chains, Coherent
<1>2. ASSUME NEW said, Settled(s, said) PROVE Confirming'
  BY <1>2, SettledIsOne, SameConfirms DEF Chains, Confirming, Settled
<1>3. CASE call.kind = "create" /\ fulfilled
  <2>1. Bind(s, call.patch)
    BY <1>3 DEF ProfilesAnswered
  <2> QED
    BY <1>1, <1>3, <2>1, BindConfirms
<1>4. CASE call.kind = "create" /\ ~fulfilled
  <2> DEFINE next == [call EXCEPT !.kind = "adopt", !.served = "no"]
  <2>1. Chained(s, next) \/ Settled(s, FALSE)
    BY <1>4 DEF ProfilesAnswered
  <2>2. next.base = call.base /\ next.of = call.of /\ call.of = "profile"
    BY <1>1, <1>4 DEF CallCoherent, CallFields, Chains
  <2> HIDE DEF next
  <2>3. ASSUME Chained(s, next) PROVE Confirming'
    <3>1. calls' = [calls EXCEPT ![s] = next] /\ UNCHANGED <<server, watched>>
      BY <2>3 DEF Chained
    <3> QED
      BY <1>1, <2>2, <3>1, OneConfirms
  <2> QED
    BY <1>2, <2>1, <2>3
<1>5. CASE call.kind = "adopt" /\ fulfilled
  <2>1. Bind(s, call.patch) \/ Settled(s, TRUE)
    BY <1>5 DEF ProfilesAnswered
  <2> QED
    BY <1>1, <1>2, <1>5, <2>1, BindConfirms
<1>6. CASE call.kind # "create" /\ ~(call.kind = "adopt" /\ fulfilled)
  BY <1>2, <1>6 DEF ProfilesAnswered
<1> QED
  BY <1>3, <1>4, <1>5, <1>6

LEMMA ServeProfileConfirms ==
    ASSUME Confirming, Chains, NEW s \in Slots, ServeProfile(s)
    PROVE  Confirming'
<1> DEFINE call   == calls[s]
           name   == call.about.name
           ok     == CASE call.kind = "create" -> ~stored[name].there
                       [] call.kind = "update" -> UpdateAccepted(name, call.patch.rv)
                       [] OTHER -> stored[name].there
           served == IF ok THEN "landed" ELSE "refused"
           patch  == stored'[name]
<1>1. calls' = [calls EXCEPT ![s] =
            IF call.given THEN NoCall ELSE [call EXCEPT !.served = served, !.patch = patch]]
  BY DEF ServeProfile
<1> HIDE DEF served, patch
<1>2. /\ call # NoCall /\ call.of = "profile" /\ UNCHANGED <<server, watched>>
      /\ CallsTyped /\ CallCoherent(call, server)
  BY DEF ServeProfile, Pending, Chains, Coherent
<1> DEFINE went == [call EXCEPT !.served = served, !.patch = patch]
<1>3. went.base = call.base /\ went.of = "profile"
  BY <1>2 DEF CallCoherent, CallFields
<1> HIDE DEF went
<1>4. calls' = [calls EXCEPT ![s] = IF call.given THEN NoCall ELSE went]
  BY <1>1 DEF went
<1> QED
  BY <1>2, <1>3, <1>4, OneConfirms

\* somebody else's lists are lists
LEMMA OthersConfirm ==
    ASSUME Confirming, ProfilesOthers
    PROVE  Confirming'
<1>1. UNCHANGED <<watched, calls>>
  BY DEF ProfilesOthers, OtherWrites
<1>2. ASSUME NEW object, ListsOf(object), OtherWrites(object) PROVE Confirming'
  <2>1. ListsOf(server')
    BY <1>2 DEF OtherWrites, ListsOf
  <2> QED
    BY <1>1, <2>1, UnchangedConfirms DEF Confirming
<1>3. CASE OtherWrites(server)
  BY <1>2, <1>3 DEF Confirming
<1>4. ASSUME NEW key \in Keys, NEW checked \in BOOLEAN,
             OtherWrites([server EXCEPT !.profiles = toggledProfiles(ListOf(@), key, checked)])
      PROVE  Confirming'
  <2> DEFINE list == toggledProfiles(ListOf(server.profiles), key, checked)
  <2>1. list \in Seq(Keys)
    BY ListOfIsList, WithoutIsList, AppendIsNotEmpty DEF toggledProfiles, Confirming, ListsOf
  <2>2. OtherWrites([server EXCEPT !.profiles = list])
    BY <1>4
  <2> HIDE DEF list
  <2>3. ListsOf([server EXCEPT !.profiles = list])
    BY <2>1 DEF Confirming, ListsOf
  <2> QED
    BY <1>2, <2>2, <2>3
<1>5. ASSUME NEW name \in ToSet(ListOf(server.tailored)),
             OtherWrites([server EXCEPT !.tailored = Without(@, name)])
      PROVE  Confirming'
  <2> DEFINE list == Without(server.tailored, name)
  <2>1. server.tailored # Absent
    BY DEF ListOf, ToSet
  <2>2. list \in Seq(Names)
    BY <2>1, WithoutIsList DEF Confirming, ListsOf
  <2>3. OtherWrites([server EXCEPT !.tailored = list])
    BY <1>5
  <2> HIDE DEF list
  <2>4. ListsOf([server EXCEPT !.tailored = list])
    BY <2>2 DEF Confirming, ListsOf
  <2> QED
    BY <1>2, <2>3, <2>4
<1>6. CASE UNCHANGED server
  BY <1>1, <1>6, UnchangedConfirms DEF Confirming
<1> QED
  BY <1>3, <1>4, <1>5, <1>6 DEF ProfilesOthers

\* the API server makes of the baseline what was decided on it
LEMMA ServeConfirms ==
    ASSUME Confirming, Chains, NEW s \in Slots, Serve(s)
    PROVE  /\ Confirming'
           /\ server' # server => /\ Leaves(calls[s]) /\ Pending(s) /\ calls'[s] # calls[s]
                                  /\ scanningDisabled(server') => Warned(calls[s])
<1> DEFINE next == Patched(calls[s].base, calls[s].patch.write)
<1>1. Coherent' /\ SameRequests /\ UNCHANGED watched
  BY ServeLands DEF Chains, Serve
<1>2. Pending(s) /\ Leaves(calls[s]) /\ CallCoherent(calls[s], server) /\ CallsTyped
  BY DEF Serve, Pending, Confirming, Chains, Coherent
<1>3. calls'[s] # calls[s]
  <2>1. \E ok : Decided(s, ok)
    BY DEF Serve
  <2>2. PICK served \in {"landed", "refused"} : calls'[s] =
            IF calls[s].given THEN NoCall ELSE [calls[s] EXCEPT !.served = served]
    BY <1>2, <2>1 DEF Decided, CallsTyped
  <2> QED
    BY <1>2, <2>2 DEF CallCoherent, CallFields, Pending
<1>4. CASE UNCHANGED server
  BY <1>1, <1>4, SameConfirms DEF Confirming
<1>5. CASE calls[s].base = server /\ server' = Written(calls[s].base, calls[s].patch)
  <2>1. ListsOf(next) /\ (Warned(calls[s]) \/ ~scanningDisabled(next))
    BY <1>2 DEF Leaves
  <2>2. server' = [next EXCEPT !.rv = server.rv + 1]
    BY <1>5 DEF Written
  <2> HIDE DEF next
  <2>3. ListsOf(server') /\ (scanningDisabled(server') => scanningDisabled(next))
    BY <2>1, <2>2 DEF ListsOf, scanningDisabled
  <2>4. Confirming'
    BY <1>1, <2>3, SameConfirms DEF Confirming
  <2> QED
    BY <1>2, <1>3, <2>1, <2>3, <2>4
<1> QED
  BY <1>4, <1>5, ServeLands DEF Chains

LEMMA StepConfirming ==
    ASSUME Confirming, Chains, Knowing, [ProfilesNext]_profilesVars
    PROVE  Confirming'
<1>1. CASE ProfilesClicks
  BY <1>1, ClicksConfirm DEF Chains, Coherent
<1>2. ASSUME NEW s \in Slots, ProfilesServer(s) PROVE Confirming'
  BY <1>2, ServeConfirms DEF ProfilesServer
<1>3. ASSUME NEW s \in Slots, ServeProfile(s) PROVE Confirming'
  BY <1>3, ServeProfileConfirms
<1>4. ASSUME NEW s \in Slots, NEW fulfilled \in BOOLEAN, ProfilesAnswered(s, fulfilled)
      PROVE  Confirming'
  BY <1>4, AnsweredConfirms
<1>5. CASE ProfilesOthers
  BY <1>5, OthersConfirm
<1>6. CASE (\E f \in fetches, found \in BOOLEAN : FetchAnswered(f, found))
           \/ ProfilesReopen \/ Deliver \/ Review \/ UNCHANGED profilesVars
  <2>1. UNCHANGED <<calls, server>> /\ watched' \in {watched, server}
    BY <1>6 DEF FetchAnswered, ProfilesReopen, Remount, Deliver, Review, profilesVars, shared
  <2> QED
    BY <2>1, UnchangedConfirms DEF Confirming
<1> QED
  BY <1>1, <1>2, <1>3, <1>4, <1>5, <1>6 DEF ProfilesNext, ProfilesEnvironment

\* only the API server, serving a request of the console, makes a version of it
LEMMA StepConfirms ==
    ASSUME Confirming, Chains, [ProfilesNext]_profilesVars
    PROVE  ConfirmsLast
<1> SUFFICES ASSUME author' = "console", server' # server, scanningDisabled(server')
             PROVE  \E s \in Slots : /\ Pending(s) /\ calls'[s] # calls[s] /\ Warned(calls[s])
  BY DEF ConfirmsLast, Warned
<1>1. ~ProfilesClicks
  BY DEF ProfilesClicks, Switch, TurnOffScanning, OpenUnbind, unbindTailored, openEdit, OpenCreate,
         TypeProfile, createTailored, closeCreateModal, ProfilesElsewhere
<1>2. ~ProfilesOthers
  BY DEF ProfilesOthers, OtherWrites
<1>3. ASSUME NEW s \in Slots, NEW fulfilled \in BOOLEAN, ProfilesAnswered(s, fulfilled) PROVE FALSE
  <2>1. \A said, next : ~Settled(s, said) /\ ~Chained(s, next)
    BY DEF Settled, Chained
  <2>2. \A seen : ~Bind(s, seen)
    BY <2>1 DEF Bind
  <2> QED
    BY <1>3, <2>1, <2>2 DEF ProfilesAnswered
<1>4. \A s \in Slots : ~ServeProfile(s)
  BY DEF ServeProfile
<1>5. \A f \in fetches, found \in BOOLEAN : ~FetchAnswered(f, found)
  BY DEF FetchAnswered, shared
<1>6. ~ProfilesReopen /\ ~Deliver /\ ~Review /\ ~UNCHANGED profilesVars
  BY DEF ProfilesReopen, Remount, Deliver, Review, profilesVars, shared
<1>7. \E s \in Slots : Serve(s)
  BY <1>1, <1>2, <1>3, <1>4, <1>5, <1>6 DEF ProfilesNext, ProfilesEnvironment, ProfilesServer
<1> QED
  BY <1>7, ServeConfirms

\* A write of the console that leaves nothing to scan was confirmed in a dialog that
\* says so: a switch, an unbinding and the binding at the end of a chain are decided
\* on the version they land on, and leave something there.
THEOREM ProfilesConfirmed == ProfilesSpec => [][ConfirmsLast]_profilesVars
<1>1. Confirming /\ Chains /\ Knowing /\ [ProfilesNext]_profilesVars
        => (Confirming /\ Chains /\ Knowing)' /\ [ConfirmsLast]_profilesVars
  BY StepConfirming, StepConfirms, ProfilesStepOptimistic, StepKnows
<1> QED
  BY InitConfirming, InitChains, InitKnowing, <1>1, PTL DEF ProfilesSpec

------------------------------------------------------------------------------
(* the Profiles tab: what failed may be done again *)

\* a member that is tested as it was read, and set
LEMMA MemberLands ==
    ASSUME watched = server, server.there, NEW field, NEW old, old = server[field], NEW new
    PROVE  Accepts(server, Member(field, old, new))
<1>1. Member(field, old, new) =
        [rv |-> server.rv, tests |-> IF old = Absent THEN {} ELSE {TestMember(field, old)},
         write |-> Set(field, new)]
  BY DEF Member, resourceVersionTest
<1>2. Holds(server, TestMember(field, old))
  BY DEF Holds, TestMember
<1>3. Reachable(server, Set(field, new))
  BY DEF Reachable, Set
<1> QED
  BY <1>1, <1>2, <1>3 DEF Accepts

LEMMA BindingLands ==
    ASSUME watched = server, server.there, NEW name,
           NEW patch, patch = tailoredProfileBindingPatch(watched.tailored, name, watched.rv),
           ~Empty(patch)
    PROVE  Accepts(server, patch)
<1>1. CASE server.tailored = Absent
  <2>1. patch = [rv |-> server.rv, tests |-> {}, write |-> Set("tailored", <<name>>)]
    BY <1>1 DEF tailoredProfileBindingPatch, resourceVersionTest, Empty, NoOps
  <2>2. Reachable(server, Set("tailored", <<name>>))
    BY DEF Reachable, Set
  <2> QED
    BY <2>1, <2>2, PatchLands
<1>2. CASE server.tailored # Absent
  <2>1. patch = [rv |-> server.rv, tests |-> {TestMember("tailored", server.tailored)},
                 write |-> Put("tailored", name)]
    BY <1>2 DEF tailoredProfileBindingPatch, resourceVersionTest, Empty, NoOps
  <2>2. Holds(server, TestMember("tailored", server.tailored))
    BY DEF Holds, TestMember
  <2>3. Reachable(server, Put("tailored", name))
    BY <1>2 DEF Reachable, Put
  <2> QED
    BY <2>1, <2>2, <2>3, PatchLands
<1> QED
  BY <1>1, <1>2

\* profiles only grow
LEMMA ProfilesGrow ==
    ASSUME Knowing, [ProfilesNext]_profilesVars
    PROVE  Grown(stored, stored')
<1>1. CASE UNCHANGED stored
  BY <1>1, SameGrown
<1>2. ASSUME NEW s \in Slots, ServeProfile(s) PROVE Grown(stored, stored')
  <2>1. calls[s] # NoCall /\ calls[s].kind \in {"create", "adopt", "update"}
    BY <1>2 DEF ServeProfile, Pending, Knowing, OfItsKind
  <2>2. calls[s].about.name \in Names
    BY <2>1 DEF Knowing, Knows, ChainOf
  <2>3. \/ stored' = stored
        \/ stored' = [stored EXCEPT ![calls[s].about.name] =
                [there |-> TRUE, rv |-> stored[calls[s].about.name].rv + 1,
                 spec |-> calls[s].about.spec]]
    BY <1>2 DEF ServeProfile
  <2> QED
    BY <1>1, <2>2, <2>3, NextVersionGrows
<1>3. CASE ProfilesOthers
  BY <1>1, <1>3, NextVersionGrows DEF ProfilesOthers
<1>4. CASE \/ ProfilesClicks
           \/ \E f \in fetches, found \in BOOLEAN : FetchAnswered(f, found)
           \/ \E s \in Slots : ProfilesServer(s)
           \/ \E s \in Slots, fulfilled \in BOOLEAN : ProfilesAnswered(s, fulfilled)
           \/ ProfilesReopen \/ ((Deliver \/ Review) /\ UNCHANGED <<stored, fetches, ui>>)
           \/ UNCHANGED profilesVars
  <2>1. UNCHANGED stored
    BY <1>4 DEF ProfilesClicks, Switch, TurnOffScanning, OpenUnbind, unbindTailored, openEdit,
                OpenCreate, TypeProfile, createTailored, closeCreateModal, ProfilesElsewhere,
                FetchAnswered, ProfilesServer, ProfilesAnswered, ProfilesReopen, profilesVars
  <2> QED
    BY <1>1, <2>1
<1> QED
  BY <1>2, <1>3, <1>4 DEF ProfilesNext, ProfilesEnvironment

\* a profile as it was read is what it is, or what it was at an earlier version
Stood(p, was) == was.rv \in Nat /\ was.rv <= p.rv /\ (was.rv = p.rv => p = was /\ p.there)

\* the form that edits a profile holds it as it was read
Filling ==
    ui.form # None /\ ui.form.mode = "edit" =>
        ui.form.name \in Names /\ Stood(stored[ui.form.name], ui.form.obj)

LEMMA InitFilling == ProfilesInit => Filling
BY DEF ProfilesInit, ProfilesFresh, Filling

\* the form of a step: as it was, gone, typed into, new, or filled by the live fetch
LEMMA FormStep ==
    ASSUME Wanting, [ProfilesNext]_profilesVars
    PROVE  \/ ui'.form = ui.form
           \/ ui'.form = None
           \/ TypeProfile /\ ui'.form = [ui.form EXCEPT !.typed = TRUE]
           \/ ui.form = None /\ ui'.form.mode = "create"
           \/ \E f \in fetches : f.live /\ stored[f.name].there /\ ui'.form = Filled(f.name)
<1>1. CASE TypeProfile
  BY <1>1 DEF TypeProfile, Wanting, ProfilesFresh
<1>2. CASE OpenCreate
  BY <1>2 DEF OpenCreate, anyDialogOpen, Wanting, ProfilesFresh
<1>3. ASSUME NEW f \in fetches, NEW found \in BOOLEAN, FetchAnswered(f, found)
      PROVE  \/ ui'.form = ui.form
             \/ f.live /\ stored[f.name].there /\ ui'.form = Filled(f.name)
  BY <1>3 DEF FetchAnswered, Wanting, ProfilesFresh
<1>4. CASE \/ \E key \in Keys : Switch(key)
           \/ \E name \in Names : OpenUnbind(name) \/ openEdit(name)
           \/ TurnOffScanning \/ unbindTailored \/ createTailored \/ closeCreateModal
  BY <1>4 DEF Switch, TurnOffScanning, OpenUnbind, openEdit, unbindTailored, createTailored,
              closeCreateModal, Refused, Wanting, ProfilesFresh
<1>5. ASSUME NEW s \in Slots, NEW fulfilled \in BOOLEAN, ProfilesAnswered(s, fulfilled)
      PROVE  ui'.form \in {ui.form, None}
  <2>1. UNCHANGED ui \/ Finished(s) \/ Failed(s)
    BY <1>5 DEF ProfilesAnswered, Bind
  <2> QED
    BY <2>1 DEF Finished, Failed, Wanting, ProfilesFresh
<1>6. CASE ProfilesReopen
  BY <1>6 DEF ProfilesReopen, ProfilesFresh
<1>7. CASE \/ \E s \in Slots : ProfilesServer(s) \/ ServeProfile(s)
           \/ ProfilesOthers \/ ((Deliver \/ Review) /\ UNCHANGED <<stored, fetches, ui>>)
           \/ UNCHANGED profilesVars
  BY <1>7 DEF ProfilesServer, ServeProfile, ProfilesOthers, profilesVars
<1> QED
  BY <1>1, <1>2, <1>3, <1>4, <1>5, <1>6, <1>7 DEF ProfilesNext, ProfilesClicks, ProfilesEnvironment

LEMMA StepFills ==
    ASSUME Filling, Wanting, Knowing, [ProfilesNext]_profilesVars
    PROVE  Filling'
<1>1. Grown(stored, stored')
  BY ProfilesGrow
<1>2. \A n \in Names : \A was : Stood(stored[n], was) => Stood(stored'[n], was)
  BY <1>1 DEF Grown, Knowing, Profile, Stood
<1>3. CASE ui'.form = ui.form
  BY <1>2, <1>3 DEF Filling
<1>4. CASE ui'.form = None
  BY <1>4 DEF Filling
<1>5. CASE TypeProfile /\ ui'.form = [ui.form EXCEPT !.typed = TRUE]
  <2>1. /\ ui.form # None /\ ui'.form.mode = ui.form.mode
        /\ ui'.form.name = ui.form.name /\ ui'.form.obj = ui.form.obj
    BY <1>5 DEF TypeProfile, Wanting, FormFields
  <2> QED
    BY <1>2, <2>1 DEF Filling
<1>6. CASE ui.form = None /\ ui'.form.mode = "create"
  BY <1>6 DEF Filling
<1>7. ASSUME NEW f \in fetches, stored[f.name].there, ui'.form = Filled(f.name)
      PROVE  Filling'
  <2>1. /\ ui'.form.name = f.name /\ ui'.form.obj = stored[f.name] /\ f.name \in Names
    BY <1>7 DEF Filled, Wanting
  <2>2. Stood(stored[f.name], stored[f.name])
    BY <1>7, <2>1 DEF Stood, Knowing, Profile
  <2> QED
    BY <1>2, <2>1, <2>2 DEF Filling
<1> QED
  BY <1>3, <1>4, <1>5, <1>6, <1>7, FormStep

LEMMA ProfilesLandAgain == Filling => ProfilesRetryLands
<1>1. ASSUME watched = server, server.there
      PROVE  /\ \A key \in Keys, checked \in BOOLEAN : Accepts(server, TogglePatch(key, checked))
             /\ \A name \in boundTailored : Accepts(server, UnbindPatch(name))
  BY <1>1, MemberLands DEF TogglePatch, UnbindPatch
<1>2. ASSUME Filling, ui.form # None, ui.form.mode = "edit"
      PROVE  UpdateAccepted(ui.form.name, ui.form.obj.rv) <=> stored[ui.form.name] = ui.form.obj
  BY <1>2 DEF Filling, Stood, UpdateAccepted
<1> QED
  BY <1>1, <1>2, BindingLands DEF ProfilesRetryLands

------------------------------------------------------------------------------
(* the Profiles tab keeps what is typed *)

LEMMA FinishedSucceeds ==
    ASSUME Knowing, NEW s \in Slots, NEW fulfilled \in BOOLEAN, ProfilesAnswered(s, fulfilled)
    PROVE  ui' = ui \/ Failed(s) \/ ~Heard(s) \/ Succeeds
<1> DEFINE call == calls[s]
<1>1. call # NoCall
  BY DEF ProfilesAnswered
<1>2. ASSUME Settled(s, TRUE), Heard(s) PROVE Succeeds
  <2>1. calls[s].served = "landed" /\ calls' = [calls EXCEPT ![s] = NoCall]
    BY <1>2 DEF Settled, Pending
  <2>2. calls'[s] = NoCall
    BY <2>1 DEF Knowing, CallsTyped
  <2> QED
    BY <1>1, <1>2, <2>1, <2>2 DEF Succeeds
<1>3. ASSUME NEW seen, Bind(s, seen) PROVE ui' = ui \/ Failed(s) \/ ~Heard(s) \/ Succeeds
  BY <1>2, <1>3 DEF Bind
<1>4. CASE call.kind = "create" /\ fulfilled
  BY <1>3, <1>4 DEF ProfilesAnswered
<1>5. CASE call.kind = "create" /\ ~fulfilled
  BY <1>5 DEF ProfilesAnswered
<1>6. CASE call.kind = "adopt" /\ fulfilled
  <2>1. Bind(s, call.patch) \/ Failed(s)
    BY <1>6 DEF ProfilesAnswered
  <2> QED
    BY <1>3, <2>1
<1>7. CASE call.kind # "create" /\ ~(call.kind = "adopt" /\ fulfilled)
  <2>1. Settled(s, fulfilled) /\ (fulfilled \/ Failed(s))
    BY <1>7 DEF ProfilesAnswered
  <2> QED
    BY <1>2, <2>1
<1> QED
  BY <1>4, <1>5, <1>6, <1>7

LEMMA ProfilesStepKeepsInput ==
    ASSUME Wanting, Knowing, Bookkept, [ProfilesNext]_profilesVars
    PROVE  ProfilesKeepsInput
<1> SUFFICES ASSUME ui.form # None, ui.form.typed, ui'.form # ui.form
             PROVE  \/ closeCreateModal \/ mount' # mount \/ Succeeds
                    \/ /\ ui.form.mode = "create" /\ ui.loading # None
                       /\ ui'.form = Filled(ui.loading)
  BY DEF ProfilesKeepsInput
<1>1. CASE ProfilesReopen
  BY <1>1 DEF ProfilesReopen, Remount, Bookkept
<1>2. ASSUME NEW s \in Slots, NEW fulfilled \in BOOLEAN, ProfilesAnswered(s, fulfilled)
      PROVE  Succeeds
  <2>1. (Failed(s) \/ ~Heard(s)) => ui'.form = ui.form
    <3>1. ~Heard(s) => ui' = ui
      BY <1>2 DEF ProfilesAnswered, Bind, Finished, Failed
    <3>2. Failed(s) => ui'.form = ui.form
      BY DEF Failed, Wanting, ProfilesFresh
    <3> QED
      BY <3>1, <3>2
  <2> QED
    BY <1>2, <2>1, FinishedSucceeds
<1>3. ASSUME NEW f \in fetches, NEW found \in BOOLEAN, FetchAnswered(f, found)
      PROVE  /\ ui.form.mode = "create" /\ ui.loading # None
             /\ ui'.form = Filled(ui.loading)
  <2>1. f.live /\ ui'.form = Filled(f.name)
    BY <1>3 DEF FetchAnswered, Wanting, ProfilesFresh
  <2>2. ui.loading = f.name /\ f.name \in Names /\ ui.form.mode # "edit"
    BY <2>1 DEF Wanting
  <2> QED
    BY <2>1, <2>2, ProfilesAssumption DEF Wanting
<1>4. ~TypeProfile /\ ~OpenCreate
  BY DEF TypeProfile, OpenCreate, anyDialogOpen
<1>5. CASE \/ \E key \in Keys : Switch(key)
           \/ \E name \in Names : OpenUnbind(name) \/ openEdit(name)
           \/ TurnOffScanning \/ unbindTailored \/ createTailored
  BY <1>5 DEF Switch, TurnOffScanning, OpenUnbind, openEdit, unbindTailored, createTailored,
              Refused, Wanting, ProfilesFresh
<1>6. CASE \/ \E s \in Slots : ProfilesServer(s) \/ ServeProfile(s)
           \/ ProfilesOthers \/ ((Deliver \/ Review) /\ UNCHANGED <<stored, fetches, ui>>)
           \/ UNCHANGED profilesVars
  BY <1>6 DEF ProfilesServer, ServeProfile, ProfilesOthers, profilesVars
<1> QED
  BY <1>1, <1>2, <1>3, <1>4, <1>5, <1>6 DEF ProfilesNext, ProfilesClicks, ProfilesEnvironment

------------------------------------------------------------------------------
(* the editor of the schedule: its writes are optimistic *)

LEMMA ScheduleInitCoherent == ScheduleInit => Coherent /\ Optimistic!Init
<1> SUFFICES ASSUME ScheduleInit PROVE Coherent /\ Optimistic!Init
  OBVIOUS
<1>1. server.rv = 1 /\ "rv" \in DOMAIN server /\ watched = server
  BY DEF ScheduleInit
<1>2. calls = [s \in Slots |-> NoCall] /\ author = "other"
  BY DEF ScheduleInit
<1>3. Coherent
  BY <1>1, <1>2 DEF Coherent, Versioned, Read, CallsTyped
<1>4. Decisions = {}
  BY <1>2 DEF Decisions
<1> QED
  BY <1>2, <1>3, <1>4 DEF Optimistic!Init

LEMMA SaveOptimistic ==
    ASSUME Coherent, save
    PROVE  Coherent' /\ OptimisticStep
<1>1. UNCHANGED <<server, author, watched>> /\ Read(watched, server)
  BY DEF save, ScheduleElsewhere, Coherent
<1>2. SavePatch.rv = watched.rv
  BY DEF SavePatch, WithVersion, resourceVersionTest
<1>3. UNCHANGED calls \/ Send("baseline", "schedule", ui.text, watched, SavePatch)
  BY DEF save
<1>4. CASE UNCHANGED calls
  BY <1>1, <1>4, QuietStutters
<1>5. CASE Send("baseline", "schedule", ui.text, watched, SavePatch)
  BY <1>1, <1>2, <1>5, SendDecides
<1> QED
  BY <1>3, <1>4, <1>5

LEMMA ScheduleStepOptimistic ==
    ASSUME Coherent, [ScheduleNext]_scheduleVars
    PROVE  Coherent' /\ OptimisticStep
<1>1. CASE save
  BY <1>1, SaveOptimistic
<1>2. CASE (\E text \in Crons \union {BadCron} : Type(text)) \/ StartEdit \/ cancelEdit
           \/ EnterInvalid \/ DismissSaved
  BY <1>2, QuietStutters
  DEF Type, StartEdit, cancelEdit, EnterInvalid, DismissSaved, ScheduleStill, ScheduleElsewhere
<1>3. ASSUME NEW s \in Slots, ScheduleServer(s)
      PROVE  Coherent' /\ OptimisticStep
  BY <1>3, ServeLands DEF ScheduleServer
<1>4. ASSUME NEW s \in Slots, NEW fulfilled \in BOOLEAN, ScheduleAnswered(s, fulfilled)
      PROVE  Coherent' /\ OptimisticStep
  BY <1>4, SettledDiscards DEF ScheduleAnswered
<1>5. CASE ScheduleOthers
  <2>1. "rv" \in DOMAIN server
    BY DEF Coherent, Versioned
  <2>2. \E object : "rv" \in DOMAIN object /\ OtherWrites(object)
    BY <1>5, <2>1 DEF ScheduleOthers
  <2> QED
    BY <2>2, OthersAreForeign
<1>6. CASE Delivered \/ ScheduleReopen \/ Review
  BY <1>6, QuietStutters DEF Delivered, ScheduleReopen, Remount, Review
<1>7. CASE UNCHANGED scheduleVars
  BY <1>7, QuietStutters DEF scheduleVars, shared
<1> QED
  BY <1>1, <1>2, <1>3, <1>4, <1>5, <1>6, <1>7
  DEF ScheduleNext, ScheduleClicks, ScheduleEnvironment

\* The editor of the schedule implements OptimisticObject: a schedule typed over a
\* version of the baseline that is not the present one never lands.
THEOREM ScheduleWritesOptimistically == ScheduleSpec => WritesOptimistic
<1>1. Coherent /\ [ScheduleNext]_scheduleVars => Coherent' /\ [Optimistic!Next]_ovars
  BY ScheduleStepOptimistic DEF OptimisticStep
<1> QED
  BY ScheduleInitCoherent, <1>1, PTL
  DEF ScheduleSpec, WritesOptimistic, Optimistic!Spec, Optimistic!vars, ovars

------------------------------------------------------------------------------
(* the schedule editor is busy exactly while it waits *)

ScheduleWaits ==
    /\ Bookkept
    /\ DOMAIN ui = DOMAIN ScheduleFresh
    /\ ui.busy \in BOOLEAN
    /\ ui.busy <=> Asking

LEMMA ScheduleInitWaits == ScheduleInit => ScheduleWaits
BY DEF ScheduleInit, ScheduleFresh, ScheduleWaits, Bookkept, CallsTyped, Asking, Asked

LEMMA ScheduleQuietWaits ==
    ASSUME ScheduleWaits, UNCHANGED <<calls, mount>>, DOMAIN ui' = DOMAIN ui, ui'.busy = ui.busy
    PROVE  ScheduleWaits'
BY QuietAsks DEF ScheduleWaits

LEMMA SaveWaits ==
    ASSUME ScheduleWaits, save
    PROVE  ScheduleWaits'
<1>1. ~ui.busy /\ UNCHANGED mount
  BY DEF save, ScheduleElsewhere
<1>2. CASE /\ Send("baseline", "schedule", ui.text, watched, SavePatch)
           /\ ui' = [ui EXCEPT !.busy = TRUE, !.error = FALSE]
  <2>1. Bookkept' /\ Asking'
    BY <1>1, <1>2, SendAsks DEF ScheduleWaits
  <2>2. DOMAIN ui' = DOMAIN ui /\ ui'.busy = TRUE
    BY <1>2 DEF ScheduleWaits, ScheduleFresh
  <2> QED
    BY <2>1, <2>2 DEF ScheduleWaits
<1>3. CASE ui' = [ui EXCEPT !.error = TRUE] /\ UNCHANGED calls
  BY <1>1, <1>3, ScheduleQuietWaits DEF ScheduleWaits, ScheduleFresh
<1> QED
  BY <1>2, <1>3 DEF save

LEMMA ScheduleStepWaits ==
    ASSUME ScheduleWaits, [ScheduleNext]_scheduleVars
    PROVE  ScheduleWaits'
<1>1. CASE save
  BY <1>1, SaveWaits
<1>2. CASE (\E text \in Crons \union {BadCron} : Type(text)) \/ StartEdit \/ cancelEdit
           \/ EnterInvalid \/ DismissSaved
  <2>1. UNCHANGED <<calls, mount>> /\ DOMAIN ui' = DOMAIN ui /\ ui'.busy = ui.busy
    BY <1>2 DEF Type, StartEdit, cancelEdit, EnterInvalid, DismissSaved, ScheduleStill,
                ScheduleElsewhere, ScheduleWaits, ScheduleFresh
  <2> QED
    BY <2>1, ScheduleQuietWaits
<1>3. ASSUME NEW s \in Slots, ScheduleServer(s) PROVE ScheduleWaits'
  BY <1>3, ServeAsks DEF ScheduleServer, ScheduleWaits
<1>4. ASSUME NEW s \in Slots, NEW fulfilled \in BOOLEAN, ScheduleAnswered(s, fulfilled)
      PROVE  ScheduleWaits'
  <2>1. Settled(s, fulfilled)
    BY <1>4 DEF ScheduleAnswered
  <2>2. CASE ~Heard(s)
    BY <1>4, <2>1, <2>2, SettledAsks DEF ScheduleAnswered, ScheduleWaits
  <2>3. CASE Heard(s)
    <3>1. DOMAIN ui' = DOMAIN ui /\ ui'.busy = FALSE
      BY <1>4, <2>3 DEF ScheduleAnswered, ScheduleWaits, ScheduleFresh
    <3> QED
      BY <2>1, <2>3, <3>1, SettledAsks DEF ScheduleWaits
  <2> QED
    BY <2>2, <2>3
<1>5. CASE ScheduleReopen \/ (Delivered /\ mount' = mount + 1)
  <2>1. UNCHANGED calls /\ mount' = mount + 1 /\ ui' = ScheduleFresh
    <3>1. CASE ScheduleReopen
      BY <3>1 DEF ScheduleReopen, Remount
    <3>2. CASE Delivered /\ mount' = mount + 1
      <4>1. mount' # mount
        BY <3>2 DEF ScheduleWaits, Bookkept
      <4> QED
        BY <3>2, <4>1 DEF Delivered
    <3> QED
      BY <1>5, <3>1, <3>2
  <2> QED
    BY <2>1, RemountAsksNothing DEF ScheduleWaits, ScheduleFresh
<1>6. CASE ScheduleOthers \/ (Delivered /\ UNCHANGED <<mount, ui>>) \/ (Review /\ UNCHANGED ui)
           \/ UNCHANGED scheduleVars
  <2>1. UNCHANGED <<calls, mount, ui>>
    BY <1>6 DEF ScheduleOthers, OtherWrites, Delivered, Review, scheduleVars, shared
  <2> QED
    BY <2>1, ScheduleQuietWaits
<1>7. Delivered => mount' = mount + 1 \/ UNCHANGED <<mount, ui>>
  BY DEF Delivered
<1> QED
  BY <1>1, <1>2, <1>3, <1>4, <1>5, <1>6, <1>7
  DEF ScheduleNext, ScheduleClicks, ScheduleEnvironment

\* The editor is busy exactly while a request it sent since it was on the screen is
\* unanswered, whatever is lost, refused or late, and though a delivery without a
\* baseline takes it off the screen.
THEOREM ScheduleBusy == ScheduleSpec => []ScheduleBusyIsRequest
<1>1. ScheduleWaits => ScheduleBusyIsRequest
  BY DEF ScheduleWaits, ScheduleBusyIsRequest, Asking, Asked
<1> QED
  BY ScheduleInitWaits, ScheduleStepWaits, <1>1, PTL DEF ScheduleSpec

------------------------------------------------------------------------------
(* the schedule editor keeps what is typed, and what failed may be done again *)

LEMMA ScheduleStepKeepsInput ==
    ASSUME ScheduleWaits, [ScheduleNext]_scheduleVars
    PROVE  ScheduleKeepsInput
<1> SUFFICES ASSUME ui.editing, ~(ui'.editing /\ ui'.text = ui.text)
             PROVE  \/ cancelEdit \/ \E text \in Crons \union {BadCron} : Type(text)
                    \/ Succeeds /\ ui'.saved
                    \/ mount' # mount
  BY DEF ScheduleKeepsInput
<1>1. ~(save \/ StartEdit \/ EnterInvalid \/ DismissSaved)
  BY DEF save, StartEdit, EditOffered, EnterInvalid, DismissSaved, ScheduleWaits, ScheduleFresh
<1>2. ASSUME NEW s \in Slots, NEW fulfilled \in BOOLEAN, ScheduleAnswered(s, fulfilled)
      PROVE  Succeeds /\ ui'.saved
  <2>1. Heard(s) /\ fulfilled /\ ui'.saved
    BY <1>2 DEF ScheduleAnswered, ScheduleWaits, ScheduleFresh
  <2>2. /\ calls[s] # NoCall /\ calls[s].served = "landed"
        /\ calls' = [calls EXCEPT ![s] = NoCall]
    BY <1>2, <2>1 DEF ScheduleAnswered, Settled, Pending
  <2>3. calls'[s] = NoCall
    BY <2>2 DEF ScheduleWaits, Bookkept, CallsTyped
  <2> QED
    BY <2>1, <2>2, <2>3 DEF Succeeds
<1>3. CASE Delivered \/ ScheduleReopen
  BY <1>3 DEF Delivered, ScheduleReopen, Remount, ScheduleWaits, Bookkept
<1>4. CASE \/ \E s \in Slots : ScheduleServer(s)
           \/ ScheduleOthers \/ (Review /\ UNCHANGED ui) \/ UNCHANGED scheduleVars
  BY <1>4 DEF ScheduleServer, ScheduleOthers, scheduleVars
<1> QED
  BY <1>1, <1>2, <1>3, <1>4 DEF ScheduleNext, ScheduleClicks, ScheduleEnvironment

LEMMA ScheduleLandsAgain == ScheduleRetryLands
<1> SUFFICES ASSUME watched = server, server.there, ui.editing, validText
             PROVE  Accepts(server, SavePatch)
  BY DEF ScheduleRetryLands
<1>1. SavePatch = [rv |-> server.rv, tests |-> {}, write |-> Set("schedule", ui.text)]
  BY DEF SavePatch, WithVersion, schedulePatch, resourceVersionTest, validText
<1>2. Reachable(server, Set("schedule", ui.text))
  BY DEF Reachable, Set
<1> QED
  BY <1>1, <1>2 DEF Accepts

------------------------------------------------------------------------------
(* the tabs together *)

\* a behaviour is one of the tab it started with
LEMMA OneTab ==
    ASSUME [Next]_vars
    PROVE  /\ route' = route
           /\ route = "results" => [ResultsNext]_resultsVars
           /\ route = "remediations" => [RemediationsNext]_remediationsVars
           /\ route = "profiles" => [ProfilesNext]_profilesVars
           /\ route = "schedule" => [ScheduleNext]_scheduleVars
<1>1. CASE Next
  BY <1>1 DEF Next
<1>2. CASE UNCHANGED vars
  BY <1>2 DEF vars, ofResults, ofRemediations, ofProfiles, resultsVars, remediationsVars,
              profilesVars, scheduleVars
<1> QED
  BY <1>1, <1>2

LEMMA OneStart ==
    ASSUME Init
    PROVE  /\ route \in {"results", "remediations", "profiles", "schedule"}
           /\ route = "results" => ResultsInit
           /\ route = "remediations" => RemediationsInit
           /\ route = "profiles" => ProfilesInit
           /\ route = "schedule" => ScheduleInit
BY DEF Init

\* what each tab keeps true, whichever is mounted
TabsKeep ==
    /\ route \in {"results", "remediations", "profiles", "schedule"}
    /\ route = "results" => Coherent /\ ResultsWaits /\ Sound
    /\ route = "remediations" => Coherent /\ RemediationsWaits /\ Deciding
    /\ route = "profiles" => /\ Chains /\ ProfilesWaits /\ Knowing
                             /\ Wanting /\ Filling /\ Confirming
    /\ route = "schedule" => Coherent /\ ScheduleWaits

LEMMA InitKeeps == Init => TabsKeep /\ Optimistic!Init
<1> SUFFICES ASSUME Init PROVE TabsKeep /\ Optimistic!Init
  OBVIOUS
<1>1. CASE route = "results" /\ ResultsInit
  BY <1>1, ResultsInitCoherent, ResultsInitWaits, InitSound DEF TabsKeep
<1>2. CASE route = "remediations" /\ RemediationsInit
  BY <1>2, RemediationsInitCoherent, RemediationsInitWaits, InitDeciding DEF TabsKeep
<1>3. CASE route = "profiles" /\ ProfilesInit
  BY <1>3, ProfilesInitCoherent, InitChains, ProfilesInitWaits, InitKnowing, InitWanting,
     InitFilling, InitConfirming
  DEF TabsKeep
<1>4. CASE route = "schedule" /\ ScheduleInit
  BY <1>4, ScheduleInitCoherent, ScheduleInitWaits DEF TabsKeep
<1> QED
  BY <1>1, <1>2, <1>3, <1>4, OneStart

\* a step keeps it, and is one of an optimistic writer
LEMMA StepKeeps ==
    ASSUME TabsKeep, [Next]_vars
    PROVE  TabsKeep' /\ OptimisticStep
<1>1. route' = route
  BY OneTab
<1>2. CASE route = "results"
  <2>1. [ResultsNext]_resultsVars
    BY <1>2, OneTab
  <2> QED
    BY <1>1, <1>2, <2>1, ResultsStepOptimistic, ResultsStepWaits, StepSound DEF TabsKeep
<1>3. CASE route = "remediations"
  <2>1. [RemediationsNext]_remediationsVars
    BY <1>3, OneTab
  <2> QED
    BY <1>1, <1>3, <2>1, RemediationsStepOptimistic, RemediationsStepWaits, StepDeciding
       DEF TabsKeep
<1>4. CASE route = "profiles"
  <2>1. [ProfilesNext]_profilesVars
    BY <1>4, OneTab
  <2> QED
    BY <1>1, <1>4, <2>1, ProfilesStepOptimistic, ProfilesStepWaits, StepKnows, StepWants,
       StepFills, StepConfirming
    DEF TabsKeep
<1>5. CASE route = "schedule"
  <2>1. [ScheduleNext]_scheduleVars
    BY <1>5, OneTab
  <2> QED
    BY <1>1, <1>5, <2>1, ScheduleStepOptimistic, ScheduleStepWaits DEF TabsKeep
<1> QED
  BY <1>2, <1>3, <1>4, <1>5 DEF TabsKeep

LEMMA Always == Spec => []TabsKeep
<1>1. TabsKeep /\ [Next]_vars => TabsKeep'
  BY StepKeeps
<1> QED
  BY InitKeeps, <1>1, PTL DEF Spec

\* Whatever tab is mounted implements OptimisticObject: no decision taken on a
\* version of the baseline that is not the present one ever lands.
THEOREM TabsWriteOptimistically == Spec => WritesOptimistic
<1>1. TabsKeep /\ [Next]_vars => TabsKeep' /\ [Optimistic!Next]_ovars
  BY StepKeeps DEF OptimisticStep
<1> QED
  BY InitKeeps, <1>1, PTL DEF Spec, WritesOptimistic, Optimistic!Spec, Optimistic!vars, ovars

\* A tab is busy exactly while a request it sent since it was opened is unanswered.
THEOREM TabsBusy == Spec => []BusyIsRequest
<1>1. TabsKeep => BusyIsRequest
  BY DEF TabsKeep, BusyIsRequest, ResultsWaits, ResultsBusyIsRequest, RemediationsWaits,
         RemediationsBusyIsRequest, ProfilesWaits, ProfilesBusyIsRequest, ScheduleWaits,
         ScheduleBusyIsRequest, Asking, Asked
<1> QED
  BY Always, <1>1, PTL

\* Once the watches have caught up, doing again what failed is accepted, in every tab:
\* the patch is built from what the watch delivered, and its parts exist there.  The
\* Save of a tailored profile lands exactly while the profile is what the form was
\* filled with; after a conflict, or a landed save whose answer was lost, it never
\* does until the form is opened again.
THEOREM TabsRetry == Spec => []RetryLands
<1>1. TabsKeep => RetryLands
  BY ResultsLandAgain, RemediationsLandAgain, ProfilesLandAgain, ScheduleLandsAgain
     DEF TabsKeep, RetryLands
<1> QED
  BY Always, <1>1, PTL

\* What is typed in the Results tab, in the form of a tailored profile or in the
\* schedule is lost by the administrator's own hand, by a request that landed or with
\* the deleted baseline, and by a late fetch of an edit in the one case
\* ProfilesKeepsInput names; a failed request takes nothing.
THEOREM TabsKeepInput == Spec => InputKept
<1> DEFINE kept == /\ route = "results" => ResultsKeepsInput
                   /\ route = "profiles" => ProfilesKeepsInput
                   /\ route = "schedule" => ScheduleKeepsInput
<1>1. TabsKeep /\ [Next]_vars => kept
  BY OneTab, ResultsStepKeepsInput, ProfilesStepKeepsInput, ScheduleStepKeepsInput
     DEF TabsKeep, ProfilesWaits
<1>2. TabsKeep /\ [Next]_vars => [kept]_vars
  BY <1>1
<1> QED
  BY Always, <1>2, PTL DEF Spec, InputKept

\* The form that edits a tailored profile is about the one whose Edit was clicked last.
THEOREM TabsForm == Spec => []FormIsWanted
<1>1. TabsKeep => FormIsWanted
  BY DEF TabsKeep, FormIsWanted, Wanting
<1> QED
  BY Always, <1>1, PTL

\* A batch is stored only over a baseline on which none is requested or under way.
THEOREM TabsBatches == Spec => BatchesDecided
<1>1. TabsKeep /\ [Next]_vars /\ route = "remediations" => DecidesBatch
  <2>1. UNCHANGED remediationsVars => DecidesBatch
    BY DEF remediationsVars, shared, DecidesBatch
  <2> QED
    BY <2>1, OneTab, StepDeciding DEF TabsKeep
<1>2. TabsKeep /\ [Next]_vars => [route = "remediations" => DecidesBatch]_vars
  BY <1>1
<1> QED
  BY Always, <1>2, PTL DEF Spec, BatchesDecided

\* A write of the console that leaves nothing to scan was confirmed in the dialog
\* that says so.
THEOREM TabsConfirmed == Spec => LastConfirmed
<1>1. TabsKeep /\ [Next]_vars => [route = "profiles" => ConfirmsLast]_vars
  BY OneTab, StepConfirms DEF TabsKeep
<1> QED
  BY Always, <1>1, PTL DEF Spec, LastConfirmed

\* A profile is bound as the one that was typed only if it is.
THEOREM TabsBinding == Spec => []BoundAsTyped
<1>1. TabsKeep => BoundAsTyped
  BY KnowingBinds DEF TabsKeep, BoundAsTyped
<1> QED
  BY Always, <1>1, PTL

\* No check has two stored waivers, and there are never more than the object may hold.
THEOREM TabsWaivers == Spec => []WaiversSound
<1>1. TabsKeep => WaiversSound
  BY SoundIsSound DEF TabsKeep, WaiversSound
<1> QED
  BY Always, <1>1, PTL
==============================================================================
