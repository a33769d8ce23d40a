------------------------- MODULE ConsoleWritesProofs --------------------------
(***************************************************************************)
(* What every tab of the console has in common: each step of ConsoleWrites  *)
(* keeps Coherent and is, under the refinement mapping, a step of            *)
(* OptimisticObject or a stutter; and the bookkeeping by which a tab that    *)
(* sends only while it is idle is busy exactly while a request of its own is *)
(* unanswered.  The proofs about the tabs cite these lemmas.                 *)
(***************************************************************************)
EXTENDS ConsoleWrites, TLAPS

CallFields == {"of", "kind", "about", "base", "patch", "mount", "served", "given"}

\* an object carries its version, counted from 1
Versioned(object) == "rv" \in DOMAIN object /\ object.rv \in Nat \ {0}

\* a state somebody read is one the object had: an older one, or the present one
Read(object, stored) ==
    /\ Versioned(object)
    /\ object.rv <= stored.rv
    /\ object.rv = stored.rv => object = stored

\* a request for the baseline insists on the version it was decided on
CallCoherent(call, stored) ==
    /\ DOMAIN call = CallFields
    /\ call.of # "nothing"
    /\ call.of # "remediation" => Read(call.base, stored)
    /\ call.of = "baseline" => call.patch.rv = call.base.rv

CallsTyped == calls = [s \in Slots |-> calls[s]]

Coherent ==
    /\ Versioned(server)
    /\ Read(watched, server)
    /\ CallsTyped
    /\ \A s \in Slots : calls[s] # NoCall => CallCoherent(calls[s], server)

ovars == <<server.rv, Members(server), author, Decisions>>
OptimisticStep == Optimistic!Next \/ UNCHANGED ovars

\* the decision a request stands for
DecisionOf(call) ==
    [version |-> call.base.rv, read |-> Members(call.base),
     written |-> Members(Patched(call.base, call.patch.write))]

Standing(s) == calls[s] # NoCall /\ calls[s].of = "baseline"

------------------------------------------------------------------------------
(* what is written, and the decisions under way *)

\* a written object is the next version of what the patch makes of it
LEMMA WrittenNext ==
    ASSUME NEW object, Versioned(object), NEW patch
    PROVE  /\ Versioned(Written(object, patch))
           /\ Written(object, patch).rv = object.rv + 1
           /\ Members(Written(object, patch)) = Members(Patched(object, patch.write))
<1> DEFINE next == Patched(object, patch.write)
<1>1. DOMAIN next = DOMAIN object
  BY DEF Patched
<1>2. Written(object, patch) = [next EXCEPT !.rv = object.rv + 1]
  BY DEF Written
<1> HIDE DEF next
<1>3. "rv" \in DOMAIN next
  BY <1>1 DEF Versioned
<1>4. Members(Written(object, patch)) = Members(next)
  BY <1>2 DEF Members
<1> QED
  BY <1>2, <1>3, <1>4 DEF Versioned, next

\* what was read of a version was read of it when the next one is there
LEMMA ReadKept ==
    ASSUME NEW stored, NEW next, Versioned(stored), Versioned(next), next.rv = stored.rv + 1
    PROVE  /\ \A object : Read(object, stored) => Read(object, next)
           /\ \A call : CallCoherent(call, stored) => CallCoherent(call, next)
<1>1. \A object : Read(object, stored) => Read(object, next)
  BY DEF Read, Versioned
<1> QED
  BY <1>1 DEF CallCoherent

\* a request that is served or given up is about the same
LEMMA SameCall ==
    ASSUME NEW call, NEW stored, CallCoherent(call, stored), NEW next, NEW val,
           \/ next = [call EXCEPT !.given = val]
           \/ next = [call EXCEPT !.served = val]
    PROVE  /\ CallCoherent(next, stored)
           /\ next.of = call.of /\ next.base = call.base /\ next.patch = call.patch
           /\ next.kind = call.kind /\ next.about = call.about /\ next.mount = call.mount
BY DEF CallCoherent, CallFields

\* the decisions are those of the requests for the baseline
LEMMA DecisionsAre ==
    ASSUME CallsTyped, CallsTyped'
    PROVE  /\ \A s \in Slots : Standing(s) => DecisionOf(calls[s]) \in Decisions
           /\ \A d \in Decisions : \E s \in Slots : Standing(s) /\ d = DecisionOf(calls[s])
           /\ \A s \in Slots : Standing(s)' => DecisionOf(calls'[s]) \in Decisions'
           /\ \A d \in Decisions' : \E s \in Slots : Standing(s)' /\ d = DecisionOf(calls'[s])
<1>1. DOMAIN calls = Slots /\ DOMAIN calls' = Slots
  BY DEF CallsTyped, Slots
<1>2. \A s \in Slots : Standing(s) => DecisionOf(calls[s]) \in Decisions
  BY <1>1 DEF Decisions, Standing, DecisionOf
<1>3. \A d \in Decisions : \E s \in Slots : Standing(s) /\ d = DecisionOf(calls[s])
  BY <1>1 DEF Decisions, Standing, DecisionOf
<1>4. \A s \in Slots : Standing(s)' => DecisionOf(calls'[s]) \in Decisions'
  BY <1>1 DEF Decisions, Standing, DecisionOf
<1>5. \A d \in Decisions' : \E s \in Slots : Standing(s)' /\ d = DecisionOf(calls'[s])
  BY <1>1 DEF Decisions, Standing, DecisionOf
<1> QED
  BY <1>2, <1>3, <1>4, <1>5

\* every request under way was under way, about the same
SameRequests ==
    \A r \in Slots : calls'[r] # NoCall =>
        /\ calls[r] # NoCall
        /\ calls'[r].of = calls[r].of /\ calls'[r].kind = calls[r].kind
        /\ calls'[r].base = calls[r].base /\ calls'[r].patch = calls[r].patch
        /\ calls'[r].about = calls[r].about /\ calls'[r].mount = calls[r].mount

\* so it is when one is served, given up or forgotten
LEMMA OneServed ==
    ASSUME Coherent, NEW s \in Slots, calls[s] # NoCall, NEW next,
           calls' = [calls EXCEPT ![s] = next],
           \/ next = NoCall
           \/ next = [calls[s] EXCEPT !.given = TRUE]
           \/ \E val : next = [calls[s] EXCEPT !.served = val]
    PROVE  /\ CallsTyped' /\ SameRequests
           /\ \A r \in Slots : calls'[r] # NoCall => CallCoherent(calls'[r], server)
<1>1. CallCoherent(calls[s], server)
  BY DEF Coherent
<1>2. CallsTyped' /\ calls'[s] = next /\ \A r \in Slots : r # s => calls'[r] = calls[r]
  BY DEF Coherent, CallsTyped
<1>3. next # NoCall =>
        /\ CallCoherent(next, server)
        /\ next.of = calls[s].of /\ next.base = calls[s].base /\ next.patch = calls[s].patch
        /\ next.kind = calls[s].kind /\ next.about = calls[s].about
        /\ next.mount = calls[s].mount
  BY <1>1, SameCall
<1>4. CallsTyped' /\ SameRequests
  BY <1>2, <1>3 DEF SameRequests
<1> QED
  BY <1>2, <1>3, <1>4 DEF Coherent

LEMMA SettledIsOne ==
    ASSUME Coherent, NEW s \in Slots, NEW fulfilled, Settled(s, fulfilled)
    PROVE  /\ CallsTyped' /\ SameRequests
           /\ \A r \in Slots : calls'[r] # NoCall => CallCoherent(calls'[r], server)
<1> DEFINE next == IF Pending(s) THEN [calls[s] EXCEPT !.given = TRUE] ELSE NoCall
<1>1. calls[s] # NoCall /\ calls' = [calls EXCEPT ![s] = next]
  BY DEF Settled
<1>2. next = NoCall \/ next = [calls[s] EXCEPT !.given = TRUE]
  OBVIOUS
<1> HIDE DEF next
<1> QED
  BY <1>1, <1>2, OneServed

LEMMA ServedIsOne ==
    ASSUME Coherent, NEW s \in Slots, Pending(s), NEW ok, Decided(s, ok)
    PROVE  /\ CallsTyped' /\ SameRequests
           /\ \A r \in Slots : calls'[r] # NoCall => CallCoherent(calls'[r], server)
<1> DEFINE next == IF calls[s].given THEN NoCall
                   ELSE [calls[s] EXCEPT !.served = IF ok THEN "landed" ELSE "refused"]
<1>1. calls[s] # NoCall /\ calls' = [calls EXCEPT ![s] = next]
  BY DEF Decided, Pending
<1>2. next = NoCall \/ \E val : next = [calls[s] EXCEPT !.served = val]
  OBVIOUS
<1> HIDE DEF next
<1> QED
  BY <1>1, <1>2, OneServed

\* no decision is new when no request is about anything new
LEMMA NothingDecided ==
    ASSUME CallsTyped, CallsTyped',
           \A s \in Slots : Standing(s)' =>
               Standing(s) /\ calls'[s].base = calls[s].base /\ calls'[s].patch = calls[s].patch
    PROVE  Decisions' \subseteq Decisions
<1> SUFFICES ASSUME NEW d \in Decisions' PROVE d \in Decisions
  OBVIOUS
<1>1. PICK s \in Slots : Standing(s)' /\ d = DecisionOf(calls'[s])
  BY DecisionsAre
<1>2. d = DecisionOf(calls[s])
  BY <1>1 DEF DecisionOf
<1> QED
  BY <1>1, <1>2, DecisionsAre

\* the decision of one slot may be new, when it was made on what was read
LEMMA OneDecided ==
    ASSUME CallsTyped, CallsTyped', NEW s \in Slots, ~Standing(s), Standing(s)',
           \A r \in Slots : r # s => calls'[r] = calls[r],
           Read(calls'[s].base, server), UNCHANGED <<server, author>>
    PROVE  OptimisticStep
<1> DEFINE d == DecisionOf(calls'[s])
<1>1. Decisions' \subseteq Decisions \union {d}
  <2> SUFFICES ASSUME NEW e \in Decisions', e # d PROVE e \in Decisions
    OBVIOUS
  <2>1. PICK r \in Slots : Standing(r)' /\ e = DecisionOf(calls'[r])
    BY DecisionsAre
  <2>2. Standing(r) /\ e = DecisionOf(calls[r])
    BY <2>1 DEF Standing
  <2> QED
    BY <2>2, DecisionsAre
<1>2. Decisions \subseteq Decisions'
  <2> SUFFICES ASSUME NEW e \in Decisions PROVE e \in Decisions'
    OBVIOUS
  <2>1. PICK r \in Slots : Standing(r) /\ e = DecisionOf(calls[r])
    BY DecisionsAre
  <2>2. Standing(r)' /\ e = DecisionOf(calls'[r])
    BY <2>1 DEF Standing
  <2> QED
    BY <2>2, DecisionsAre
<1>3. d \in Decisions'
  BY DecisionsAre
<1>4. d.version <= server.rv /\ (d.version = server.rv => d.read = Members(server))
  BY DEF DecisionOf, Read
<1>5. Optimistic!Decide
  BY <1>1, <1>2, <1>3, <1>4 DEF Optimistic!Decide
<1> QED
  BY <1>5 DEF OptimisticStep, Optimistic!Next

------------------------------------------------------------------------------
(* each operation of a tab *)

\* a request is sent: what was decided stands in a free slot
LEMMA SendDecides ==
    ASSUME Coherent, UNCHANGED <<server, author, watched>>,
           NEW of, NEW kind, NEW about, NEW base, NEW patch,
           of # "nothing",
           of # "remediation" => Read(base, server),
           of = "baseline" => patch.rv = base.rv,
           Send(of, kind, about, base, patch)
    PROVE  /\ Coherent' /\ OptimisticStep
           /\ \A r \in Slots :
                \/ calls'[r] = calls[r]
                \/ /\ calls'[r].of = of /\ calls'[r].kind = kind
                   /\ calls'[r].base = base /\ calls'[r].patch = patch
<1> DEFINE call == [of |-> of, kind |-> kind, about |-> about, base |-> base,
                    patch |-> patch, mount |-> mount, served |-> "no", given |-> FALSE]
<1>1. PICK s \in Slots : calls[s] = NoCall /\ calls' = [calls EXCEPT ![s] = call]
  BY DEF Send
<1>2. CallCoherent(call, server)
  BY DEF CallCoherent, CallFields
<1>3. /\ call # NoCall /\ call.of = of /\ call.kind = kind
      /\ call.base = base /\ call.patch = patch
  BY DEF NoCall
<1> HIDE DEF call
<1>4. CallsTyped' /\ calls'[s] = call /\ \A r \in Slots : r # s => calls'[r] = calls[r]
  BY <1>1 DEF Coherent, CallsTyped
<1>5. Coherent'
  BY <1>2, <1>4 DEF Coherent
<1>6. ~Standing(s)
  BY <1>1 DEF Standing
<1>7. CASE of = "baseline"
  <2>1. Standing(s)' /\ Read(calls'[s].base, server)
    BY <1>3, <1>4, <1>7 DEF Standing
  <2> QED
    BY <1>3, <1>4, <1>5, <1>6, <2>1, OneDecided DEF Coherent
<1>8. CASE of # "baseline"
  <2>1. \A r \in Slots : Standing(r)' <=> Standing(r) /\ r # s
    BY <1>3, <1>4, <1>6, <1>8 DEF Standing
  <2>2. Decisions' \subseteq Decisions
    BY <1>4, <2>1, NothingDecided DEF Coherent
  <2>3. Optimistic!Discard
    BY <2>2 DEF Optimistic!Discard
  <2> QED
    BY <1>3, <1>4, <1>5, <2>3 DEF OptimisticStep, Optimistic!Next
<1> QED
  BY <1>7, <1>8

\* a request settles or is given up
LEMMA SettledDiscards ==
    ASSUME Coherent, NEW s \in Slots, NEW fulfilled, Settled(s, fulfilled)
    PROVE  Coherent' /\ OptimisticStep
<1>1. UNCHANGED <<server, author, watched>>
  BY DEF Settled
<1>2. Coherent'
  BY <1>1, SettledIsOne DEF Coherent
<1>3. Decisions' \subseteq Decisions
  BY SettledIsOne, NothingDecided DEF Coherent, Standing, SameRequests
<1>4. Optimistic!Discard
  BY <1>1, <1>3 DEF Optimistic!Discard
<1> QED
  BY <1>2, <1>4 DEF OptimisticStep, Optimistic!Next

\* the API server serves a request for the baseline: it lands on the version it
\* was decided on, or is refused
LEMMA ServeLands ==
    ASSUME Coherent, NEW s \in Slots, Serve(s)
    PROVE  /\ Coherent' /\ OptimisticStep
           /\ CallsTyped' /\ SameRequests
           /\ \/ UNCHANGED server
              \/ calls[s].base = server /\ server' = Written(calls[s].base, calls[s].patch)
<1> DEFINE patch == calls[s].patch
           ok    == Accepts(server, patch)
<1>1. Standing(s) /\ UNCHANGED watched
  BY DEF Serve, Pending, Standing
<1>2. /\ CallsTyped' /\ SameRequests
      /\ \A r \in Slots : calls'[r] # NoCall => CallCoherent(calls'[r], server)
  BY ServedIsOne DEF Serve
<1>3. IF ok THEN server' = Written(server, patch) /\ author' = "console"
      ELSE UNCHANGED <<server, author>>
  BY DEF Serve
<1>4. Decisions' \subseteq Decisions
  BY <1>2, NothingDecided DEF Coherent, Standing, SameRequests
<1>5. CASE ~ok
  <2>1. Coherent'
    BY <1>1, <1>2, <1>3, <1>5 DEF Coherent
  <2>2. Optimistic!Discard
    BY <1>3, <1>4, <1>5 DEF Optimistic!Discard
  <2> QED
    BY <1>2, <1>3, <1>5, <2>1, <2>2 DEF OptimisticStep, Optimistic!Next
<1>6. CASE ok
  <2>1. /\ Versioned(server')
        /\ server'.rv = server.rv + 1
        /\ Members(server') = Members(Patched(server, patch.write))
    BY <1>3, <1>6, WrittenNext DEF Coherent
  <2>2. /\ \A object : Read(object, server) => Read(object, server')
        /\ \A call : CallCoherent(call, server) => CallCoherent(call, server')
    BY <2>1, ReadKept DEF Coherent
  <2>3. Coherent'
    BY <1>1, <1>2, <2>1, <2>2 DEF Coherent
  <2>4. calls[s].base = server
    <3>1. Read(calls[s].base, server) /\ patch.rv = calls[s].base.rv
      BY <1>1 DEF CallCoherent, Coherent, Standing
    <3>2. patch.rv # 0
      BY <3>1 DEF Read, Versioned
    <3>3. patch.rv = server.rv
      BY <1>6, <3>2 DEF Accepts
    <3> QED
      BY <3>1, <3>3 DEF Read
  <2>5. DecisionOf(calls[s]) \in Decisions
    BY <1>1, <1>2, DecisionsAre DEF Coherent
  <2>6. Optimistic!Land
    BY <1>3, <1>4, <1>6, <2>1, <2>4, <2>5 DEF Optimistic!Land, DecisionOf
  <2> QED
    BY <1>2, <1>3, <1>6, <2>3, <2>4, <2>6 DEF OptimisticStep, Optimistic!Next
<1> QED
  BY <1>5, <1>6

\* somebody else writes
LEMMA OthersAreForeign ==
    ASSUME Coherent, NEW object, "rv" \in DOMAIN object, OtherWrites(object)
    PROVE  Coherent' /\ OptimisticStep
<1>1. server' = [object EXCEPT !.rv = server.rv + 1] /\ author' = "other"
      /\ UNCHANGED <<watched, calls>>
  BY DEF OtherWrites
<1>2. Versioned(server') /\ server'.rv = server.rv + 1
  BY <1>1 DEF Coherent, Versioned
<1>3. /\ \A seen : Read(seen, server) => Read(seen, server')
      /\ \A call : CallCoherent(call, server) => CallCoherent(call, server')
  BY <1>2, ReadKept DEF Coherent
<1>4. Coherent'
  BY <1>1, <1>2, <1>3 DEF Coherent, CallsTyped
<1>5. Optimistic!Foreign
  BY <1>1, <1>2 DEF Optimistic!Foreign, Decisions
<1> QED
  BY <1>4, <1>5 DEF OptimisticStep, Optimistic!Next

\* the watch, and everything that touches neither the object nor a request
LEMMA QuietStutters ==
    ASSUME Coherent, UNCHANGED <<server, author, calls>>, watched' \in {watched, server}
    PROVE  Coherent' /\ OptimisticStep
<1>1. Read(watched, server) /\ Read(server, server)
  BY DEF Coherent, Read, Versioned
<1>2. Coherent'
  BY <1>1 DEF Coherent, CallsTyped
<1>3. UNCHANGED ovars
  BY DEF ovars, Members, Decisions
<1> QED
  BY <1>2, <1>3 DEF OptimisticStep

------------------------------------------------------------------------------
(* who waits for what *)

\* a request of the present opening of the tab is unanswered
Asked(s) == calls[s] # NoCall /\ ~calls[s].given /\ Heard(s)
Asking == \E s \in Slots : Asked(s)

\* at most one, and none of an opening to come
Bookkept ==
    /\ CallsTyped
    /\ mount \in Nat
    /\ \A s \in Slots : calls[s] # NoCall =>
          DOMAIN calls[s] = CallFields /\ calls[s].mount \in 0..mount
    /\ \A r, s \in Slots : Asked(r) /\ Asked(s) => r = s

\* a tab that sends while it asks for nothing asks for one thing then
LEMMA SendAsks ==
    ASSUME Bookkept, UNCHANGED mount, ~Asking,
           NEW of, NEW kind, NEW about, NEW base, NEW patch,
           Send(of, kind, about, base, patch)
    PROVE  Bookkept' /\ Asking'
<1> DEFINE call == [of |-> of, kind |-> kind, about |-> about, base |-> base,
                    patch |-> patch, mount |-> mount, served |-> "no", given |-> FALSE]
<1>1. PICK s \in Slots : calls[s] = NoCall /\ calls' = [calls EXCEPT ![s] = call]
  BY DEF Send
<1>2. /\ DOMAIN call = CallFields /\ call.mount = mount /\ call.given = FALSE
      /\ call # NoCall
  <2>1. DOMAIN call = CallFields /\ call.mount = mount /\ call.given = FALSE
    BY DEF CallFields
  <2>2. DOMAIN NoCall = {"of"}
    BY DEF NoCall
  <2> QED
    BY <2>1, <2>2 DEF CallFields
<1> HIDE DEF call
<1>3. CallsTyped' /\ calls'[s] = call /\ \A r \in Slots : r # s => calls'[r] = calls[r]
  BY <1>1 DEF Bookkept, CallsTyped
<1>4. \A r \in Slots : Asked(r)' <=> r = s
  BY <1>2, <1>3 DEF Asking, Asked, Heard
<1> QED
  BY <1>2, <1>3, <1>4 DEF Bookkept, Asking

\* a request that is served is asked for as before
LEMMA ServedIsAsked ==
    ASSUME Bookkept, UNCHANGED mount, NEW s \in Slots, calls[s] # NoCall,
           NEW next, calls' = [calls EXCEPT ![s] = next],
           \/ calls[s].given /\ next = NoCall
           \/ /\ ~calls[s].given /\ ~next.given /\ next # NoCall
              /\ DOMAIN next = CallFields /\ next.mount = calls[s].mount
    PROVE  Bookkept' /\ (Asking' <=> Asking)
<1>1. CallsTyped' /\ calls'[s] = next /\ \A r \in Slots : r # s => calls'[r] = calls[r]
  BY DEF Bookkept, CallsTyped
<1>2. \A r \in Slots : Asked(r)' <=> Asked(r)
  BY <1>1 DEF Asked, Heard
<1> QED
  BY <1>1, <1>2 DEF Bookkept, Asking

LEMMA DecidedAsks ==
    ASSUME Bookkept, UNCHANGED mount, NEW s \in Slots, Pending(s), NEW ok, Decided(s, ok)
    PROVE  Bookkept' /\ (Asking' <=> Asking)
<1> DEFINE next == IF calls[s].given THEN NoCall
                   ELSE [calls[s] EXCEPT !.served = IF ok THEN "landed" ELSE "refused"]
<1>1. calls[s] # NoCall /\ calls' = [calls EXCEPT ![s] = next]
  BY DEF Pending, Decided
<1>2. DOMAIN calls[s] = CallFields
  BY <1>1 DEF Bookkept
<1>3. CASE calls[s].given
  BY <1>1, <1>3, ServedIsAsked
<1>4. CASE ~calls[s].given
  <2>1. DOMAIN next = CallFields /\ next.mount = calls[s].mount /\ ~next.given
    BY <1>2, <1>4 DEF CallFields
  <2>2. next # NoCall
    BY <2>1 DEF CallFields, NoCall
  <2> HIDE DEF next
  <2> QED
    BY <1>1, <1>4, <2>1, <2>2, ServedIsAsked
<1> QED
  BY <1>3, <1>4

LEMMA ServeAsks ==
    ASSUME Bookkept, NEW s \in Slots, Serve(s)
    PROVE  Bookkept' /\ (Asking' <=> Asking)
<1>1. Pending(s) /\ UNCHANGED mount /\ \E ok : Decided(s, ok)
  BY DEF Serve
<1> QED
  BY <1>1, DecidedAsks

\* the answer to the request the tab waits for ends the waiting; another one,
\* nobody hears
LEMMA SettledAsks ==
    ASSUME Bookkept, NEW s \in Slots, NEW fulfilled, Settled(s, fulfilled)
    PROVE  /\ Bookkept'
           /\ Heard(s) => ~Asking'
           /\ ~Heard(s) => (Asking' <=> Asking)
<1> DEFINE next == IF Pending(s) THEN [calls[s] EXCEPT !.given = TRUE] ELSE NoCall
<1>1. calls[s] # NoCall /\ ~calls[s].given /\ UNCHANGED mount
  BY DEF Settled
<1>2. calls' = [calls EXCEPT ![s] = next]
  BY DEF Settled
<1>3. next # NoCall => DOMAIN next = CallFields /\ next.mount = calls[s].mount /\ next.given
  BY <1>1 DEF Bookkept, CallFields
<1> HIDE DEF next
<1>4. CallsTyped' /\ calls'[s] = next /\ \A r \in Slots : r # s => calls'[r] = calls[r]
  BY <1>2 DEF Bookkept, CallsTyped
<1>5. \A r \in Slots : Asked(r)' <=> Asked(r) /\ r # s
  BY <1>1, <1>3, <1>4 DEF Asked, Heard
<1>6. Bookkept'
  BY <1>1, <1>3, <1>4, <1>5 DEF Bookkept
<1>7. ASSUME Heard(s) PROVE ~Asking'
  <2>1. Asked(s)
    BY <1>1, <1>7 DEF Asked
  <2> QED
    BY <1>5, <2>1 DEF Asking, Bookkept
<1>8. ASSUME ~Heard(s) PROVE Asking' <=> Asking
  <2>1. ~Asked(s)
    BY <1>8 DEF Asked
  <2> QED
    BY <1>5, <2>1 DEF Asking
<1> QED
  BY <1>6, <1>7, <1>8

\* a tab that was opened anew asks for nothing
LEMMA RemountAsksNothing ==
    ASSUME Bookkept, UNCHANGED calls, mount' = mount + 1
    PROVE  Bookkept' /\ ~Asking'
<1>1. \A s \in Slots : ~Asked(s)'
  BY DEF Bookkept, Asked, Heard
<1> QED
  BY <1>1 DEF Bookkept, Asking, CallsTyped

LEMMA QuietAsks ==
    ASSUME Bookkept, UNCHANGED <<calls, mount>>
    PROVE  Bookkept' /\ (Asking' <=> Asking)
BY DEF Bookkept, Asking, Asked, Heard, CallsTyped
===============================================================================
