------------------------------ MODULE WaiverClock ------------------------------
(***************************************************************************)
(* Waivers run out with no event to say so.  The Overview and the Results     *)
(* tab compute as they render which waivers are active (and which run out soon) *)
(* and keep the answer until the content of the list changes or a timer set for  *)
(* the next deadline fires (components/useWaiverExpiryClock.ts, waivers.ts).     *)
(* The timer is set in the effect of that render, which reads the clock again,    *)
(* later.  React runs the effect of a render before it renders anew.              *)
(*                                                                             *)
(* A timer fires, and an effect runs, no further than MaxDrift from when it is    *)
(* due: a timer earlier too.  Time ends at Horizon.                               *)
(***************************************************************************)
EXTENDS Integers, FiniteSets, FiniteSetsExt

CONSTANTS
    Names,        \* checks that may be waived
    Instants,     \* instants a waiver may run out
    Never,        \* a waiver without expiresAt
    Unreadable,   \* an expiresAt that does not parse
    Unwaived,     \* no waiver of that name
    Soon,         \* the warning window
    TICK_PAD_MS,
    MAX_TIMEOUT_MS,
    MaxDrift,     \* bound: how far a timer or an effect is from when it is due
    Horizon       \* bound: the last instant

VARIABLES
    now,     \* the wall clock
    waivers, \* spec.waivers as the watch delivered it
    memo,    \* what the tab computed last
    timer,   \* instant of the pending timer, 0 when there is none
    due,     \* the effect of the last render has not run
    renderedAt, \* when memo was computed
    armedAt     \* when an effect ran last; these two are not in the code

vars == <<now, waivers, memo, timer, due, renderedAt, armedAt>>

futureExpiry(w, at) == w \in Instants /\ w > at

waiverExpired(w, at) == w = Unreadable \/ (w \in Instants /\ w <= at)

activeWaivedNames(list, at) ==
    {n \in Names : list[n] # Unwaived /\ ~waiverExpired(list[n], at)}

expiringWaivers(list, at) ==
    {n \in Names : futureExpiry(list[n], at) /\ list[n] <= at + Soon}

\* deadlines ahead: an expiry, and its entry into the warning window
futureWaiverDeadlineMs(list, at) ==
    LET expiries == {list[n] : n \in {m \in Names : futureExpiry(list[m], at)}}
    IN  {d \in expiries \union {t - Soon : t \in expiries} : d > at}

\* the delay to the next one, 0 when there is none; setTimeout takes no longer one
soonestDeadlineDelayMs(at, deadlines) ==
    IF deadlines = {} THEN 0
    ELSE LET delay == Min(deadlines) - at + TICK_PAD_MS
         IN  IF delay > MAX_TIMEOUT_MS THEN MAX_TIMEOUT_MS ELSE delay

Computed(list, at) ==
    [active |-> activeWaivedNames(list, at), expiring |-> expiringWaivers(list, at)]

\* the timer for the next deadline
Armed(list, at) ==
    LET delay == soonestDeadlineDelayMs(at, futureWaiverDeadlineMs(list, at))
    IN  IF delay = 0 THEN 0 ELSE at + delay

\* two lists the content key tells apart
waiversContentKey(list) == list

\* time passes, up to what is due
Advance ==
    /\ now < Horizon
    /\ timer # 0 => now < timer + MaxDrift
    /\ due => now < renderedAt + MaxDrift
    /\ now' = now + 1
    /\ UNCHANGED <<waivers, memo, timer, due, renderedAt, armedAt>>

\* the tab renders what it has to compute anew; its effect is due
Render ==
    /\ memo' = Computed(waivers', now)
    /\ renderedAt' = now
    /\ due' = TRUE

\* the effect that is due clears the timer and sets the next one
Effect ==
    /\ due /\ due' = FALSE
    /\ timer' = Armed(waivers, now) /\ armedAt' = now
    /\ UNCHANGED <<now, waivers, memo, renderedAt>>

\* an effect that is due runs before the tab renders anew
Flushed(left) ==
    IF due THEN timer' = Armed(waivers, now) /\ armedAt' = now
    ELSE timer' = left /\ UNCHANGED armedAt

\* the timer fires: the tick makes the tab render
Fire ==
    /\ timer # 0 /\ now >= timer - MaxDrift
    /\ UNCHANGED <<now, waivers>>
    /\ Flushed(0) /\ Render

\* the watch delivers the object: a list of the same content keeps the answer
Deliver ==
    /\ \E list \in [Names -> Instants \union {Never, Unreadable, Unwaived}] :
        /\ waivers' = list
        /\ IF waiversContentKey(list) = waiversContentKey(waivers)
           THEN UNCHANGED <<memo, timer, due, renderedAt, armedAt>>
           ELSE Flushed(timer) /\ Render
    /\ UNCHANGED now

Next == Advance \/ Effect \/ Fire \/ Deliver

Init ==
    /\ now = 1
    /\ waivers \in [Names -> Instants \union {Never, Unwaived}]
    /\ memo = Computed(waivers, now)
    /\ timer = 0 /\ due = TRUE
    /\ renderedAt = now /\ armedAt = now

Spec == Init /\ [][Next]_vars

------------------------------------------------------------------------------
(* properties *)

\* when a waiver of the list runs out, or is about to
Deadlines(list) ==
    LET expiries == {list[n] : n \in {m \in Names : list[m] \in Instants}}
    IN  expiries \union {t - Soon : t \in expiries}

\* The tab shows what was true when it rendered, and no deadline it has not noticed
\* is further back than the padding of the timer and its lateness: a waiver that ran
\* out is not shown as active, nor one about to run out left unannounced, until
\* somebody happens to touch the page.  The exception is a deadline that passed
\* between the render and its effect, which arms no timer for it; it is noticed with
\* the next deadline or change of the list.
NeverStaleLong ==
    /\ memo = Computed(waivers, renderedAt)
    /\ \A d \in Deadlines(waivers) :
        renderedAt < d /\ d + TICK_PAD_MS + MaxDrift < now => d <= armedAt
===============================================================================
