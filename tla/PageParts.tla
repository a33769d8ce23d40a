------------------------------- MODULE PageParts -------------------------------
(***************************************************************************)
(* Three small parts every tab has, in which something answers late: the     *)
(* dialog with the rendered object of a remediation and its copy button       *)
(* (components/RemediationsTab.tsx), the gate that loads the code of a tab    *)
(* (components/chunkLoad.ts, ChunkError.tsx) inside the boundary that catches  *)
(* what it throws (TabErrorBoundary.tsx), and the focus that is given back     *)
(* when a dialog closes (components/focus.ts).                                 *)
(*                                                                            *)
(* External: the clipboard, import(), requestAnimationFrame.                   *)
(***************************************************************************)
EXTENDS Naturals

CONSTANTS
    Objects,   \* remediations
    NoObject,  \* no dialog, nothing to give the focus back to
    MaxSteps   \* bound: openings, copies, imports

VARIABLES
    viewer,   \* the dialog: object shown, copied, error, number of the last click
    writes,   \* clipboard writes under way
    gate,     \* the chunk gate: attempt, what was settled last, boundary failed
    imports,  \* imports under way
    focus,    \* where the focus is: a dialog, a trigger, the container, the body
    frame,    \* the restore that waits for its frame
    steps     \* what MaxSteps bounds, so far

vars == <<viewer, writes, gate, imports, focus, frame, steps>>

Step == steps < MaxSteps /\ steps' = steps + 1

------------------------------------------------------------------------------
(* the rendered object.  copiedOf, the object the last reported copy was of, is *)
(* not in the code *)

OtherOpen == [in |-> "dialog", of |-> "other"]

Anew(o) == [viewer EXCEPT !.seq = @ + 1, !.showing = o, !.copied = FALSE, !.error = FALSE]

viewing == viewer.showing # NoObject

\* mutation: every answer counts
AnyAnswer(write) == TRUE

\* an answer counts only when nothing was clicked since
Current(write) == write.seq = viewer.seq

View(o) ==
    /\ Step /\ ~viewing /\ focus # OtherOpen
    /\ viewer' = Anew(o)
    /\ UNCHANGED <<writes, gate, imports>>

CloseView ==
    /\ viewing
    /\ viewer' = Anew(NoObject)
    /\ UNCHANGED <<writes, gate, imports, steps>>

\* without a clipboard, or permission, the click says so
Copy(available) ==
    /\ Step /\ viewing
    /\ viewer' = [viewer EXCEPT !.seq = @ + 1, !.copied = @ /\ available, !.error = @ \/ ~available]
    /\ writes' = IF available
                 THEN writes \union {[seq |-> viewer.seq + 1, of |-> viewer.showing]} ELSE writes
    /\ UNCHANGED <<gate, imports, focus, frame>>

Copied(write, ok) ==
    /\ writes' = writes \ {write}
    /\ viewer' = IF Current(write)
                 THEN [viewer EXCEPT !.copied = ok, !.error = ~ok,
                                     !.copiedOf = IF ok THEN write.of ELSE @]
                 ELSE viewer
    /\ UNCHANGED <<gate, imports, focus, frame, steps>>

TooltipHidden ==
    /\ viewer.copied
    /\ viewer' = [viewer EXCEPT !.copied = FALSE]
    /\ UNCHANGED <<writes, gate, imports, focus, frame, steps>>

------------------------------------------------------------------------------
(* the chunk of a tab *)

\* until the present attempt settles the gate loads
useChunk == IF gate.settled.attempt = gate.attempt THEN gate.settled.state ELSE "loading"

GateShows == IF gate.failed THEN "error" ELSE useChunk

Import(attempt) == {[attempt |-> attempt, mount |-> gate.mount]}

\* Retry of a failed chunk
RetryChunk ==
    /\ Step /\ GateShows = "failed"
    /\ gate' = [gate EXCEPT !.attempt = @ + 1]
    /\ imports' = imports \union Import(gate.attempt + 1)
    /\ UNCHANGED <<viewer, writes, focus, frame>>

\* an import settles; watchChunk drops what a newer effect cancelled
ChunkSettled(i, state) ==
    /\ imports' = imports \ {i}
    /\ gate' = IF i.mount = gate.mount
               THEN [gate EXCEPT !.settled = [attempt |-> i.attempt, state |-> state]] ELSE gate
    /\ UNCHANGED <<viewer, writes, focus, frame, steps>>

\* the tab throws while it renders
Throw ==
    /\ GateShows = "ready"
    /\ gate' = [gate EXCEPT !.failed = TRUE]
    /\ UNCHANGED <<viewer, writes, imports, focus, frame, steps>>

\* Retry of the boundary, or another tab and back: the subtree is mounted anew
MountAnew ==
    /\ Step
    /\ gate' = [mount |-> gate.mount + 1, attempt |-> 0, failed |-> FALSE,
                settled |-> [attempt |-> 0, state |-> "loading"]]
    /\ imports' = imports \union {[attempt |-> 0, mount |-> gate.mount + 1]}
    /\ UNCHANGED <<viewer, writes, focus, frame>>

------------------------------------------------------------------------------
(* focus *)

NoFrame == [to |-> NoObject, dialogs |-> {}]

\* opening the dialog moves the focus into it and drops a restore that waits (the
\* cleanup of the effect); closing it asks for the next frame, and the focus may
\* still be in it until it has left the screen
Refocused ==
    \/ /\ ~viewing /\ viewing'
       /\ focus' = [in |-> "dialog", of |-> viewer'.showing]
       /\ frame' = NoFrame
    \/ /\ viewing /\ ~viewing'
       /\ focus' \in {focus, [in |-> "body", of |-> NoObject]}
       /\ frame' = [to |-> viewer.showing, dialogs |-> {viewer.showing}]

\* another dialog of the tab takes the focus before the frame, and closes
OtherDialog ==
    /\ ~viewing
    /\ focus' = IF focus = OtherOpen THEN [in |-> "body", of |-> NoObject] ELSE OtherOpen
    /\ UNCHANGED <<viewer, writes, gate, imports, frame, steps>>

\* mutation: whoever holds the focus loses it
TakeFocus(connected) ==
    /\ frame # NoFrame
    /\ focus' = IF connected THEN [in |-> "trigger", of |-> frame.to]
                ELSE [in |-> "container", of |-> NoObject]
    /\ frame' = NoFrame
    /\ UNCHANGED <<viewer, writes, gate, imports, steps>>

\* the frame: the focus goes back to the trigger, or to the container when the
\* trigger is gone, unless a dialog that was not open then holds it
restoreFocus(connected) ==
    /\ frame # NoFrame
    /\ focus' = IF focus.in = "dialog" /\ focus.of \notin frame.dialogs THEN focus
                ELSE IF connected THEN [in |-> "trigger", of |-> frame.to]
                ELSE [in |-> "container", of |-> NoObject]
    /\ frame' = NoFrame
    /\ UNCHANGED <<viewer, writes, gate, imports, steps>>

------------------------------------------------------------------------------
Next ==
    \/ \E o \in Objects : View(o) /\ Refocused
    \/ CloseView /\ Refocused
    \/ \E available \in BOOLEAN : Copy(available)
    \/ \E w \in writes, ok \in BOOLEAN : Copied(w, ok)
    \/ TooltipHidden
    \/ RetryChunk \/ Throw \/ MountAnew
    \/ \E i \in imports, state \in {"ready", "failed"} : ChunkSettled(i, state)
    \/ OtherDialog
    \/ \E connected \in BOOLEAN : restoreFocus(connected)

Init ==
    /\ viewer = [seq |-> 0, showing |-> NoObject, copied |-> FALSE, error |-> FALSE,
                 copiedOf |-> NoObject]
    /\ writes = {}
    /\ gate = [mount |-> 0, attempt |-> 0, failed |-> FALSE,
               settled |-> [attempt |-> 0, state |-> "loading"]]
    /\ imports = {[attempt |-> 0, mount |-> 0]}
    /\ focus = [in |-> "body", of |-> NoObject] /\ frame = NoFrame
    /\ steps = 0

Spec == Init /\ [][Next]_vars

------------------------------------------------------------------------------
(* properties *)

\* What is shown belongs to what is on the screen: "Copied" is about the object
\* shown, whatever copy of another one answers late, and the outcome of an
\* import is that of the attempt the gate waits for.
AnswersBelong ==
    /\ viewer.copied => viewer.copiedOf = viewer.showing
    /\ useChunk # "loading" =>
        ~\E i \in imports : i.mount = gate.mount /\ i.attempt = gate.attempt

\* Giving the focus back never pulls it out of a dialog opened in between.
LeavesDialogs ==
    \A connected \in BOOLEAN : restoreFocus(connected) /\ focus = OtherOpen => UNCHANGED focus
FocusNotStolen == [][LeavesDialogs]_vars
===============================================================================
