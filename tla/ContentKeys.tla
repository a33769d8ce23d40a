------------------------------ MODULE ContentKeys ------------------------------
(***************************************************************************)
(* The keys by which the tabs tell whether a list they have computed          *)
(* something from has changed (console-plugin/src/contentKey.ts, and           *)
(* historyContentKey in overviewTrend.ts).  A status is written anew on every    *)
(* reconcile, so what is computed from it (the trend, the changed checks, the     *)
(* filters) is kept as long as the key stays the same.  A key is a text; its       *)
(* characters are the point here, so texts are sequences of characters.            *)
(*                                                                              *)
(* Simplifications: objects, which a list of the status never holds, are left     *)
(* out; so are booleans, whose key is that of their text.                         *)
(***************************************************************************)
EXTENDS Integers, Sequences, SequencesExt

CONSTANTS
    Chars,     \* characters a text may hold, those of the keys among them
    Digits,    \* of the numbers, as characters
    Numeral,   \* how a length is written, by length
    MaxText,   \* bound: characters of a text, and of a number
    MaxList    \* bound: members of a list

VARIABLES
    values,    \* the list as the watch delivered it last
    key,       \* its key, as of the last rendering
    derived    \* the list that what is on the screen was computed from

vars == <<values, key, derived>>

Texts(of) == UNION {[1..k -> of] : k \in 0..MaxText}

Parts ==
    {[is |-> "text", chars |-> c] : c \in Texts(Chars)}
    \union {[is |-> "number", chars |-> c] : c \in Texts(Digits) \ {<<>>}}
    \union {[is |-> "undefined", chars |-> <<>>], [is |-> "null", chars |-> <<>>]}

Lists == UNION {[1..k -> Parts] : k \in 0..MaxList}

encodeKeyPart(part) ==
    CASE part.is = "number"    -> <<"n">> \o part.chars
      [] part.is = "undefined" -> <<"u">>
      [] part.is = "null"      -> <<"z">>
      [] OTHER                 -> <<"s">> \o Numeral[Len(part.chars)] \o <<":">> \o part.chars

encodeKeyList(list) == FoldLeft(LAMBDA text, part : text \o encodeKeyPart(part), <<>>, list)

\* the list is delivered, the tab renders
Render ==
    /\ values' \in Lists
    /\ key' = encodeKeyList(values')
    /\ derived' = IF key' = key THEN derived ELSE values'

Next == Render

Init == values = <<>> /\ key = encodeKeyList(values) /\ derived = values

Spec == Init /\ [][Next]_vars

\* What is on the screen was computed from the list as it is: no list can forge the
\* key of another one, whatever texts the status holds.
MemoFresh == derived = values
===============================================================================
