---------------------------------- MODULE Lists ---------------------------------
(***************************************************************************)
(* What Array.prototype.filter and sort do to the lists of the console.       *)
(* SelectSeq and SortSeq take an operator, about which nothing can be proved    *)
(* for every one; these take the members to keep, and the order as a set of      *)
(* pairs.                                                                       *)
(***************************************************************************)
EXTENDS SequencesExt

\* the members of the list that are in the set, in their order
Kept(list, of) ==
    FoldLeft(LAMBDA kept, e : IF e \in of THEN Append(kept, e) ELSE kept, <<>>, list)

\* the elements of a set, each once, in the order of the pairs
Ordered(set, before) ==
    CHOOSE list \in [1..Cardinality(set) -> set] :
        \A i, j \in 1..Cardinality(set) : i < j => <<list[i], list[j]>> \in before
================================================================================
