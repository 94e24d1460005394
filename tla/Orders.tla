-------------------------------- MODULE Orders --------------------------------
(***************************************************************************)
(* Lists of the elements of a finite set in a given order, which is a set  *)
(* of pairs: what the program gets from std::stable_sort and from loops    *)
(* that append one group of elements after another.                        *)
(***************************************************************************)
EXTENDS Integers, FiniteSets

(* The place of x in S: how many elements are not behind it.               *)
Place(S, order, x) == Cardinality({y \in S : <<y, x>> \in order})

Listed(S, order) ==
    [p \in 1..Cardinality(S) |-> CHOOSE x \in S : Place(S, order, x) = p]

(* Positions by their keys; those with equal keys keep their order.        *)
ByKey(key) ==
    {e \in (DOMAIN key) \X (DOMAIN key) :
        key[e[1]] < key[e[2]] \/ (key[e[1]] = key[e[2]] /\ e[1] <= e[2])}

SortOrder(key) == Listed(DOMAIN key, ByKey(key))

Rearranged(s, order) == [p \in DOMAIN order |-> s[order[p]]]

(* std::stable_sort of s, whose elements have these keys.                  *)
StableSort(s, key) == Rearranged(s, SortOrder(key))

(* The first of some positions.                                            *)
First(S) == CHOOSE i \in S : \A k \in S : i <= k
===============================================================================
