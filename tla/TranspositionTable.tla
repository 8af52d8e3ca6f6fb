------------------------ MODULE TranspositionTable ------------------------
(***************************************************************************)
(* transposition_table: the goals a search has failed on, with the cost    *)
(* each was failed at, bounded by evicting the least recently used         *)
(* (src/src/transposition_table.cpp).                                      *)
(*                                                                         *)
(* A table is the list eviction_order, most recently used first, and the   *)
(* map from goals to costs; the iterator the map keeps into the list is    *)
(* the goal's place in it.                                                 *)
(***************************************************************************)
EXTENDS Sequences, SequencesExt, FiniteSets

EmptyTable == [order |-> <<>>, cost |-> <<>>]

\* find() != end()
Holds(t, g) == g \in DOMAIN t.cost

\* The iterator kept for g.
Place(t, g) == CHOOSE i \in DOMAIN t.order : t.order[i] = g

\* splice(begin(), ...): g becomes the most recently used.
Promote(t, g) == [t EXCEPT !.order = <<g>> \o RemoveAt(@, Place(t, g))]

\* lookup() of a goal that is held promotes it, even if its cost is then not used.
Lookup(t, g) == IF Holds(t, g) THEN Promote(t, g) ELSE t

\* Mutant of Evict: the goal leaves the list and stays in the map.
EvictFromList(t) == [t EXCEPT !.order = Front(@)]

Evict(t) ==
    [order |-> Front(t.order),
     cost  |-> [g \in DOMAIN t.cost \ {Last(t.order)} |-> t.cost[g]]]

Insert(t, g, c) ==
    [order |-> <<g>> \o t.order,
     cost  |-> [x \in DOMAIN t.cost \cup {g} |-> IF x = g THEN c ELSE t.cost[x]]]

\* store(): at most one goal is evicted, so that a table above a limit lowered
\* since stays above it.
Store(t, limit, g, c) ==
    IF limit = 0 THEN t
    ELSE IF Holds(t, g) THEN [Promote(t, g) EXCEPT !.cost[g] = c]
    ELSE IF Cardinality(DOMAIN t.cost) >= limit /\ t.order # <<>>
    THEN Insert(Evict(t), g, c)
    ELSE Insert(t, g, c)
=============================================================================
