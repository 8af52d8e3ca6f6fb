---------------------------- MODULE GoalSelector ----------------------------
(***************************************************************************)
(* motive (src/src/motive.cpp) and goal_selector (goal_selector.cpp) as    *)
(* functions of the selector's vector of motives and of the priorities the *)
(* motive objects hold.                                                    *)
(***************************************************************************)
EXTENDS WorldState, Sequences

CONSTANTS Motive,       \* the motive objects
          NoMotive,     \* the null pointer to one
          NameOf,       \* the name of each, which need not be its own
          GoalOf,       \* the goal_state of each
          Persistent,   \* those for which set_persistent(true) was called
          Utility(_, _, _),     \* utility_fn: of a motive of a priority in a world,
          NoUtility     \* a number, or this where it is none: NaN, minus infinity

ASSUME MotiveAssumption ==
    /\ NoMotive \notin Motive
    /\ GoalOf \in [Motive -> State]
    /\ Persistent \subseteq Motive

\* What utility_fn returns is a number, or else nothing is greater or less than it.
UtilityIsOrdered ==
    \A p \in Int, m \in Motive, w \in State : Utility(p, m, w) \in Int \cup {NoUtility}

\* motive::is_satisfied
IsSatisfied(m, w) == SatisfiesGoal(w, GoalOf[m])

\* motive::set_priority
SetPriority(priority, m, p) ==
    [priority EXCEPT ![m] = IF m \in Persistent /\ p <= 0 THEN 1 ELSE p]

Least(S) == CHOOSE i \in S : \A j \in S : i <= j

\* goal_selector::set_motive_priority: the first motive of the name, or none.
SetPriorityByName(motives, priority, name, p) ==
    LET named == {i \in DOMAIN motives : NameOf[motives[i]] = name}
    IN  IF named = {} THEN priority
        ELSE SetPriority(priority, motives[Least(named)], p)

\* goal_selector::satisfy_motive
Satisfy(motives, priority, name) == SetPriorityByName(motives, priority, name, 0)

\* What select_goal chooses among: wanted, and not satisfied.
Wanted(motives, priority) == {i \in DOMAIN motives : priority[motives[i]] > 0}

Unsatisfied(motives, priority, w) ==
    {i \in Wanted(motives, priority) : ~IsSatisfied(motives[i], w)}

\* select_goal: the first of those of highest utility.  Nothing is greater than
\* highest_utility when it is no number.
SelectGoal(motives, priority, w) ==
    LET utility(i) == Utility(priority[motives[i]], motives[i], w)
        open == {i \in Unsatisfied(motives, priority, w) : utility(i) # NoUtility}
        best == {i \in open : \A j \in open : utility(j) <= utility(i)}
    IN  IF open = {} THEN NoMotive ELSE motives[Least(best)]

AddMotive(motives, m) == Append(motives, m)

\* remove_motive: std::erase takes every entry of the pointer.
RemoveMotive(motives, m) ==
    LET kept[i \in 0..Len(motives)] ==
          IF i = 0 THEN <<>>
          ELSE IF motives[i] = m THEN kept[i - 1] ELSE Append(kept[i - 1], motives[i])
    IN  kept[Len(motives)]
=============================================================================
