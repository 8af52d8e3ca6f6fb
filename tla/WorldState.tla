----------------------------- MODULE WorldState -----------------------------
(***************************************************************************)
(* world_state, state_condition and the two methods of goap_action that    *)
(* touch a world: src/include/goap_types.h, src/src/goap_types.cpp,        *)
(* src/src/world_state.cpp, src/src/goap_action.cpp.                       *)
(*                                                                         *)
(* A world maps every key to a typed value, or to Absent when the          *)
(* unordered_map does not hold the key; condition and effect maps of an    *)
(* action are maps of the same kind.  A value is a record with the         *)
(* alternative the variant holds and a number standing for the datum (the  *)
(* order of the numbers is that of ints and floats; on the other           *)
(* alternatives only their equality means anything).                       *)
(***************************************************************************)
EXTENDS Integers

CONSTANTS Key,          \* the keys of the worlds
          Absent        \* what a map holds at a key it does not have

\* The alternatives of std::variant in state_value.
Alternative == {"int", "bool", "float", "string", "vector"}

\* The alternatives on which compare() implements the order predicates.
Ordered == {"int", "float"}

Value == [type : Alternative, val : Int]

Predicate == {"Equal", "NotEqual", "Less", "LessOrEqual",
              "Greater", "GreaterOrEqual"}

Condition == [value : Value, op : Predicate]

ASSUME AbsentAssumption == Absent \notin Value /\ Absent \notin Condition

State == [Key -> Value \cup {Absent}]

Conditions == [Key -> Condition \cup {Absent}]

EmptyState == [k \in Key |-> Absent]

\* The keys a map has.
Keys(m) == {k \in Key : m[k] # Absent}

-----------------------------------------------------------------------------
(* world_state *)

SetState(w, key, v) == [w EXCEPT ![key] = v]

RemoveState(w, key) == [w EXCEPT ![key] = Absent]

\* The loop of merge() sets every key of other once; their order, that of an
\* unordered_map, does not show in the result.
Merge(w, other) == [k \in Key |-> IF other[k] = Absent THEN w[k] ELSE other[k]]

\* merge_defaults(): only the keys that are missing.
MergeDefaults(w, other) == [k \in Key |-> IF w[k] = Absent THEN other[k] ELSE w[k]]

\* The worlds the game makes of one: it merges a partial world into it, or its
\* defaults, or takes one of its keys out.
Written(w, d) ==
    {Merge(w, d), MergeDefaults(w, d)} \cup {RemoveState(w, k) : k \in Keys(d)}

\* satisfies(goal): every key of the goal is present with the goal's value.
SatisfiesGoal(w, goal) == \A k \in Keys(goal) : w[k] = goal[k]

-----------------------------------------------------------------------------
(* state_condition *)

\* compare(): lhs and rhs hold the same alternative.
Compare(op, lhs, rhs) ==
    \/ op = "Equal"    /\ lhs = rhs
    \/ op = "NotEqual" /\ lhs # rhs
    \/ /\ lhs.type \in Ordered
       /\ \/ op = "Less"           /\ lhs.val < rhs.val
          \/ op = "LessOrEqual"    /\ lhs.val <= rhs.val
          \/ op = "Greater"        /\ lhs.val > rhs.val
          \/ op = "GreaterOrEqual" /\ lhs.val >= rhs.val

\* evaluate(): false for a missing key and for another alternative, whatever
\* the predicate: a NotEqual condition does not hold of an absent key.
Evaluate(cond, w, key) ==
    /\ w[key] # Absent
    /\ w[key].type = cond.value.type
    /\ Compare(cond.op, w[key], cond.value)

\* satisfies(goal_conditions)
SatisfiesConditions(w, conds) == \A k \in Keys(conds) : Evaluate(conds[k], w, k)

-----------------------------------------------------------------------------
(* goap_action *)

\* check_preconditions(): an empty map holds in every world, as does the
\* quantifier over its empty set of keys.
CheckPreconditions(pre, w) == SatisfiesConditions(w, pre)

\* apply_effects(): set_state for every effect.
ApplyEffects(eff, w) == Merge(w, eff)
=============================================================================
