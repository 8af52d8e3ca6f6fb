----------------------------- MODULE Heuristics -----------------------------
(***************************************************************************)
(* The heuristics of the library (src/include/heuristics.h): what each     *)
(* estimates of the way from a world to a goal.                            *)
(*                                                                         *)
(* They compute in float.  Coordinates are taken as multiples of 1/Grain   *)
(* and weights as multiples of 1/WeightGrain, both powers of two, and sums *)
(* as small enough for a float to hold them: float arithmetic is then      *)
(* exact, and rounding is what the casts and ceil do.                      *)
(***************************************************************************)
EXTENDS WorldState, FiniteSets, FiniteSetsExt, Sequences, Folds, Functions

CONSTANTS Coordinates,  \* the vector of floats a "vector" datum stands for, by its number
          Grain,        \* a coordinate is that many parts of 1.0
          WeightGrain   \* and so is a weight

ASSUME GrainAssumption == Grain \in Nat \ {0} /\ WeightGrain \in Nat \ {0}

ASSUME FiniteKeyAssumption == IsFiniteSet(Key)

ASSUME CoordinatesAssumption == \A n \in DOMAIN Coordinates : Coordinates[n] \in Seq(Int)

Simple == [kind : {"zero", "goal_count"}] \cup [kind : {"euclidean", "manhattan"}, key : Key]

\* sub_heuristics of a composite; a composite in another and a negative weight,
\* which would make an estimate negative, are left out.
Composite == [kind : {"composite"}, parts : Seq([of : Simple, weight : Nat])]

Heuristic == Simple \cup Composite

\* get_position: empty where the key is missing or holds another alternative,
\* which for both heuristics comes to the same as a vector of no dimension, the
\* one that a number without coordinates stands for.
Position(w, key) ==
    IF w[key] # Absent /\ w[key].type = "vector" /\ w[key].val \in DOMAIN Coordinates
    THEN Coordinates[w[key].val] ELSE <<>>

\* The dimensions two vectors share.
Dimensions(p, q) == DOMAIN p \cap DOMAIN q

Magnitude(n) == IF n < 0 THEN -n ELSE n

Unsatisfied(w, g) == Cardinality({k \in Keys(g) : w[k] # g[k]})

Square(n) == n * n

\* What a dimension adds to the distances, in parts of 1/Grain or of its square.
Squares(p, q) == [i \in Dimensions(p, q) |-> Square(q[i] - p[i])]
Steps(p, q) == [i \in Dimensions(p, q) |-> Magnitude(q[i] - p[i])]

\* Mutant of Euclidean: the root is not taken.
EuclideanSquared(p, q) == SumFunction(Squares(p, q)) \div Square(Grain)

\* ceil(sqrt(...))
Euclidean(p, q) ==
    LET squares == SumFunction(Squares(p, q))
    IN  CHOOSE n \in 0..squares :
            /\ Square(n * Grain) >= squares
            /\ \A m \in 0..(n - 1) : Square(m * Grain) < squares

\* The cast cuts the fraction off.
Manhattan(p, q) == SumFunction(Steps(p, q)) \div Grain

SimpleEstimate(h, w, g) ==
    CASE h.kind = "zero"       -> 0
      [] h.kind = "goal_count" -> Unsatisfied(w, g)
      [] h.kind = "euclidean"  -> Euclidean(Position(w, h.key), Position(g, h.key))
      [] h.kind = "manhattan"  -> Manhattan(Position(w, h.key), Position(g, h.key))

Weighted(parts, w, g) ==
    SumFunction([i \in DOMAIN parts |-> parts[i].weight * SimpleEstimate(parts[i].of, w, g)])

\* The cast cuts the fraction off here too.
Estimate(h, w, g) ==
    IF h.kind = "composite" THEN Weighted(h.parts, w, g) \div WeightGrain
    ELSE SimpleEstimate(h, w, g)
=============================================================================
