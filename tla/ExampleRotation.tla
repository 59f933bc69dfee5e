---------------------------- MODULE ExampleRotation ----------------------------
(***************************************************************************)
(* Which example sentence of a word an attempt shows: selectExample of     *)
(* packages/services/src/word-practice-presentation.ts.  No rotation state *)
(* is stored: the attempt counter of the memory row decides, with shuffles *)
(* seeded by the word and the cycle.  A shuffle may give any order.        *)
(***************************************************************************)
EXTENDS PracticeLedger

\* The orders _shuffle may put a pool of examples in.
Orders(pool) ==
    {order \in [0 .. (Cardinality(pool) - 1) -> pool] :
        \A i, j \in DOMAIN order : order[i] = order[j] => i = j}

\* mutant: the first is overwritten, not swapped
CycleOrderOverwriting(cycle, shuffled) ==
    LET order == shuffled[cycle]
        n == Cardinality(DOMAIN order)
    IN  IF cycle > 0 /\ order[0] = shuffled[cycle - 1][n - 1]
        THEN [order EXCEPT ![0] = order[1]]
        ELSE order

\* The shuffled cycle, its first two swapped when it would repeat the last.
CycleOrder(cycle, shuffled) ==
    LET order == shuffled[cycle]
        n == Cardinality(DOMAIN order)
    IN  IF cycle > 0 /\ order[0] = shuffled[cycle - 1][n - 1]
        THEN [order EXCEPT ![0] = order[1], ![1] = order[0]]
        ELSE order

\* selectExample; shuffled gives the order of every cycle.
SelectExample(attempts, pool, shuffled) ==
    LET n == Cardinality(pool)
    IN  CASE n = 0 -> None
          [] n = 1 -> CHOOSE x \in pool : TRUE
          [] n = 2 -> shuffled[0][attempts % 2]
          [] n > 2 -> CycleOrder(attempts \div n, shuffled)[attempts % n]

\* The counters at which another example than the last is shown and, when a
\* cycle is over, all of the pool have been, in whatever order each cycle's
\* shuffle puts them.
Rotating ==
    {now \in 1 .. Cardinality(EventIds) :
        \A pool \in {s \in SUBSET Examples : Cardinality(s) > 1} :
            LET n == Cardinality(pool)
            IN  \A shuffled \in [0 .. (now \div n) -> Orders(pool)] :
                    LET shown(k) == SelectExample(k, pool, shuffled)
                    IN  /\ shown(now) # shown(now - 1)
                        /\ now % n = 0 => {shown(k) : k \in (now - n) .. (now - 1)} = pool}

(***************************************************************************)
(* However the shuffles fall, an answer is followed by another example     *)
(* than the one it was given for, and a word's last cycle of attempts has  *)
(* shown all of its examples.                                              *)
(***************************************************************************)
ExamplesRotate ==
    \A w \in WordIds : rows[w] # None =>
        rows[w].attempts = 0 \/ rows[w].attempts \in Rotating
==============================================================================
