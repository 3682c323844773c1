------------------------------ MODULE MCBalanced ------------------------------
(* The load balancer for model checking: three upstreams whose weights     *)
(* have a common divisor; handlers are interchangeable.                    *)
EXTENDS Balanced, TLC

ModelWeights == <<4, 2, 2>>

Symmetry == Permutations(Handlers)

===============================================================================
