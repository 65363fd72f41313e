--------------------------- MODULE MCGenerations ---------------------------
\* Two controllers of one listener port, or one and its broker's.
EXTENDS Generations, TLC

\* Process sets of an adapter alone, and of one with a bridge.
Alone == {{"emulator"}}
Bridged == {{"emulator", "bridge"}}

\* The launch ids are drawn at random, and the controllers of a port are alike.
Symmetry == Permutations(Gens) \cup Permutations(Controllers)
=============================================================================
