-------------------------- MODULE MCSessionRuntime --------------------------
EXTENDS SessionRuntime, TLC

\* Safety only: the intents are interchangeable, and so are the writes.
Symmetry == Permutations(Op) \union Permutations(Writer)
============================================================================
