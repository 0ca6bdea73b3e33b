-------------------------- MODULE MCHostTextInput --------------------------
EXTENDS HostTextInput, TLC
CONSTANTS a, b
ValuesUsed == {a, b}

\* No value is special, and all properties checked are invariants.
ValueSymmetry == Permutations(ValuesUsed)
=============================================================================
