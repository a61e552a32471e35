------------------------------ MODULE MCTable ------------------------------
EXTENDS Table, TLC

\* Keys are interchangeable, since Init lets each have any hash.
Strings == Permutations(Key)
============================================================================
