----------------------------- MODULE MCScopes -----------------------------
EXTENDS Scopes, TLC

\* The names in a program may be exchanged.
Names == Permutations(Name)
============================================================================
