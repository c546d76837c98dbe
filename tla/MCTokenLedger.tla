--------------------------- MODULE MCTokenLedger ----------------------------
EXTENDS TokenLedger, TLC

\* What has gone wrong so far excuses the properties from then on: one way at
\* a time is followed to its end.
OneWrong == Cardinality(doubled) + Cardinality(lost) <= 1

Servers == Permutations(Server)
=============================================================================
