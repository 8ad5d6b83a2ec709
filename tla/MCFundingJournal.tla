-------------------------- MODULE MCFundingJournal --------------------------
EXTENDS FundingJournal, TLC
CONSTANTS w1, w2, r1, r2, t1, x, i1, i2, i3
MCOrder == <<r1, r2>>
Symmetry == Permutations({w1, w2}) \cup Permutations({i1, i2, i3})
=============================================================================
