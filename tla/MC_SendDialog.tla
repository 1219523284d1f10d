--------------------------- MODULE MC_SendDialog ---------------------------
EXTENDS SendDialog

CONSTANTS e1, e2, e3, e4, e5, rA, rBad, aS, rP

MCEntryIds == {e1, e2, e3, e4, e5}
MCValues == {rA, rBad}
MCValid == {rA, aS, rP}
MCAddresses == {aS}
MCRequests == {rP}
MCSymmetry == Permutations(MCEntryIds)
================================================================================
