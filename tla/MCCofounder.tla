---------------------------- MODULE MCCofounder ----------------------------
EXTENDS Cofounder, TLC
\* Those with a page are alike, and so are the others.
Alike == Permutations(Users)
=============================================================================
