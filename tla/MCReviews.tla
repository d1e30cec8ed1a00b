------------------------------ MODULE MCReviews ------------------------------
EXTENDS Reviews
CONSTANTS p1, p2, j1, m1, m2
=============================================================================
