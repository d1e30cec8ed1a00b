------------------------------ MODULE MCSession ------------------------------
EXTENDS Session, TLC
CONSTANTS t1, t2, r1, r2
Tabs == r1 :> {t1} @@ r2 :> {t1, t2}
=============================================================================
