------------------------------ MODULE MCOffice ------------------------------
EXTENDS Office, TLC
CONSTANTS h1, h2, u1, u2, p1, p2, c1, k1
\* A manager of two companies and a worker; an administrator and a newcomer.
Starts == { h1 :> (u1 :> "MANAGER" @@ u2 :> "WORKER") @@ h2 :> (u1 :> "WORKER" @@ u2 :> "NONE"),
            h1 :> (u1 :> "ADMIN" @@ u2 :> "NONE") @@ h2 :> (u1 :> "NONE" @@ u2 :> "NONE") }
ProcSymmetry == Permutations(Proc)
=============================================================================
