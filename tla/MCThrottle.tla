------------------------------ MODULE MCThrottle ------------------------------
EXTENDS Throttle
CONSTANTS p1, p2
=============================================================================
