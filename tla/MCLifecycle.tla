---------------------------- MODULE MCLifecycle -----------------------------
\* A small instance of Lifecycle: three requests that may overlap.
EXTENDS Lifecycle

CONSTANTS r1, r2, r3

MCRequests == {r1, r2, r3}
=============================================================================
