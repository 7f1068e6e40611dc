------------------------- MODULE MCEcosystemMonitor -------------------------
\* Small instances of EcosystemMonitor: one service raced for by two handlers
\* and housekeeping, or two services and one handler.
EXTENDS EcosystemMonitor, TLC

CONSTANTS s1, s2, h1, h2

OneService == {s1}

TwoServices == {s1, s2}

OneHandler == {h1}

TwoHandlers == {h1, h2}

AllModes == HealthyModes \cup FailingModes \cup {"other"}

UpDownModes == {"ok", "silent"}

HandlerSymmetry == Permutations(TwoHandlers)
=============================================================================
