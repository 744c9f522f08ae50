--------------------------- MODULE MCArtifactFlow ---------------------------
EXTENDS ArtifactFlow, TLC

CONSTANTS c1, c2, integrator, other, bundle, output, x, y, g1

\* The worker rewrites the bundle between two claims; validation reads the
\* test output only.
TwoBundles == {[f \in File |-> IF f = bundle THEN v ELSE x] : v \in Content}

OneCandidate == [m \in TwoBundles |-> g1]
=============================================================================
