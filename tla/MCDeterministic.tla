--------------------------- MODULE MCDeterministic ---------------------------
EXTENDS DeterministicLoop, TLC

CONSTANTS s1, s2, s3

\* Three of the five steps: the endpoint step always plans two calls, the others
\* as many as the alert has fields for, possibly none.
ThreeSteps == <<s1, s2, s3>>
Sizes == s1 :> {2} @@ s2 :> {0, 1} @@ s3 :> {0, 1, 2}
=============================================================================
