------------------------------- MODULE MCAgent -------------------------------
EXTENDS AgentProperties

CONSTANTS s1, s2, s3

\* One run of two steps, or the same planner serving another run after it.
OneRun == <<<<s1, s2>>>>
TwoRuns == <<<<s1, s2>>, <<s3>>>>
=============================================================================
