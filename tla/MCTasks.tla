------------------------------ MODULE MCTasks ------------------------------
\* Two cores: the interference between their set-ups, their allocations and
\* their sweeps takes two.
EXTENDS Tasks

TwoCores == {0, 1}
=============================================================================
