---------------------------- MODULE MCTimeouts ----------------------------
\* Timeouts, with what atoi makes of the arguments of timeout: 0 also stands for
\* one that is no number.
EXTENDS Timeouts

MCDurations == {-1, 0, 1, 3}
============================================================================
