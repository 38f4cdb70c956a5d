------------------------------ MODULE MCShell ------------------------------
\* Symmetry for Shell: commands differ only by what is done to them.
EXTENDS Shell, TLC

Symmetry == Permutations(Cmds)
============================================================================
