-------------------------- MODULE MCTerminalView --------------------------
\* The values of the constants of TerminalView for TLC.
EXTENDS TerminalView
TerminalSymmetry == Permutations(Terminals)
=============================================================================
