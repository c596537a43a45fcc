--------------------------- MODULE MCHostGateway ---------------------------
\* The values of the constants of HostGateway for TLC.
EXTENDS HostGateway, TLC
CONSTANTS c1, c2, c3
\* In the first session one request launches or lists, the second writes or launches too,
\* the third writes behind them, detaches, or asks for what needs no terminal; in the
\* second session the device attaches what it owns and writes.
ThreeCalls(c, s) ==
    CASE s = 1 /\ c = c1 -> {"launch", "list"}
      [] s = 1 /\ c = c2 -> {"launch", "write"}
      [] s = 1 -> {"write", "detach", "roots"}
      [] s = 2 /\ c = c2 -> {"attach"}
      [] s = 2 /\ c = c3 -> {"write", "runtimes"}
      [] OTHER -> {}
TerminalSymmetry == Permutations(Terminals)
=============================================================================
