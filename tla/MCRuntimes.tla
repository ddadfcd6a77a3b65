------------------------------- MODULE MCRuntimes -------------------------------
EXTENDS Runtimes

\* Two calls, one after the other on a session or, where sessions share a server, side by
\* side on two.
MCCalls == 1 .. 2
InTurn == <<"s1", "s1">>
SideBySide == <<"s1", "s2">>
MCLayouts == [claude |-> {InTurn}, codex |-> {InTurn, SideBySide}, opencode |-> {InTurn}]
=================================================================================
