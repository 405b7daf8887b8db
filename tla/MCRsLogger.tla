----------------------------- MODULE MCRsLogger -----------------------------
(* Instances of RsLogger for TLC.                                          *)
EXTENDS RsLogger, TLC

CONSTANTS t1, t2, home, locked, b1, b2

TwoThreads == {t1, t2}
AllLines == Threads \X (1..LinesEach)
HomeAndLocked == {home, locked}
OnlyHome == {home}
TwoBases == {b1, b2}
Symmetric == Permutations(Threads)
=============================================================================
