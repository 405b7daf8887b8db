----------------------------- MODULE MCJobLife -------------------------------
(* Instances of JobLife for TLC.                                           *)
EXTENDS JobLife

CONSTANTS j1, j2, j3, t1, t2, c1, c2, k1, k2

TwoJobs == {j1, j2}
ThreeJobs == {j1, j2, j3}
OneThread == {t1}
TwoThreads == {t1, t2}
OneClient == {c1}
OneCanceller == {k1}
TwoCancellers == {k1, k2}
\* one job of a class that keeps _initialize, as the comment in basejob.h allows
OneBase == {j1}
OnCancel == {"cancel"}
OnFinalize == {"finalize"}
=============================================================================
