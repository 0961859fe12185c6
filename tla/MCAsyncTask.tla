----------------------------- MODULE MCAsyncTask -----------------------------
(* Instance of AsyncTask for TLC.  Tasks are started again and again; the    *)
(* state space is finite without a bound on that.                            *)
EXTENDS AsyncTask

CONSTANTS w1, w2, o1, o2, a1

OneThread == {w1}
TwoThreads == {w1, w2}
OneTask == {o1}
TwoTasks == {o1, o2}
OneAutoTask == {a1}
AllWork == Tasks \cup AutoTasks
=============================================================================
