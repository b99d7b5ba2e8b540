------------------------------ MODULE MCTasklet ------------------------------
(* The values that the configurations of the Tasklet runs share.           *)
EXTENDS Tasklet

CONSTANTS w1, w2, c1, c2

OneWorker == {w1}
TwoWorkers == {w1, w2}
OneClient == {c1}
TwoClients == {c1, c2}
MainAndClient == {Main, c1}
TheOther == {c2}
OnMain == {Main}
AsyncMode == {"Asynchronous"}
BothModes == {"Synchronous", "Asynchronous"}
=============================================================================
