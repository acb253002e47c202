------------------------------ MODULE MCRetry ------------------------------
(* Model values for the keys of the messages a connection sends.          *)
EXTENDS Retry

CONSTANTS m1, m2

MCMsgIds == {m1, m2}
====
