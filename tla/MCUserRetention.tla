--------------------------- MODULE MCUserRetention ----------------------------
(* Small instances of UserRetention: a day stands for weeks.               *)
EXTENDS UserRetention

CONSTANTS u1, u2

(* Every day a run, and no request during one.                             *)
Calm == [punctual |-> TRUE, overlap |-> FALSE, failures |-> 0]
Busy == [punctual |-> TRUE, overlap |-> TRUE, failures |-> 0]
(* Days without a run, requests during runs, runs that fail.               *)
Rough == [punctual |-> FALSE, overlap |-> TRUE, failures |-> 2]

CalmAndRough == {Calm, Rough}
=============================================================================
