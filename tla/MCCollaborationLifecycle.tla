---------------------- MODULE MCCollaborationLifecycle -----------------------
(* Small instances of CollaborationLifecycle: a day stands for months.     *)
EXTENDS CollaborationLifecycle

Minus2 == -2

Calm == [punctual |-> TRUE, overlap |-> FALSE, failures |-> 0]
(* Days without a run of a job, and a run that fails.                      *)
Rough == [punctual |-> FALSE, overlap |-> FALSE, failures |-> 1]
(* Requests while a job runs.                                              *)
Busy == [punctual |-> FALSE, overlap |-> TRUE, failures |-> 1]

AllModes == {Calm, Rough, Busy}
=============================================================================
