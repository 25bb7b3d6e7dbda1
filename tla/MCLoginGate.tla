---------------------------- MODULE MCLoginGate -------------------------------
(***************************************************************************)
(* Small instances of LoginGate: a browser with two tabs.                  *)
(***************************************************************************)
EXTENDS LoginGate, TLC
CONSTANTS t1, t2

MCTabs == {t1, t2}
Scene(aup, factor, services, opens, n1, n2) ==
  [aup |-> aup, factor |-> factor, services |-> services, lost |-> FALSE, idpMfa |-> FALSE,
   late |-> FALSE, wrong |-> FALSE, opens |-> opens, budget |-> (t1 :> n1 @@ t2 :> n2)]
AllScenes ==
  { \* a new user, who agrees, registers and gets to a page
    Scene(FALSE, FALSE, TRUE, {"profile"}, 4, 0),
    Scene(FALSE, FALSE, FALSE, {"aup"}, 3, 1),
    Scene(TRUE, FALSE, FALSE, {"profile"}, 2, 1),
    \* somebody who tries codes, and time that passes
    [Scene(TRUE, TRUE, FALSE, {"/"}, 6, 0) EXCEPT !.wrong = TRUE],
    [Scene(TRUE, TRUE, FALSE, {"/"}, 5, 0) EXCEPT !.wrong = TRUE, !.late = TRUE],
    \* a new authenticator
    [Scene(TRUE, TRUE, FALSE, {"profile"}, 5, 0) EXCEPT !.idpMfa = TRUE],
    \* a lost device
    [Scene(TRUE, TRUE, FALSE, {"profile"}, 7, 0) EXCEPT !.lost = TRUE],
    \* the login of a service
    Scene(TRUE, TRUE, FALSE, {"proxy", "/"}, 5, 0),
    [Scene(TRUE, FALSE, FALSE, {"proxy"}, 2, 2) EXCEPT !.wrong = TRUE],
    [Scene(TRUE, TRUE, TRUE, {"service-aup"}, 3, 0) EXCEPT !.idpMfa = TRUE] }
===============================================================================
