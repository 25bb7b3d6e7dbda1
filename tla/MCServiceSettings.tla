-------------------------- MODULE MCServiceSettings ---------------------------
(***************************************************************************)
(* Small instances of ServiceSettings: an administrator of the platform    *)
(* and one of the service.                                                 *)
(***************************************************************************)
EXTENDS ServiceSettings, TLC
CONSTANTS ann, ben

MCAdmins == {ann, ben}
(* Without ops for ben he has not opened the page.                         *)
Scene(ops, n, others, m) ==
  [role |-> (ann :> "platform" @@ ben :> "service"), ops |-> (ann :> ops @@ ben :> others),
   budget |-> (ann :> n @@ ben :> m), nets |-> << >>, on |-> {}, tokens |-> {},
   swept |-> FALSE, opens |-> IF m = 0 THEN {ben} ELSE {}]
Alone(ops, n) == Scene(ops, n, {}, 0)
Pam(s) == [s EXCEPT !.on = {"pam"}]
PamToken(s) == [s EXCEPT !.on = {"pam"}, !.tokens = {"pam"}]
Together ==
  { \* names that are taken, by others or by the other administrator
    Scene({"name", "update"}, 2, {"name", "mail"}, 1),
    Scene({"name", "update"}, 2, {"mail", "update"}, 1),
    \* tokens, their switches, a page that opens
    Pam(Scene({"pam", "update"}, 2, {"token"}, 2)),
    [Pam(Scene({"token"}, 2, {"update"}, 1)) EXCEPT !.opens = {ben}],
    PamToken(Alone({"pam", "introspection", "scimClient", "remove", "update"}, 3)),
    \* the sweep
    [Scene({"scim", "update"}, 2, {"update"}, 1) EXCEPT !.swept = TRUE] }
Apart ==
  { Alone({"name", "abbreviation", "policy", "update"}, 3),
    Alone({"abbreviation", "update"}, 4),
    Alone({"mail", "scim", "update"}, 3),
    PamToken(Alone({"pam", "token", "update"}, 4)),
    Scene({"mail"}, 1, {"update"}, 1),
    \* networks
    [Alone({"net", "update"}, 3) EXCEPT !.nets = <<"n1", "n2">>],
    [Scene({"net"}, 2, {"update"}, 1) EXCEPT !.nets = <<"n1">>],
    Pam(Alone({"net", "token"}, 4)),
    \* the password, the policy, the end
    PamToken(Scene({"remove"}, 2, {"remove"}, 2)),
    PamToken(Alone({"ldap", "token"}, 4)),
    Scene({"delete"}, 2, {"ldap", "mail"}, 2),
    Scene({"delete"}, 2, {"aups", "update"}, 2) }
MCScenes == Together \union Apart
===============================================================================
