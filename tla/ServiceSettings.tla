---------------------------- MODULE ServiceSettings ---------------------------
(***************************************************************************)
(* The settings of a service: administrators who each have its page open,  *)
(* with a draft of their own and dialogs and forms over it, the calls they *)
(* make, the handlers of the server, and the messages by which it tells    *)
(* the other pages that the service has changed.                           *)
(***************************************************************************)
EXTENDS Naturals, Sequences, FiniteSets

CONSTANTS
  Admins,
  Kinds,   \* the kinds of token that a service has a switch for
  Scenes   \* what Init chooses from: see SceneAssumption

Ops == {"name", "abbreviation", "mail", "policy", "pam", "introspection", "scimClient", "token", "remove", "scim", "net", "ldap",
        "aups", "delete", "update"}
Roles == {"platform", "viewing", "service"}  \* "viewing": an admin as the service admin sees it
(* Who there is, what they do and how often, and the service to begin with:*)
(* its networks, the kinds of token that are on and those with a token; who*)
(* opens the page, which the others have open.                             *)
ASSUME SceneAssumption ==
  Scenes \subseteq [role : [Admins -> Roles], ops : [Admins -> SUBSET Ops], budget : [Admins -> Nat],
                    nets : Seq({"n1", "n2"}), on : SUBSET Kinds, tokens : SUBSET Kinds, swept : BOOLEAN,
                    opens : SUBSET Admins]
(* Only a kind that is on has a token to begin with.                       *)
ASSUME TokensAssumption == \A sc \in Scenes : sc.tokens \subseteq sc.on
ASSUME KindsAssumption == "address" \notin Kinds

VARIABLES
  scene,   \* the scene of this behaviour, which never changes
  db,      \* the service, whether it exists, its password and the agreements to its policy
  net,     \* the requests on their way, those being handled and the answers not heard
  inbox,   \* the messages each page has yet to receive
  page,    \* what each administrator sees
  excuse,  \* pages that have heard something old (history)
  crossed  \* what changed in the midst of a handler (history): the kinds switched off while a
           \* token was being stored, "address" for the server of SCIM during an update of it

vars == <<scene, db, net, inbox, page, excuse, crossed>>

Number(n) == [is |-> "number", n |-> n]
Option(n) == [is |-> "option", n |-> n]     \* what a SelectField chooses
Null == [is |-> "null", n |-> 0]
Undefined == [is |-> "undefined", n |-> 0]
Row(v) == [value |-> v, error |-> FALSE]
(* The draft of a service as it is read: networks get an empty row if      *)
(* there are none.                                                         *)
Loaded(service) ==
  [service EXCEPT !.nets = IF @ = << >> THEN <<Row("")>> ELSE @]
Fresh ==
  [n |-> 0, name |-> "ours", abbreviation |-> "ours", mail |-> "good", policy |-> "good",
   on |-> {}, tokens |-> {}, scim |-> FALSE, url |-> "", sweep |-> FALSE, rate |-> Number(0),
   nets |-> << >>]
Empty(service) ==
  [at |-> "closed", subscribed |-> FALSE, shown |-> service, draft |-> service, exists |-> {},
   invalid |-> {}, initial |-> TRUE, checking |-> FALSE, busy |-> FALSE, unhandled |-> FALSE,
   dialog |-> "none", about |-> 0, password |-> 0, form |-> "none", text |-> "", emptied |-> FALSE,
   n |-> 0]
(* The empty row is added by spreading the service over the state of the   *)
(* page, in which "description" is that of the token being made.           *)
Clobbers(p) == IF p.form = "none" THEN p ELSE [p EXCEPT !.text = "of the service"]
MountsKeepingMarks(p, service) ==
  LET q == [p EXCEPT !.draft = Loaded(service), !.shown = service, !.busy = FALSE]
  IN IF service.nets = << >> THEN Clobbers(q) ELSE q
(* A new service replaces the draft, and its networks are asked about.     *)
(* What was said of names, and the dialog, stay.                           *)
Mounts(p, service) ==
  LET q == [p EXCEPT !.draft = Loaded(service), !.shown = service, !.busy = FALSE,
                     !.invalid = {f \in {"mail", "policy"} : service[f] = "bad"}]
  IN IF service.nets = << >> THEN Clobbers(q) ELSE q
Init ==
  /\ scene \in Scenes
  /\ db = [exists |-> TRUE, password |-> 0, agreed |-> TRUE, made |-> 1,
           service |-> [Fresh EXCEPT
             !.on = scene.on, !.tokens = {[n |-> 0, kind |-> k] : k \in scene.tokens},
             !.scim = scene.swept, !.sweep = scene.swept,
             !.url = IF scene.swept THEN "url" ELSE "",
             !.rate = Number(IF scene.swept THEN 4 ELSE 0),
             !.nets = [i \in 1 .. Len(scene.nets) |-> Row(scene.nets[i])]]]
  /\ net = {} /\ inbox = [a \in Admins |-> 0] /\ excuse = {} /\ crossed = {}
  /\ page = [a \in Admins |->
       IF a \in scene.opens THEN Empty(db.service)
       ELSE [Mounts(Empty(db.service), db.service) EXCEPT !.at = "open", !.subscribed = TRUE]]

-------------------------------------------------------------------------------
(* Calls.                                                                  *)

Call(a, op) ==
  [by |-> a, op |-> op, status |-> "sent", service |-> Fresh, seen |-> Fresh, key |-> "name",
   value |-> "", row |-> 0, kind |-> "none", token |-> 0, text |-> "", warned |-> FALSE,
   error |-> FALSE, number |-> 0,
   id |-> CHOOSE i \in 0 .. Cardinality(net) : \A c \in net : c.by # a \/ c.op # op \/ c.id # i]
(* The answer does not depend on when it is given: what is said of a       *)
(* network, or a value for a token.                                        *)
Answered(c) ==
  [c EXCEPT !.status = "ok", !.error = (c.value = "bad"),
    !.service.nets = [i \in DOMAIN c.service.nets |->
       [value |-> c.service.nets[i].value, error |-> c.service.nets[i].value = "bad"]]]
Sends(c) == net' = net \union {c}
Answers(c, d) == net' = (net \ {c}) \union {d}
Done(c, status) == [c EXCEPT !.status = status, !.service = Fresh, !.seen = Fresh]
Fails(c) == Answers(c, Done(c, "failed")) /\ UNCHANGED <<db, inbox, excuse, crossed>>

-------------------------------------------------------------------------------
(* The page and its draft.                                                 *)

AsksNetworks(a, service) ==
  IF service.nets = << >> THEN {}
  ELSE {Answered([Call(a, "networks") EXCEPT !.service.nets = service.nets])}
Refreshes(a) == Call(a, "read")

Platform(a) == scene.role[a] = "platform"
Free(a, op) ==
  /\ op \in scene.ops[a] /\ page[a].n < scene.budget[a] /\ page[a].at = "open"
  /\ ~page[a].busy /\ page[a].dialog = "none"
Edits(a, op) == Free(a, op) /\ page[a].form = "none"
Shows(a, p) == page' = [page EXCEPT ![a] = [p EXCEPT !.n = @ + 1]]
Drafts(a, service) ==
  Shows(a, [page[a] EXCEPT !.draft = service]) /\ UNCHANGED net
OnlyPages == UNCHANGED <<scene, db, inbox, excuse, crossed>>

Open(a) ==
  /\ page[a].at = "closed" /\ page[a].n < scene.budget[a] /\ page' = [page EXCEPT ![a].at = "loading"]
  /\ Sends(Refreshes(a)) /\ OnlyPages

(* What is said of the old value is forgotten at once, and what is said of *)
(* the new one is asked on leaving the field, beside the name of the       *)
(* service as it is shown.                                                 *)
Names == {"ours", "taken", "free"}
EditsKey(a, key) ==
  \E v \in Names \ {page[a].draft[key]} :
    /\ Shows(a, [page[a] EXCEPT !.draft[key] = v, !.exists = @ \ {key}])
    /\ Sends([Call(a, "exists") EXCEPT !.key = key, !.value = v, !.service = page[a].shown])
    /\ OnlyPages
EditName(a) == Edits(a, "name") /\ EditsKey(a, "name")
EditAbbreviation(a) == Edits(a, "abbreviation") /\ Platform(a) /\ EditsKey(a, "abbreviation")
EditsText(a, field) ==
  \E v \in {"good", "bad", ""} \ {page[a].draft[field]} :
    /\ Shows(a, [page[a] EXCEPT !.draft[field] = v,
                  !.invalid = IF v = "bad" THEN @ \union {field} ELSE @ \ {field}])
    /\ UNCHANGED net /\ OnlyPages
EditMail(a) == Edits(a, "mail") /\ EditsText(a, "mail")
EditPolicy(a) == Edits(a, "policy") /\ EditsText(a, "policy")

Flips(a, k) ==
  LET d == page[a].draft
  IN Drafts(a, [d EXCEPT !.on = IF k \in @ THEN @ \ {k} ELSE @ \union {k}]) /\ OnlyPages
FlipPam(a) == Edits(a, "pam") /\ "pam" \in Kinds /\ Flips(a, "pam")
FlipIntrospection(a) ==
  Edits(a, "introspection") /\ "introspection" \in Kinds /\ Flips(a, "introspection")
FlipScimClient(a) ==
  Edits(a, "scimClient") /\ Platform(a) /\ "scim" \in Kinds /\ Flips(a, "scim")

ScimServer(a) ==
  /\ Edits(a, "scim") /\ Platform(a)
  /\ LET d == page[a].draft
     IN \/ Drafts(a, [d EXCEPT !.scim = ~@])
        \/ d.scim /\ \E u \in {"", "url"} \ {d.url} : Drafts(a, [d EXCEPT !.url = u])
        \/ d.scim /\ Drafts(a, [d EXCEPT !.sweep = ~@, !.rate = IF d.sweep THEN Null ELSE Option(1)])
        \/ /\ d.scim /\ d.sweep
           /\ \E n \in {1, 4} : d.rate # Option(n) /\ Drafts(a, [d EXCEPT !.rate = Option(n)])
  /\ OnlyPages

(* The rows of the networks are known by their place.                      *)
AddNetwork(a) ==
  /\ Edits(a, "net") /\ Len(page[a].draft.nets) < 2
  /\ Drafts(a, [page[a].draft EXCEPT !.nets = Append(@, Row(""))]) /\ OnlyPages
TypeNetwork(a) ==
  /\ Edits(a, "net")
  /\ \E i \in DOMAIN page[a].draft.nets, v \in {"", "n1", "n2", "bad"} :
       /\ v # page[a].draft.nets[i].value
       /\ Shows(a, [page[a] EXCEPT !.draft.nets[i].value = v, !.checking = TRUE,
                     !.emptied = @ \/ v = ""])
       /\ IF v = "" THEN UNCHANGED net
          ELSE Sends(Answered([Call(a, "network") EXCEPT !.row = i, !.value = v]))
  /\ OnlyPages
Without(s, i) == SubSeq(s, 1, i - 1) \o SubSeq(s, i + 1, Len(s))
Spliced(s, i, r) == IF i <= Len(s) THEN [s EXCEPT ![i] = r] ELSE Append(s, r)
DeleteNetwork(a) ==
  /\ Edits(a, "net")
  /\ \E i \in DOMAIN page[a].draft.nets :
       Drafts(a, [page[a].draft EXCEPT !.nets = Without(@, i)])
  /\ OnlyPages

-------------------------------------------------------------------------------
(* Saving the draft.                                                       *)

NoAddress(service) == service.scim /\ service.url = ""
Valid(p) ==
  /\ p.exists = {} /\ p.invalid = {} /\ ~p.checking
  /\ p.draft.mail # "" /\ p.draft.policy # ""
  /\ \A i \in DOMAIN p.draft.nets : ~p.draft.nets[i].error
  /\ ~(NoAddress(p.draft) /\ ~p.initial)
DisabledIfSeveral(draft) ==
  LET off == {t \in draft.tokens : t.kind \notin draft.on}
  IN IF Cardinality(off) > 1 THEN off ELSE {}
(* The tokens that go because their switch is off.                         *)
Disabled(draft) == {t \in draft.tokens : t.kind \notin draft.on}
Falsy(rate) == rate.is \in {"null", "undefined"} \/ rate = Number(0)
(* sweep_scim_daily_rate ? sweep_scim_daily_rate.value : 0, of a draft in  *)
(* which it is a number until another is chosen.                           *)
SentRate(rate) ==
  IF Falsy(rate) THEN Number(0) ELSE IF rate.is = "option" THEN Number(rate.n) ELSE Undefined
Stripped(draft) ==
  [draft EXCEPT !.rate = SentRate(@), !.nets = SelectSeq(@, LAMBDA r : r.value # "")]
Submits(a, p, warned) ==
  LET q == [p EXCEPT !.draft = Stripped(@), !.busy = TRUE, !.unhandled = FALSE, !.initial = FALSE]
  IN page' = [page EXCEPT ![a] = q]
     /\ Sends([Call(a, "update") EXCEPT !.service = q.draft, !.warned = warned])
Update(a) ==
  /\ Edits(a, "update") /\ Valid(page[a])
  /\ LET p == [page[a] EXCEPT !.initial = FALSE, !.n = @ + 1]
         asks == Disabled(p.draft) # {}
     IN IF Valid(p) /\ ~asks THEN Submits(a, p, FALSE)
        ELSE /\ page' = [page EXCEPT ![a] =
                  IF Valid(p) THEN [p EXCEPT !.dialog = "disable"] ELSE p]
             /\ UNCHANGED net
  /\ OnlyPages
(* The dialog stays open until the answer; the page may have got another   *)
(* draft behind it.                                                        *)
ConfirmDisable(a) ==
  /\ page[a].dialog = "disable" /\ ~page[a].busy /\ page[a].at = "open"
  /\ page[a].n < scene.budget[a] /\ Valid(page[a])
  /\ Submits(a, [page[a] EXCEPT !.n = @ + 1], TRUE) /\ OnlyPages
(* Closing says nothing to what the dialog was asked for; a password is    *)
(* gone from the page a moment later, but not when another action closes.  *)
CancelDialog(a) ==
  /\ page[a].dialog # "none" /\ ~page[a].busy /\ page[a].at = "open"
  /\ page' = [page EXCEPT ![a].dialog = "none",
                ![a].password = IF page[a].dialog \in {"password", "aups", "ldap"} THEN 0 ELSE @]
  /\ UNCHANGED net /\ OnlyPages

-------------------------------------------------------------------------------
(* Tokens, the password, the agreements, the service.                      *)

NewToken(a) ==
  /\ Edits(a, "token")
  /\ \E k \in page[a].draft.on :
       Shows(a, page[a]) /\ Sends(Answered([Call(a, "tokenValue") EXCEPT !.kind = k]))
  /\ OnlyPages
Describe(a) ==
  /\ Free(a, "token") /\ page[a].form # "none" /\ page[a].text # "typed"
  /\ page' = [page EXCEPT ![a].text = "typed"] /\ UNCHANGED net /\ OnlyPages
(* The form stays while the token is saved, and saves it again.            *)
SaveToken(a) ==
  /\ Free(a, "token") /\ page[a].form # "none"
  /\ IF page[a].text = "" THEN Shows(a, [page[a] EXCEPT !.initial = FALSE]) /\ UNCHANGED net
     ELSE /\ Shows(a, page[a])
          /\ Sends([Call(a, "token") EXCEPT !.kind = page[a].form, !.text = page[a].text])
  /\ OnlyPages
CancelForm(a) ==
  /\ Free(a, "token") /\ page[a].form # "none"
  /\ Shows(a, [page[a] EXCEPT !.form = "none", !.initial = TRUE])
  /\ UNCHANGED net /\ OnlyPages
ChangeTab(a) ==
  /\ Free(a, "token") /\ page[a].form # "none"
  /\ Shows(a, [page[a] EXCEPT !.form = "none"]) /\ UNCHANGED net /\ OnlyPages

Asks(a, dialog, token) ==
  /\ Shows(a, [page[a] EXCEPT !.dialog = dialog, !.about = token])
  /\ UNCHANGED net /\ OnlyPages
RemoveToken(a) ==
  /\ Edits(a, "remove")
  /\ \E t \in page[a].draft.tokens : t.kind \in page[a].draft.on /\ Asks(a, "deleteToken", t.n)
LdapReset(a) == Edits(a, "ldap") /\ Asks(a, "ldap", 0)
ResetAups(a) == Edits(a, "aups") /\ page[a].draft.policy = "good" /\ Asks(a, "aups", 0)
Delete(a) == Edits(a, "delete") /\ Platform(a) /\ Asks(a, "delete", 0)

Confirms(a, dialog, p) ==
  /\ page[a].dialog = dialog /\ ~page[a].busy /\ page[a].at = "open"
  /\ page[a].n < scene.budget[a] /\ Shows(a, p) /\ OnlyPages
  /\ Sends([Call(a, dialog) EXCEPT !.token = page[a].about])
Waits(p) == [p EXCEPT !.busy = TRUE, !.unhandled = FALSE]
DoDeleteToken(a) == Confirms(a, "deleteToken", Waits(page[a]))
DoResetAups(a) == Confirms(a, "aups", [Waits(page[a]) EXCEPT !.dialog = "none"])
DoDelete(a) == Confirms(a, "delete", Waits(page[a]))
(* Nothing shows that the password is being reset: twice is possible.      *)
DoLdapReset(a) == Confirms(a, "ldap", page[a])

-------------------------------------------------------------------------------
(* The server.                                                             *)

TellsTheSender(c) ==
  inbox' = [a \in Admins |->
    IF a = c.by /\ page[a].at = "open" /\ page[a].subscribed THEN inbox[a] + 1 ELSE inbox[a]]
(* Every other page that listens gets a message.  A page that is loading   *)
(* does not listen yet.                                                    *)
Tells(c) ==
  inbox' = [a \in Admins |->
    IF a # c.by /\ page[a].at = "open" /\ page[a].subscribed THEN inbox[a] + 1 ELSE inbox[a]]
Unheard(c) == {a \in Admins \ {c.by} : page[a].at = "loading"}
Untold == UNCHANGED <<inbox, excuse, crossed>>
Serves(c, op) == c \in net /\ c.op = op /\ c.status = "sent" /\ UNCHANGED <<scene, page>>
Commits(c, op) == c \in net /\ c.op = op /\ c.status = "begun" /\ UNCHANGED <<scene, page>>
Begins(c) == Answers(c, [c EXCEPT !.status = "begun", !.seen = db.service])
Ok(c) == Answers(c, Done(c, "ok"))
(* Handlers that have told of a change and have not committed it.          *)
Torn == {c \in net : c.op \in {"token", "deleteToken"} /\ c.status = "begun"}

ServeRead(c) ==
  /\ Serves(c, "read")
  /\ IF ~db.exists THEN Fails(c)
     ELSE /\ Answers(c, [c EXCEPT !.status = "ok", !.service = db.service])
          /\ excuse' = (IF Torn = {} THEN excuse ELSE excuse \union {c.by})
          /\ UNCHANGED <<db, inbox, crossed>>
(* The answer is for the service that has the name now, beside the one     *)
(* whose name the page shows.                                              *)
ServeExists(c) ==
  /\ Serves(c, "exists")
  /\ Answers(c, [Done(c, "ok") EXCEPT !.error =
       \/ c.value = "taken"
       \/ db.exists /\ c.value = db.service[c.key] /\ c.value # c.service[c.key]])
  /\ Untold /\ UNCHANGED db

(* What an administrator of the service may not change is what the handler *)
(* has read; so is what the request does not hold.  Of a network its       *)
(* address is stored.                                                      *)
Allowed(c) ==
  LET s == [c.service EXCEPT !.rate = IF @ = Undefined THEN c.seen.rate ELSE @,
                             !.nets = [i \in DOMAIN @ |-> Row(@[i].value)]]
  IN IF scene.role[c.by] # "service" THEN s
     ELSE [s EXCEPT !.abbreviation = c.seen.abbreviation, !.scim = c.seen.scim,
                    !.url = c.seen.url]
WrittenKeepsTokens(c) ==
  LET s == Allowed(c)
  IN [f \in DOMAIN db.service |->
       CASE f = "n" -> db.service.n + 1
         [] f = "on" -> {k \in Kinds : IF (k \in s.on) = (k \in c.seen.on)
                                         THEN k \in db.service.on ELSE k \in s.on}
         [] f = "tokens" -> db.service.tokens
         [] OTHER -> IF s[f] = c.seen[f] THEN db.service[f] ELSE s[f]]
(* Only what differs from what was read is written.                        *)
Written(c) ==
  LET s == Allowed(c)
  IN [f \in DOMAIN db.service |->
       CASE f = "n" -> db.service.n + 1
         [] f = "on" -> {k \in Kinds : IF (k \in s.on) = (k \in c.seen.on)
                                         THEN k \in db.service.on ELSE k \in s.on}
         [] f = "tokens" -> {t \in db.service.tokens : t.kind \in s.on}
         [] OTHER -> IF s[f] = c.seen[f] THEN db.service[f] ELSE s[f]]
BeginUpdate(c) ==
  /\ Serves(c, "update")
  /\ IF /\ db.exists /\ c.service.policy # "bad"
        /\ \A i \in DOMAIN c.service.nets : c.service.nets[i].value # "bad"
       THEN Begins(c) /\ Untold /\ UNCHANGED db ELSE Fails(c)
Address(service) == <<service.scim, service.url>>
CommitUpdate(c) ==
  /\ Commits(c, "update")
  /\ IF ~db.exists \/ Written(c).abbreviation = "taken" THEN Fails(c)
     ELSE /\ db' = [db EXCEPT !.service = Written(c)]
          /\ Ok(c) /\ Tells(c) /\ excuse' = excuse \union Unheard(c)
          /\ crossed' = crossed
               \union (IF Address(db.service) = Address(c.seen) THEN {} ELSE {"address"})
               \union {t.kind : t \in {d \in net :
                    /\ d.op = "token" /\ d.status = "begun" /\ d.kind \in d.seen.on
                    /\ d.kind \notin db'.service.on}}

(* A token switches its kind on if it is off when the handler reads it;    *)
(* the others are told before it is stored.                                *)
BeginToken(c) ==
  /\ Serves(c, "token")
  /\ IF ~db.exists THEN Fails(c)
     ELSE Begins(c) /\ Tells(c) /\ excuse' = excuse \union Unheard(c) /\ UNCHANGED <<db, crossed>>
CommitToken(c) ==
  /\ Commits(c, "token")
  /\ IF ~db.exists THEN Fails(c)
     ELSE /\ db' = [db EXCEPT !.made = @ + 1, !.service.n = @ + 1,
               !.service.tokens = @ \union {[n |-> db.made, kind |-> c.kind]},
               !.service.on = IF c.kind \in c.seen.on THEN @ ELSE @ \union {c.kind}]
          /\ Ok(c) /\ Untold
BeginDeleteToken(c) ==
  /\ Serves(c, "deleteToken")
  /\ IF ~db.exists \/ \A t \in db.service.tokens : t.n # c.token THEN Fails(c)
     ELSE Begins(c) /\ Tells(c) /\ excuse' = excuse \union Unheard(c) /\ UNCHANGED <<db, crossed>>
CommitDeleteToken(c) ==
  /\ Commits(c, "deleteToken")
  /\ db' = [db EXCEPT !.service.n = @ + 1,
               !.service.tokens = {t \in @ : t.n # c.token}]
  /\ Ok(c) /\ Untold

(* A password, the agreements and the end of the service are told nobody.  *)
ServeLdap(c) ==
  /\ Serves(c, "ldap")
  /\ IF ~db.exists THEN Fails(c)
     ELSE /\ db' = [db EXCEPT !.password = @ + 1]
          /\ Answers(c, [c EXCEPT !.status = "ok", !.number = db.password + 1]) /\ Untold
ServeAups(c) ==
  /\ Serves(c, "aups")
  /\ IF ~db.exists /\ scene.role[c.by] = "service" THEN Fails(c)
     ELSE db' = [db EXCEPT !.agreed = FALSE] /\ Ok(c) /\ Untold
ServeDelete(c) ==
  /\ Serves(c, "delete")
  /\ IF ~db.exists THEN Fails(c) ELSE db' = [db EXCEPT !.exists = FALSE] /\ Ok(c) /\ Untold

-------------------------------------------------------------------------------
(* The answers and the messages.                                           *)

Receive(a) ==
  /\ inbox[a] > 0 /\ inbox' = [inbox EXCEPT ![a] = @ - 1]
  /\ IF page[a].at = "open" THEN Sends(Refreshes(a)) ELSE UNCHANGED net
  /\ UNCHANGED <<scene, db, page, excuse, crossed>>

Hears(c, ops, status, p, calls) ==
  /\ c \in net /\ c.op \in ops /\ c.status = status
  /\ page[c.by].at = "open" \/ (page[c.by].at = "loading" /\ c.op = "read")
  /\ page' = [page EXCEPT ![c.by] = p] /\ net' = (net \ {c}) \union calls
  /\ UNCHANGED <<scene, db, inbox, crossed>>
HearService(c) ==
  /\ Hears(c, {"read"}, "ok",
       [Mounts(page[c.by], c.service) EXCEPT !.at = "open", !.subscribed = TRUE],
       AsksNetworks(c.by, c.service))
  /\ excuse' = IF c.service = db.service /\ Torn = {} THEN excuse \ {c.by}
               ELSE IF c.service.n < page[c.by].shown.n THEN excuse \union {c.by} ELSE excuse
HearGone(c) ==
  Hears(c, {"read"}, "failed", [page[c.by] EXCEPT !.at = "gone"], {}) /\ UNCHANGED excuse
HearExists(c) ==
  /\ Hears(c, {"exists"}, "ok",
       [page[c.by] EXCEPT !.exists = IF c.error THEN @ \union {c.key} ELSE @ \ {c.key}], {})
  /\ UNCHANGED excuse
(* What was asked of a row is put in its place, whatever is there now.     *)
HearNetwork(c) ==
  LET p == page[c.by]
  IN /\ Hears(c, {"network"}, "ok",
          Clobbers([p EXCEPT !.checking = FALSE, !.draft.nets =
            Spliced(@, c.row, [value |-> c.value, error |-> c.error])]), {})
     /\ UNCHANGED excuse
HearNetworks(c) ==
  /\ Hears(c, {"networks"}, "ok", [page[c.by] EXCEPT !.draft.nets = c.service.nets], {})
  /\ UNCHANGED excuse
HearTokenValue(c) ==
  /\ Hears(c, {"tokenValue"}, "ok",
       [page[c.by] EXCEPT !.form = c.kind, !.text = "", !.initial = TRUE], {})
  /\ UNCHANGED excuse
(* afterUpdate: whatever dialog or form is open now.                       *)
HearUpdated(c) ==
  /\ Hears(c, {"update", "token", "deleteToken"}, "ok",
       [page[c.by] EXCEPT !.busy = FALSE, !.initial = FALSE, !.form = "none", !.dialog = "none"],
       {Refreshes(c.by)})
  /\ UNCHANGED excuse
HearUpdateFailedStays(c) ==
  Hears(c, {"update"}, "failed", page[c.by], {}) /\ UNCHANGED excuse
HearUpdateFailed(c) ==
  Hears(c, {"update"}, "failed", [page[c.by] EXCEPT !.busy = FALSE], {}) /\ UNCHANGED excuse
HearPassword(c) ==
  /\ Hears(c, {"ldap"}, "ok",
       [page[c.by] EXCEPT !.dialog = "password", !.password = c.number, !.busy = FALSE], {})
  /\ UNCHANGED excuse
HearAups(c) ==
  Hears(c, {"aups"}, "ok", [page[c.by] EXCEPT !.busy = FALSE], {}) /\ UNCHANGED excuse
HearDeleted(c) ==
  Hears(c, {"delete"}, "ok", [page[c.by] EXCEPT !.at = "gone"], {}) /\ UNCHANGED excuse
(* The other calls have no catch: an error is shown and the page stays.    *)
HearUnhandled(c) ==
  /\ Hears(c, {"token", "deleteToken", "ldap", "aups", "delete"}, "failed",
       [page[c.by] EXCEPT !.unhandled = TRUE], {})
  /\ UNCHANGED excuse
HearLate(c) ==
  /\ c \in net /\ c.status \in {"ok", "failed"} /\ page[c.by].at = "gone"
  /\ net' = net \ {c} /\ UNCHANGED <<scene, db, inbox, page, excuse, crossed>>

User(a) ==
  \/ Open(a) \/ EditName(a) \/ EditAbbreviation(a) \/ EditMail(a) \/ EditPolicy(a)
  \/ FlipPam(a) \/ FlipIntrospection(a) \/ FlipScimClient(a) \/ ScimServer(a)
  \/ AddNetwork(a) \/ TypeNetwork(a) \/ DeleteNetwork(a)
  \/ Update(a) \/ ConfirmDisable(a) \/ CancelDialog(a)
  \/ NewToken(a) \/ Describe(a) \/ SaveToken(a) \/ CancelForm(a) \/ ChangeTab(a)
  \/ RemoveToken(a) \/ LdapReset(a) \/ ResetAups(a) \/ Delete(a)
  \/ DoDeleteToken(a) \/ DoResetAups(a) \/ DoDelete(a) \/ DoLdapReset(a)
Server(c) ==
  \/ ServeRead(c) \/ ServeExists(c)
  \/ BeginUpdate(c) \/ CommitUpdate(c) \/ BeginToken(c) \/ CommitToken(c)
  \/ BeginDeleteToken(c) \/ CommitDeleteToken(c)
  \/ ServeLdap(c) \/ ServeAups(c) \/ ServeDelete(c)
Browser(c) ==
  \/ HearService(c) \/ HearGone(c) \/ HearExists(c) \/ HearNetwork(c) \/ HearNetworks(c)
  \/ HearTokenValue(c) \/ HearUpdated(c) \/ HearUpdateFailed(c) \/ HearPassword(c)
  \/ HearAups(c) \/ HearDeleted(c) \/ HearUnhandled(c) \/ HearLate(c)
Next ==
  \/ \E a \in Admins : User(a) \/ Receive(a)
  \/ \E c \in net : Server(c) \/ Browser(c)
Spec == Init /\ [][Next]_vars
-------------------------------------------------------------------------------
(* Properties.                                                             *)

AtRest(a) ==
  /\ page[a].at = "open" /\ ~page[a].busy /\ inbox[a] = 0
  /\ \A c \in net : c.by # a

(* A page with nothing left to hear shows the service as it is stored,     *)
(* unless it has got its last answer from before a change that was told    *)
(* before it was committed or before it listened, or out of order.         *)
PagesCatchUp ==
  \A a \in Admins : AtRest(a) /\ db.exists /\ Torn = {} => 
                     page[a].shown = db.service \/ a \in excuse
(* A draft that nobody has changed since it was read can be saved: marks   *)
(* of an older draft do not outlive it, but for the verdict on a name and  *)
(* for the network that was emptied, whose check never ends.  Two updates  *)
(* of the server of SCIM at once may leave it on without an address: each  *)
(* handler writes only what differs from what it read.                     *)
UntouchedDraftIsValid ==
  \A a \in Admins :
    LET p == page[a]
    IN AtRest(a) /\ p.draft = Loaded(p.shown) /\ ~p.emptied /\ p.exists = {} =>
         Valid(p) \/ ("address" \in crossed /\ NoAddress(p.shown))
(* Switching a kind off deletes its tokens; an administrator who has seen  *)
(* them has been asked.                                                    *)
TokensGoWithAWarning ==
  [][\A t \in db.service.tokens \ db'.service.tokens :
       \E c \in net \ net' :
         \/ c.op = "deleteToken" /\ c.token = t.n
         \/ c.op = "update" /\ (c.warned \/ t \notin c.service.tokens)]_vars
(* A token can be used: its kind is on, unless it was switched off between *)
(* the two halves of the creation of a token.                              *)
TokensHaveTheirSwitch ==
  \A t \in db.service.tokens : t.kind \in db.service.on \union crossed
(* A page that shows its spinner has something of its own under way, which *)
(* will be answered, unless an error has come that the page does not handle.*)
WaitsForSomething ==
  \A a \in Admins :
    page[a].busy /\ ~page[a].unhandled /\ page[a].at # "gone" => \E c \in net : c.by = a
===============================================================================
