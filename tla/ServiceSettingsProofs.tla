------------------------- MODULE ServiceSettingsProofs -------------------------
(***************************************************************************)
(* The settings of a service for any administrators, kinds of token and    *)
(* scenes: pages catch up with the service, tokens and their switches agree*)
(* and go with a warning, a spinner has a call behind it, and a draft that *)
(* nobody has changed can be saved.                                        *)
(***************************************************************************)
EXTENDS ServiceSettings, TLAPS

CallOps ==
  {"read", "exists", "network", "networks", "tokenValue", "update", "token", "deleteToken", "ldap",
   "aups", "delete"}
Statuses == {"sent", "begun", "ok", "failed"}
Texts == {"", "typed", "of the service"}
Marks == {"good", "bad", ""}
Keys == {"name", "abbreviation"}
(* What is said here of a service leaves open what rows of networks it has.*)
ServiceOf(rows) ==
  [n : Nat, name : Names, abbreviation : Names, mail : Marks, policy : Marks, on : SUBSET Kinds,
   tokens : SUBSET [n : Nat, kind : Kinds], scim : BOOLEAN, url : {"", "url"}, sweep : BOOLEAN,
   rate : [is : {"number", "option", "null", "undefined"}, n : Nat], nets : rows]
IsService(s) == s \in ServiceOf({s.nets})
CallOf(services, seen, rows, ids) ==
  [by : Admins, op : CallOps, status : Statuses, service : services, seen : seen, key : Keys,
   value : Names \union {"", "n1", "n2", "bad"}, row : rows, kind : Kinds \union {"none"}, token : Nat,
   text : Texts, warned : BOOLEAN, error : BOOLEAN, number : Nat, id : ids]
IsCall(c) ==
  c \in CallOf({c.service}, {c.seen}, {c.row}, {c.id}) /\ IsService(c.service) /\ IsService(c.seen)
PageOf(shown, drafts) ==
  [at : {"closed", "loading", "open", "gone"}, subscribed : BOOLEAN, shown : shown, draft : drafts,
   exists : SUBSET Keys, invalid : SUBSET {"mail", "policy"}, initial : BOOLEAN, checking : BOOLEAN,
   busy : BOOLEAN, unhandled : BOOLEAN,
   dialog : {"none", "disable", "deleteToken", "ldap", "aups", "delete", "password"}, about : Nat,
   password : Nat, form : Kinds \union {"none"}, text : Texts, emptied : BOOLEAN, n : Nat]
IsPage(p) == p \in PageOf({p.shown}, {p.draft}) /\ IsService(p.shown) /\ IsService(p.draft)
IsDb(d) ==
  /\ d \in [exists : BOOLEAN, password : Nat, agreed : BOOLEAN, made : Nat, service : {d.service}]
  /\ IsService(d.service)
ArePages(ps) == ps = [a \in Admins |-> ps[a]] /\ \A a \in Admins : IsPage(ps[a])
AreCalls(cs) == \A c \in cs : IsCall(c) /\ (c.op = "token" => c.kind \in Kinds)

TypeInv ==
  /\ scene \in Scenes /\ IsDb(db) /\ AreCalls(net) /\ inbox \in [Admins -> Nat] /\ ArePages(page)
  /\ excuse \in SUBSET Admins /\ crossed \in SUBSET (Kinds \union {"address"})

LEMMA SceneTypes ==
  ASSUME TypeInv
  PROVE  /\ scene.role \in [Admins -> Roles] /\ scene.on \in SUBSET Kinds
         /\ scene.tokens \in SUBSET Kinds /\ scene.swept \in BOOLEAN
BY SceneAssumption DEF TypeInv

LEMMA ServiceFields ==
  ASSUME NEW s, IsService(s)
  PROVE  /\ s.n \in Nat /\ s.name \in Names /\ s.abbreviation \in Names /\ s.mail \in Marks
         /\ s.policy \in Marks /\ s.on \in SUBSET Kinds /\ s.tokens \in SUBSET [n : Nat, kind : Kinds]
         /\ s.scim \in BOOLEAN /\ s.url \in {"", "url"} /\ s.sweep \in BOOLEAN
         /\ s.rate \in [is : {"number", "option", "null", "undefined"}, n : Nat]
BY DEF IsService, ServiceOf

LEMMA CallFields ==
  ASSUME NEW c, IsCall(c)
  PROVE  /\ c.by \in Admins /\ c.op \in CallOps /\ c.status \in Statuses /\ IsService(c.service)
         /\ IsService(c.seen) /\ c.key \in Keys /\ c.kind \in Kinds \union {"none"} /\ c.token \in Nat
         /\ c.value \in Names \union {"", "n1", "n2", "bad"} /\ c.text \in Texts
         /\ c.warned \in BOOLEAN /\ c.error \in BOOLEAN /\ c.number \in Nat
BY DEF IsCall, CallOf

LEMMA PageFields ==
  ASSUME NEW p, IsPage(p)
  PROVE  /\ p.at \in {"closed", "loading", "open", "gone"} /\ p.subscribed \in BOOLEAN
         /\ IsService(p.shown) /\ IsService(p.draft) /\ p.exists \in SUBSET Keys
         /\ p.invalid \in SUBSET {"mail", "policy"} /\ p.initial \in BOOLEAN /\ p.checking \in BOOLEAN
         /\ p.busy \in BOOLEAN /\ p.unhandled \in BOOLEAN /\ p.about \in Nat /\ p.password \in Nat
         /\ p.dialog \in {"none", "disable", "deleteToken", "ldap", "aups", "delete", "password"}
         /\ p.form \in Kinds \union {"none"} /\ p.text \in Texts /\ p.emptied \in BOOLEAN /\ p.n \in Nat
BY DEF IsPage, PageOf

LEMMA DbFields ==
  ASSUME TypeInv
  PROVE  /\ IsService(db.service) /\ db.exists \in BOOLEAN /\ db.password \in Nat
         /\ db.agreed \in BOOLEAN /\ db.made \in Nat
BY DEF TypeInv, IsDb

LEMMA PagesAre ==
  ASSUME TypeInv, NEW a \in Admins
  PROVE  IsPage(page[a]) /\ IsService(page[a].shown) /\ IsService(page[a].draft)
BY PageFields DEF TypeInv, ArePages

(* One page replaced by another.                                           *)
LEMMA Replaced ==
  ASSUME TypeInv, NEW a \in Admins, NEW p, page' = [page EXCEPT ![a] = p]
  PROVE  /\ page'[a] = p /\ \A b \in Admins : b # a => page'[b] = page[b]
         /\ IsPage(p) => ArePages(page')
<1>1. page = [b \in Admins |-> page[b]] /\ \A b \in Admins : IsPage(page[b])
  BY DEF TypeInv, ArePages
<1>2. page' = [b \in Admins |-> IF b = a THEN p ELSE page[b]]
  BY <1>1
<1>3. page'[a] = p /\ \A b \in Admins : b # a => page'[b] = page[b]
  BY <1>2
<1>4. page' = [b \in Admins |-> page'[b]]
  BY <1>2
<1>5. ASSUME IsPage(p)  PROVE \A b \in Admins : IsPage(page'[b])
  BY <1>1, <1>3, <1>5
<1> QED BY <1>3, <1>4, <1>5 DEF ArePages

LEMMA RowsAreFree ==
  ASSUME NEW s, IsService(s), NEW rows
  PROVE  /\ IsService([s EXCEPT !.nets = rows]) /\ [s EXCEPT !.nets = rows].on = s.on
         /\ [s EXCEPT !.nets = rows].tokens = s.tokens /\ [s EXCEPT !.nets = rows].mail = s.mail
         /\ [s EXCEPT !.nets = rows].policy = s.policy
         /\ Address([s EXCEPT !.nets = rows]) = Address(s)
BY DEF Address, IsService, ServiceOf

LEMMA FreshType == IsService(Fresh)
BY DEF IsService, ServiceOf, Fresh, Names, Marks, Number

(* A call as it is sent.                                                   *)
LEMMA CallType ==
  ASSUME NEW a \in Admins, NEW op \in CallOps
  PROVE  /\ IsCall(Call(a, op)) /\ Call(a, op).by = a /\ Call(a, op).op = op
         /\ Call(a, op).status = "sent" /\ Call(a, op).service = Fresh
<1> DEFINE i == CHOOSE i \in 0 .. Cardinality(net) : \A c \in net : c.by # a \/ c.op # op \/ c.id # i
           f == Fresh
<1>1. IsService(f)
  BY FreshType
<1> HIDE DEF i
<1>2. Call(a, op) = [by |-> a, op |-> op, status |-> "sent", service |-> f, seen |-> f, key |-> "name",
        value |-> "", row |-> 0, kind |-> "none", token |-> 0, text |-> "", warned |-> FALSE,
        error |-> FALSE, number |-> 0, id |-> i]
  BY DEF Call, i
<1> HIDE DEF f
<1> DEFINE c == [by |-> a, op |-> op, status |-> "sent", service |-> f, seen |-> f, key |-> "name",
        value |-> "", row |-> 0, kind |-> "none", token |-> 0, text |-> "", warned |-> FALSE,
        error |-> FALSE, number |-> 0, id |-> i]
<1>3. c \in CallOf({f}, {f}, {0}, {i})
  BY DEF CallOf, Statuses, Keys, Texts
<1>4. /\ c.service = f /\ c.seen = f /\ c.row = 0 /\ c.id = i
      /\ c.by = a /\ c.op = op /\ c.status = "sent"
  OBVIOUS
<1>5. Call(a, op) = c
  BY <1>2
<1> HIDE DEF c
<1>6. IsCall(c)
  BY <1>1, <1>3, <1>4 DEF IsCall
<1> QED BY <1>4, <1>5, <1>6 DEF f

-------------------------------------------------------------------------------
(* What an administrator does to a page, and the call it makes.            *)
Spinning == {"update", "deleteToken", "aups", "delete"}
Warned(c) == c.warned \/ Disabled(c.service) = {}
(* An update sends the draft of a page that is valid; where nothing says so*)
(* of its address, the page has been asked about tokens.                   *)
Saves(o, s) ==
  /\ o.invalid = {} /\ s.mail = o.draft.mail /\ s.policy = o.draft.policy /\ s.mail # "" /\ s.policy # ""
  /\ Address(s) = Address(o.draft) /\ (o.dialog = "disable" \/ ~NoAddress(o.draft))
Asked(a, c) ==
  /\ IsCall(c) /\ c.by = a
  /\ c.status = "sent" \/ (c.status = "ok" /\ c.op \in {"network", "networks", "tokenValue"})
  /\ (c.op = "update" => Warned(c) /\ Saves(page[a], c.service)) /\ (c.op = "token" => c.kind \in Kinds)
(* The marks of a page after a turn of it: the mark of a text is as it was,*)
(* with the text, or as the text asks for; tokens are asked about over a   *)
(* draft with an address, or were already; a check has a call.             *)
MarkedMail(o, q) ==
  \/ q.draft.mail = o.draft.mail /\ ("mail" \in q.invalid <=> "mail" \in o.invalid)
  \/ "mail" \in q.invalid <=> q.draft.mail = "bad"
MarkedPolicy(o, q) ==
  \/ q.draft.policy = o.draft.policy /\ ("policy" \in q.invalid <=> "policy" \in o.invalid)
  \/ "policy" \in q.invalid <=> q.draft.policy = "bad"
MarkedAddress(o, q) ==
  q.dialog = "disable" =>
    ~NoAddress(q.draft) \/ (o.dialog = "disable" /\ Address(q.draft) = Address(o.draft))
Checks(a, cs) == \E c \in cs : c.by = a /\ c.op = "network"
MarkedCheck(a, o, q, cs) ==
  q.checking /\ ~q.emptied => (o.checking /\ ~o.emptied) \/ Checks(a, cs)
Marked(a, q) ==
  /\ MarkedMail(page[a], q) /\ MarkedPolicy(page[a], q) /\ MarkedAddress(page[a], q)
  /\ MarkedCheck(a, page[a], q, net')
Reading(a, cs) == \E c \in cs : c.by = a /\ c.op = "read" /\ c.status = "sent"
Waiting(p) == p.busy /\ ~p.unhandled /\ p.at # "gone"
Turn(a, q) ==
  /\ IsPage(q) /\ q.shown = page[a].shown /\ q.subscribed = page[a].subscribed
  /\ q.at = page[a].at \/ (page[a].at = "closed" /\ q.at = "loading" /\ Reading(a, net'))
  /\ Waiting(q) => Waiting(page[a]) \/ \E c \in net' : c.by = a /\ c.op \in Spinning
  /\ Marked(a, q)
Turned(a) ==
  /\ UNCHANGED <<scene, db, inbox, excuse, crossed>>
  /\ \E q : Turn(a, q) /\ page' = [page EXCEPT ![a] = q]
  /\ net' = net \/ \E c : Asked(a, c) /\ net' = net \union {c}

Keeps(a, p) ==
  /\ IsPage(p) /\ p.shown = page[a].shown /\ p.subscribed = page[a].subscribed
  /\ p.at = page[a].at /\ (Waiting(p) => Waiting(page[a])) /\ Marked(a, p)

(* Marks that are left alone.                                              *)
SameMarks(o, q) ==
  /\ q.draft.mail = o.draft.mail /\ q.draft.policy = o.draft.policy /\ q.invalid = o.invalid
  /\ q.checking = o.checking /\ q.emptied = o.emptied
  /\ q.dialog = "disable" => o.dialog = "disable" /\ q.draft = o.draft
LEMMA SameMarked ==
  ASSUME NEW a, NEW q, SameMarks(page[a], q)
  PROVE  Marked(a, q)
BY DEF SameMarks, Marked, MarkedMail, MarkedPolicy, MarkedAddress, MarkedCheck

(* The marks do not depend on how often somebody acted.                    *)
LEMMA CountedMarks ==
  ASSUME NEW a, NEW p, NEW q, Marked(a, p), q.draft = p.draft, q.invalid = p.invalid,
         q.dialog = p.dialog, q.checking = p.checking, q.emptied = p.emptied
  PROVE  Marked(a, q)
BY DEF Marked, MarkedMail, MarkedPolicy, MarkedAddress, MarkedCheck

LEMMA PutTurns ==
  ASSUME TypeInv, NEW a \in Admins, NEW p, Keeps(a, p), page' = [page EXCEPT ![a] = p],
         UNCHANGED <<scene, db, inbox, excuse, crossed>>,
         net' = net \/ \E c : Asked(a, c) /\ net' = net \union {c}
  PROVE  Turned(a)
BY DEF Keeps, Turned, Turn

LEMMA ShowsTurns ==
  ASSUME TypeInv, NEW a \in Admins, NEW p, Keeps(a, p), Shows(a, p),
         UNCHANGED <<scene, db, inbox, excuse, crossed>>,
         net' = net \/ \E c : Asked(a, c) /\ net' = net \union {c}
  PROVE  Turned(a)
<1> DEFINE q == [p EXCEPT !.n = @ + 1]
<1>0. /\ IsPage(p) /\ q.draft = p.draft /\ q.invalid = p.invalid /\ q.dialog = p.dialog
      /\ q.checking = p.checking /\ q.emptied = p.emptied
  BY DEF Keeps, IsPage, PageOf
<1>1. Keeps(a, q)
  <2>1. Marked(a, q)
    <3> HIDE DEF q
    <3> QED BY <1>0, CountedMarks DEF Keeps
  <2>2. /\ IsPage(q) /\ q.shown = p.shown /\ q.subscribed = p.subscribed /\ q.at = p.at
        /\ q.busy = p.busy /\ q.unhandled = p.unhandled
    <3> HIDE DEF Keeps
    <3> QED BY <1>0 DEF IsPage, PageOf
  <2> HIDE DEF q
  <2> QED BY <2>1, <2>2 DEF Keeps, Waiting
<1>2. page' = [page EXCEPT ![a] = q]
  BY DEF Shows
<1> HIDE DEF q
<1> QED BY <1>1, <1>2, PutTurns

(* A draft put in the place of the one there is.                           *)
LEMMA DraftKept ==
  ASSUME TypeInv, NEW a \in Admins, NEW d, IsService(d), page[a].dialog = "none",
         d.mail = page[a].draft.mail, d.policy = page[a].draft.policy
  PROVE  Keeps(a, [page[a] EXCEPT !.draft = d])
<1> DEFINE p == page[a]
<1>1. IsPage(p)
  BY PagesAre
<1> HIDE DEF p
<1>2. IsPage([p EXCEPT !.draft = d])
  BY <1>1 DEF IsPage, PageOf
<1>3. [p EXCEPT !.draft = d].shown = p.shown /\ [p EXCEPT !.draft = d].subscribed = p.subscribed
      /\ [p EXCEPT !.draft = d].at = p.at /\ [p EXCEPT !.draft = d].busy = p.busy
      /\ [p EXCEPT !.draft = d].unhandled = p.unhandled
  BY <1>1 DEF IsPage, PageOf
<1>4. SameMarks(p, [p EXCEPT !.draft = d])
  BY <1>1 DEF IsPage, PageOf, SameMarks, p
<1>5. Marked(a, [p EXCEPT !.draft = d])
  BY <1>4, SameMarked DEF p
<1> QED BY <1>2, <1>3, <1>5 DEF Keeps, Waiting, p

LEMMA DraftsTurn ==
  ASSUME TypeInv, NEW a \in Admins, NEW d, IsService(d), page[a].dialog = "none",
         d.mail = page[a].draft.mail, d.policy = page[a].draft.policy, Drafts(a, d),
         UNCHANGED <<scene, db, inbox, excuse, crossed>>
  PROVE  Turned(a)
BY DraftKept, ShowsTurns DEF Drafts

(* Calls of the kinds that are made.                                       *)
LEMMA SentIsAsked ==
  ASSUME NEW a \in Admins, NEW op \in CallOps, op \notin {"update", "token"}
  PROVE  Asked(a, Call(a, op))
BY CallType DEF Asked

LEMMA ExistsAsked ==
  ASSUME NEW a \in Admins, NEW key \in Keys, NEW value \in Names, NEW s, IsService(s)
  PROVE  Asked(a, [Call(a, "exists") EXCEPT !.key = key, !.value = value, !.service = s])
<1> DEFINE c == Call(a, "exists")
           d == [c EXCEPT !.key = key, !.value = value, !.service = s]
<1>0. "exists" \in CallOps
  BY DEF CallOps
<1>1. IsCall(c) /\ c.by = a /\ c.op = "exists" /\ c.status = "sent"
  BY <1>0, CallType
<1> HIDE DEF c
<1>2. IsCall(d) /\ d.by = a /\ d.op = "exists" /\ d.status = "sent"
  BY <1>1 DEF IsCall, CallOf
<1> HIDE DEF d
<1>3. Asked(a, d)
  BY <1>2 DEF Asked
<1> QED BY <1>3 DEF c, d

LEMMA NumberAsked ==
  ASSUME NEW a \in Admins, NEW op \in CallOps, op \notin {"update", "token"}, NEW n \in Nat
  PROVE  Asked(a, [Call(a, op) EXCEPT !.token = n])
<1> DEFINE c == Call(a, op)
           d == [c EXCEPT !.token = n]
<1>1. IsCall(c) /\ c.by = a /\ c.op = op /\ c.status = "sent"
  BY CallType
<1> HIDE DEF c
<1>2. IsCall(d) /\ d.by = a /\ d.op = op /\ d.status = "sent"
  BY <1>1 DEF IsCall, CallOf
<1> HIDE DEF d
<1>3. Asked(a, d)
  BY <1>2 DEF Asked
<1> QED BY <1>3 DEF c, d

LEMMA TokenAsked ==
  ASSUME NEW a \in Admins, NEW kind \in Kinds, NEW text \in Texts
  PROVE  Asked(a, [Call(a, "token") EXCEPT !.kind = kind, !.text = text])
<1> DEFINE c == Call(a, "token")
           d == [c EXCEPT !.kind = kind, !.text = text]
<1>0. "token" \in CallOps
  BY DEF CallOps
<1>1. IsCall(c) /\ c.by = a /\ c.op = "token" /\ c.status = "sent"
  BY <1>0, CallType
<1> HIDE DEF c
<1>2. IsCall(d) /\ d.by = a /\ d.op = "token" /\ d.status = "sent" /\ d.kind = kind
  BY <1>1 DEF IsCall, CallOf
<1> HIDE DEF d
<1>3. Asked(a, d)
  BY <1>2 DEF Asked
<1> QED BY <1>3 DEF c, d

LEMMA AnsweredType ==
  ASSUME NEW a \in Admins, NEW c, IsCall(c), c.by = a, c.op \in {"network", "networks", "tokenValue"}
  PROVE  Asked(a, Answered(c)) /\ Answered(c).op = c.op
<1> DEFINE s == [c.service EXCEPT !.nets = [i \in DOMAIN c.service.nets |->
                   [value |-> c.service.nets[i].value, error |-> c.service.nets[i].value = "bad"]]]
           b == (c.value = "bad")
           d == [c EXCEPT !.status = "ok", !.error = b, !.service = s]
<1>1. IsService(s)
  BY RowsAreFree, CallFields
<1>2. Answered(c) = d
  BY DEF IsCall, CallOf, Answered
<1>3. b \in BOOLEAN
  OBVIOUS
<1> HIDE DEF s, b
<1>4. IsCall(d) /\ d.by = a /\ d.op = c.op /\ d.status = "ok"
  BY <1>1, <1>3 DEF IsCall, CallOf, Statuses
<1> QED BY <1>2, <1>4 DEF Asked

LEMMA NetworkAsked ==
  ASSUME NEW a \in Admins, NEW i, NEW v \in {"", "n1", "n2", "bad"}
  PROVE  /\ Asked(a, Answered([Call(a, "network") EXCEPT !.row = i, !.value = v]))
         /\ Answered([Call(a, "network") EXCEPT !.row = i, !.value = v]).op = "network"
<1> DEFINE c == Call(a, "network")
<1>0. "network" \in CallOps
  BY DEF CallOps
<1>1. IsCall(c) /\ c.by = a /\ c.op = "network"
  BY <1>0, CallType
<1> HIDE DEF c
<1>2. IsCall([c EXCEPT !.row = i, !.value = v]) /\ [c EXCEPT !.row = i, !.value = v].by = a
      /\ [c EXCEPT !.row = i, !.value = v].op = "network"
  BY <1>1 DEF IsCall, CallOf
<1> QED BY <1>2, AnsweredType DEF c

LEMMA TokenValueAsked ==
  ASSUME NEW a \in Admins, NEW k \in Kinds
  PROVE  Asked(a, Answered([Call(a, "tokenValue") EXCEPT !.kind = k]))
<1> DEFINE c == Call(a, "tokenValue")
<1>0. "tokenValue" \in CallOps
  BY DEF CallOps
<1>1. IsCall(c) /\ c.by = a /\ c.op = "tokenValue"
  BY <1>0, CallType
<1> HIDE DEF c
<1>2. IsCall([c EXCEPT !.kind = k]) /\ [c EXCEPT !.kind = k].by = a
      /\ [c EXCEPT !.kind = k].op = "tokenValue"
  BY <1>1 DEF IsCall, CallOf
<1> QED BY <1>2, AnsweredType DEF c

LEMMA NetworksAsked ==
  ASSUME NEW a \in Admins, NEW s, NEW c, c \in AsksNetworks(a, s)
  PROVE  Asked(a, c)
<1> DEFINE e == Call(a, "networks")
           f == [e.service EXCEPT !.nets = s.nets]
           d == [e EXCEPT !.service = f]
<1>0. "networks" \in CallOps
  BY DEF CallOps
<1>1. IsCall(e) /\ e.by = a /\ e.op = "networks"
  BY <1>0, CallType
<1>2. IsService(f)
  BY <1>1, CallFields, RowsAreFree
<1>3. [Call(a, "networks") EXCEPT !.service.nets = s.nets] = d
  BY <1>1 DEF IsCall, CallOf
<1> HIDE DEF e, f
<1>4. IsCall(d) /\ d.by = a /\ d.op = "networks"
  BY <1>1, <1>2 DEF IsCall, CallOf
<1> HIDE DEF d
<1>5. c = Answered(d)
  BY <1>3 DEF AsksNetworks
<1> QED BY <1>4, <1>5, AnsweredType

LEMMA ReadAsked ==
  ASSUME NEW a \in Admins
  PROVE  /\ Asked(a, Refreshes(a)) /\ Refreshes(a).op = "read" /\ Refreshes(a).status = "sent"
BY SentIsAsked, CallType DEF Refreshes, CallOps

(* What is sent when a draft is saved.                                     *)
LEMMA StrippedType ==
  ASSUME NEW s, IsService(s)
  PROVE  /\ IsService(Stripped(s)) /\ Disabled(Stripped(s)) = Disabled(s)
         /\ Stripped(s).mail = s.mail /\ Stripped(s).policy = s.policy
         /\ Address(Stripped(s)) = Address(s)
<1>1. SentRate(s.rate) \in [is : {"number", "option", "null", "undefined"}, n : Nat]
  BY ServiceFields DEF SentRate, Number, Undefined
<1> DEFINE rows == SelectSeq(s.nets, LAMBDA r : r.value # "")
           rate == SentRate(s.rate)
           q == [s EXCEPT !.rate = rate, !.nets = rows]
<1>2. Stripped(s) = q
  BY DEF Stripped
<1> HIDE DEF rows, rate
<1>3. IsService(q) /\ q.on = s.on /\ q.tokens = s.tokens
  BY <1>1 DEF IsService, ServiceOf, rate
<1>4. q.mail = s.mail /\ q.policy = s.policy /\ q.scim = s.scim /\ q.url = s.url
  BY DEF IsService, ServiceOf
<1> HIDE DEF q
<1> QED BY <1>2, <1>3, <1>4 DEF Disabled, Address

LEMMA UpdateAsked ==
  ASSUME NEW a \in Admins, NEW s, IsService(s), NEW warned \in BOOLEAN, warned \/ Disabled(s) = {},
         Saves(page[a], s)
  PROVE  Asked(a, [Call(a, "update") EXCEPT !.service = s, !.warned = warned])
<1> DEFINE c == Call(a, "update")
           d == [c EXCEPT !.service = s, !.warned = warned]
<1>0. "update" \in CallOps
  BY DEF CallOps
<1>1. IsCall(c) /\ c.by = a /\ c.op = "update" /\ c.status = "sent"
  BY <1>0, CallType
<1> HIDE DEF c
<1>2. IsCall(d) /\ d.by = a /\ d.op = "update" /\ d.status = "sent" /\ d.service = s /\ d.warned = warned
  BY <1>1 DEF IsCall, CallOf
<1> HIDE DEF d
<1>3. Asked(a, d)
  BY <1>2 DEF Asked, Warned
<1> QED BY <1>3 DEF c, d

LEMMA OpenTurns ==
  ASSUME TypeInv, NEW a \in Admins, Open(a)
  PROVE  Turned(a)
<1> DEFINE p == page[a]
           q == [p EXCEPT !.at = "loading"]
           c == Refreshes(a)
<1>1. IsPage(p) /\ p.at = "closed"
  BY PagesAre DEF Open
<1>2. Asked(a, c) /\ c.by = a /\ c.op = "read" /\ c.status = "sent" /\ net' = net \union {c}
  BY ReadAsked DEF Open, Sends, Asked
<1>3. Reading(a, net')
  BY <1>2 DEF Reading
<1>4. page' = [page EXCEPT ![a] = q] /\ UNCHANGED <<scene, db, inbox, excuse, crossed>>
  BY DEF Open, OnlyPages
<1> HIDE DEF p, c
<1>5. /\ IsPage(q) /\ q.shown = p.shown /\ q.subscribed = p.subscribed /\ q.at = "loading"
      /\ q.busy = p.busy /\ q.unhandled = p.unhandled /\ SameMarks(p, q)
  BY <1>1 DEF IsPage, PageOf, SameMarks
<1> HIDE DEF q
<1>6. Turn(a, q)
  BY <1>1, <1>3, <1>5, SameMarked DEF Turn, Waiting, p
<1> QED BY <1>2, <1>4, <1>6 DEF Turned

LEMMA KeyTurns ==
  ASSUME TypeInv, NEW a \in Admins, page[a].dialog = "none", NEW key \in Keys, EditsKey(a, key)
  PROVE  Turned(a)
<1> DEFINE p == page[a]
<1>1. PICK v \in Names \ {page[a].draft[key]} :
        /\ Shows(a, [page[a] EXCEPT !.draft[key] = v, !.exists = @ \ {key}])
        /\ Sends([Call(a, "exists") EXCEPT !.key = key, !.value = v, !.service = page[a].shown])
        /\ OnlyPages
  BY DEF EditsKey
<1>2. IsPage(p) /\ IsService(p.shown) /\ IsService(p.draft)
  BY PagesAre
<1> DEFINE c == [Call(a, "exists") EXCEPT !.key = key, !.value = v, !.service = p.shown]
           d == p.draft
           e == [d EXCEPT ![key] = v]
           q == [p EXCEPT !.draft = e, !.exists = @ \ {key}]
<1>4. Asked(a, c)
  <2> HIDE DEF p
  <2> QED BY <1>2, ExistsAsked
<1>5. IsService(e) /\ e.mail = d.mail /\ e.policy = d.policy
  <2> HIDE DEF d
  <2>1. IsService(d)
    BY <1>2 DEF d
  <2>2. CASE key = "name"
    BY <2>1, <2>2 DEF IsService, ServiceOf
  <2>3. CASE key = "abbreviation"
    BY <2>1, <2>3 DEF IsService, ServiceOf
  <2> QED BY <2>2, <2>3 DEF Keys
<1>6. [page[a] EXCEPT !.draft[key] = v, !.exists = @ \ {key}] = q
  <2> HIDE DEF p
  <2> QED BY <1>2 DEF IsPage, PageOf, p
<1> HIDE DEF e, c
<1>7. Keeps(a, q)
  <2> HIDE DEF p
  <2>1. IsPage(q)
    BY <1>2, <1>5 DEF IsPage, PageOf
  <2>2. /\ q.shown = p.shown /\ q.subscribed = p.subscribed /\ q.at = p.at /\ q.busy = p.busy
        /\ q.unhandled = p.unhandled
    BY <1>2 DEF IsPage, PageOf
  <2>3. SameMarks(p, q)
    BY <1>2, <1>5 DEF IsPage, PageOf, SameMarks, p
  <2> QED BY <2>1, <2>2, <2>3, SameMarked DEF Keeps, Waiting, p
<1>8. Shows(a, q)
  BY <1>1, <1>6
<1> HIDE DEF q
<1>9. net' = net \union {c}
  BY <1>1 DEF Sends, c
<1> QED BY <1>1, <1>4, <1>7, <1>8, <1>9, ShowsTurns DEF OnlyPages

LEMMA TextTurns ==
  ASSUME TypeInv, NEW a \in Admins, page[a].dialog = "none",
         NEW field \in {"mail", "policy"}, EditsText(a, field)
  PROVE  Turned(a)
<1> DEFINE p == page[a]
<1>1. PICK v \in {"good", "bad", ""} :
        /\ Shows(a, [page[a] EXCEPT !.draft[field] = v,
                       !.invalid = IF v = "bad" THEN @ \union {field} ELSE @ \ {field}])
        /\ UNCHANGED net /\ OnlyPages
  BY DEF EditsText
<1>2. IsPage(p) /\ IsService(p.draft) /\ p.invalid \in SUBSET {"mail", "policy"}
  BY PagesAre, PageFields
<1> DEFINE d == p.draft
           e == [d EXCEPT ![field] = v]
           i == IF v = "bad" THEN p.invalid \union {field} ELSE p.invalid \ {field}
           q == [p EXCEPT !.draft = e, !.invalid = i]
<1>3. /\ IsService(e) /\ (field = "mail" => e.mail = v /\ e.policy = d.policy)
      /\ field = "policy" => e.policy = v /\ e.mail = d.mail
  <2> HIDE DEF d
  <2>1. IsService(d)
    BY <1>2 DEF d
  <2>2. CASE field = "mail"
    BY <2>1, <2>2 DEF IsService, ServiceOf, Marks
  <2>3. CASE field = "policy"
    BY <2>1, <2>3 DEF IsService, ServiceOf, Marks
  <2> QED BY <2>2, <2>3
<1>4. /\ i \in SUBSET {"mail", "policy"} /\ (field \in i <=> v = "bad")
      /\ \A f \in {"mail", "policy"} : f # field => (f \in i <=> f \in p.invalid)
  BY <1>2
<1>5. [page[a] EXCEPT !.draft[field] = v,
                      !.invalid = IF v = "bad" THEN @ \union {field} ELSE @ \ {field}] = q
  <2> HIDE DEF p
  <2> QED BY <1>2 DEF IsPage, PageOf, p
<1> HIDE DEF e, i
<1>6. Keeps(a, q)
  <2> HIDE DEF p
  <2>1. IsPage(q)
    BY <1>2, <1>3, <1>4 DEF IsPage, PageOf
  <2>2. /\ q.shown = p.shown /\ q.subscribed = p.subscribed /\ q.at = p.at /\ q.busy = p.busy
        /\ q.unhandled = p.unhandled
        /\ q.draft = e /\ q.invalid = i /\ q.checking = p.checking /\ q.emptied = p.emptied
        /\ q.dialog = p.dialog
    BY <1>2 DEF IsPage, PageOf
  <2>3. p.dialog = "none"
    BY DEF p
  <2> HIDE DEF q
  <2>4. MarkedMail(p, q) /\ MarkedPolicy(p, q)
    BY <1>3, <1>4, <2>2 DEF MarkedMail, MarkedPolicy
  <2>5. MarkedAddress(p, q) /\ MarkedCheck(a, p, q, net')
    BY <2>2, <2>3 DEF MarkedAddress, MarkedCheck
  <2> QED BY <2>1, <2>2, <2>4, <2>5 DEF Keeps, Waiting, Marked, p
<1>7. Shows(a, q)
  BY <1>1, <1>5
<1> HIDE DEF q
<1> QED BY <1>1, <1>6, <1>7, ShowsTurns DEF OnlyPages

LEMMA FlipTurns ==
  ASSUME TypeInv, NEW a \in Admins, page[a].dialog = "none", NEW k \in Kinds, Flips(a, k)
  PROVE  Turned(a)
<1> DEFINE d == page[a].draft
           on == IF k \in d.on THEN d.on \ {k} ELSE d.on \union {k}
           e == [d EXCEPT !.on = on]
<1>1. IsService(d)
  BY PagesAre
<1>2. on \in SUBSET Kinds
  BY <1>1, ServiceFields
<1>3. [d EXCEPT !.on = IF k \in @ THEN @ \ {k} ELSE @ \union {k}] = e
  <2> HIDE DEF d
  <2> QED BY <1>1 DEF IsService, ServiceOf
<1>4. Drafts(a, e) /\ UNCHANGED <<scene, db, inbox, excuse, crossed>>
  BY <1>3 DEF Flips, OnlyPages
<1> HIDE DEF d, on
<1>5. IsService(e) /\ e.mail = d.mail /\ e.policy = d.policy
  BY <1>1, <1>2 DEF IsService, ServiceOf
<1> HIDE DEF e
<1> QED BY <1>4, <1>5, DraftsTurn DEF d

LEMMA ScimTurns ==
  ASSUME TypeInv, NEW a \in Admins, ScimServer(a)
  PROVE  Turned(a)
<1> DEFINE d == page[a].draft
<1>1. IsService(d)
  BY PagesAre
<1>2. \A n \in Nat : Option(n) \in [is : {"number", "option", "null", "undefined"}, n : Nat]
  BY DEF Option
<1>3. Null \in [is : {"number", "option", "null", "undefined"}, n : Nat]
  BY DEF Null
<1>4. UNCHANGED <<scene, db, inbox, excuse, crossed>>
  BY DEF ScimServer, OnlyPages
<1>5. \/ Drafts(a, [d EXCEPT !.scim = ~@])
      \/ \E u \in {"", "url"} : Drafts(a, [d EXCEPT !.url = u])
      \/ Drafts(a, [d EXCEPT !.sweep = ~@, !.rate = IF d.sweep THEN Null ELSE Option(1)])
      \/ \E n \in {1, 4} : Drafts(a, [d EXCEPT !.rate = Option(n)])
  BY DEF ScimServer
<1>0. page[a].dialog = "none"
  BY DEF ScimServer, Edits, Free
<1> DEFINE Draft(e) == IsService(e) /\ e.mail = d.mail /\ e.policy = d.policy
<1> HIDE DEF d
<1>6. Draft([d EXCEPT !.scim = ~@])
  <2> DEFINE b == ~d.scim
  <2>1. b \in BOOLEAN
    BY <1>1, ServiceFields
  <2> HIDE DEF b
  <2>2. Draft([d EXCEPT !.scim = b])
    BY <1>1, <2>1 DEF IsService, ServiceOf
  <2>3. [d EXCEPT !.scim = ~@] = [d EXCEPT !.scim = b]
    BY <1>1 DEF IsService, ServiceOf, b
  <2> QED BY <2>2, <2>3
<1>7. \A u \in {"", "url"} : Draft([d EXCEPT !.url = u])
  BY <1>1 DEF IsService, ServiceOf
<1>8. Draft([d EXCEPT !.sweep = ~@, !.rate = IF d.sweep THEN Null ELSE Option(1)])
  <2> DEFINE b == ~d.sweep
             r == IF d.sweep THEN Null ELSE Option(1)
  <2>1. b \in BOOLEAN /\ r \in [is : {"number", "option", "null", "undefined"}, n : Nat]
    BY <1>1, <1>2, <1>3, ServiceFields
  <2>2. [d EXCEPT !.sweep = ~@, !.rate = r] = [d EXCEPT !.sweep = b, !.rate = r]
    BY <1>1 DEF IsService, ServiceOf
  <2> HIDE DEF b, r
  <2>3. Draft([d EXCEPT !.sweep = b, !.rate = r])
    BY <1>1, <2>1 DEF IsService, ServiceOf
  <2> QED BY <2>2, <2>3 DEF r
<1>9. \A n \in {1, 4} : Draft([d EXCEPT !.rate = Option(n)])
  <2> SUFFICES ASSUME NEW n \in {1, 4}  PROVE Draft([d EXCEPT !.rate = Option(n)])
    OBVIOUS
  <2> DEFINE r == Option(n)
  <2>1. r \in [is : {"number", "option", "null", "undefined"}, n : Nat]
    BY <1>2
  <2> HIDE DEF r
  <2>2. Draft([d EXCEPT !.rate = r])
    BY <1>1, <2>1 DEF IsService, ServiceOf
  <2> QED BY <2>2 DEF r
<1>10. \E e : Draft(e) /\ Drafts(a, e)
  <2> HIDE DEF Draft
  <2> QED BY <1>5, <1>6, <1>7, <1>8, <1>9
<1> QED BY <1>0, <1>4, <1>10, DraftsTurn DEF d

LEMMA NetTurns ==
  ASSUME TypeInv, NEW a \in Admins, AddNetwork(a) \/ TypeNetwork(a) \/ DeleteNetwork(a)
  PROVE  Turned(a)
<1> DEFINE p == page[a]
           d == p.draft
<1>1. IsPage(p) /\ IsService(d)
  BY PagesAre
<1>2. UNCHANGED <<scene, db, inbox, excuse, crossed>>
  BY DEF AddNetwork, TypeNetwork, DeleteNetwork, OnlyPages
<1>3. CASE AddNetwork(a)
  <2> DEFINE rows == Append(d.nets, Row(""))
             e == [d EXCEPT !.nets = rows]
  <2>1. Drafts(a, e)
    <3>1. [d EXCEPT !.nets = Append(@, Row(""))] = e
      <4> HIDE DEF d
      <4> QED BY <1>1 DEF IsService, ServiceOf
    <3> QED BY <1>3, <3>1 DEF AddNetwork
  <2> HIDE DEF rows, d
  <2>2. IsService(e) /\ e.mail = d.mail /\ e.policy = d.policy
    BY <1>1, RowsAreFree
  <2>3. page[a].dialog = "none"
    BY <1>3 DEF AddNetwork, Edits, Free
  <2> HIDE DEF e
  <2> QED BY <1>2, <2>1, <2>2, <2>3, DraftsTurn DEF d
<1>4. CASE DeleteNetwork(a)
  <2>1. PICK i \in DOMAIN d.nets : Drafts(a, [d EXCEPT !.nets = Without(@, i)])
    BY <1>4 DEF DeleteNetwork
  <2> DEFINE rows == Without(d.nets, i)
             e == [d EXCEPT !.nets = rows]
  <2>2. Drafts(a, e)
    <3>1. [d EXCEPT !.nets = Without(@, i)] = e
      <4> HIDE DEF d
      <4> QED BY <1>1 DEF IsService, ServiceOf
    <3> QED BY <2>1, <3>1
  <2> HIDE DEF rows, d
  <2>3. IsService(e) /\ e.mail = d.mail /\ e.policy = d.policy
    BY <1>1, RowsAreFree
  <2>4. page[a].dialog = "none"
    BY <1>4 DEF DeleteNetwork, Edits, Free
  <2> HIDE DEF e
  <2> QED BY <1>2, <2>2, <2>3, <2>4, DraftsTurn DEF d
<1>5. CASE TypeNetwork(a)
  <2>1. PICK i \in DOMAIN d.nets, v \in {"", "n1", "n2", "bad"} :
          /\ Shows(a, [page[a] EXCEPT !.draft.nets[i].value = v, !.checking = TRUE,
                        !.emptied = @ \/ v = ""])
          /\ IF v = "" THEN UNCHANGED net
             ELSE Sends(Answered([Call(a, "network") EXCEPT !.row = i, !.value = v]))
    BY <1>5 DEF TypeNetwork
  <2> DEFINE rows == [d.nets EXCEPT ![i].value = v]
             e == [d EXCEPT !.nets = rows]
             b == p.emptied \/ v = ""
             q == [p EXCEPT !.draft = e, !.checking = TRUE, !.emptied = b]
  <2>2. [page[a] EXCEPT !.draft.nets[i].value = v, !.checking = TRUE, !.emptied = @ \/ v = ""] = q
    <3> HIDE DEF p
    <3> QED BY <1>1 DEF IsPage, PageOf, IsService, ServiceOf, p
  <2>3. b \in BOOLEAN
    BY <1>1, PageFields
  <2>4. IsService(e) /\ e.mail = d.mail /\ e.policy = d.policy
    <3> HIDE DEF rows, d
    <3> QED BY <1>1, RowsAreFree
  <2>5. Shows(a, q)
    BY <2>1, <2>2
  <2>6. net' = net \/ \E c : Asked(a, c) /\ net' = net \union {c}
    BY <2>1, NetworkAsked DEF Sends
  <2>8. ~b => Checks(a, net')
    <3> SUFFICES ASSUME ~b  PROVE Checks(a, net')
      OBVIOUS
    <3> DEFINE c == Answered([Call(a, "network") EXCEPT !.row = i, !.value = v])
    <3>3. Asked(a, c) /\ c.op = "network"
      BY NetworkAsked
    <3>2. c \in net'
      BY <2>1 DEF Sends
    <3> HIDE DEF c
    <3>1. c.by = a /\ c.op = "network"
      BY <3>3 DEF Asked
    <3> QED BY <3>1, <3>2 DEF Checks
  <2>9. p.dialog = "none"
    BY <1>5 DEF TypeNetwork, Edits, Free
  <2> HIDE DEF b, e
  <2>7. Keeps(a, q)
    <3> HIDE DEF p
    <3>1. IsPage(q)
      BY <1>1, <2>3, <2>4 DEF IsPage, PageOf
    <3>2. /\ q.shown = p.shown /\ q.subscribed = p.subscribed /\ q.at = p.at /\ q.busy = p.busy
          /\ q.unhandled = p.unhandled /\ q.draft = e /\ q.invalid = p.invalid /\ q.dialog = p.dialog
          /\ q.emptied = b
      BY <1>1 DEF IsPage, PageOf
    <3> HIDE DEF q
    <3>3. MarkedMail(p, q) /\ MarkedPolicy(p, q) /\ MarkedAddress(p, q)
      BY <2>4, <2>9, <3>2 DEF MarkedMail, MarkedPolicy, MarkedAddress
    <3>4. MarkedCheck(a, p, q, net')
      BY <2>8, <3>2 DEF MarkedCheck
    <3> QED BY <3>1, <3>2, <3>3, <3>4 DEF Keeps, Waiting, Marked, p
  <2> HIDE DEF q
  <2> QED BY <1>2, <2>5, <2>6, <2>7, ShowsTurns
<1> QED BY <1>3, <1>4, <1>5

(* A draft that is saved.                                                  *)
LEMMA SubmitTurns ==
  ASSUME TypeInv, NEW a \in Admins, NEW p, IsPage(p), p.shown = page[a].shown,
         p.subscribed = page[a].subscribed, p.at = page[a].at, NEW warned \in BOOLEAN,
         warned \/ Disabled(p.draft) = {}, Submits(a, p, warned), SameMarks(page[a], p),
         Saves(page[a], p.draft), p.draft = page[a].draft,
         UNCHANGED <<scene, db, inbox, excuse, crossed>>
  PROVE  Turned(a)
<1> DEFINE s == Stripped(p.draft)
           q == [p EXCEPT !.draft = s, !.busy = TRUE, !.unhandled = FALSE, !.initial = FALSE]
           c == [Call(a, "update") EXCEPT !.service = s, !.warned = warned]
<1>1. /\ IsService(s) /\ (warned \/ Disabled(s) = {})
      /\ s.mail = p.draft.mail /\ s.policy = p.draft.policy /\ Address(s) = Address(p.draft)
  BY StrippedType DEF IsPage
<1>0. Saves(page[a], s)
  <2> HIDE DEF s
  <2> QED BY <1>1 DEF Saves
<1>2. [p EXCEPT !.draft = Stripped(@), !.busy = TRUE, !.unhandled = FALSE, !.initial = FALSE] = q
  BY DEF IsPage, PageOf
<1>3. q.draft = s
  BY DEF IsPage, PageOf
<1>4. page' = [page EXCEPT ![a] = q] /\ net' = net \union {c}
  BY <1>2, <1>3 DEF Submits, Sends
<1> HIDE DEF s
<1>5. Asked(a, c)
  BY <1>0, <1>1, UpdateAsked
<1>6. c.op = "update" /\ c.by = a
  <2>1. "update" \in CallOps
    BY DEF CallOps
  <2> DEFINE d == Call(a, "update")
  <2>2. d.by = a /\ d.op = "update" /\ IsCall(d)
    BY <2>1, CallType
  <2> HIDE DEF d
  <2>3. [d EXCEPT !.service = s, !.warned = warned].op = "update"
        /\ [d EXCEPT !.service = s, !.warned = warned].by = a
    BY <2>2 DEF IsCall, CallOf
  <2> QED BY <2>3 DEF d
<1> HIDE DEF c
<1>7. /\ IsPage(q) /\ q.shown = p.shown /\ q.subscribed = p.subscribed /\ q.at = p.at
      /\ q.draft = s /\ q.invalid = p.invalid /\ q.dialog = p.dialog /\ q.checking = p.checking
      /\ q.emptied = p.emptied
  BY <1>1 DEF IsPage, PageOf
<1> HIDE DEF q
<1>9. Marked(a, q)
  BY <1>1, <1>7 DEF SameMarks, Marked, MarkedMail, MarkedPolicy, MarkedAddress, MarkedCheck
<1>8. Turn(a, q)
  BY <1>4, <1>6, <1>7, <1>9 DEF Turn, Spinning
<1> QED BY <1>4, <1>5, <1>8 DEF Turned

LEMMA UpdateTurns ==
  ASSUME TypeInv, NEW a \in Admins, Update(a)
  PROVE  Turned(a)
<1> DEFINE o == page[a]
           m == o.n + 1
           p == [o EXCEPT !.initial = FALSE, !.n = m]
           q == [p EXCEPT !.dialog = "disable"]
<1>1. IsPage(o) /\ o.n \in Nat
  BY PagesAre, PageFields
<1>2. UNCHANGED <<scene, db, inbox, excuse, crossed>>
  BY DEF Update, OnlyPages
<1>3. [page[a] EXCEPT !.initial = FALSE, !.n = @ + 1] = p
  <2> HIDE DEF o
  <2> QED BY <1>1 DEF IsPage, PageOf, o
<1>4. \/ Submits(a, p, FALSE) /\ Disabled(p.draft) = {} /\ Valid(p)
      \/ page' = [page EXCEPT ![a] = q] /\ net' = net /\ Valid(p)
      \/ page' = [page EXCEPT ![a] = p] /\ net' = net
  BY <1>3 DEF Update
<1>8. o.dialog = "none"
  BY DEF Update, Edits, Free
<1>5. m \in Nat
  BY <1>1
<1> HIDE DEF m
<1>9. /\ p.draft = o.draft /\ SameMarks(o, p) /\ p.invalid = o.invalid /\ p.initial = FALSE
      /\ q.draft = o.draft /\ q.invalid = o.invalid /\ q.checking = o.checking /\ q.emptied = o.emptied
  <2> HIDE DEF o
  <2> QED BY <1>1, <1>8 DEF IsPage, PageOf, SameMarks
<1>10. Valid(p) => Saves(o, o.draft)
  <2> HIDE DEF o, p
  <2> QED BY <1>9 DEF Valid, Saves
<1>11. Marked(a, p)
  <2> HIDE DEF p
  <2> QED BY <1>9, SameMarked
<1>12. Valid(p) => Marked(a, q)
  <2>1. Valid(p) => ~NoAddress(o.draft)
    <3> HIDE DEF o, p
    <3> QED BY <1>9 DEF Valid
  <2> HIDE DEF p, q
  <2> QED BY <1>9, <2>1 DEF Marked, MarkedMail, MarkedPolicy, MarkedAddress, MarkedCheck
<1>6. Keeps(a, p) /\ (Valid(p) => Keeps(a, q))
  <2> HIDE DEF o
  <2>1. IsPage(p) /\ IsPage(q)
    BY <1>1, <1>5 DEF IsPage, PageOf
  <2>2. /\ p.shown = o.shown /\ p.subscribed = o.subscribed /\ p.at = o.at /\ p.busy = o.busy
        /\ p.unhandled = o.unhandled
        /\ q.shown = o.shown /\ q.subscribed = o.subscribed /\ q.at = o.at /\ q.busy = o.busy
        /\ q.unhandled = o.unhandled
    BY <1>1 DEF IsPage, PageOf
  <2> HIDE DEF p, q
  <2> QED BY <1>11, <1>12, <2>1, <2>2 DEF Keeps, Waiting, o
<1> HIDE DEF p, q
<1>7. CASE Submits(a, p, FALSE) /\ Disabled(p.draft) = {} /\ Valid(p)
  <2> DEFINE w == FALSE
  <2>1. w \in BOOLEAN /\ Submits(a, p, w)
    BY <1>7
  <2> HIDE DEF w
  <2> QED BY <1>2, <1>6, <1>7, <1>9, <1>10, <2>1, SubmitTurns DEF Keeps
<1> QED BY <1>2, <1>4, <1>6, <1>7, PutTurns

LEMMA ConfirmTurns ==
  ASSUME TypeInv, NEW a \in Admins, ConfirmDisable(a)
  PROVE  Turned(a)
<1> DEFINE o == page[a]
           m == o.n + 1
           p == [o EXCEPT !.n = m]
           w == TRUE
<1>1. IsPage(o) /\ o.n \in Nat
  BY PagesAre, PageFields
<1>2. UNCHANGED <<scene, db, inbox, excuse, crossed>>
  BY DEF ConfirmDisable, OnlyPages
<1>3. Submits(a, p, w) /\ w \in BOOLEAN /\ w
  BY DEF ConfirmDisable
<1>4. m \in Nat
  BY <1>1
<1> HIDE DEF m, w
<1>5. /\ IsPage(p) /\ p.shown = o.shown /\ p.subscribed = o.subscribed /\ p.at = o.at
      /\ SameMarks(o, p) /\ p.draft = o.draft
  <2> HIDE DEF o
  <2> QED BY <1>1, <1>4 DEF IsPage, PageOf, SameMarks
<1>6. Saves(o, p.draft)
  <2>1. Valid(o) /\ o.dialog = "disable"
    BY DEF ConfirmDisable
  <2> HIDE DEF o, p
  <2> QED BY <1>5, <2>1 DEF Valid, Saves
<1> HIDE DEF p
<1> QED BY <1>2, <1>3, <1>5, <1>6, SubmitTurns

(* Fields of a page that none of the properties is about.                  *)
LEMMA OthersKept ==
  ASSUME TypeInv, NEW a \in Admins,
         NEW dialog \in {"none", "deleteToken", "ldap", "aups", "delete", "password"},
         NEW n \in Nat, NEW form \in Kinds \union {"none"}, NEW text \in Texts, NEW initial \in BOOLEAN
  PROVE  /\ Keeps(a, [page[a] EXCEPT !.dialog = dialog, !.password = n])
         /\ Keeps(a, [page[a] EXCEPT !.dialog = dialog, !.about = n])
         /\ Keeps(a, [page[a] EXCEPT !.form = form])
         /\ Keeps(a, [page[a] EXCEPT !.form = form, !.initial = initial])
         /\ Keeps(a, [page[a] EXCEPT !.initial = initial])
         /\ Keeps(a, [page[a] EXCEPT !.text = text])
         /\ Keeps(a, page[a])
<1> DEFINE p == page[a]
           p1 == [p EXCEPT !.dialog = dialog, !.password = n]
           p2 == [p EXCEPT !.dialog = dialog, !.about = n]
           p3 == [p EXCEPT !.form = form]
           p4 == [p EXCEPT !.form = form, !.initial = initial]
           p5 == [p EXCEPT !.initial = initial]
           p6 == [p EXCEPT !.text = text]
           Same(q) == /\ IsPage(q) /\ q.shown = p.shown /\ q.subscribed = p.subscribed /\ q.at = p.at
                      /\ q.busy = p.busy /\ q.unhandled = p.unhandled /\ SameMarks(p, q)
<1>0. IsPage(p)
  BY PagesAre
<1>1. ASSUME NEW q, Same(q)  PROVE Keeps(a, q)
  BY <1>1, SameMarked DEF Keeps, Waiting
<1> HIDE DEF p
<1>2. Same(p1)
  BY <1>0 DEF IsPage, PageOf, SameMarks
<1>3. Same(p2)
  BY <1>0 DEF IsPage, PageOf, SameMarks
<1>4. Same(p3)
  BY <1>0 DEF IsPage, PageOf, SameMarks
<1>5. Same(p4)
  BY <1>0 DEF IsPage, PageOf, SameMarks
<1>6. Same(p5)
  BY <1>0 DEF IsPage, PageOf, SameMarks
<1>7. Same(p6)
  BY <1>0 DEF IsPage, PageOf, SameMarks
<1>8. Same(p)
  BY <1>0 DEF SameMarks
<1> HIDE DEF Same
<1> QED BY <1>1, <1>2, <1>3, <1>4, <1>5, <1>6, <1>7, <1>8 DEF p

LEMMA CancelTurns ==
  ASSUME TypeInv, NEW a \in Admins, CancelDialog(a)
  PROVE  Turned(a)
<1> DEFINE o == page[a]
           n == IF o.dialog \in {"password", "aups", "ldap"} THEN 0 ELSE o.password
           none == "none"
           q == [o EXCEPT !.dialog = none, !.password = n]
<1>1. IsPage(o) /\ n \in Nat
  BY PagesAre, PageFields
<1>2. UNCHANGED <<scene, db, inbox, excuse, crossed>> /\ net' = net
  BY DEF CancelDialog, OnlyPages
<1>3. page' = [page EXCEPT ![a] = q]
  <2>1. page = [b \in Admins |-> page[b]]
    BY DEF TypeInv, ArePages
  <2>2. page' = [page EXCEPT ![a].dialog = "none",
                ![a].password = IF page[a].dialog \in {"password", "aups", "ldap"} THEN 0 ELSE @]
    BY DEF CancelDialog
  <2> QED BY <1>1, <2>1, <2>2 DEF IsPage, PageOf
<1>4. none \in {"none", "deleteToken", "ldap", "aups", "delete", "password"}
  OBVIOUS
<1> HIDE DEF n, none
<1>5. Keeps(a, q)
  <2>1. \E f : f \in Kinds \union {"none"}
    OBVIOUS
  <2>2. "" \in Texts /\ FALSE \in BOOLEAN
    BY DEF Texts
  <2> QED BY <1>1, <1>4, <2>1, <2>2, OthersKept
<1> HIDE DEF q
<1> QED BY <1>2, <1>3, <1>5, PutTurns

LEMMA FormTurns ==
  ASSUME TypeInv, NEW a \in Admins,
         NewToken(a) \/ Describe(a) \/ SaveToken(a) \/ CancelForm(a) \/ ChangeTab(a)
  PROVE  Turned(a)
<1> DEFINE p == page[a]
           none == "none"
           typed == "typed"
           yes == TRUE
           no == FALSE
           zero == 0
<1>0. /\ none \in Kinds \union {"none"} /\ typed \in Texts /\ yes \in BOOLEAN /\ no \in BOOLEAN
      /\ zero \in Nat
      /\ none \in {"none", "deleteToken", "ldap", "aups", "delete", "password"}
  BY DEF Texts
<1>1. IsPage(p) /\ IsService(p.draft) /\ p.form \in Kinds \union {"none"} /\ p.text \in Texts
  BY PagesAre, PageFields
<1>2. UNCHANGED <<scene, db, inbox, excuse, crossed>>
  BY DEF NewToken, Describe, SaveToken, CancelForm, ChangeTab, OnlyPages
<1>3. CASE NewToken(a)
  <2>1. PICK k \in p.draft.on : Shows(a, p) /\ Sends(Answered([Call(a, "tokenValue") EXCEPT !.kind = k]))
    BY <1>3 DEF NewToken
  <2>2. k \in Kinds
    BY <1>1, <2>1, ServiceFields
  <2>3. \E c : Asked(a, c) /\ net' = net \union {c}
    BY <2>1, <2>2, TokenValueAsked DEF Sends
  <2>4. Keeps(a, p)
    BY <1>0, OthersKept
  <2> QED BY <1>2, <2>1, <2>3, <2>4, ShowsTurns
<1>4. CASE Describe(a)
  <2> DEFINE q == [p EXCEPT !.text = typed]
  <2>1. page' = [page EXCEPT ![a] = q] /\ net' = net
    <3>1. page = [b \in Admins |-> page[b]]
      BY DEF TypeInv, ArePages
    <3> QED BY <1>1, <1>4, <3>1 DEF Describe, IsPage, PageOf
  <2> HIDE DEF typed, none, yes, zero
  <2>2. Keeps(a, q)
    BY <1>0, OthersKept
  <2> HIDE DEF q
  <2> QED BY <1>2, <2>1, <2>2, PutTurns
<1>5. CASE SaveToken(a)
  <2>1. CASE p.text = ""
    <3> DEFINE q == [p EXCEPT !.initial = no]
    <3>1. Shows(a, q) /\ net' = net
      BY <1>5, <2>1 DEF SaveToken
    <3> HIDE DEF typed, none, yes, zero, no
    <3>2. Keeps(a, q)
      BY <1>0, OthersKept
    <3> HIDE DEF q
    <3> QED BY <1>2, <3>1, <3>2, ShowsTurns
  <2>2. CASE p.text # ""
    <3>1. Shows(a, p) /\ Sends([Call(a, "token") EXCEPT !.kind = p.form, !.text = p.text])
      BY <1>5, <2>2 DEF SaveToken
    <3>2. \E c : Asked(a, c) /\ net' = net \union {c}
      <4> DEFINE form == p.form
                 text == p.text
      <4> HIDE DEF form, text
      <4>1. form \in Kinds /\ text \in Texts
        BY <1>1, <1>5 DEF SaveToken, form, text
      <4>2. Asked(a, [Call(a, "token") EXCEPT !.kind = form, !.text = text])
        BY <4>1, TokenAsked
      <4>3. net' = net \union {[Call(a, "token") EXCEPT !.kind = form, !.text = text]}
        BY <3>1 DEF Sends, form, text
      <4> DEFINE c == [Call(a, "token") EXCEPT !.kind = form, !.text = text]
      <4> HIDE DEF c
      <4>4. Asked(a, c) /\ net' = net \union {c}
        BY <4>2, <4>3 DEF c
      <4> QED BY <4>4
    <3>3. Keeps(a, p)
      BY <1>0, OthersKept
    <3> QED BY <1>2, <3>1, <3>2, <3>3, ShowsTurns
  <2> QED BY <2>1, <2>2
<1>6. CASE CancelForm(a)
  <2> DEFINE q == [p EXCEPT !.form = none, !.initial = yes]
  <2>1. Shows(a, q) /\ net' = net
    BY <1>6 DEF CancelForm
  <2> HIDE DEF typed, none, yes, zero
  <2>2. Keeps(a, q)
    BY <1>0, OthersKept
  <2> HIDE DEF q
  <2> QED BY <1>2, <2>1, <2>2, ShowsTurns
<1>7. CASE ChangeTab(a)
  <2> DEFINE q == [p EXCEPT !.form = none]
  <2>1. Shows(a, q) /\ net' = net
    BY <1>7 DEF ChangeTab
  <2> HIDE DEF typed, none, yes, zero
  <2>2. Keeps(a, q)
    BY <1>0, OthersKept
  <2> HIDE DEF q
  <2> QED BY <1>2, <2>1, <2>2, ShowsTurns
<1> QED BY <1>3, <1>4, <1>5, <1>6, <1>7

LEMMA AsksTurns ==
  ASSUME TypeInv, NEW a \in Admins, RemoveToken(a) \/ LdapReset(a) \/ ResetAups(a) \/ Delete(a)
  PROVE  Turned(a)
<1> DEFINE dialogs == {"none", "deleteToken", "ldap", "aups", "delete", "password"}
<1>1. IsService(page[a].draft)
  BY PagesAre
<1>2. \E dialog \in dialogs, n \in Nat : Asks(a, dialog, n)
  <2>1. CASE RemoveToken(a)
    <3>1. PICK t \in page[a].draft.tokens : Asks(a, "deleteToken", t.n)
      BY <2>1 DEF RemoveToken
    <3>2. t \in [n : Nat, kind : Kinds]
      BY <1>1, <3>1, ServiceFields
    <3>3. t.n \in Nat
      BY <3>2
    <3> DEFINE d == "deleteToken"
    <3>4. d \in dialogs /\ Asks(a, d, t.n)
      BY <3>1
    <3> HIDE DEF d, dialogs
    <3> QED BY <3>3, <3>4
  <2>2. CASE LdapReset(a) \/ ResetAups(a) \/ Delete(a)
    <3>1. \E dialog \in dialogs : Asks(a, dialog, 0)
      BY <2>2 DEF LdapReset, ResetAups, Delete
    <3> QED BY <3>1
  <2> QED BY <2>1, <2>2
<1>3. PICK dialog \in dialogs, n \in Nat : Asks(a, dialog, n)
  BY <1>2
<1> DEFINE q == [page[a] EXCEPT !.dialog = dialog, !.about = n]
<1>4. Shows(a, q) /\ net' = net /\ UNCHANGED <<scene, db, inbox, excuse, crossed>>
  BY <1>3 DEF Asks, OnlyPages
<1>5. Keeps(a, q)
  <2>1. \E f : f \in Kinds \union {"none"}
    OBVIOUS
  <2>2. "" \in Texts /\ FALSE \in BOOLEAN
    BY DEF Texts
  <2> QED BY <2>1, <2>2, OthersKept
<1> HIDE DEF q
<1> QED BY <1>4, <1>5, ShowsTurns

LEMMA ConfirmsTurns ==
  ASSUME TypeInv, NEW a \in Admins, NEW op \in CallOps, op \notin {"update", "token"}, NEW p, Confirms(a, op, p),
         IsPage(p), p.shown = page[a].shown, p.subscribed = page[a].subscribed, p.at = page[a].at,
         Waiting(p) => op \in Spinning \/ Waiting(page[a]), SameMarks(page[a], p)
  PROVE  Turned(a)
<1> DEFINE n == page[a].about
           c == [Call(a, op) EXCEPT !.token = n]
           m == p.n + 1
           q == [p EXCEPT !.n = m]
<1>1. n \in Nat
  BY PagesAre, PageFields
<1>2. /\ page' = [page EXCEPT ![a] = q] /\ net' = net \union {c}
      /\ UNCHANGED <<scene, db, inbox, excuse, crossed>>
  <2>1. [p EXCEPT !.n = @ + 1] = q
    BY DEF IsPage, PageOf
  <2> QED BY <2>1 DEF Confirms, Shows, Sends, OnlyPages
<1>3. m \in Nat
  BY PageFields
<1> HIDE DEF n, m
<1>4. Asked(a, c)
  BY <1>1, NumberAsked
<1>5. c.by = a /\ c.op = op
  <2> DEFINE d == Call(a, op)
  <2>1. d.by = a /\ d.op = op /\ IsCall(d)
    BY CallType
  <2> HIDE DEF d
  <2>2. [d EXCEPT !.token = n].op = op /\ [d EXCEPT !.token = n].by = a
    BY <2>1 DEF IsCall, CallOf
  <2> QED BY <2>2 DEF d
<1> HIDE DEF c
<1>6. /\ IsPage(q) /\ q.shown = p.shown /\ q.subscribed = p.subscribed /\ q.at = p.at
      /\ q.busy = p.busy /\ q.unhandled = p.unhandled
      /\ q.draft = p.draft /\ q.invalid = p.invalid /\ q.dialog = p.dialog /\ q.checking = p.checking
      /\ q.emptied = p.emptied
  BY <1>3 DEF IsPage, PageOf
<1> HIDE DEF q
<1>8. Marked(a, q)
  BY <1>6, SameMarked, CountedMarks
<1>7. Turn(a, q)
  BY <1>2, <1>5, <1>6, <1>8 DEF Turn, Waiting
<1> QED BY <1>2, <1>4, <1>7 DEF Turned

LEMMA DoesTurn ==
  ASSUME TypeInv, NEW a \in Admins,
         DoDeleteToken(a) \/ DoResetAups(a) \/ DoDelete(a) \/ DoLdapReset(a)
  PROVE  Turned(a)
<1> DEFINE o == page[a]
           w == [o EXCEPT !.busy = TRUE, !.unhandled = FALSE]
           v == [w EXCEPT !.dialog = "none"]
<1>1. IsPage(o)
  BY PagesAre
<1>2. \/ \E op \in {"deleteToken", "delete"} : Confirms(a, op, w)
      \/ \E op \in {"aups"} : Confirms(a, op, v)
      \/ \E op \in {"ldap"} : Confirms(a, op, o)
  BY DEF DoDeleteToken, DoResetAups, DoDelete, DoLdapReset, Waits
<1>3. /\ \A p \in {w, v} : /\ IsPage(p) /\ p.shown = o.shown /\ p.subscribed = o.subscribed
                          /\ p.at = o.at /\ SameMarks(o, p)
      /\ SameMarks(o, o)
  <2> HIDE DEF o
  <2>1. IsPage(w) /\ w.shown = o.shown /\ w.subscribed = o.subscribed /\ w.at = o.at /\ SameMarks(o, w)
    BY <1>1 DEF IsPage, PageOf, SameMarks
  <2>2. IsPage(v) /\ v.shown = o.shown /\ v.subscribed = o.subscribed /\ v.at = o.at /\ SameMarks(o, v)
    BY <1>1 DEF IsPage, PageOf, SameMarks
  <2>3. SameMarks(o, o)
    BY DEF SameMarks
  <2> QED BY <2>1, <2>2, <2>3
<1> HIDE DEF w, v
<1>4. CASE \E op \in {"deleteToken", "delete"} : Confirms(a, op, w)
  <2>1. PICK op \in {"deleteToken", "delete"} : Confirms(a, op, w)
    BY <1>4
  <2>2. op \in CallOps /\ op \notin {"update", "token"} /\ op \in Spinning
    BY DEF CallOps, Spinning
  <2> QED BY <1>3, <2>1, <2>2, ConfirmsTurns
<1>5. CASE \E op \in {"aups"} : Confirms(a, op, v)
  <2>1. PICK op \in {"aups"} : Confirms(a, op, v)
    BY <1>5
  <2>2. op \in CallOps /\ op \notin {"update", "token"} /\ op \in Spinning
    BY DEF CallOps, Spinning
  <2> QED BY <1>3, <2>1, <2>2, ConfirmsTurns
<1>6. CASE \E op \in {"ldap"} : Confirms(a, op, o)
  <2>1. PICK op \in {"ldap"} : Confirms(a, op, o)
    BY <1>6
  <2>2. op \in CallOps /\ op \notin {"update", "token"}
    BY DEF CallOps
  <2> QED BY <1>1, <1>3, <2>1, <2>2, ConfirmsTurns
<1> QED BY <1>2, <1>4, <1>5, <1>6

LEMMA UserTurns ==
  ASSUME TypeInv, NEW a \in Admins, User(a)
  PROVE  Turned(a)
<1>1. CASE page[a].dialog = "none" /\ \E key \in Keys : EditsKey(a, key)
  BY <1>1, KeyTurns
<1>2. CASE page[a].dialog = "none" /\ \E field \in {"mail", "policy"} : EditsText(a, field)
  BY <1>2, TextTurns
<1>3. CASE page[a].dialog = "none" /\ \E k \in Kinds : Flips(a, k)
  BY <1>3, FlipTurns
<1>4. CASE EditName(a) \/ EditAbbreviation(a)
  BY <1>1, <1>4 DEF EditName, EditAbbreviation, Keys, Edits, Free
<1>5. CASE EditMail(a) \/ EditPolicy(a)
  BY <1>2, <1>5 DEF EditMail, EditPolicy, Edits, Free
<1>6. CASE FlipPam(a) \/ FlipIntrospection(a) \/ FlipScimClient(a)
  BY <1>3, <1>6 DEF FlipPam, FlipIntrospection, FlipScimClient, Edits, Free
<1>7. CASE AddNetwork(a) \/ TypeNetwork(a) \/ DeleteNetwork(a)
  BY <1>7, NetTurns
<1>8. CASE NewToken(a) \/ Describe(a) \/ SaveToken(a) \/ CancelForm(a) \/ ChangeTab(a)
  BY <1>8, FormTurns
<1>9. CASE RemoveToken(a) \/ LdapReset(a) \/ ResetAups(a) \/ Delete(a)
  BY <1>9, AsksTurns
<1>10. CASE DoDeleteToken(a) \/ DoResetAups(a) \/ DoDelete(a) \/ DoLdapReset(a)
  BY <1>10, DoesTurn
<1>11. CASE Open(a)
  BY <1>11, OpenTurns
<1>12. CASE ScimServer(a)
  BY <1>12, ScimTurns
<1>13. CASE Update(a)
  BY <1>13, UpdateTurns
<1>14. CASE ConfirmDisable(a)
  BY <1>14, ConfirmTurns
<1>15. CASE CancelDialog(a)
  BY <1>15, CancelTurns
<1> QED BY <1>4, <1>5, <1>6, <1>7, <1>8, <1>9, <1>10, <1>11, <1>12, <1>13, <1>14, <1>15 DEF User

-------------------------------------------------------------------------------
(* What a handler does: it answers a call of the page that made it.        *)
LEMMA DoneType ==
  ASSUME NEW c, IsCall(c), NEW status \in Statuses
  PROVE  /\ IsCall(Done(c, status)) /\ Done(c, status).by = c.by /\ Done(c, status).op = c.op
         /\ Done(c, status).status = status /\ Done(c, status).kind = c.kind
<1> DEFINE f == Fresh
           d == [c EXCEPT !.status = status, !.service = f, !.seen = f]
<1>1. IsService(f)
  BY FreshType
<1>2. Done(c, status) = d
  BY DEF Done
<1> HIDE DEF f
<1>3. IsCall(d) /\ d.by = c.by /\ d.op = c.op /\ d.status = status /\ d.kind = c.kind
  BY <1>1 DEF IsCall, CallOf
<1> HIDE DEF d
<1> QED BY <1>2, <1>3

LEMMA AllowedType ==
  ASSUME NEW c, IsCall(c)
  PROVE  /\ IsService(Allowed(c)) /\ Allowed(c).on = c.service.on
         /\ Allowed(c).mail = c.service.mail /\ Allowed(c).policy = c.service.policy
         /\ Address(Allowed(c)) \in {Address(c.service), Address(c.seen)}
         /\ \A i \in DOMAIN Allowed(c).nets : ~Allowed(c).nets[i].error
<1> DEFINE o == c.service
           e == c.seen
           r == IF o.rate = Undefined THEN e.rate ELSE o.rate
           rows == [i \in DOMAIN o.nets |-> Row(o.nets[i].value)]
           s == [o EXCEPT !.rate = r, !.nets = rows]
           v == [s EXCEPT !.abbreviation = e.abbreviation, !.scim = e.scim, !.url = e.url]
<1>1. IsService(o) /\ IsService(e)
  BY CallFields
<1>2. Allowed(c) = IF scene.role[c.by] # "service" THEN s ELSE v
  <2>1. [c.service EXCEPT !.rate = IF @ = Undefined THEN c.seen.rate ELSE @,
                          !.nets = [i \in DOMAIN @ |-> Row(@[i].value)]] = s
    <3> HIDE DEF o, e
    <3>1. [o EXCEPT !.rate = IF @ = Undefined THEN e.rate ELSE @,
                    !.nets = [i \in DOMAIN @ |-> Row(@[i].value)]] = s
      BY <1>1 DEF IsService, ServiceOf
    <3> QED BY <3>1 DEF o, e
  <2> HIDE DEF s
  <2> QED BY <2>1 DEF Allowed
<1>3. r \in [is : {"number", "option", "null", "undefined"}, n : Nat]
  <2> HIDE DEF o, e
  <2> QED BY <1>1, ServiceFields
<1>6. \A i \in DOMAIN rows : ~rows[i].error
  BY DEF Row
<1> HIDE DEF o, e, r, rows
<1>4. /\ IsService(s) /\ s.on = o.on /\ s.mail = o.mail /\ s.policy = o.policy
      /\ s.scim = o.scim /\ s.url = o.url /\ s.nets = rows
  BY <1>1, <1>3 DEF IsService, ServiceOf
<1> HIDE DEF s
<1>5. /\ IsService(v) /\ v.on = s.on /\ v.mail = s.mail /\ v.policy = s.policy
      /\ v.scim = e.scim /\ v.url = e.url /\ v.nets = s.nets
  BY <1>1, <1>4 DEF IsService, ServiceOf
<1> HIDE DEF v
<1>7. Address(s) = Address(o) /\ Address(v) = Address(e)
  BY <1>4, <1>5 DEF Address
<1> QED BY <1>2, <1>4, <1>5, <1>6, <1>7 DEF o, e

LEMMA WrittenType ==
  ASSUME TypeInv, NEW c, IsCall(c)
  PROVE  /\ IsService(Written(c)) /\ Written(c).n = db.service.n + 1
         /\ Written(c).tokens = {t \in db.service.tokens : t.kind \in c.service.on}
         /\ Written(c).on = {k \in Kinds : IF (k \in c.service.on) = (k \in c.seen.on)
                                             THEN k \in db.service.on ELSE k \in c.service.on}
         /\ \A f \in {"mail", "policy", "scim", "url", "nets"} :
              Written(c)[f] = IF Allowed(c)[f] = c.seen[f] THEN db.service[f] ELSE Allowed(c)[f]
<1> DEFINE s == Allowed(c)
           o == db.service
           e == c.seen
           w == Written(c)
           on == {k \in Kinds : IF (k \in s.on) = (k \in e.on) THEN k \in o.on ELSE k \in s.on}
           tokens == {t \in o.tokens : t.kind \in s.on}
           Fields == {"n", "name", "abbreviation", "mail", "policy", "on", "tokens", "scim", "url", "sweep",
                      "rate", "nets"}
           Put(f) == IF s[f] = e[f] THEN o[f] ELSE s[f]
<1>1. IsService(s) /\ IsService(o) /\ IsService(e) /\ s.on = c.service.on
  BY AllowedType, DbFields, CallFields
<1>2. w = [f \in DOMAIN o |-> CASE f = "n" -> o.n + 1 [] f = "on" -> on [] f = "tokens" -> tokens
                                [] OTHER -> Put(f)]
  BY DEF Written
<1> HIDE DEF s, o, e, w, on, tokens
<1>3. DOMAIN o = Fields
  BY <1>1 DEF IsService, ServiceOf
<1>4. /\ w["n"] = o.n + 1 /\ w["on"] = on /\ w["tokens"] = tokens
      /\ \A f \in {"name", "abbreviation", "mail", "policy", "scim", "url", "sweep", "rate", "nets"} :
           w[f] = Put(f)
  BY <1>2, <1>3
<1>5. w.n \in Nat /\ w.on \in SUBSET Kinds /\ w.tokens \in SUBSET [n : Nat, kind : Kinds]
  <2>1. o.n \in Nat /\ o.tokens \in SUBSET [n : Nat, kind : Kinds]
    BY <1>1, ServiceFields
  <2>2. on \in SUBSET Kinds
    BY DEF on
  <2>3. tokens \in SUBSET [n : Nat, kind : Kinds]
    BY <2>1 DEF tokens
  <2> QED BY <1>4, <2>1, <2>2, <2>3
<1>6. /\ w.name \in Names /\ w.abbreviation \in Names /\ w.mail \in Marks /\ w.policy \in Marks
      /\ w.scim \in BOOLEAN /\ w.url \in {"", "url"} /\ w.sweep \in BOOLEAN
      /\ w.rate \in [is : {"number", "option", "null", "undefined"}, n : Nat]
  <2>1. \A f \in {"name", "abbreviation", "mail", "policy", "scim", "url", "sweep", "rate"} :
          w[f] = s[f] \/ w[f] = o[f]
    BY <1>4
  <2>2. w.name \in Names /\ w.abbreviation \in Names
    BY <1>1, <2>1, ServiceFields
  <2>3. w.mail \in Marks /\ w.policy \in Marks
    BY <1>1, <2>1, ServiceFields
  <2>4. w.scim \in BOOLEAN
    BY <1>1, <2>1, ServiceFields
  <2>5. w.sweep \in BOOLEAN
    BY <1>1, <2>1, ServiceFields
  <2>6. w.url \in {"", "url"}
    BY <1>1, <2>1, ServiceFields
  <2>7. w.rate \in [is : {"number", "option", "null", "undefined"}, n : Nat]
    BY <1>1, <2>1, ServiceFields
  <2> QED BY <2>2, <2>3, <2>4, <2>5, <2>6, <2>7
<1>7. DOMAIN w = Fields /\ w = [f \in Fields |-> w[f]]
  BY <1>2, <1>3
<1>8. w = [n |-> w.n, name |-> w.name, abbreviation |-> w.abbreviation, mail |-> w.mail,
           policy |-> w.policy, on |-> w.on, tokens |-> w.tokens, scim |-> w.scim, url |-> w.url,
           sweep |-> w.sweep, rate |-> w.rate, nets |-> w.nets]
  BY <1>7
<1>9. IsService(w)
  BY <1>5, <1>6, <1>8 DEF IsService, ServiceOf
<1>10. \A f \in {"mail", "policy", "scim", "url", "nets"} : w[f] = IF s[f] = e[f] THEN o[f] ELSE s[f]
  BY <1>4
<1>11. /\ IsService(w) /\ w.n = o.n + 1 /\ w.tokens = {t \in o.tokens : t.kind \in c.service.on}
       /\ w.on = {k \in Kinds : IF (k \in c.service.on) = (k \in e.on) THEN k \in o.on
                                                                     ELSE k \in c.service.on}
  BY <1>1, <1>4, <1>9 DEF on, tokens
<1> QED BY <1>10, <1>11 DEF w, o, e, s

LEMMA DbSteps ==
  ASSUME TypeInv, NEW s, IsService(s), NEW m \in Nat, NEW b \in BOOLEAN
  PROVE  /\ IsDb([db EXCEPT !.service = s]) /\ [db EXCEPT !.service = s].service = s
         /\ [db EXCEPT !.service = s].exists = db.exists
         /\ IsDb([db EXCEPT !.made = m, !.service = s]) /\ [db EXCEPT !.made = m, !.service = s].service = s
         /\ [db EXCEPT !.made = m, !.service = s].exists = db.exists
         /\ IsDb([db EXCEPT !.password = m]) /\ [db EXCEPT !.password = m].service = db.service
         /\ [db EXCEPT !.password = m].exists = db.exists
         /\ IsDb([db EXCEPT !.agreed = b]) /\ [db EXCEPT !.agreed = b].service = db.service
         /\ [db EXCEPT !.agreed = b].exists = db.exists
         /\ IsDb([db EXCEPT !.exists = b]) /\ [db EXCEPT !.exists = b].service = db.service
         /\ [db EXCEPT !.exists = b].exists = b
<1>1. IsDb(db)
  BY DEF TypeInv
<1> QED BY <1>1 DEF IsDb

(* The five ways in which a handler changes things: not at all, as far as  *)
(* the service is concerned; by reading it; by telling of a change to come;*)
(* by an update, which tells; by committing what was told of.              *)
Replied(c, d) ==
  /\ IsCall(d) /\ d.by = c.by /\ d.op = c.op /\ d.kind = c.kind /\ net' = (net \ {c}) \union {d}
  /\ UNCHANGED <<scene, page>>
Idles(c) ==
  /\ c.status # "ok"
  /\ \E d : /\ Replied(c, d)
            /\ d.op = "read" => d.status = "failed" /\ ~db.exists
            /\ d.status # "sent"
            /\ d.status = "ok" => d.op \notin {"update", "token", "deleteToken"}
            /\ d.status = "begun" =>
                 /\ d.op = "update" /\ c.status = "sent" /\ (Warned(c) => Warned(d))
                 /\ d.service = c.service /\ d.seen = db.service
  /\ IsDb(db') /\ db'.service = db.service /\ (db'.exists => db.exists)
  /\ UNCHANGED <<inbox, excuse, crossed>>
Reads(c) ==
  /\ \E d : /\ Replied(c, d) /\ d.op = "read" /\ d.status = "ok" /\ d.service = db.service
            /\ c.status = "sent"
  /\ excuse' = (IF Torn = {} THEN excuse ELSE excuse \union {c.by})
  /\ UNCHANGED <<db, inbox, crossed>>
Announces(c) ==
  /\ c.status # "ok"
  /\ \E d : /\ Replied(c, d) /\ d.op \in {"token", "deleteToken"} /\ d.status = "begun"
            /\ d.seen = db.service
  /\ Tells(c) /\ excuse' = excuse \union Unheard(c) /\ UNCHANGED <<db, crossed>>
Updates(c) ==
  /\ c.op = "update" /\ c.status = "begun" /\ db.exists
  /\ \E d : Replied(c, d) /\ d.status = "ok"
  /\ IsDb(db') /\ db'.exists = db.exists /\ db'.service = Written(c)
  /\ Tells(c) /\ excuse' = excuse \union Unheard(c)
  /\ crossed' = crossed
       \union (IF Address(db.service) = Address(c.seen) THEN {} ELSE {"address"})
       \union {t.kind : t \in {d \in net :
            /\ d.op = "token" /\ d.status = "begun" /\ d.kind \in d.seen.on
            /\ d.kind \notin db'.service.on}}
Stores(c) ==
  /\ c.op \in {"token", "deleteToken"} /\ c.status = "begun"
  /\ \E d : Replied(c, d) /\ d.status = "ok"
  /\ IsDb(db') /\ db'.exists = db.exists /\ db'.service.n = db.service.n + 1
  /\ \/ /\ c.op = "token"
        /\ db'.service.tokens = db.service.tokens \union {[n |-> db.made, kind |-> c.kind]}
        /\ db'.service.on = IF c.kind \in c.seen.on THEN db.service.on
                            ELSE db.service.on \union {c.kind}
     \/ /\ c.op = "deleteToken" /\ db'.service.on = db.service.on
        /\ db'.service.tokens = {t \in db.service.tokens : t.n # c.token}
  /\ \A f \in {"mail", "policy", "scim", "url", "nets"} : db'.service[f] = db.service[f]
  /\ UNCHANGED <<inbox, excuse, crossed>>

LEMMA FailsIdle ==
  ASSUME TypeInv, NEW c \in net, Fails(c), UNCHANGED <<scene, page>>, c.op = "read" => ~db.exists,
         c.status # "ok"
  PROVE  Idles(c)
<1> DEFINE failed == "failed"
           d == Done(c, failed)
<1>1. IsCall(c)
  BY DEF TypeInv, AreCalls
<1>2. failed \in Statuses /\ failed = "failed"
  BY DEF Statuses
<1>3. net' = (net \ {c}) \union {d} /\ UNCHANGED <<db, inbox, excuse, crossed>>
  BY DEF Fails, Answers
<1>4. IsDb(db)
  BY DEF TypeInv
<1> HIDE DEF failed
<1>5. IsCall(d) /\ d.by = c.by /\ d.op = c.op /\ d.kind = c.kind /\ d.status = "failed"
  BY <1>1, <1>2, DoneType
<1> HIDE DEF d
<1> QED BY <1>3, <1>4, <1>5 DEF Idles, Replied

LEMMA OkReplies ==
  ASSUME TypeInv, NEW c \in net, Ok(c), UNCHANGED <<scene, page>>
  PROVE  \E d : Replied(c, d) /\ d.status = "ok"
<1> DEFINE ok == "ok"
           d == Done(c, ok)
<1>1. IsCall(c)
  BY DEF TypeInv, AreCalls
<1>2. ok \in Statuses /\ ok = "ok"
  BY DEF Statuses
<1>3. net' = (net \ {c}) \union {d}
  BY DEF Ok, Answers
<1> HIDE DEF ok
<1>4. IsCall(d) /\ d.by = c.by /\ d.op = c.op /\ d.kind = c.kind /\ d.status = "ok"
  BY <1>1, <1>2, DoneType
<1> HIDE DEF d
<1> QED BY <1>3, <1>4 DEF Replied

LEMMA BeginsReplies ==
  ASSUME TypeInv, NEW c \in net, Begins(c), UNCHANGED <<scene, page>>
  PROVE  \E d : /\ Replied(c, d) /\ d.status = "begun" /\ d.seen = db.service
                /\ d.service = c.service /\ d.warned = c.warned
<1> DEFINE s == db.service
           d == [c EXCEPT !.status = "begun", !.seen = s]
<1>1. IsCall(c) /\ IsService(s)
  BY DbFields DEF TypeInv, AreCalls
<1>2. net' = (net \ {c}) \union {d}
  BY DEF Begins, Answers
<1> HIDE DEF s
<1>3. /\ IsCall(d) /\ d.by = c.by /\ d.op = c.op /\ d.kind = c.kind /\ d.status = "begun" /\ d.seen = s
      /\ d.service = c.service /\ d.warned = c.warned
  BY <1>1 DEF IsCall, CallOf, Statuses
<1> HIDE DEF d
<1> QED BY <1>2, <1>3 DEF Replied, s

LEMMA ReadServed ==
  ASSUME TypeInv, NEW c \in net, ServeRead(c)
  PROVE  Idles(c) \/ Reads(c)
<1>1. CASE ~db.exists
  BY <1>1, FailsIdle DEF ServeRead, Serves
<1>2. CASE db.exists
  <2> DEFINE s == db.service
             d == [c EXCEPT !.status = "ok", !.service = s]
  <2>1. IsCall(c) /\ IsService(s)
    BY DbFields DEF TypeInv, AreCalls
  <2>2. /\ net' = (net \ {c}) \union {d} /\ c.op = "read" /\ c.status = "sent"
        /\ excuse' = (IF Torn = {} THEN excuse ELSE excuse \union {c.by})
        /\ UNCHANGED <<scene, page, db, inbox, crossed>>
    BY <1>2 DEF ServeRead, Serves, Answers
  <2> HIDE DEF s
  <2>3. IsCall(d) /\ d.by = c.by /\ d.op = c.op /\ d.kind = c.kind /\ d.status = "ok" /\ d.service = s
    BY <2>1 DEF IsCall, CallOf, Statuses
  <2> HIDE DEF d
  <2> QED BY <2>2, <2>3 DEF Reads, Replied, s
<1> QED BY <1>1, <1>2

LEMMA ExistsServed ==
  ASSUME TypeInv, NEW c \in net, ServeExists(c)
  PROVE  Idles(c)
<1> DEFINE b == (\/ c.value = "taken"
                 \/ db.exists /\ c.value = db.service[c.key] /\ c.value # c.service[c.key])
           ok == "ok"
           o == Done(c, ok)
           d == [o EXCEPT !.error = b]
<1>1. IsCall(c) /\ IsDb(db)
  BY DEF TypeInv, AreCalls
<1>2. ok \in Statuses /\ ok = "ok" /\ b \in BOOLEAN
  BY DbFields DEF Statuses
<1>3. net' = (net \ {c}) \union {d} /\ c.op = "exists" /\ c.status # "ok"
      /\ UNCHANGED <<scene, page, db, inbox, excuse, crossed>>
  BY DEF ServeExists, Serves, Answers, Untold
<1> HIDE DEF ok, b
<1>4. IsCall(o) /\ o.by = c.by /\ o.op = c.op /\ o.kind = c.kind /\ o.status = "ok"
  BY <1>1, <1>2, DoneType
<1> HIDE DEF o
<1>5. IsCall(d) /\ d.by = c.by /\ d.op = c.op /\ d.kind = c.kind /\ d.status = "ok"
  BY <1>2, <1>4 DEF IsCall, CallOf
<1> HIDE DEF d
<1> QED BY <1>1, <1>3, <1>5 DEF Idles, Replied

LEMMA UpdateServed ==
  ASSUME TypeInv, NEW c \in net, BeginUpdate(c) \/ CommitUpdate(c)
  PROVE  Idles(c) \/ Updates(c)
<1>1. IsCall(c) /\ IsDb(db) /\ c.op = "update" /\ c.status # "ok" /\ UNCHANGED <<scene, page>>
  BY DEF TypeInv, AreCalls, BeginUpdate, CommitUpdate, Serves, Commits
<1>2. CASE Fails(c)
  BY <1>1, <1>2, FailsIdle
<1>3. CASE BeginUpdate(c) /\ ~Fails(c)
  <2>1. Begins(c) /\ c.status = "sent" /\ UNCHANGED <<db, inbox, excuse, crossed>>
    BY <1>3 DEF BeginUpdate, Untold, Serves
  <2>2. PICK d : /\ Replied(c, d) /\ d.status = "begun" /\ d.seen = db.service
                 /\ d.service = c.service /\ d.warned = c.warned
    BY <1>1, <2>1, BeginsReplies
  <2>3. d.op = "update" /\ (Warned(c) => Warned(d))
    BY <1>1, <2>2 DEF Replied, Warned
  <2> QED BY <1>1, <2>1, <2>2, <2>3 DEF Idles
<1>4. CASE CommitUpdate(c) /\ ~Fails(c)
  <2> DEFINE s == Written(c)
             e == [db EXCEPT !.service = s]
  <2>1. IsService(s)
    BY <1>1, WrittenType
  <2>2. /\ db' = e /\ Ok(c) /\ Tells(c) /\ excuse' = excuse \union Unheard(c) /\ db.exists
        /\ c.status = "begun"
        /\ crossed' = crossed
             \union (IF Address(db.service) = Address(c.seen) THEN {} ELSE {"address"})
             \union {t.kind : t \in {d \in net :
                  /\ d.op = "token" /\ d.status = "begun" /\ d.kind \in d.seen.on
                  /\ d.kind \notin db'.service.on}}
    BY <1>4 DEF CommitUpdate, Commits
  <2> HIDE DEF s
  <2>3. IsDb(e) /\ e.service = s /\ e.exists = db.exists
    <3>1. 0 \in Nat /\ FALSE \in BOOLEAN
      OBVIOUS
    <3> QED BY <2>1, <3>1, DbSteps
  <2> HIDE DEF e
  <2>4. \E d : Replied(c, d) /\ d.status = "ok"
    BY <1>1, <2>2, OkReplies
  <2> QED BY <1>1, <2>2, <2>3, <2>4 DEF Updates, s
<1> QED BY <1>2, <1>3, <1>4

LEMMA AnnounceServed ==
  ASSUME TypeInv, NEW c \in net, BeginToken(c) \/ BeginDeleteToken(c)
  PROVE  Idles(c) \/ Announces(c)
<1>1. /\ IsCall(c) /\ c.op \in {"token", "deleteToken"} /\ c.status # "ok" /\ UNCHANGED <<scene, page>>
  BY DEF TypeInv, AreCalls, BeginToken, BeginDeleteToken, Serves
<1>2. CASE Fails(c)
  BY <1>1, <1>2, FailsIdle
<1>3. CASE ~Fails(c)
  <2>1. /\ Begins(c) /\ Tells(c) /\ excuse' = excuse \union Unheard(c) /\ UNCHANGED <<db, crossed>>
    BY <1>3 DEF BeginToken, BeginDeleteToken
  <2>2. PICK d : Replied(c, d) /\ d.status = "begun" /\ d.seen = db.service
    BY <1>1, <2>1, BeginsReplies
  <2> QED BY <1>1, <2>1, <2>2 DEF Announces, Replied
<1> QED BY <1>2, <1>3

LEMMA StoreServed ==
  ASSUME TypeInv, NEW c \in net, CommitToken(c) \/ CommitDeleteToken(c)
  PROVE  Idles(c) \/ Stores(c)
<1> DEFINE o == db.service
           n == o.n + 1
           m == db.made + 1
<1>1. IsCall(c) /\ IsDb(db) /\ IsService(o) /\ db.made \in Nat /\ UNCHANGED <<scene, page>>
  BY DbFields DEF TypeInv, AreCalls, CommitToken, CommitDeleteToken, Commits
<1>2. n \in Nat /\ m \in Nat /\ o.on \in SUBSET Kinds /\ o.tokens \in SUBSET [n : Nat, kind : Kinds]
  <2>1. o.n \in Nat /\ o.on \in SUBSET Kinds /\ o.tokens \in SUBSET [n : Nat, kind : Kinds]
    <3> HIDE DEF o
    <3> QED BY <1>1, ServiceFields
  <2>2. m \in Nat
    BY <1>1
  <2> HIDE DEF o
  <2> QED BY <2>1, <2>2
<1>3. CASE Fails(c) /\ CommitToken(c)
  BY <1>1, <1>3, FailsIdle DEF CommitToken, Commits
<1>4. CASE CommitToken(c) /\ ~Fails(c)
  <2> DEFINE k == c.kind
             new == [n |-> db.made, kind |-> k]
             tokens == o.tokens \union {new}
             on == IF k \in c.seen.on THEN o.on ELSE o.on \union {k}
             s == [o EXCEPT !.n = n, !.tokens = tokens, !.on = on]
             e == [db EXCEPT !.made = m, !.service = s]
  <2>1. /\ c.op = "token" /\ c.status = "begun" /\ Ok(c) /\ UNCHANGED <<inbox, excuse, crossed>>
        /\ k \in Kinds
    BY <1>4 DEF CommitToken, Commits, Untold, TypeInv, AreCalls
  <2>2. db' = e
    <3>1. db' = [db EXCEPT !.made = @ + 1, !.service.n = @ + 1,
               !.service.tokens = @ \union {[n |-> db.made, kind |-> c.kind]},
               !.service.on = IF c.kind \in c.seen.on THEN @ ELSE @ \union {c.kind}]
      BY <1>4 DEF CommitToken
    <3> QED BY <1>1, <3>1 DEF IsDb, IsService, ServiceOf
  <2>3. new \in [n : Nat, kind : Kinds]
    BY <1>1, <2>1
  <2>4. tokens \in SUBSET [n : Nat, kind : Kinds] /\ on \in SUBSET Kinds
    <3> HIDE DEF o, new, k
    <3> QED BY <1>2, <2>1, <2>3
  <2>5. /\ IsService(s) /\ s.n = n /\ s.tokens = tokens /\ s.on = on
        /\ \A f \in {"mail", "policy", "scim", "url", "nets"} : s[f] = o[f]
    <3> HIDE DEF o, n, tokens, on
    <3> QED BY <1>1, <1>2, <2>4 DEF IsService, ServiceOf
  <2>6. IsDb(e) /\ e.service = s /\ e.exists = db.exists
    <3>1. FALSE \in BOOLEAN
      OBVIOUS
    <3> HIDE DEF s, m
    <3> QED BY <1>2, <2>5, <3>1, DbSteps
  <2>7. \E d : Replied(c, d) /\ d.status = "ok"
    BY <1>1, <2>1, OkReplies
  <2> HIDE DEF e
  <2> QED BY <2>1, <2>2, <2>5, <2>6, <2>7 DEF Stores
<1>5. CASE CommitDeleteToken(c)
  <2> DEFINE tokens == {t \in o.tokens : t.n # c.token}
             s == [o EXCEPT !.n = n, !.tokens = tokens]
             e == [db EXCEPT !.service = s]
  <2>1. c.op = "deleteToken" /\ c.status = "begun" /\ Ok(c) /\ UNCHANGED <<inbox, excuse, crossed>>
    BY <1>5 DEF CommitDeleteToken, Commits, Untold
  <2>2. db' = e
    <3>1. db' = [db EXCEPT !.service.n = @ + 1, !.service.tokens = {t \in @ : t.n # c.token}]
      BY <1>5 DEF CommitDeleteToken
    <3> QED BY <1>1, <3>1 DEF IsDb, IsService, ServiceOf
  <2>3. tokens \in SUBSET [n : Nat, kind : Kinds]
    <3> HIDE DEF o
    <3> QED BY <1>2
  <2>4. /\ IsService(s) /\ s.n = n /\ s.tokens = tokens /\ s.on = o.on
        /\ \A f \in {"mail", "policy", "scim", "url", "nets"} : s[f] = o[f]
    <3> HIDE DEF o, n, tokens
    <3> QED BY <1>1, <1>2, <2>3 DEF IsService, ServiceOf
  <2>5. IsDb(e) /\ e.service = s /\ e.exists = db.exists
    <3>1. FALSE \in BOOLEAN /\ 0 \in Nat
      OBVIOUS
    <3> HIDE DEF s
    <3> QED BY <2>4, <3>1, DbSteps
  <2>6. \E d : Replied(c, d) /\ d.status = "ok"
    BY <1>1, <2>1, OkReplies
  <2> HIDE DEF e
  <2> QED BY <2>1, <2>2, <2>4, <2>5, <2>6 DEF Stores
<1> QED BY <1>3, <1>4, <1>5

LEMMA OthersServed ==
  ASSUME TypeInv, NEW c \in net, ServeLdap(c) \/ ServeAups(c) \/ ServeDelete(c)
  PROVE  Idles(c)
<1>1. /\ IsCall(c) /\ IsDb(db) /\ IsService(db.service) /\ db.password \in Nat
      /\ c.op \in {"ldap", "aups", "delete"} /\ c.status # "ok" /\ UNCHANGED <<scene, page>>
  BY DbFields DEF TypeInv, AreCalls, ServeLdap, ServeAups, ServeDelete, Serves
<1>2. CASE Fails(c)
  BY <1>1, <1>2, FailsIdle
<1>3. CASE ServeLdap(c) /\ ~Fails(c)
  <2> DEFINE n == db.password + 1
             e == [db EXCEPT !.password = n]
             d == [c EXCEPT !.status = "ok", !.number = n]
  <2>1. db' = e /\ net' = (net \ {c}) \union {d} /\ UNCHANGED <<inbox, excuse, crossed>>
    <3>1. [db EXCEPT !.password = @ + 1] = e
      BY <1>1 DEF IsDb
    <3> QED BY <1>3, <3>1 DEF ServeLdap, Answers, Untold
  <2>2. n \in Nat
    BY <1>1
  <2> HIDE DEF n
  <2>3. IsCall(d) /\ d.by = c.by /\ d.op = c.op /\ d.kind = c.kind /\ d.status = "ok"
    BY <1>1, <2>2 DEF IsCall, CallOf, Statuses
  <2>4. IsDb(e) /\ e.service = db.service /\ e.exists = db.exists
    <3>1. FALSE \in BOOLEAN
      OBVIOUS
    <3> QED BY <1>1, <2>2, <3>1, DbSteps
  <2> HIDE DEF d, e
  <2> QED BY <1>1, <2>1, <2>3, <2>4 DEF Idles, Replied
<1>4. CASE (ServeAups(c) \/ ServeDelete(c)) /\ ~Fails(c)
  <2> DEFINE b == FALSE
             e == [db EXCEPT !.agreed = b]
             f == [db EXCEPT !.exists = b]
  <2>1. (db' = e \/ db' = f) /\ Ok(c) /\ UNCHANGED <<inbox, excuse, crossed>>
    BY <1>4 DEF ServeAups, ServeDelete, Untold
  <2>2. b \in BOOLEAN /\ ~b
    OBVIOUS
  <2> HIDE DEF b
  <2>3. /\ IsDb(e) /\ e.service = db.service /\ e.exists = db.exists
        /\ IsDb(f) /\ f.service = db.service /\ f.exists = b
    <3>1. 0 \in Nat
      OBVIOUS
    <3> QED BY <1>1, <2>2, <3>1, DbSteps
  <2>4. PICK d : Replied(c, d) /\ d.status = "ok"
    BY <1>1, <2>1, OkReplies
  <2> HIDE DEF e, f
  <2> QED BY <1>1, <2>1, <2>2, <2>3, <2>4 DEF Idles, Replied
<1> QED BY <1>2, <1>3, <1>4

LEMMA ServerActs ==
  ASSUME TypeInv, NEW c \in net, Server(c)
  PROVE  Idles(c) \/ Reads(c) \/ Announces(c) \/ Updates(c) \/ Stores(c)
BY ReadServed, ExistsServed, UpdateServed, AnnounceServed, StoreServed, OthersServed DEF Server

-------------------------------------------------------------------------------
(* What a page does with an answer: it takes in the service, or something  *)
(* else; after a change of its own it reads the service again.             *)
Takes(c, p, cs) ==
  /\ IsPage(p) /\ page' = [page EXCEPT ![c.by] = p] /\ net' = (net \ {c}) \union cs
  /\ (\A e \in cs : Asked(c.by, e)) /\ UNCHANGED <<scene, db, inbox, crossed>>
(* Marks after an answer other than the service: nothing is marked, and the*)
(* answer to a check ends it.                                              *)
Heard(c, o, q) ==
  /\ q.draft.mail = o.draft.mail /\ q.draft.policy = o.draft.policy
  /\ Address(q.draft) = Address(o.draft) /\ q.invalid = o.invalid /\ q.emptied = o.emptied
  /\ q.dialog = "disable" => o.dialog = "disable"
  /\ q.checking /\ q.at # "gone" => o.checking /\ c.op # "network"
(* Marks after the service: those that it asks for.                        *)
Filled(o, q, s) ==
  /\ q.draft.mail = s.mail /\ q.draft.policy = s.policy /\ Address(q.draft) = Address(s)
  /\ q.invalid = {f \in {"mail", "policy"} : s[f] = "bad"}
  /\ q.checking = o.checking /\ q.emptied = o.emptied
Notes(c) ==
  /\ c.status \in {"ok", "failed"} /\ UNCHANGED excuse
  /\ \E p, cs :
       /\ Takes(c, p, cs) /\ p.shown = page[c.by].shown /\ p.subscribed = page[c.by].subscribed
       /\ Heard(c, page[c.by], p)
       /\ \/ p.at = "gone"
          \/ /\ p.at = page[c.by].at /\ c.op # "read"
             /\ Waiting(p) => Waiting(page[c.by]) /\ c.op \notin Spinning
             /\ c.op \in {"update", "token", "deleteToken"} /\ c.status = "ok" => Reading(c.by, net')
Loads(c) ==
  /\ c.op = "read" /\ c.status = "ok" /\ page[c.by].at \in {"open", "loading"}
  /\ \E p, cs : /\ Takes(c, p, cs) /\ p.shown = c.service /\ p.at = "open" /\ p.subscribed /\ ~p.busy
               /\ Filled(page[c.by], p, c.service)
  /\ excuse' = IF c.service = db.service /\ Torn = {} THEN excuse \ {c.by}
               ELSE IF c.service.n < page[c.by].shown.n THEN excuse \union {c.by} ELSE excuse

LEMMA CallsAre ==
  ASSUME TypeInv, NEW c \in net
  PROVE  /\ IsCall(c) /\ c.by \in Admins /\ IsPage(page[c.by]) /\ IsService(c.service)
         /\ IsService(page[c.by].shown) /\ IsService(page[c.by].draft)
BY CallFields, PagesAre DEF TypeInv, AreCalls

LEMMA ClobbersType ==
  ASSUME NEW p, IsPage(p)
  PROVE  /\ IsPage(Clobbers(p)) /\ Clobbers(p).shown = p.shown
         /\ Clobbers(p).subscribed = p.subscribed /\ Clobbers(p).at = p.at
         /\ Clobbers(p).busy = p.busy /\ Clobbers(p).unhandled = p.unhandled
         /\ Clobbers(p).draft = p.draft /\ Clobbers(p).invalid = p.invalid
         /\ Clobbers(p).checking = p.checking /\ Clobbers(p).emptied = p.emptied
         /\ Clobbers(p).dialog = p.dialog
<1> DEFINE q == [p EXCEPT !.text = "of the service"]
<1>1. Clobbers(p) \in {p, q}
  BY DEF Clobbers
<1>2. /\ IsPage(q) /\ q.shown = p.shown /\ q.subscribed = p.subscribed /\ q.at = p.at
      /\ q.busy = p.busy /\ q.unhandled = p.unhandled /\ q.draft = p.draft /\ q.invalid = p.invalid
      /\ q.checking = p.checking /\ q.emptied = p.emptied /\ q.dialog = p.dialog
  BY DEF IsPage, PageOf, Texts
<1> HIDE DEF q
<1> QED BY <1>1, <1>2

Mounted(q, p, s) ==
  /\ IsPage(q) /\ q.shown = s /\ ~q.busy /\ q.subscribed = p.subscribed /\ q.at = p.at
  /\ Filled(p, q, s)
LEMMA MountsType ==
  ASSUME NEW p, IsPage(p), NEW s, IsService(s)
  PROVE  Mounted(Mounts(p, s), p, s)
<1> DEFINE d == Loaded(s)
           i == {f \in {"mail", "policy"} : s[f] = "bad"}
           q == [p EXCEPT !.draft = d, !.shown = s, !.busy = FALSE, !.invalid = i]
<1>1. IsService(d) /\ d.mail = s.mail /\ d.policy = s.policy /\ Address(d) = Address(s)
  <2> DEFINE rows == IF s.nets = << >> THEN <<Row("")>> ELSE s.nets
  <2>1. Loaded(s) = [s EXCEPT !.nets = rows]
    BY DEF Loaded, IsService, ServiceOf
  <2> HIDE DEF rows
  <2> DEFINE e == [s EXCEPT !.nets = rows]
  <2>2. IsService(e) /\ e.mail = s.mail /\ e.policy = s.policy /\ Address(e) = Address(s)
    BY RowsAreFree
  <2> HIDE DEF e
  <2> QED BY <2>1, <2>2 DEF e
<1>2. i \in SUBSET {"mail", "policy"}
  OBVIOUS
<1>3. Mounts(p, s) = IF s.nets = << >> THEN Clobbers(q) ELSE q
  BY DEF Mounts
<1> HIDE DEF d
<1>4. Mounted(q, p, s)
  <2>1. /\ IsPage(q) /\ q.shown = s /\ ~q.busy /\ q.subscribed = p.subscribed /\ q.at = p.at
        /\ q.draft = d /\ q.invalid = i /\ q.checking = p.checking /\ q.emptied = p.emptied
    <3> HIDE DEF i
    <3> QED BY <1>1, <1>2 DEF IsPage, PageOf
  <2> HIDE DEF q
  <2> QED BY <1>1, <2>1 DEF Mounted, Filled
<1> HIDE DEF q
<1>5. Mounted(Clobbers(q), p, s)
  BY <1>4, ClobbersType DEF Mounted, Filled
<1> QED BY <1>3, <1>4, <1>5

LEMMA ServiceHeard ==
  ASSUME TypeInv, NEW c \in net, HearService(c)
  PROVE  Loads(c)
<1> DEFINE s == c.service
           o == page[c.by]
           m == Mounts(page[c.by], s)
           open == "open"
           p == [m EXCEPT !.at = open, !.subscribed = TRUE]
           cs == AsksNetworks(c.by, s)
<1>2. /\ c.op = "read" /\ c.status = "ok" /\ page' = [page EXCEPT ![c.by] = p]
      /\ page[c.by].at \in {"open", "loading"}
      /\ net' = (net \ {c}) \union cs /\ UNCHANGED <<scene, db, inbox, crossed>>
      /\ excuse' = IF c.service = db.service /\ Torn = {} THEN excuse \ {c.by}
                   ELSE IF c.service.n < page[c.by].shown.n THEN excuse \union {c.by} ELSE excuse
  BY DEF HearService, Hears
<1>3. \A e \in cs : Asked(c.by, e)
  BY CallsAre, NetworksAsked
<1>4. Mounted(m, o, s)
  <2>1. IsPage(o) /\ IsService(s)
    BY CallsAre
  <2> QED BY <2>1, MountsType
<1> HIDE DEF m, s, cs
<1>5. IsPage(m) /\ m.shown = s /\ ~m.busy /\ Filled(o, m, s)
  BY <1>4 DEF Mounted
<1>6. /\ IsPage(p) /\ p.shown = s /\ ~p.busy /\ p.at = open /\ p.subscribed
      /\ p.draft = m.draft /\ p.invalid = m.invalid /\ p.checking = m.checking /\ p.emptied = m.emptied
  BY <1>5 DEF IsPage, PageOf
<1> HIDE DEF p
<1>8. Filled(o, p, s)
  BY <1>5, <1>6 DEF Filled
<1>7. Takes(c, p, cs)
  BY <1>2, <1>3, <1>6 DEF Takes
<1> QED BY <1>2, <1>6, <1>7, <1>8 DEF Loads, s, o

(* An answer after which the page shows the same service.                  *)
LEMMA PutNotes ==
  ASSUME TypeInv, NEW c \in net, NEW p, NEW cs, IsPage(p), p.shown = page[c.by].shown,
         p.subscribed = page[c.by].subscribed, c.status \in {"ok", "failed"},
         page' = [page EXCEPT ![c.by] = p], net' = (net \ {c}) \union cs, \A e \in cs : Asked(c.by, e),
         UNCHANGED <<scene, db, inbox, crossed, excuse>>, Heard(c, page[c.by], p),
         \/ p.at = "gone"
         \/ /\ p.at = page[c.by].at /\ c.op # "read"
            /\ Waiting(p) => Waiting(page[c.by]) /\ c.op \notin Spinning
            /\ c.op \in {"update", "token", "deleteToken"} /\ c.status = "ok" => Reading(c.by, net')
  PROVE  Notes(c)
BY DEF Notes, Takes

LEMMA GoneHeard ==
  ASSUME TypeInv, NEW c \in net, HearGone(c) \/ HearDeleted(c)
  PROVE  Notes(c)
<1> DEFINE o == page[c.by]
           p == [o EXCEPT !.at = "gone"]
           cs == {}
<1>1. IsPage(o)
  BY CallsAre
<1>2. /\ c.status \in {"ok", "failed"} /\ page' = [page EXCEPT ![c.by] = p]
      /\ net' = (net \ {c}) \union cs /\ UNCHANGED <<scene, db, inbox, crossed, excuse>>
  BY DEF HearGone, HearDeleted, Hears
<1>3. \A e \in cs : Asked(c.by, e)
  OBVIOUS
<1> HIDE DEF o, cs
<1>4. /\ IsPage(p) /\ p.shown = o.shown /\ p.subscribed = o.subscribed /\ p.at = "gone"
      /\ Heard(c, o, p)
  BY <1>1 DEF IsPage, PageOf, Heard
<1> HIDE DEF p
<1> QED BY <1>2, <1>3, <1>4, PutNotes DEF o

LEMMA LateHeard ==
  ASSUME TypeInv, NEW c \in net, HearLate(c)
  PROVE  Notes(c)
<1> DEFINE o == page[c.by]
           cs == {}
<1>1. IsPage(o) /\ page = [b \in Admins |-> page[b]]
  BY CallsAre DEF TypeInv, ArePages
<1>2. /\ c.status \in {"ok", "failed"} /\ page' = page /\ o.at = "gone"
      /\ net' = (net \ {c}) \union cs /\ UNCHANGED <<scene, db, inbox, crossed, excuse>>
  BY DEF HearLate
<1>3. page' = [page EXCEPT ![c.by] = o]
  BY <1>1, <1>2
<1>4. \A e \in cs : Asked(c.by, e)
  OBVIOUS
<1>5. Heard(c, o, o)
  BY <1>2 DEF Heard
<1> HIDE DEF cs
<1> QED BY <1>1, <1>2, <1>3, <1>4, <1>5, PutNotes

LEMMA UpdatedHeard ==
  ASSUME TypeInv, NEW c \in net, HearUpdated(c)
  PROVE  Notes(c)
<1> DEFINE o == page[c.by]
           p == [o EXCEPT !.busy = FALSE, !.initial = FALSE, !.form = "none", !.dialog = "none"]
           r == Refreshes(c.by)
           cs == {r}
<1>1. IsPage(o) /\ c.by \in Admins
  BY CallsAre
<1>2. /\ c.status = "ok" /\ c.op \in {"update", "token", "deleteToken"}
      /\ page' = [page EXCEPT ![c.by] = p]
      /\ net' = (net \ {c}) \union cs /\ UNCHANGED <<scene, db, inbox, crossed, excuse>>
  BY DEF HearUpdated, Hears
<1>3. \A e \in cs : Asked(c.by, e)
  BY <1>1, ReadAsked
<1>4. r \in net' /\ r.op = "read" /\ r.status = "sent" /\ r.by = c.by
  BY <1>1, <1>2, ReadAsked DEF Asked
<1> HIDE DEF o, cs
<1>5. /\ IsPage(p) /\ p.shown = o.shown /\ p.subscribed = o.subscribed /\ p.at = o.at /\ p.busy = FALSE
      /\ p.draft = o.draft /\ p.invalid = o.invalid /\ p.checking = o.checking /\ p.emptied = o.emptied
      /\ p.dialog = "none"
  BY <1>1 DEF IsPage, PageOf
<1> HIDE DEF p, r
<1>7. Heard(c, o, p)
  BY <1>2, <1>5 DEF Heard
<1>6. Reading(c.by, net') /\ ~Waiting(p)
  BY <1>4, <1>5 DEF Reading, Waiting
<1> QED BY <1>2, <1>3, <1>5, <1>6, <1>7, PutNotes DEF o

(* The other answers change neither what the page is nor what it waits for,*)
(* or end its wait.                                                        *)
LEMMA OtherHeard ==
  ASSUME TypeInv, NEW c \in net, NEW p, IsPage(p), p.shown = page[c.by].shown,
         p.subscribed = page[c.by].subscribed, p.at = page[c.by].at, c.op # "read",
         ~Waiting(p) \/ (p.busy = page[c.by].busy /\ p.unhandled = page[c.by].unhandled /\ c.op \notin Spinning),
         c.status = "failed" \/ (c.status = "ok" /\ c.op \notin {"update", "token", "deleteToken"}),
         Hears(c, {c.op}, c.status, p, {}), UNCHANGED excuse, Heard(c, page[c.by], p)
  PROVE  Notes(c)
<1> DEFINE cs == {}
<1>1. /\ page' = [page EXCEPT ![c.by] = p] /\ net' = (net \ {c}) \union cs
      /\ UNCHANGED <<scene, db, inbox, crossed, excuse>>
  BY DEF Hears
<1>2. \A e \in cs : Asked(c.by, e)
  OBVIOUS
<1> HIDE DEF cs
<1>3. Waiting(p) => Waiting(page[c.by]) /\ c.op \notin Spinning
  BY DEF Waiting
<1> QED BY <1>1, <1>2, <1>3, PutNotes

LEMMA VerdictHeard ==
  ASSUME TypeInv, NEW c \in net, HearExists(c) \/ HearNetwork(c) \/ HearNetworks(c) \/ HearTokenValue(c)
  PROVE  Notes(c)
<1> DEFINE o == page[c.by]
           Same(q) == /\ IsPage(q) /\ q.shown = o.shown /\ q.subscribed = o.subscribed /\ q.at = o.at
                      /\ q.busy = o.busy /\ q.unhandled = o.unhandled /\ Heard(c, o, q)
<1>1. /\ IsPage(o) /\ IsService(o.draft) /\ IsCall(c) /\ c.key \in Keys /\ o.exists \in SUBSET Keys
      /\ c.kind \in Kinds \union {"none"}
  BY CallsAre, CallFields, PageFields
<1>2. c.op \in {"exists", "network", "networks", "tokenValue"} /\ c.status = "ok"
  BY DEF HearExists, HearNetwork, HearNetworks, HearTokenValue, Hears
<1>3. c.op \notin Spinning /\ c.op \notin {"update", "token", "deleteToken"} /\ c.op # "read"
  BY <1>2 DEF Spinning
<1>4. ASSUME NEW p, Same(p), Hears(c, {c.op}, c.status, p, {}), UNCHANGED excuse  PROVE Notes(c)
  BY <1>2, <1>3, <1>4, OtherHeard
<1>5. CASE HearExists(c)
  <2> DEFINE names == IF c.error THEN o.exists \union {c.key} ELSE o.exists \ {c.key}
             p == [o EXCEPT !.exists = names]
  <2>1. Hears(c, {c.op}, c.status, p, {}) /\ UNCHANGED excuse
    <3>1. [o EXCEPT !.exists = IF c.error THEN @ \union {c.key} ELSE @ \ {c.key}] = p
      <4> HIDE DEF o
      <4> QED BY <1>1 DEF IsPage, PageOf
    <3> QED BY <1>5, <3>1 DEF HearExists, Hears
  <2>2. names \in SUBSET Keys /\ c.op # "network"
    <3> HIDE DEF o
    <3> QED BY <1>1, <1>5 DEF HearExists, Hears
  <2> HIDE DEF names, o
  <2>3. Same(p)
    BY <1>1, <2>2 DEF IsPage, PageOf, Heard
  <2> HIDE DEF p, Same
  <2> QED BY <1>4, <2>1, <2>3
<1>6. CASE HearNetworks(c)
  <2> DEFINE rows == c.service.nets
             d == o.draft
             e == [d EXCEPT !.nets = rows]
             p == [o EXCEPT !.draft = e]
  <2>1. Hears(c, {c.op}, c.status, p, {}) /\ UNCHANGED excuse
    <3>1. [o EXCEPT !.draft.nets = c.service.nets] = p
      <4> HIDE DEF o
      <4> QED BY <1>1 DEF IsPage, PageOf
    <3> QED BY <1>6, <3>1 DEF HearNetworks, Hears
  <2>2. IsService(e) /\ e.mail = d.mail /\ e.policy = d.policy /\ Address(e) = Address(d)
    <3> HIDE DEF d, rows
    <3> QED BY <1>1, RowsAreFree DEF d
  <2>4. c.op # "network"
    BY <1>6 DEF HearNetworks, Hears
  <2> HIDE DEF e, o
  <2>3. Same(p)
    <3>1. p.draft = e
      BY <1>1 DEF IsPage, PageOf
    <3>2. Heard(c, o, p)
      <4>1. /\ p.invalid = o.invalid /\ p.emptied = o.emptied /\ p.dialog = o.dialog
            /\ p.checking = o.checking
        BY <1>1 DEF IsPage, PageOf
      <4> HIDE DEF p
      <4> QED BY <2>2, <2>4, <3>1, <4>1 DEF Heard
    <3> QED BY <1>1, <2>2, <3>2 DEF IsPage, PageOf
  <2> HIDE DEF p, Same
  <2> QED BY <1>4, <2>1, <2>3
<1>7. CASE HearNetwork(c)
  <2> DEFINE d == o.draft
             rows == Spliced(d.nets, c.row, [value |-> c.value, error |-> c.error])
             e == [d EXCEPT !.nets = rows]
             q == [o EXCEPT !.checking = FALSE, !.draft = e]
             p == Clobbers(q)
  <2>1. Hears(c, {c.op}, c.status, p, {}) /\ UNCHANGED excuse
    <3>1. [o EXCEPT !.checking = FALSE, !.draft.nets =
            Spliced(@, c.row, [value |-> c.value, error |-> c.error])] = q
      <4> HIDE DEF o
      <4> QED BY <1>1 DEF IsPage, PageOf, IsService, ServiceOf
    <3> HIDE DEF q
    <3> QED BY <1>7, <3>1 DEF HearNetwork, Hears
  <2>2. IsService(e) /\ e.mail = d.mail /\ e.policy = d.policy /\ Address(e) = Address(d)
    <3> HIDE DEF d, rows
    <3> QED BY <1>1, RowsAreFree DEF d
  <2> HIDE DEF e, o
  <2>3. Same(q)
    <3>1. q.draft = e
      BY <1>1 DEF IsPage, PageOf
    <3>2. Heard(c, o, q)
      <4>1. /\ q.invalid = o.invalid /\ q.emptied = o.emptied /\ q.dialog = o.dialog /\ ~q.checking
        BY <1>1 DEF IsPage, PageOf
      <4> HIDE DEF q
      <4> QED BY <2>2, <3>1, <4>1 DEF Heard
    <3> QED BY <1>1, <2>2, <3>2 DEF IsPage, PageOf
  <2> HIDE DEF q
  <2>4. Same(p)
    BY <2>3, ClobbersType DEF Heard
  <2> HIDE DEF p, Same
  <2> QED BY <1>4, <2>1, <2>4
<1>8. CASE HearTokenValue(c)
  <2> DEFINE p == [o EXCEPT !.form = c.kind, !.text = "", !.initial = TRUE]
  <2>1. Hears(c, {c.op}, c.status, p, {}) /\ UNCHANGED excuse
    BY <1>8 DEF HearTokenValue, Hears
  <2>3. c.op # "network"
    BY <1>8 DEF HearTokenValue, Hears
  <2> HIDE DEF o
  <2>2. Same(p)
    BY <1>1, <2>3 DEF IsPage, PageOf, Texts, Heard
  <2> HIDE DEF p, Same
  <2> QED BY <1>4, <2>1, <2>2
<1> QED BY <1>5, <1>6, <1>7, <1>8

LEMMA EndHeard ==
  ASSUME TypeInv, NEW c \in net, HearUpdateFailed(c) \/ HearPassword(c) \/ HearAups(c) \/ HearUnhandled(c)
  PROVE  Notes(c)
<1> DEFINE o == page[c.by]
           p1 == [o EXCEPT !.busy = FALSE]
           p2 == [o EXCEPT !.dialog = "password", !.password = c.number, !.busy = FALSE]
           p3 == [o EXCEPT !.unhandled = TRUE]
           Ended(q) == /\ IsPage(q) /\ q.shown = o.shown /\ q.subscribed = o.subscribed /\ q.at = o.at
                       /\ ~Waiting(q) /\ Heard(c, o, q)
<1>1. IsPage(o) /\ IsCall(c) /\ c.number \in Nat
  BY CallsAre, CallFields
<1>2. /\ c.op # "read" /\ c.op # "network" /\ UNCHANGED excuse
      /\ c.status = "failed" \/ (c.status = "ok" /\ c.op \notin {"update", "token", "deleteToken"})
  BY DEF HearUpdateFailed, HearPassword, HearAups, HearUnhandled, Hears
<1>3. ASSUME NEW p, Ended(p), Hears(c, {c.op}, c.status, p, {})  PROVE Notes(c)
  BY <1>2, <1>3, OtherHeard
<1>4. \E p \in {p1, p2, p3} : Hears(c, {c.op}, c.status, p, {})
  BY DEF HearUpdateFailed, HearPassword, HearAups, HearUnhandled, Hears
<1> HIDE DEF o
<1>5. Ended(p1)
  BY <1>1, <1>2 DEF IsPage, PageOf, Waiting, Heard
<1>6. Ended(p2)
  BY <1>1, <1>2 DEF IsPage, PageOf, Waiting, Heard
<1>7. Ended(p3)
  BY <1>1, <1>2 DEF IsPage, PageOf, Waiting, Heard
<1> HIDE DEF p1, p2, p3, Ended
<1> QED BY <1>3, <1>4, <1>5, <1>6, <1>7

LEMMA BrowserActs ==
  ASSUME TypeInv, NEW c \in net, Browser(c)
  PROVE  Notes(c) \/ Loads(c)
BY ServiceHeard, GoneHeard, LateHeard, UpdatedHeard, VerdictHeard, EndHeard DEF Browser

-------------------------------------------------------------------------------
(* Every step is one of these; they keep the types.                        *)
LEMMA StepKinds ==
  ASSUME TypeInv, Next
  PROVE  \/ \E a \in Admins : Turned(a) \/ Receive(a)
         \/ \E c \in net : Idles(c) \/ Reads(c) \/ Announces(c) \/ Updates(c) \/ Stores(c)
                           \/ Notes(c) \/ Loads(c)
<1>1. CASE \E a \in Admins : User(a) \/ Receive(a)
  BY <1>1, UserTurns
<1>2. CASE \E c \in net : Server(c) \/ Browser(c)
  BY <1>2, ServerActs, BrowserActs
<1> QED BY <1>1, <1>2 DEF Next

LEMMA TellsType ==
  ASSUME TypeInv, NEW c \in net, Tells(c)
  PROVE  /\ inbox' \in [Admins -> Nat] /\ Unheard(c) \in SUBSET Admins
         /\ \A a \in Admins : inbox'[a] = IF a # c.by /\ page[a].at = "open" /\ page[a].subscribed
                                            THEN inbox[a] + 1 ELSE inbox[a]
BY DEF TypeInv, Tells, Unheard

LEMMA TypeStays ==
  ASSUME TypeInv, Next
  PROVE  TypeInv'
<1>1. ASSUME NEW a \in Admins, Turned(a)  PROVE TypeInv'
  <2>1. PICK q : Turn(a, q) /\ page' = [page EXCEPT ![a] = q]
    BY <1>1 DEF Turned
  <2>2. ArePages(page')
    BY <2>1, Replaced DEF Turn
  <2>3. AreCalls(net')
    BY <1>1 DEF Turned, Asked, TypeInv, AreCalls
  <2> QED BY <1>1, <2>2, <2>3 DEF Turned, TypeInv
<1>2. ASSUME NEW a \in Admins, Receive(a)  PROVE TypeInv'
  <2>1. AreCalls(net')
    <3>1. Asked(a, Refreshes(a))
      BY ReadAsked
    <3> QED BY <1>2, <3>1 DEF Receive, Sends, Asked, TypeInv, AreCalls
  <2>2. inbox' \in [Admins -> Nat]
    BY <1>2 DEF Receive, TypeInv
  <2> QED BY <1>2, <2>1, <2>2 DEF Receive, TypeInv
<1>3. ASSUME NEW c \in net, NEW d, Replied(c, d)  PROVE AreCalls(net') /\ ArePages(page') /\ scene' \in Scenes
  BY <1>3 DEF Replied, TypeInv, AreCalls
<1>4. ASSUME NEW c \in net, Idles(c) \/ Reads(c)  PROVE TypeInv'
  <2>1. PICK d : Replied(c, d)
    BY <1>4 DEF Idles, Reads
  <2>2. excuse' \in SUBSET Admins /\ IsDb(db') /\ UNCHANGED <<inbox, crossed>>
    BY <1>4, CallsAre DEF Idles, Reads, TypeInv
  <2> QED BY <1>3, <2>1, <2>2 DEF TypeInv
<1>5. ASSUME NEW c \in net, Announces(c) \/ Updates(c)  PROVE TypeInv'
  <2>1. PICK d : Replied(c, d)
    BY <1>5 DEF Announces, Updates
  <2>2. excuse' \in SUBSET Admins /\ inbox' \in [Admins -> Nat]
    BY <1>5, TellsType DEF Announces, Updates, TypeInv
  <2>3. IsDb(db')
    BY <1>5 DEF Announces, Updates, TypeInv
  <2>4. crossed' \in SUBSET (Kinds \union {"address"})
    <3>1. \A e \in net : e.op = "token" => e.kind \in Kinds
      BY DEF TypeInv, AreCalls
    <3> QED BY <1>5, <3>1 DEF Announces, Updates, TypeInv
  <2> QED BY <1>3, <2>1, <2>2, <2>3, <2>4 DEF TypeInv
<1>6. ASSUME NEW c \in net, Stores(c)  PROVE TypeInv'
  <2>1. PICK d : Replied(c, d)
    BY <1>6 DEF Stores
  <2> QED BY <1>3, <1>6, <2>1 DEF Stores, TypeInv
<1>7. ASSUME NEW c \in net, Notes(c) \/ Loads(c)  PROVE TypeInv'
  <2>1. PICK p, cs : Takes(c, p, cs)
    BY <1>7 DEF Notes, Loads
  <2>2. c.by \in Admins
    BY CallsAre
  <2>3. ArePages(page')
    BY <2>1, <2>2, Replaced DEF Takes
  <2>4. AreCalls(net')
    BY <2>1 DEF Takes, Asked, TypeInv, AreCalls
  <2>5. excuse' \in SUBSET Admins
    BY <1>7, <2>2 DEF Notes, Loads, TypeInv
  <2> QED BY <2>1, <2>3, <2>4, <2>5 DEF Takes, TypeInv
<1> QED BY <1>1, <1>2, <1>4, <1>5, <1>6, <1>7, StepKinds

LEMMA TypeStart ==
  ASSUME Init
  PROVE  TypeInv
<1> DEFINE f == Fresh
           on == scene.on
           tokens == {[n |-> 0, kind |-> k] : k \in scene.tokens}
           url == IF scene.swept THEN "url" ELSE ""
           rate == Number(IF scene.swept THEN 4 ELSE 0)
           swept == scene.swept
           rows == [i \in 1 .. Len(scene.nets) |-> Row(scene.nets[i])]
           s == [f EXCEPT !.on = on, !.tokens = tokens, !.scim = swept, !.sweep = swept, !.url = url,
                          !.rate = rate, !.nets = rows]
<1>1. /\ scene \in Scenes /\ on \in SUBSET Kinds /\ scene.tokens \in SUBSET Kinds /\ swept \in BOOLEAN
  BY SceneAssumption DEF Init
<1>2. /\ tokens \in SUBSET [n : Nat, kind : Kinds] /\ url \in {"", "url"}
      /\ rate \in [is : {"number", "option", "null", "undefined"}, n : Nat]
  BY <1>1 DEF Number
<1>3. db = [exists |-> TRUE, password |-> 0, agreed |-> TRUE, made |-> 1, service |-> s]
  BY DEF Init
<1>4. IsService(f)
  BY FreshType
<1> HIDE DEF f, on, tokens, url, rate, swept, rows
<1>5. IsService(s)
  BY <1>1, <1>2, <1>4 DEF IsService, ServiceOf
<1> HIDE DEF s
<1>6. IsDb(db) /\ db.service = s
  BY <1>3, <1>5 DEF IsDb
<1>7. IsPage(Empty(s)) /\ Empty(s).at = "closed"
  BY <1>5 DEF IsPage, PageOf, Empty, Texts
<1> DEFINE e == Empty(s)
           m == Mounts(e, s)
           o == [m EXCEPT !.at = "open", !.subscribed = TRUE]
<1>8. IsPage(o)
  <2>1. IsPage(m)
    BY <1>5, <1>7, MountsType DEF Mounted
  <2> HIDE DEF m
  <2> QED BY <2>1 DEF IsPage, PageOf
<1>9. page = [a \in Admins |-> IF a \in scene.opens THEN e ELSE o]
  BY <1>6 DEF Init
<1> HIDE DEF e, o
<1>10. ArePages(page)
  <2>1. IsPage(e) /\ IsPage(o)
    BY <1>7, <1>8 DEF e
  <2> QED BY <1>9, <2>1 DEF ArePages
<1>11. /\ AreCalls(net) /\ inbox \in [Admins -> Nat] /\ excuse \in SUBSET Admins
       /\ crossed \in SUBSET (Kinds \union {"address"})
  BY DEF Init, AreCalls
<1> QED BY <1>1, <1>6, <1>10, <1>11 DEF TypeInv

(* A service, its calls, the pages and their messages are what they are    *)
(* taken for, whatever the administrators and the handlers do.             *)
THEOREM TypeCorrect == Spec => []TypeInv
<1>1. Init => TypeInv
  BY TypeStart
<1>2. TypeInv /\ [Next]_vars => TypeInv'
  <2>1. CASE Next
    BY <2>1, TypeStays
  <2>2. CASE UNCHANGED vars
    BY <2>2 DEF vars, TypeInv
  <2> QED BY <2>1, <2>2
<1> QED BY <1>1, <1>2, PTL DEF Spec

-------------------------------------------------------------------------------
(* Tokens and their switches.  A token that is about to be stored without  *)
(* switching its kind on found it on, and it still is, or it is known to   *)
(* have been switched off in between.                                      *)
Storing(d) == d.op = "token" /\ d.status = "begun" /\ d.kind \in d.seen.on
TokensAwaited == \A d \in net : Storing(d) => d.kind \in db.service.on \union crossed
SwitchInv == TokensHaveTheirSwitch /\ TokensAwaited

LEMMA SwitchQuiet ==
  ASSUME SwitchInv, db'.service = db.service, crossed' = crossed,
         \A d \in net' : d \in net \/ ~Storing(d)
  PROVE  SwitchInv'
BY DEF SwitchInv, TokensHaveTheirSwitch, TokensAwaited, Storing

LEMMA SwitchStays ==
  ASSUME TypeInv, SwitchInv, Next
  PROVE  SwitchInv'
<1>1. ASSUME NEW a \in Admins, Turned(a)  PROVE SwitchInv'
  BY <1>1, SwitchQuiet DEF Turned, Asked, Storing
<1>2. ASSUME NEW a \in Admins, Receive(a)  PROVE SwitchInv'
  <2>1. \A d \in net' : d \in net \/ ~Storing(d)
    BY <1>2, ReadAsked DEF Receive, Sends, Storing
  <2> QED BY <1>2, <2>1, SwitchQuiet DEF Receive
<1>3. ASSUME NEW c \in net, Idles(c) \/ Reads(c)  PROVE SwitchInv'
  <2>1. \A d \in net' : d \in net \/ ~Storing(d)
    BY <1>3 DEF Idles, Reads, Replied, Storing
  <2>2. db'.service = db.service /\ crossed' = crossed
    BY <1>3 DEF Idles, Reads
  <2> QED BY <2>1, <2>2, SwitchQuiet
<1>4. ASSUME NEW c \in net, Announces(c)  PROVE SwitchInv'
  <2>1. PICK e : Replied(c, e) /\ e.seen = db.service
    BY <1>4 DEF Announces
  <2> QED BY <1>4, <2>1 DEF Announces, Replied, SwitchInv, TokensHaveTheirSwitch, TokensAwaited, Storing
<1>5. ASSUME NEW c \in net, Updates(c)  PROVE SwitchInv'
  <2> DEFINE on == db.service.on
             asked == c.service.on
             seen == c.seen.on
  <2>1. /\ db'.service.tokens = {t \in db.service.tokens : t.kind \in asked}
        /\ db'.service.on = {k \in Kinds : IF (k \in asked) = (k \in seen) THEN k \in on ELSE k \in asked}
    BY <1>5, CallsAre, WrittenType DEF Updates
  <2>2. crossed \subseteq crossed'
    BY <1>5 DEF Updates
  <2>3. TokensHaveTheirSwitch'
    <3> SUFFICES ASSUME NEW t \in db'.service.tokens  PROVE t.kind \in db'.service.on \union crossed'
      BY DEF TokensHaveTheirSwitch
    <3>1. t \in db.service.tokens /\ t.kind \in asked
      BY <2>1
    <3>2. t.kind \in Kinds
      <4>1. t \in [n : Nat, kind : Kinds]
        BY <3>1, DbFields, ServiceFields
      <4> QED BY <4>1
    <3>3. t.kind \in on \union crossed
      BY <3>1 DEF SwitchInv, TokensHaveTheirSwitch
    <3> HIDE DEF asked, on, seen
    <3> QED BY <2>1, <2>2, <3>1, <3>2, <3>3
  <2>4. TokensAwaited'
    <3> SUFFICES ASSUME NEW d \in net', Storing(d)  PROVE d.kind \in db'.service.on \union crossed'
      BY DEF TokensAwaited, Storing
    <3>1. d \in net /\ d.op = "token" /\ d.status = "begun" /\ d.kind \in d.seen.on
      BY <1>5 DEF Updates, Replied, Storing
    <3>2. ASSUME d.kind \notin db'.service.on  PROVE d.kind \in crossed'
      BY <1>5, <3>1, <3>2 DEF Updates
    <3> QED BY <3>2
  <2> QED BY <2>3, <2>4 DEF SwitchInv
<1>6. ASSUME NEW c \in net, Stores(c)  PROVE SwitchInv'
  <2> DEFINE on == db.service.on
  <2>1. PICK e : Replied(c, e) /\ e.status = "ok"
    BY <1>6 DEF Stores
  <2>2. on \subseteq db'.service.on /\ crossed' = crossed
    BY <1>6 DEF Stores
  <2>3. TokensAwaited'
    BY <2>1, <2>2 DEF Replied, SwitchInv, TokensAwaited, Storing
  <2>4. TokensHaveTheirSwitch'
    <3> SUFFICES ASSUME NEW t \in db'.service.tokens  PROVE t.kind \in db'.service.on \union crossed'
      BY DEF TokensHaveTheirSwitch
    <3>1. CASE t \in db.service.tokens
      BY <2>2, <3>1 DEF SwitchInv, TokensHaveTheirSwitch
    <3>2. CASE t \notin db.service.tokens
      <4>1. c.op = "token" /\ t = [n |-> db.made, kind |-> c.kind] /\ c.status = "begun"
            /\ db'.service.on = IF c.kind \in c.seen.on THEN on ELSE on \union {c.kind}
        BY <1>6, <3>2 DEF Stores
      <4>2. t.kind = c.kind
        BY <4>1
      <4>3. CASE c.kind \in c.seen.on
        BY <2>2, <4>1, <4>2, <4>3 DEF SwitchInv, TokensAwaited, Storing
      <4>4. CASE c.kind \notin c.seen.on
        BY <4>1, <4>2, <4>4
      <4> QED BY <4>3, <4>4
    <3> QED BY <3>1, <3>2
  <2> QED BY <2>3, <2>4 DEF SwitchInv
<1>7. ASSUME NEW c \in net, Notes(c) \/ Loads(c)  PROVE SwitchInv'
  <2>1. PICK p, cs : Takes(c, p, cs)
    BY <1>7 DEF Notes, Loads
  <2>2. \A d \in net' : d \in net \/ ~Storing(d)
    BY <2>1 DEF Takes, Asked, Storing
  <2> QED BY <2>1, <2>2, SwitchQuiet DEF Takes
<1> QED BY <1>1, <1>2, <1>3, <1>4, <1>5, <1>6, <1>7, StepKinds

(* A token of a service can be used, unless its kind was switched off while*)
(* it was being stored.                                                    *)
THEOREM TokensCanBeUsed == Spec => []TokensHaveTheirSwitch
<1>1. Init => SwitchInv
  <2> SUFFICES ASSUME Init  PROVE SwitchInv
    OBVIOUS
  <2>1. scene.tokens \subseteq scene.on
    BY TokensAssumption DEF Init
  <2>2. db.service.tokens = {[n |-> 0, kind |-> k] : k \in scene.tokens} /\ db.service.on = scene.on
    <3> DEFINE f == Fresh
               on == scene.on
               tokens == {[n |-> 0, kind |-> k] : k \in scene.tokens}
               url == IF scene.swept THEN "url" ELSE ""
               rate == Number(IF scene.swept THEN 4 ELSE 0)
               swept == scene.swept
               rows == [i \in 1 .. Len(scene.nets) |-> Row(scene.nets[i])]
               s == [f EXCEPT !.on = on, !.tokens = tokens, !.scim = swept, !.sweep = swept, !.url = url,
                              !.rate = rate, !.nets = rows]
    <3>1. db.service = s
      BY DEF Init
    <3>2. IsService(f)
      BY FreshType
    <3> HIDE DEF f, on, tokens, url, rate, swept, rows
    <3>3. s.tokens = tokens /\ s.on = on
      BY <3>2 DEF IsService, ServiceOf
    <3> QED BY <3>1, <3>3 DEF tokens, on
  <2>3. \A t \in db.service.tokens : t.kind \in scene.tokens
    BY <2>2
  <2>4. TokensHaveTheirSwitch
    BY <2>1, <2>2, <2>3 DEF TokensHaveTheirSwitch
  <2>5. net = {}
    BY DEF Init
  <2> QED BY <2>4, <2>5 DEF SwitchInv, TokensAwaited
<1>2. TypeInv /\ SwitchInv /\ [Next]_vars => SwitchInv'
  <2>1. CASE Next
    BY <2>1, SwitchStays
  <2>2. CASE UNCHANGED vars
    BY <2>2 DEF vars, SwitchInv, TokensHaveTheirSwitch, TokensAwaited, Storing
  <2> QED BY <2>1, <2>2
<1>3. SwitchInv => TokensHaveTheirSwitch
  BY DEF SwitchInv
<1> QED BY <1>1, <1>2, <1>3, TypeCorrect, PTL DEF Spec

-------------------------------------------------------------------------------
(* Warnings.  An update on its way was confirmed, or was sent from a draft *)
(* without a token whose kind is off.                                      *)
WarnInv == \A d \in net : d.op = "update" => Warned(d) \/ d.status \in {"ok", "failed"}

LEMMA WarnStays ==
  ASSUME TypeInv, WarnInv, Next
  PROVE  WarnInv'
<1>1. ASSUME NEW a \in Admins, Turned(a)  PROVE WarnInv'
  BY <1>1 DEF Turned, Asked, WarnInv
<1>2. ASSUME NEW a \in Admins, Receive(a)  PROVE WarnInv'
  BY <1>2, ReadAsked DEF Receive, Sends, WarnInv
<1>3. ASSUME NEW c \in net, Idles(c) \/ Reads(c) \/ Announces(c) \/ Updates(c) \/ Stores(c)  PROVE WarnInv'
  <2>1. PICK d : /\ Replied(c, d)
                 /\ d.op = "update" => \/ d.status \in {"ok", "failed"}
                                       \/ (c.status = "sent" /\ (Warned(c) => Warned(d)))
    <3>1. CASE Idles(c)
      <4>1. PICK d : /\ Replied(c, d) /\ d.status # "sent"
                     /\ d.status = "begun" => c.status = "sent" /\ (Warned(c) => Warned(d))
        BY <3>1 DEF Idles
      <4>2. d.status \in Statuses
        BY <4>1, CallFields DEF Replied
      <4> QED BY <4>1, <4>2 DEF Statuses
    <3>2. CASE Reads(c) \/ Announces(c) \/ Updates(c) \/ Stores(c)
      BY <3>2 DEF Reads, Announces, Updates, Stores
    <3> QED BY <1>3, <3>1, <3>2
  <2> QED BY <2>1 DEF Replied, WarnInv
<1>4. ASSUME NEW c \in net, Notes(c) \/ Loads(c)  PROVE WarnInv'
  <2>1. PICK p, cs : Takes(c, p, cs)
    BY <1>4 DEF Notes, Loads
  <2> QED BY <2>1 DEF Takes, Asked, WarnInv
<1> QED BY <1>1, <1>2, <1>3, <1>4, StepKinds

LEMMA WarnInvariant == Spec => []WarnInv
<1>1. Init => WarnInv
  BY DEF Init, WarnInv
<1>2. TypeInv /\ WarnInv /\ [Next]_vars => WarnInv'
  <2>1. CASE Next
    BY <2>1, WarnStays
  <2>2. CASE UNCHANGED vars
    BY <2>2 DEF vars, WarnInv
  <2> QED BY <2>1, <2>2
<1> QED BY <1>1, <1>2, TypeCorrect, PTL DEF Spec

(* A token goes because it was removed by name, or because an update that  *)
(* was confirmed, or was made without seeing it, switches its kind off.    *)
Expected ==
  \A t \in db.service.tokens \ db'.service.tokens :
    \E c \in net \ net' :
      \/ c.op = "deleteToken" /\ c.token = t.n
      \/ c.op = "update" /\ (c.warned \/ t \notin c.service.tokens)
THEOREM TokensAreWarnedOf == Spec => TokensGoWithAWarning
<1>1. TypeInv /\ WarnInv /\ Next => Expected
  <2> SUFFICES ASSUME TypeInv, WarnInv, Next  PROVE Expected
    OBVIOUS
  <2>1. ASSUME db'.service = db.service  PROVE Expected
    BY <2>1 DEF Expected
  <2>2. ASSUME NEW c \in net, Updates(c)  PROVE Expected
    <3>1. c.op = "update" /\ c.status = "begun" /\ Warned(c)
      BY <2>2 DEF Updates, WarnInv
    <3>2. c \notin net'
      BY <2>2, <3>1 DEF Updates, Replied
    <3>3. db'.service.tokens = {t \in db.service.tokens : t.kind \in c.service.on}
      BY <2>2, CallsAre, WrittenType DEF Updates
    <3> SUFFICES ASSUME NEW t \in db.service.tokens \ db'.service.tokens
                 PROVE  c.warned \/ t \notin c.service.tokens
      BY <3>1, <3>2 DEF Expected
    <3> QED BY <3>1, <3>3 DEF Warned, Disabled
  <2>3. ASSUME NEW c \in net, Stores(c)  PROVE Expected
    <3>1. c.status = "begun" /\ c \notin net'
      BY <2>3 DEF Stores, Replied
    <3> SUFFICES ASSUME NEW t \in db.service.tokens \ db'.service.tokens
                 PROVE  c.op = "deleteToken" /\ c.token = t.n
      BY <3>1 DEF Expected
    <3> QED BY <2>3 DEF Stores
  <2>4. ASSUME NEW a \in Admins, Turned(a) \/ Receive(a)  PROVE db' = db
    BY <2>4 DEF Turned, Receive
  <2>5. ASSUME NEW c \in net, Idles(c) \/ Reads(c) \/ Announces(c) \/ Notes(c) \/ Loads(c)
        PROVE  db'.service = db.service
    BY <2>5 DEF Idles, Reads, Announces, Notes, Loads, Takes
  <2> QED BY <2>1, <2>2, <2>3, <2>4, <2>5, StepKinds
<1>2. TypeInv /\ WarnInv /\ [Next]_vars => [Expected]_vars
  BY <1>1
<1>3. TokensGoWithAWarning <=> [][Expected]_vars
  BY DEF TokensGoWithAWarning, Expected
<1> QED BY <1>2, <1>3, TypeCorrect, WarnInvariant, PTL DEF Spec

-------------------------------------------------------------------------------
(* Spinners.  What a page waits for is a call of its own that has not been *)
(* heard: an update, the end of a token, of the agreements or the service. *)
Spins(a, cs) == \E c \in cs : c.by = a /\ c.op \in Spinning
SpinInv == \A a \in Admins : Waiting(page[a]) => Spins(a, net)

(* A call that is answered remains a call.                                 *)
LEMMA RepliedSpins ==
  ASSUME NEW c \in net, NEW d, Replied(c, d), NEW a, Spins(a, net)
  PROVE  Spins(a, net')
BY DEF Spins, Replied

LEMMA SpinStays ==
  ASSUME TypeInv, SpinInv, Next
  PROVE  SpinInv'
<1>1. ASSUME NEW a \in Admins, Turned(a)  PROVE SpinInv'
  <2>1. PICK q : Turn(a, q) /\ page' = [page EXCEPT ![a] = q]
    BY <1>1 DEF Turned
  <2>2. page'[a] = q /\ \A b \in Admins : b # a => page'[b] = page[b]
    BY <2>1, Replaced
  <2>3. net \subseteq net'
    BY <1>1 DEF Turned
  <2>4. Waiting(q) => Spins(a, net')
    BY <2>1, <2>3 DEF Turn, SpinInv, Spins
  <2> SUFFICES ASSUME NEW b \in Admins, Waiting(page'[b])  PROVE Spins(b, net')
    BY DEF SpinInv, Spins, Waiting
  <2>5. CASE b = a
    BY <2>2, <2>4, <2>5
  <2>6. CASE b # a
    BY <2>2, <2>3, <2>6 DEF SpinInv, Spins
  <2> QED BY <2>5, <2>6
<1>2. ASSUME NEW a \in Admins, Receive(a)  PROVE SpinInv'
  BY <1>2 DEF Receive, Sends, SpinInv, Spins, Waiting
<1>3. ASSUME NEW c \in net, Idles(c) \/ Reads(c) \/ Announces(c) \/ Updates(c) \/ Stores(c)  PROVE SpinInv'
  <2>1. PICK d : Replied(c, d)
    BY <1>3 DEF Idles, Reads, Announces, Updates, Stores
  <2>2. page' = page
    BY <2>1 DEF Replied
  <2>3. \A a : Spins(a, net) => Spins(a, net')
    BY <2>1, RepliedSpins
  <2> QED BY <2>2, <2>3 DEF SpinInv, Spins, Waiting
<1>4. ASSUME NEW c \in net, Notes(c) \/ Loads(c)  PROVE SpinInv'
  <2>1. PICK p, cs : /\ Takes(c, p, cs)
                     /\ Waiting(p) => Waiting(page[c.by]) /\ c.op \notin Spinning
    BY <1>4 DEF Notes, Loads, Waiting
  <2>2. c.by \in Admins /\ page' = [page EXCEPT ![c.by] = p] /\ net' = (net \ {c}) \union cs
    BY <2>1, CallsAre DEF Takes
  <2>3. page'[c.by] = p /\ \A b \in Admins : b # c.by => page'[b] = page[b]
    BY <2>2, Replaced
  <2> SUFFICES ASSUME NEW b \in Admins, Waiting(page'[b])  PROVE Spins(b, net')
    BY DEF SpinInv, Spins, Waiting
  <2>4. Waiting(page[b]) /\ (b = c.by => c.op \notin Spinning)
    BY <2>1, <2>3
  <2>5. PICK e \in net : e.by = b /\ e.op \in Spinning
    BY <2>4 DEF SpinInv, Spins
  <2>6. e # c
    BY <2>4, <2>5
  <2> QED BY <2>2, <2>5, <2>6 DEF Spins
<1> QED BY <1>1, <1>2, <1>3, <1>4, StepKinds

(* What Init makes of a page.                                              *)
LEMMA PageStart ==
  ASSUME Init, NEW a \in Admins
  PROVE  /\ page[a].at \in {"closed", "open"} /\ (page[a].at = "open" => page[a].subscribed)
         /\ page[a].shown = db.service /\ ~page[a].busy
         /\ page[a].draft.mail = db.service.mail /\ page[a].draft.policy = db.service.policy
         /\ Address(page[a].draft) = Address(db.service) /\ ~page[a].checking
         /\ \A f \in page[a].invalid : db.service[f] = "bad"
<1> DEFINE s == db.service
           e == Empty(s)
           m == Mounts(e, s)
           o == [m EXCEPT !.at = "open", !.subscribed = TRUE]
<1>1. IsService(s)
  BY TypeStart, DbFields
<1>2. page[a] = IF a \in scene.opens THEN e ELSE o
  BY DEF Init
<1> HIDE DEF s
<1>3. /\ IsPage(e) /\ e.shown = s /\ e.at = "closed" /\ ~e.busy
      /\ e.draft = s /\ e.invalid = {} /\ ~e.checking
  BY <1>1 DEF IsPage, PageOf, Empty, Texts
<1>4. Mounted(m, e, s)
  BY <1>1, <1>3, MountsType
<1> HIDE DEF m
<1>5. /\ o.at = "open" /\ o.subscribed /\ o.shown = s /\ ~o.busy
      /\ o.draft = m.draft /\ o.invalid = m.invalid /\ o.checking = m.checking
  BY <1>4 DEF Mounted, IsPage, PageOf
<1> HIDE DEF e, o
<1>6. CASE a \in scene.opens
  BY <1>2, <1>3, <1>6 DEF s
<1>7. CASE a \notin scene.opens
  <2>1. Filled(e, m, s)
    BY <1>4 DEF Mounted
  <2> QED BY <1>2, <1>3, <1>5, <1>7, <2>1 DEF s, Filled
<1> QED BY <1>6, <1>7

(* A page shows its spinner only with a call of its own under way, unless  *)
(* an error has come that it does not handle or the page is left.          *)
THEOREM SpinnersWait == Spec => []WaitsForSomething
<1>1. Init => SpinInv
  BY PageStart DEF SpinInv, Waiting
<1>2. TypeInv /\ SpinInv /\ [Next]_vars => SpinInv'
  <2>1. CASE Next
    BY <2>1, SpinStays
  <2>2. CASE UNCHANGED vars
    BY <2>2 DEF vars, SpinInv, Spins, Waiting
  <2> QED BY <2>1, <2>2
<1>3. SpinInv => WaitsForSomething
  BY DEF SpinInv, Spins, Waiting, WaitsForSomething
<1> QED BY <1>1, <1>2, <1>3, TypeCorrect, PTL DEF Spec

-------------------------------------------------------------------------------
(* Pages.  Each has the service as it is, or something that will bring it: *)
(* a message, a read that has not been served or has it, a change of its   *)
(* own that ends in a read.  Of a change that is told of and not committed *)
(* every other page has still to read.                                     *)
Live(p) == p.at \in {"open", "loading"}
ListensInv ==
  \A a \in Admins : /\ page[a].at = "open" => page[a].subscribed
                    /\ inbox[a] > 0 => page[a].at \in {"open", "gone"}
AsOf(s, t) == s.n <= t.n /\ (s.n = t.n => s = t)
NumbersTell ==
  /\ \A a \in Admins : AsOf(page[a].shown, db.service)
  /\ \A c \in net : c.op = "read" /\ c.status = "ok" => AsOf(c.service, db.service)
Changes == {"update", "token", "deleteToken"}
Will(a, c, service) ==
  /\ c.by = a
  /\ \/ c.op = "read" /\ (c.status = "sent" \/ (c.status = "ok" /\ c.service = service))
     \/ c.op \in Changes /\ c.status = "ok"
Willing(a, cs, service) == \E c \in cs : Will(a, c, service)
Hopes(a) == a \in excuse \/ page[a].shown = db.service \/ inbox[a] > 0 \/ Willing(a, net, db.service)
Told(a) == a \in excuse \/ inbox[a] > 0 \/ Reading(a, net)
PagesCurrent == \A a \in Admins : Live(page[a]) /\ db.exists => Hopes(a)
TornAreTold == \A d \in Torn, a \in Admins : a # d.by /\ Live(page[a]) /\ db.exists => Told(a)
CatchInv == ListensInv /\ NumbersTell /\ PagesCurrent /\ TornAreTold

(* What is read later is numbered higher, and nothing else is said of a    *)
(* service but what is stored.                                             *)
LEMMA NumbersStay ==
  ASSUME TypeInv, NumbersTell, Next
  PROVE  NumbersTell'
<1>1. ASSUME IsService(db'.service), \/ db'.service = db.service
                                     \/ db'.service.n = db.service.n + 1,
             NEW s, IsService(s), AsOf(s, db.service)
      PROVE  AsOf(s, db'.service)
  <2>1. s.n \in Nat /\ db.service.n \in Nat
    BY <1>1, DbFields, ServiceFields
  <2>2. CASE db'.service = db.service
    BY <1>1, <2>2
  <2>3. CASE db'.service.n = db.service.n + 1
    BY <1>1, <2>1, <2>3 DEF AsOf
  <2> QED BY <1>1, <2>2, <2>3
<1>2. IsService(db'.service)
  BY TypeStays DEF TypeInv, IsDb
<1>3. \A a \in Admins : IsService(page[a].shown) /\ AsOf(page[a].shown, db.service)
  BY PagesAre DEF NumbersTell
<1>4. \A c \in net : IsService(c.service) /\ (c.op = "read" /\ c.status = "ok" => AsOf(c.service, db.service))
  BY CallsAre DEF NumbersTell
<1> DEFINE Kept == /\ \A a \in Admins : page'[a].shown = page[a].shown
                   /\ \A c \in net' : c.op = "read" /\ c.status = "ok" => c \in net
<1>5. ASSUME Kept, db'.service = db.service \/ db'.service.n = db.service.n + 1
      PROVE  NumbersTell'
  <2>1. \A a \in Admins : AsOf(page'[a].shown, db'.service)
    BY <1>1, <1>2, <1>3, <1>5
  <2>2. \A c \in net' : c.op = "read" /\ c.status = "ok" => AsOf(c.service, db'.service)
    BY <1>1, <1>2, <1>4, <1>5
  <2> QED BY <2>1, <2>2 DEF NumbersTell
<1>6. ASSUME NEW a \in Admins, Turned(a)  PROVE NumbersTell'
  <2>1. PICK q : Turn(a, q) /\ page' = [page EXCEPT ![a] = q]
    BY <1>6 DEF Turned
  <2>2. \A b \in Admins : page'[b].shown = page[b].shown
    BY <2>1, Replaced DEF Turn
  <2>3. \A c \in net' : c.op = "read" /\ c.status = "ok" => c \in net
    BY <1>6 DEF Turned, Asked
  <2> QED BY <1>5, <1>6, <2>2, <2>3 DEF Turned
<1>7. ASSUME NEW a \in Admins, Receive(a)  PROVE NumbersTell'
  <2>1. \A c \in net' : c.op = "read" /\ c.status = "ok" => c \in net
    BY <1>7, ReadAsked DEF Receive, Sends
  <2> QED BY <1>5, <1>7, <2>1 DEF Receive
<1>8. ASSUME NEW c \in net, Idles(c) \/ Announces(c) \/ Updates(c) \/ Stores(c)  PROVE NumbersTell'
  <2>1. PICK d : Replied(c, d) /\ (d.op = "read" => d.status # "ok")
    BY <1>8 DEF Idles, Announces, Updates, Stores, Replied
  <2>2. Kept
    BY <2>1 DEF Replied
  <2>3. db'.service = db.service \/ db'.service.n = db.service.n + 1
    BY <1>8, CallsAre, WrittenType DEF Idles, Announces, Updates, Stores
  <2> QED BY <1>5, <2>2, <2>3
<1>9. ASSUME NEW c \in net, Reads(c)  PROVE NumbersTell'
  <2>1. PICK d : Replied(c, d) /\ d.service = db.service
    BY <1>9 DEF Reads
  <2>2. db' = db /\ page' = page /\ net' = (net \ {c}) \union {d}
    BY <1>9, <2>1 DEF Reads, Replied
  <2>3. AsOf(d.service, db.service)
    <3>1. db.service.n \in Nat
      BY DbFields, ServiceFields
    <3> DEFINE s == db.service
    <3> HIDE DEF s
    <3>2. AsOf(s, s)
      BY <3>1 DEF AsOf, s
    <3> QED BY <2>1, <3>2 DEF s
  <2> QED BY <2>2, <2>3 DEF NumbersTell
<1>10. ASSUME NEW c \in net, Notes(c)  PROVE NumbersTell'
  <2>1. PICK p, cs : Takes(c, p, cs) /\ p.shown = page[c.by].shown
    BY <1>10 DEF Notes
  <2>2. \A b \in Admins : page'[b].shown = page[b].shown
    BY <2>1, Replaced, CallsAre DEF Takes
  <2>3. \A e \in net' : e.op = "read" /\ e.status = "ok" => e \in net
    BY <2>1 DEF Takes, Asked
  <2> QED BY <1>5, <2>1, <2>2, <2>3 DEF Takes
<1>11. ASSUME NEW c \in net, Loads(c)  PROVE NumbersTell'
  <2>1. PICK p, cs : Takes(c, p, cs) /\ p.shown = c.service
    BY <1>11 DEF Loads
  <2>2. page'[c.by].shown = c.service /\ \A b \in Admins : b # c.by => page'[b] = page[b]
    BY <2>1, Replaced, CallsAre DEF Takes
  <2>3. \A e \in net' : e.op = "read" /\ e.status = "ok" => e \in net
    BY <2>1 DEF Takes, Asked
  <2>4. db' = db /\ AsOf(c.service, db.service)
    BY <1>4, <1>11, <2>1 DEF Takes, Loads
  <2>5. \A b \in Admins : AsOf(page'[b].shown, db.service)
    BY <1>3, <2>2, <2>4
  <2> QED BY <1>4, <2>3, <2>4, <2>5 DEF NumbersTell
<1> QED BY <1>6, <1>7, <1>8, <1>9, <1>10, <1>11, StepKinds

LEMMA ListensStays ==
  ASSUME TypeInv, ListensInv, Next
  PROVE  ListensInv'
<1>1. \A a \in Admins : inbox[a] \in Nat
  BY DEF TypeInv
<1>2. ASSUME NEW a \in Admins, Turned(a)  PROVE ListensInv'
  <2>1. PICK q : Turn(a, q) /\ page' = [page EXCEPT ![a] = q]
    BY <1>2 DEF Turned
  <2>2. page'[a] = q /\ (\A b \in Admins : b # a => page'[b] = page[b]) /\ inbox' = inbox
    BY <1>2, <2>1, Replaced DEF Turned
  <2> QED BY <2>1, <2>2 DEF Turn, ListensInv
<1>3. ASSUME NEW a \in Admins, Receive(a)  PROVE ListensInv'
  <2>1. \A b \in Admins : inbox'[b] > 0 => inbox[b] > 0
    BY <1>1, <1>3 DEF Receive, TypeInv
  <2> QED BY <1>3, <2>1 DEF Receive, ListensInv
<1>4. ASSUME NEW c \in net, Idles(c) \/ Reads(c) \/ Stores(c)  PROVE ListensInv'
  BY <1>4 DEF Idles, Reads, Stores, Replied, ListensInv
<1>5. ASSUME NEW c \in net, Announces(c) \/ Updates(c)  PROVE ListensInv'
  <2>1. page' = page
    BY <1>5 DEF Announces, Updates, Replied
  <2>2. \A a \in Admins : inbox'[a] = IF a # c.by /\ page[a].at = "open" /\ page[a].subscribed
                                       THEN inbox[a] + 1 ELSE inbox[a]
    BY <1>5, TellsType DEF Announces, Updates
  <2> QED BY <2>1, <2>2 DEF ListensInv
<1>6. ASSUME NEW c \in net, Notes(c) \/ Loads(c)  PROVE ListensInv'
  <2>1. PICK p, cs : /\ Takes(c, p, cs)
                     /\ \/ p.at = "gone"
                        \/ p.at = page[c.by].at /\ p.subscribed = page[c.by].subscribed
                        \/ p.at = "open" /\ p.subscribed
    BY <1>6 DEF Notes, Loads
  <2>2. /\ page'[c.by] = p /\ (\A b \in Admins : b # c.by => page'[b] = page[b]) /\ inbox' = inbox
        /\ c.by \in Admins
    BY <2>1, Replaced, CallsAre DEF Takes
  <2> QED BY <2>1, <2>2 DEF ListensInv
<1> QED BY <1>2, <1>3, <1>4, <1>5, <1>6, StepKinds

LEMMA ReadsAreHope ==
  ASSUME NEW a, Reading(a, net')
  PROVE  Hopes(a)' /\ Told(a)'
BY DEF Reading, Hopes, Told, Willing, Will

(* A page keeps what it has to hope for: what it knew of stays known, and  *)
(* a call is replaced by one that serves it.                               *)
Stays(a) ==
  /\ page'[a].shown = page[a].shown /\ (Live(page'[a]) => Live(page[a])) /\ (db'.exists => db.exists)
  /\ (a \in excuse => a \in excuse') /\ (inbox[a] > 0 => inbox'[a] > 0)
LEMMA HopeStays ==
  ASSUME NEW a \in Admins, PagesCurrent, Stays(a), db'.service = db.service, Live(page'[a]), db'.exists,
         \A c \in net : Will(a, c, db.service) => Willing(a, net', db.service)
  PROVE  Hopes(a)'
<1>1. Hopes(a)
  BY DEF PagesCurrent, Stays
<1>2. Willing(a, net, db.service) => Willing(a, net', db.service)
  BY DEF Willing
<1>3. Hopes(a)' = (a \in excuse' \/ page'[a].shown = db'.service \/ inbox'[a] > 0 \/ Willing(a, net', db'.service))
  BY DEF Hopes, Willing, Will
<1> QED BY <1>1, <1>2, <1>3 DEF Hopes, Stays

(* Of an earlier change a page stays told, unless its read has been served.*)
LEMMA ToldStays ==
  ASSUME NEW a \in Admins, NEW d \in Torn, a # d.by, TornAreTold, Live(page[a]), db.exists,
         a \in excuse => a \in excuse', inbox[a] > 0 => inbox'[a] > 0,
         Reading(a, net) => Reading(a, net') \/ a \in excuse'
  PROVE  Told(a)'
<1>1. Told(a)
  BY DEF TornAreTold
<1>2. Told(a)' = (a \in excuse' \/ inbox'[a] > 0 \/ Reading(a, net'))
  BY DEF Told, Reading
<1> QED BY <1>1, <1>2 DEF Told

LEMMA TurnedCatches ==
  ASSUME TypeInv, CatchInv, NEW b \in Admins, Turned(b)
  PROVE  PagesCurrent' /\ TornAreTold'
<1>1. PICK q : Turn(b, q) /\ page' = [page EXCEPT ![b] = q]
  BY DEF Turned
<1>2. page'[b] = q /\ \A a \in Admins : a # b => page'[a] = page[a]
  BY <1>1, Replaced
<1>3. net \subseteq net' /\ Torn' \subseteq Torn
  BY DEF Turned, Asked, Torn
<1>4. UNCHANGED <<db, inbox, excuse>>
  BY DEF Turned
<1>5. ASSUME NEW a \in Admins, Live(page'[a])
      PROVE  (Live(page[a]) /\ Stays(a)) \/ Reading(a, net')
  <2>1. CASE a # b
    BY <1>2, <1>4, <1>5, <2>1 DEF Stays
  <2>2. CASE a = b /\ q.at = page[b].at
    BY <1>1, <1>2, <1>4, <1>5, <2>2 DEF Stays, Turn, Live
  <2>3. CASE a = b /\ q.at # page[b].at
    BY <1>1, <2>3 DEF Turn
  <2> QED BY <2>1, <2>2, <2>3
<1>6. PagesCurrent'
  <2> SUFFICES ASSUME NEW a \in Admins, Live(page'[a]), db'.exists  PROVE Hopes(a)'
    BY DEF PagesCurrent, Live
  <2>1. \A c \in net : Will(a, c, db.service) => Willing(a, net', db.service)
    BY <1>3 DEF Willing
  <2> QED BY <1>4, <1>5, <2>1, HopeStays, ReadsAreHope DEF CatchInv
<1>7. TornAreTold'
  <2> SUFFICES ASSUME NEW d \in Torn', NEW a \in Admins, a # d.by, Live(page'[a]), db'.exists  PROVE Told(a)'
    BY DEF TornAreTold, Live
  <2>1. Reading(a, net) => Reading(a, net')
    BY <1>3 DEF Reading
  <2> QED BY <1>3, <1>4, <1>5, <2>1, ToldStays, ReadsAreHope DEF CatchInv
<1> QED BY <1>6, <1>7

LEMMA ReceiveCatches ==
  ASSUME TypeInv, CatchInv, NEW b \in Admins, Receive(b)
  PROVE  PagesCurrent' /\ TornAreTold'
<1>1. UNCHANGED <<db, page, excuse>> /\ inbox[b] > 0 /\ inbox' = [inbox EXCEPT ![b] = @ - 1]
  BY DEF Receive
<1>2. net \subseteq net' /\ Torn' \subseteq Torn
  BY ReadAsked DEF Receive, Sends, Torn
<1>3. Live(page[b]) => Reading(b, net')
  BY <1>1, ReadAsked DEF Receive, Sends, Live, CatchInv, ListensInv, Reading, Asked
<1>4. ASSUME NEW a \in Admins, Live(page[a])
      PROVE  Stays(a) \/ Reading(a, net')
  <2>1. CASE a = b
    BY <1>3, <1>4, <2>1
  <2>2. CASE a # b
    <3>1. inbox'[a] = inbox[a]
      BY <1>1, <2>2 DEF TypeInv
    <3> QED BY <1>1, <1>4, <3>1 DEF Stays
  <2> QED BY <2>1, <2>2
<1>5. PagesCurrent'
  <2> SUFFICES ASSUME NEW a \in Admins, Live(page'[a]), db'.exists  PROVE Hopes(a)'
    BY DEF PagesCurrent, Live
  <2>1. \A c \in net : Will(a, c, db.service) => Willing(a, net', db.service)
    BY <1>2 DEF Willing
  <2> QED BY <1>1, <1>4, <2>1, HopeStays, ReadsAreHope DEF CatchInv
<1>6. TornAreTold'
  <2> SUFFICES ASSUME NEW d \in Torn', NEW a \in Admins, a # d.by, Live(page'[a]), db'.exists  PROVE Told(a)'
    BY DEF TornAreTold, Live
  <2>1. Reading(a, net) => Reading(a, net')
    BY <1>2 DEF Reading
  <2> QED BY <1>1, <1>2, <1>4, <2>1, ToldStays, ReadsAreHope DEF CatchInv, Stays
<1> QED BY <1>5, <1>6

(* A call that is answered: the others of its page's calls are still there.*)
LEMMA RepliedKeeps ==
  ASSUME NEW c \in net, NEW d, Replied(c, d), NEW a, NEW s
  PROVE  /\ \A e \in net : Will(a, e, s) => e = c \/ Willing(a, net', s)
         /\ Reading(a, net) => Reading(a, net') \/ (c.by = a /\ c.op = "read" /\ c.status = "sent")
BY DEF Replied, Willing, Reading

LEMMA IdleCatches ==
  ASSUME TypeInv, CatchInv, NEW c \in net, Idles(c)
  PROVE  PagesCurrent' /\ TornAreTold'
<1>1. PICK d : /\ Replied(c, d) /\ (d.op = "read" => ~db.exists)
               /\ d.status = "begun" => d.op = "update"
  BY DEF Idles
<1>2. /\ page' = page /\ db'.service = db.service /\ (db'.exists => db.exists) /\ c.status # "ok"
      /\ UNCHANGED <<inbox, excuse>> /\ (c.op = "read" => ~db.exists)
  BY <1>1 DEF Idles, Replied
<1>3. Torn' \subseteq Torn
  BY <1>1 DEF Replied, Torn
<1>4. PagesCurrent'
  <2> SUFFICES ASSUME NEW a \in Admins, Live(page'[a]), db'.exists  PROVE Hopes(a)'
    BY DEF PagesCurrent, Live
  <2>1. \A e \in net : Will(a, e, db.service) => Willing(a, net', db.service)
    BY <1>1, <1>2, RepliedKeeps DEF Will
  <2> QED BY <1>2, <2>1, HopeStays DEF CatchInv, Stays
<1>5. TornAreTold'
  <2> SUFFICES ASSUME NEW d2 \in Torn', NEW a \in Admins, a # d2.by, Live(page'[a]), db'.exists  PROVE Told(a)'
    BY DEF TornAreTold, Live
  <2>1. Reading(a, net) => Reading(a, net')
    BY <1>1, <1>2, RepliedKeeps
  <2> QED BY <1>2, <1>3, <2>1, ToldStays DEF CatchInv
<1> QED BY <1>4, <1>5

(* What has been read is the service, but perhaps not what it was told of. *)
LEMMA ReadCatches ==
  ASSUME TypeInv, CatchInv, NEW c \in net, Reads(c)
  PROVE  PagesCurrent' /\ TornAreTold'
<1>1. PICK d : Replied(c, d) /\ d.op = "read" /\ d.status = "ok" /\ d.service = db.service
  BY DEF Reads
<1>2. /\ page' = page /\ UNCHANGED <<db, inbox>> /\ excuse \subseteq excuse' /\ c.by = d.by /\ c.op = "read"
      /\ d \in net' /\ (Torn # {} => c.by \in excuse')
  BY <1>1 DEF Reads, Replied
<1>3. Torn' \subseteq Torn
  BY <1>1 DEF Replied, Torn
<1>4. PagesCurrent'
  <2> SUFFICES ASSUME NEW a \in Admins, Live(page'[a]), db'.exists  PROVE Hopes(a)'
    BY DEF PagesCurrent, Live
  <2>1. Will(a, c, db.service) => Willing(a, net', db.service)
    BY <1>1, <1>2 DEF Will, Willing
  <2>2. \A e \in net : Will(a, e, db.service) => Willing(a, net', db.service)
    BY <1>1, <2>1, RepliedKeeps
  <2> QED BY <1>2, <2>2, HopeStays DEF CatchInv, Stays
<1>5. TornAreTold'
  <2> SUFFICES ASSUME NEW d2 \in Torn', NEW a \in Admins, a # d2.by, Live(page'[a]), db'.exists  PROVE Told(a)'
    BY DEF TornAreTold, Live
  <2>1. Reading(a, net) => Reading(a, net') \/ a \in excuse'
    BY <1>1, <1>2, <1>3, RepliedKeeps
  <2> QED BY <1>2, <1>3, <2>1, ToldStays DEF CatchInv
<1> QED BY <1>4, <1>5

(* Who is told of a change: every other page that is open has a message,   *)
(* and one that is loading is known not to listen.                         *)
LEMMA AllAreTold ==
  ASSUME TypeInv, ListensInv, NEW c \in net, Tells(c), excuse' = excuse \union Unheard(c),
         NEW a \in Admins
  PROVE  /\ a # c.by /\ Live(page[a]) => a \in excuse' \/ inbox'[a] > 0
         /\ a \in excuse => a \in excuse'
         /\ inbox[a] > 0 => inbox'[a] > 0
<1>1. inbox[a] \in Nat
  BY DEF TypeInv
<1>2. inbox'[a] = IF a # c.by /\ page[a].at = "open" /\ page[a].subscribed THEN inbox[a] + 1 ELSE inbox[a]
  BY TellsType
<1>3. page[a].at = "open" => page[a].subscribed
  BY DEF ListensInv
<1>4. a # c.by /\ page[a].at = "loading" => a \in excuse'
  BY DEF Unheard
<1> QED BY <1>1, <1>2, <1>3, <1>4 DEF Live

LEMMA AnnounceCatches ==
  ASSUME TypeInv, CatchInv, NEW c \in net, Announces(c)
  PROVE  PagesCurrent' /\ TornAreTold'
<1>1. PICK d : Replied(c, d) /\ d.op \in {"token", "deleteToken"}
  BY DEF Announces
<1>2. /\ page' = page /\ db' = db /\ c.status # "ok" /\ c.op # "read" /\ c.by = d.by
      /\ Tells(c) /\ excuse' = excuse \union Unheard(c)
  BY <1>1 DEF Announces, Replied
<1>3. Torn' \subseteq Torn \union {d}
  BY <1>1 DEF Replied, Torn
<1>4. \A a \in Admins : /\ a # c.by /\ Live(page[a]) => a \in excuse' \/ inbox'[a] > 0
                        /\ a \in excuse => a \in excuse'
                        /\ inbox[a] > 0 => inbox'[a] > 0
  BY <1>2, AllAreTold DEF CatchInv
<1>5. PagesCurrent'
  <2> SUFFICES ASSUME NEW a \in Admins, Live(page'[a]), db'.exists  PROVE Hopes(a)'
    BY DEF PagesCurrent, Live
  <2>1. \A e \in net : Will(a, e, db.service) => Willing(a, net', db.service)
    BY <1>1, <1>2, RepliedKeeps DEF Will
  <2> QED BY <1>2, <1>4, <2>1, HopeStays DEF CatchInv, Stays
<1>6. TornAreTold'
  <2> SUFFICES ASSUME NEW d2 \in Torn', NEW a \in Admins, a # d2.by, Live(page'[a]), db'.exists  PROVE Told(a)'
    BY DEF TornAreTold, Live
  <2>1. CASE d2 = d
    BY <1>2, <1>4, <2>1 DEF Told
  <2>2. CASE d2 \in Torn
    <3>1. Reading(a, net) => Reading(a, net')
      BY <1>1, <1>2, RepliedKeeps
    <3> QED BY <1>2, <1>4, <2>2, <3>1, ToldStays DEF CatchInv
  <2> QED BY <1>3, <2>1, <2>2
<1> QED BY <1>5, <1>6

LEMMA UpdateCatches ==
  ASSUME TypeInv, CatchInv, NEW c \in net, Updates(c)
  PROVE  PagesCurrent' /\ TornAreTold'
<1>1. PICK d : Replied(c, d) /\ d.status = "ok"
  BY DEF Updates
<1>2. /\ page' = page /\ db'.exists = db.exists /\ c.op = "update" /\ c.by = d.by /\ d.op = c.op
      /\ Tells(c) /\ excuse' = excuse \union Unheard(c) /\ d \in net'
  BY <1>1 DEF Updates, Replied
<1>3. Torn' \subseteq Torn
  BY <1>1 DEF Replied, Torn
<1>4. \A a \in Admins : /\ a # c.by /\ Live(page[a]) => a \in excuse' \/ inbox'[a] > 0
                        /\ a \in excuse => a \in excuse'
                        /\ inbox[a] > 0 => inbox'[a] > 0
  BY <1>2, AllAreTold DEF CatchInv
<1>5. PagesCurrent'
  <2> SUFFICES ASSUME NEW a \in Admins, Live(page'[a]), db'.exists  PROVE Hopes(a)'
    BY DEF PagesCurrent, Live
  <2>1. CASE a # c.by
    BY <1>2, <1>4, <2>1 DEF Hopes
  <2>2. CASE a = c.by
    <3>1. Willing(a, net', db'.service)
      BY <1>1, <1>2, <2>2 DEF Will, Willing, Changes
    <3> QED BY <3>1 DEF Hopes, Willing, Will
  <2> QED BY <2>1, <2>2
<1>6. TornAreTold'
  <2> SUFFICES ASSUME NEW d2 \in Torn', NEW a \in Admins, a # d2.by, Live(page'[a]), db'.exists  PROVE Told(a)'
    BY DEF TornAreTold, Live
  <2>1. Reading(a, net) => Reading(a, net')
    BY <1>1, <1>2, RepliedKeeps
  <2> QED BY <1>2, <1>3, <1>4, <2>1, ToldStays DEF CatchInv
<1> QED BY <1>5, <1>6

(* What was told of is stored: the others know, and who made it will read. *)
LEMMA StoreCatches ==
  ASSUME TypeInv, CatchInv, NEW c \in net, Stores(c)
  PROVE  PagesCurrent' /\ TornAreTold'
<1>1. PICK d : Replied(c, d) /\ d.status = "ok"
  BY DEF Stores
<1>2. /\ page' = page /\ db'.exists = db.exists /\ c.op \in {"token", "deleteToken"} /\ c.by = d.by
      /\ d.op = c.op /\ UNCHANGED <<inbox, excuse>> /\ d \in net' /\ c \in Torn
  BY <1>1 DEF Stores, Replied, Torn
<1>3. Torn' \subseteq Torn
  BY <1>1 DEF Replied, Torn
<1>4. \A a \in Admins : Reading(a, net) => Reading(a, net')
  BY <1>1, <1>2, RepliedKeeps
<1>5. PagesCurrent'
  <2> SUFFICES ASSUME NEW a \in Admins, Live(page'[a]), db'.exists  PROVE Hopes(a)'
    BY DEF PagesCurrent, Live
  <2>1. CASE a # c.by
    <3>1. Told(a)
      BY <1>2, <2>1 DEF CatchInv, TornAreTold
    <3>2. a \in excuse' \/ inbox'[a] > 0 \/ Reading(a, net')
      BY <1>2, <1>4, <3>1 DEF Told
    <3> QED BY <3>2, ReadsAreHope DEF Hopes
  <2>2. CASE a = c.by
    <3>1. Willing(a, net', db'.service)
      BY <1>1, <1>2, <2>2 DEF Will, Willing, Changes
    <3> QED BY <3>1 DEF Hopes, Willing, Will
  <2> QED BY <2>1, <2>2
<1>6. TornAreTold'
  <2> SUFFICES ASSUME NEW d2 \in Torn', NEW a \in Admins, a # d2.by, Live(page'[a]), db'.exists  PROVE Told(a)'
    BY DEF TornAreTold, Live
  <2> QED BY <1>2, <1>3, <1>4, ToldStays DEF CatchInv
<1> QED BY <1>5, <1>6

(* What a page takes out of the answers of its own calls.                  *)
LEMMA TakesKeeps ==
  ASSUME TypeInv, NEW c \in net, c.status # "sent", NEW p, NEW cs, Takes(c, p, cs), NEW a \in Admins
  PROVE  /\ a # c.by => page'[a] = page[a]
         /\ page'[c.by] = p
         /\ Reading(a, net) => Reading(a, net')
         /\ c.status # "begun" => Torn' \subseteq Torn
         /\ \A e \in net : Will(a, e, db.service) => e = c \/ Willing(a, net', db.service)
<1>1. page' = [page EXCEPT ![c.by] = p] /\ net' = (net \ {c}) \union cs /\ c.by \in Admins
  BY CallsAre DEF Takes
<1>2. page'[c.by] = p /\ \A b \in Admins : b # c.by => page'[b] = page[b]
  BY <1>1, Replaced
<1>3. Reading(a, net) => Reading(a, net')
  BY <1>1 DEF Reading
<1>4. Torn' \subseteq Torn
  BY <1>1 DEF Takes, Asked, Torn
<1>5. \A e \in net : Will(a, e, db.service) => e = c \/ Willing(a, net', db.service)
  BY <1>1 DEF Willing
<1> QED BY <1>2, <1>3, <1>4, <1>5

LEMMA NoteCatches ==
  ASSUME TypeInv, CatchInv, NEW c \in net, Notes(c)
  PROVE  PagesCurrent' /\ TornAreTold'
<1>1. PICK p, cs :
        /\ Takes(c, p, cs) /\ p.shown = page[c.by].shown
        /\ \/ p.at = "gone"
           \/ /\ p.at = page[c.by].at /\ c.op # "read"
              /\ c.op \in Changes /\ c.status = "ok" => Reading(c.by, net')
  BY DEF Notes, Changes
<1>2. UNCHANGED <<db, inbox, excuse>> /\ c.status \in {"ok", "failed"}
  BY <1>1 DEF Notes, Takes
<1>3. Torn' \subseteq Torn
  BY <1>1, <1>2, TakesKeeps, CallsAre
<1>4. ASSUME NEW a \in Admins, Live(page'[a])  PROVE Stays(a) /\ (a = c.by => p.at # "gone")
  <2>1. (a # c.by => page'[a] = page[a]) /\ page'[c.by] = p
    BY <1>1, <1>2, TakesKeeps
  <2> QED BY <1>1, <1>2, <1>4, <2>1 DEF Live, Stays
<1>5. PagesCurrent'
  <2> SUFFICES ASSUME NEW a \in Admins, Live(page'[a]), db'.exists  PROVE Hopes(a)'
    BY DEF PagesCurrent, Live
  <2>1. CASE Reading(a, net')
    BY <2>1, ReadsAreHope
  <2>2. CASE ~Reading(a, net')
    <3>1. \A e \in net : Will(a, e, db.service) => e = c \/ Willing(a, net', db.service)
      BY <1>1, <1>2, TakesKeeps
    <3>2. ~Will(a, c, db.service)
      BY <1>1, <1>2, <1>4, <2>2 DEF Will
    <3> QED BY <1>2, <1>4, <3>1, <3>2, HopeStays DEF CatchInv
  <2> QED BY <2>1, <2>2
<1>6. TornAreTold'
  <2> SUFFICES ASSUME NEW d2 \in Torn', NEW a \in Admins, a # d2.by, Live(page'[a]), db'.exists  PROVE Told(a)'
    BY DEF TornAreTold, Live
  <2>1. Reading(a, net) => Reading(a, net')
    BY <1>1, <1>2, TakesKeeps
  <2> QED BY <1>2, <1>3, <1>4, <2>1, ToldStays DEF CatchInv, Stays
<1> QED BY <1>5, <1>6

(* A page takes in a service that was read: it is the one that is stored,  *)
(* or an older one than it shows, or what it hoped for is still to come.   *)
LEMMA LoadCatches ==
  ASSUME TypeInv, CatchInv, NEW c \in net, Loads(c)
  PROVE  PagesCurrent' /\ TornAreTold'
<1> DEFINE s == db.service
           o == page[c.by].shown
<1>1. PICK p, cs : Takes(c, p, cs) /\ p.shown = c.service
  BY DEF Loads
<1>2. /\ UNCHANGED <<db, inbox>> /\ c.op = "read" /\ c.status = "ok" /\ Live(page[c.by]) /\ c.by \in Admins
      /\ excuse' = IF c.service = s /\ Torn = {} THEN excuse \ {c.by}
                   ELSE IF c.service.n < o.n THEN excuse \union {c.by} ELSE excuse
  BY <1>1, CallsAre DEF Loads, Takes, Live
<1>3. Torn' \subseteq Torn
  BY <1>1, <1>2, TakesKeeps
<1>4. page'[c.by] = p /\ \A a \in Admins : a # c.by => page'[a] = page[a]
  BY <1>1, <1>2, TakesKeeps
<1>5. \A a \in Admins : Live(page'[a]) => Live(page[a])
  BY <1>2, <1>4
<1>6. \A a \in Admins : \A e \in net : Will(a, e, s) => e = c \/ Willing(a, net', s)
  BY <1>1, <1>2, TakesKeeps
<1>7. \A a \in Admins : Reading(a, net) => Reading(a, net')
  BY <1>1, <1>2, TakesKeeps
<1>8. ASSUME c.service # s, ~(c.service.n < o.n)  PROVE o # s
  <2>1. c.service.n \in Nat /\ o.n \in Nat /\ s.n \in Nat
    BY CallsAre, DbFields, ServiceFields
  <2>2. AsOf(c.service, s)
    BY <1>2 DEF CatchInv, NumbersTell
  <2> HIDE DEF o, s
  <2> QED BY <1>8, <2>1, <2>2 DEF AsOf
<1>9. PagesCurrent'
  <2> SUFFICES ASSUME NEW a \in Admins, Live(page'[a]), db'.exists  PROVE Hopes(a)'
    BY DEF PagesCurrent, Live
  <2>1. CASE a # c.by
    <3>1. Stays(a)
      BY <1>2, <1>4, <2>1 DEF Stays
    <3>2. \A e \in net : Will(a, e, s) => Willing(a, net', s)
      BY <1>6, <2>1 DEF Will
    <3> QED BY <1>2, <3>1, <3>2, HopeStays DEF CatchInv
  <2>2. CASE a = c.by /\ c.service = s
    BY <1>1, <1>2, <1>4, <2>2 DEF Hopes
  <2>3. CASE a = c.by /\ c.service # s /\ c.service.n < o.n
    BY <1>2, <2>3 DEF Hopes
  <2>4. CASE a = c.by /\ c.service # s /\ ~(c.service.n < o.n)
    <3>1. Hopes(a) /\ excuse' = excuse /\ o # s
      BY <1>2, <1>5, <1>8, <2>4 DEF CatchInv, PagesCurrent
    <3>2. ~Will(a, c, s)
      BY <1>2, <2>4 DEF Will, Changes
    <3>3. Willing(a, net, s) => Willing(a, net', s)
      BY <1>6, <3>2 DEF Willing
    <3>4. a \in excuse' \/ inbox'[a] > 0 \/ Willing(a, net', s)
      BY <1>2, <2>4, <3>1, <3>3 DEF Hopes
    <3> QED BY <1>2, <3>4 DEF Hopes, Willing, Will
  <2> QED BY <2>1, <2>2, <2>3, <2>4
<1>10. TornAreTold'
  <2> SUFFICES ASSUME NEW d2 \in Torn', NEW a \in Admins, a # d2.by, Live(page'[a]), db'.exists  PROVE Told(a)'
    BY DEF TornAreTold, Live
  <2>1. excuse \subseteq excuse'
    BY <1>2, <1>3
  <2> QED BY <1>2, <1>3, <1>5, <1>7, <2>1, ToldStays DEF CatchInv
<1> QED BY <1>9, <1>10

LEMMA CatchStays ==
  ASSUME TypeInv, CatchInv, Next
  PROVE  CatchInv'
<1>1. ListensInv' /\ NumbersTell'
  BY ListensStays, NumbersStay DEF CatchInv
<1>2. PagesCurrent' /\ TornAreTold'
  BY StepKinds, TurnedCatches, ReceiveCatches, IdleCatches, ReadCatches, AnnounceCatches, UpdateCatches,
     StoreCatches, NoteCatches, LoadCatches
<1> QED BY <1>1, <1>2 DEF CatchInv

(* A page with nothing left to hear shows the service as it is stored,     *)
(* whatever the order in which changes, messages and answers came, unless  *)
(* it is known to have heard something old.                                *)
THEOREM CaughtUp == Spec => []PagesCatchUp
<1>1. Init => CatchInv
  <2> SUFFICES ASSUME Init  PROVE CatchInv
    OBVIOUS
  <2>1. net = {} /\ inbox = [a \in Admins |-> 0] /\ db.service.n \in Nat
    BY TypeStart, DbFields, ServiceFields DEF Init
  <2>2. ListensInv
    BY <2>1, PageStart DEF ListensInv
  <2>3. NumbersTell
    <3> DEFINE s == db.service
    <3>1. \A a \in Admins : page[a].shown = s
      BY PageStart
    <3>2. s.n \in Nat
      BY <2>1
    <3> HIDE DEF s
    <3>3. \A a \in Admins : AsOf(page[a].shown, s)
      BY <3>1, <3>2 DEF AsOf
    <3> QED BY <2>1, <3>3 DEF NumbersTell, s
  <2>4. PagesCurrent
    BY PageStart DEF PagesCurrent, Hopes
  <2>5. TornAreTold
    BY <2>1 DEF TornAreTold, Torn
  <2> QED BY <2>2, <2>3, <2>4, <2>5 DEF CatchInv
<1>2. TypeInv /\ CatchInv /\ [Next]_vars => CatchInv'
  <2>1. CASE Next
    BY <2>1, CatchStays
  <2>2. CASE UNCHANGED vars
    BY <2>2 DEF vars, CatchInv, ListensInv, NumbersTell, PagesCurrent, TornAreTold, Hopes, Told, Willing, Will,
       Reading, Torn, Live, AsOf
  <2> QED BY <2>1, <2>2
<1>3. TypeInv /\ CatchInv => PagesCatchUp
  <2> SUFFICES ASSUME TypeInv, CatchInv, NEW a \in Admins, AtRest(a), db.exists
               PROVE  page[a].shown = db.service \/ a \in excuse
    BY DEF PagesCatchUp
  <2>1. Hopes(a)
    BY DEF CatchInv, PagesCurrent, AtRest, Live
  <2>2. ~(inbox[a] > 0) /\ ~Willing(a, net, db.service)
    BY DEF AtRest, Willing, Will
  <2> QED BY <2>1, <2>2 DEF Hopes
<1> QED BY <1>1, <1>2, <1>3, TypeCorrect, PTL DEF Spec
-------------------------------------------------------------------------------
(* Drafts.  The service, and what is read of it, can be saved as it is; the*)
(* update on its way has texts that can be stored.  A text of a draft is   *)
(* marked where it is bad; tokens are asked about over a draft with an     *)
(* address; a check that is shown has a call, but for that of a network    *)
(* that was emptied.  Of an address nothing is said once two updates of it *)
(* have crossed.                                                           *)
Steady(s) ==
  s.mail = "good" /\ s.policy = "good" /\ \A i \in DOMAIN s.nets : ~s.nets[i].error
Located(s, x) == "address" \in x \/ ~NoAddress(s)
Kept(s, x) == Steady(s) /\ Located(s, x)
CallFits(c, x) ==
  /\ c.op = "read" /\ c.status = "ok" => Kept(c.service, x)
  /\ c.op = "update" /\ c.status \in {"sent", "begun"} =>
       c.service.mail = "good" /\ c.service.policy = "good" /\ Located(c.service, x)
  /\ c.op = "update" /\ c.status = "begun" => Kept(c.seen, x)
TextsFit(p) ==
  /\ "mail" \in p.invalid <=> p.draft.mail = "bad"
  /\ "policy" \in p.invalid <=> p.draft.policy = "bad"
PageFits(a, p, cs, x) ==
  /\ Kept(p.shown, x) /\ TextsFit(p)
  /\ p.dialog = "disable" => Located(p.draft, x)
  /\ p.checking /\ ~p.emptied /\ p.at # "gone" => Checks(a, cs)
DraftInv ==
  /\ Kept(db.service, crossed)
  /\ \A c \in net : CallFits(c, crossed)
  /\ \A a \in Admins : PageFits(a, page[a], net, crossed)

LEMMA AddressTells ==
  ASSUME NEW s, NEW t, Address(s) = Address(t)
  PROVE  NoAddress(s) <=> NoAddress(t)
<1>1. s.scim = t.scim /\ s.url = t.url
  BY DEF Address
<1> QED BY <1>1 DEF NoAddress

(* The invariant of the next state, part by part.                          *)
LEMMA DraftParts ==
  ASSUME Kept(db'.service, crossed'), \A c \in net' : CallFits(c, crossed'),
         \A a \in Admins : PageFits(a, page'[a], net', crossed')
  PROVE  DraftInv'
BY DEF DraftInv, Kept, Steady, Located, NoAddress, CallFits, PageFits, TextsFit, Checks

(* A handler fits if what it leaves in the place of its call does.         *)
LEMMA RepliedFits ==
  ASSUME TypeInv, DraftInv, NEW c \in net, NEW d, Replied(c, d), crossed \subseteq crossed',
         Kept(db'.service, crossed'), CallFits(d, crossed')
  PROVE  DraftInv'
<1>1. page' = page /\ net' = (net \ {c}) \union {d} /\ d.by = c.by /\ d.op = c.op
  BY DEF Replied
<1>2. \A e \in net : CallFits(e, crossed')
  BY DEF DraftInv, CallFits, Kept, Located
<1>3. \A e \in net' : CallFits(e, crossed')
  BY <1>1, <1>2
<1>4. ASSUME NEW a \in Admins  PROVE PageFits(a, page[a], net', crossed')
  <2>1. Checks(a, net) => Checks(a, net')
    BY <1>1 DEF Checks
  <2>2. PageFits(a, page[a], net, crossed)
    BY DEF DraftInv
  <2> QED BY <2>1, <2>2 DEF PageFits, Kept, Located
<1> QED BY <1>1, <1>3, <1>4, DraftParts

(* A call that a page makes fits.                                          *)
LEMMA AskedFits ==
  ASSUME TypeInv, DraftInv, NEW a \in Admins, NEW c, Asked(a, c)
  PROVE  CallFits(c, crossed)
<1> DEFINE o == page[a]
<1>1. PageFits(a, o, net, crossed) /\ IsService(o.draft)
  BY PagesAre DEF DraftInv
<1>2. CASE c.op # "update"
  BY <1>2 DEF Asked, CallFits
<1>3. CASE c.op = "update"
  <2>1. Saves(o, c.service) /\ c.status = "sent"
    BY <1>3 DEF Asked
  <2>2. c.service.mail = "good" /\ c.service.policy = "good"
    <3>1. o.draft.mail \in Marks /\ o.draft.policy \in Marks
      BY <1>1, ServiceFields
    <3> QED BY <1>1, <2>1, <3>1 DEF Saves, PageFits, TextsFit, Marks
  <2>3. Located(c.service, crossed)
    <3>1. NoAddress(c.service) <=> NoAddress(o.draft)
      BY <2>1, AddressTells DEF Saves
    <3> QED BY <1>1, <2>1, <3>1 DEF Saves, PageFits, Located
  <2> QED BY <1>3, <2>1, <2>2, <2>3 DEF CallFits
<1> QED BY <1>2, <1>3

LEMMA TurnedFits ==
  ASSUME TypeInv, DraftInv, NEW a \in Admins, Turned(a)
  PROVE  DraftInv'
<1> DEFINE o == page[a]
           x == crossed
<1>1. PICK q : Turn(a, q) /\ page' = [page EXCEPT ![a] = q]
  BY DEF Turned
<1>2. UNCHANGED <<db, crossed>> /\ net \subseteq net'
  BY DEF Turned
<1>3. page'[a] = q /\ \A b \in Admins : b # a => page'[b] = page[b]
  BY <1>1, Replaced
<1>4. PageFits(a, o, net, x)
  BY DEF DraftInv
<1>5. ASSUME NEW c \in net'  PROVE CallFits(c, x)
  <2>1. CASE c \in net
    BY <2>1 DEF DraftInv
  <2>2. CASE c \notin net
    <3>1. Asked(a, c)
      BY <2>2 DEF Turned
    <3> QED BY <3>1, AskedFits
  <2> QED BY <2>1, <2>2
<1>6. PageFits(a, q, net', x)
  <2>1. Kept(q.shown, x)
    BY <1>1, <1>4 DEF Turn, PageFits
  <2>2. MarkedMail(o, q) /\ MarkedPolicy(o, q) /\ MarkedAddress(o, q) /\ MarkedCheck(a, o, q, net')
    BY <1>1 DEF Turn, Marked
  <2>3. TextsFit(q)
    BY <1>4, <2>2 DEF PageFits, TextsFit, MarkedMail, MarkedPolicy
  <2>4. q.dialog = "disable" => Located(q.draft, x)
    BY <1>4, <2>2, AddressTells DEF PageFits, MarkedAddress, Located
  <2>5. q.checking /\ ~q.emptied /\ q.at # "gone" => Checks(a, net')
    <3>1. q.at # "gone" => o.at # "gone"
      BY <1>1 DEF Turn
    <3>2. Checks(a, net) => Checks(a, net')
      BY <1>2 DEF Checks
    <3> QED BY <1>4, <2>2, <3>1, <3>2 DEF PageFits, MarkedCheck
  <2> QED BY <2>1, <2>3, <2>4, <2>5 DEF PageFits
<1>7. ASSUME NEW b \in Admins  PROVE PageFits(b, page'[b], net', x)
  <2>1. CASE b = a
    BY <1>3, <1>6, <2>1
  <2>2. CASE b # a
    <3>1. PageFits(b, page[b], net, x) /\ page'[b] = page[b]
      BY <1>3, <2>2 DEF DraftInv
    <3> QED BY <1>2, <3>1 DEF PageFits, Checks
  <2> QED BY <2>1, <2>2
<1>8. Kept(db'.service, crossed')
  BY <1>2 DEF DraftInv
<1> QED BY <1>2, <1>5, <1>7, <1>8, DraftParts

LEMMA ReceiveFits ==
  ASSUME TypeInv, DraftInv, NEW a \in Admins, Receive(a)
  PROVE  DraftInv'
<1> DEFINE r == Refreshes(a)
<1>1. UNCHANGED <<db, page, crossed>> /\ net \subseteq net' /\ net' \subseteq net \union {r}
  BY DEF Receive, Sends
<1>2. CallFits(r, crossed)
  BY ReadAsked DEF CallFits
<1> HIDE DEF r
<1>3. \A c \in net' : CallFits(c, crossed)
  BY <1>1, <1>2 DEF DraftInv
<1>4. \A b \in Admins : PageFits(b, page[b], net', crossed)
  BY <1>1 DEF DraftInv, PageFits, Checks
<1>5. Kept(db'.service, crossed')
  BY <1>1 DEF DraftInv
<1> QED BY <1>1, <1>3, <1>4, <1>5, DraftParts

LEMMA ServedFits ==
  ASSUME TypeInv, DraftInv, NEW c \in net, Idles(c) \/ Reads(c) \/ Announces(c) \/ Stores(c)
  PROVE  DraftInv'
<1>1. crossed' = crossed
  BY DEF Idles, Reads, Announces, Stores
<1>2. Kept(db'.service, crossed)
  <2>1. CASE db'.service = db.service
    BY <2>1 DEF DraftInv
  <2>2. CASE Stores(c)
    BY <2>2 DEF Stores, DraftInv, Kept, Steady, Located, NoAddress
  <2> QED BY <2>1, <2>2 DEF Idles, Reads, Announces
<1>3. CallFits(c, crossed) /\ Kept(db.service, crossed)
  BY DEF DraftInv
<1>4. \E d : Replied(c, d) /\ CallFits(d, crossed)
  <2>1. CASE Idles(c)
    <3>1. PICK d : /\ Replied(c, d) /\ d.status # "sent" /\ (d.op = "read" => d.status = "failed")
                   /\ d.status = "begun" => /\ d.op = "update" /\ c.status = "sent"
                                            /\ d.service = c.service /\ d.seen = db.service
      BY <2>1 DEF Idles
    <3>2. d.op = c.op
      BY <3>1 DEF Replied
    <3> QED BY <1>3, <3>1, <3>2 DEF CallFits
  <2>2. CASE Reads(c)
    BY <1>3, <2>2 DEF Reads, CallFits
  <2>3. CASE Announces(c)
    BY <2>3 DEF Announces, CallFits
  <2>4. CASE Stores(c)
    BY <2>4 DEF Stores, CallFits, Replied
  <2> QED BY <2>1, <2>2, <2>3, <2>4
<1> QED BY <1>1, <1>2, <1>4, RepliedFits

(* An update writes texts, rows and an address that were said of it or of  *)
(* what it has read, unless the address has changed under it.              *)
LEMMA UpdateFits ==
  ASSUME TypeInv, DraftInv, NEW c \in net, Updates(c)
  PROVE  DraftInv'
<1> DEFINE s == Allowed(c)
           o == db.service
           e == c.seen
           w == Written(c)
<1>1. PICK d : Replied(c, d) /\ d.status = "ok"
  BY DEF Updates
<1>2. /\ c.op = "update" /\ c.status = "begun" /\ db'.service = w /\ crossed \subseteq crossed'
      /\ Address(o) # Address(e) => "address" \in crossed'
  BY DEF Updates
<1>3. /\ Kept(o, crossed) /\ Kept(e, crossed) /\ Located(c.service, crossed)
      /\ c.service.mail = "good" /\ c.service.policy = "good"
  BY <1>2 DEF DraftInv, CallFits
<1>4. /\ s.mail = c.service.mail /\ s.policy = c.service.policy
      /\ Address(s) \in {Address(c.service), Address(e)}
      /\ \A i \in DOMAIN s.nets : ~s.nets[i].error
  BY CallsAre, AllowedType
<1>5. \A f \in {"mail", "policy", "scim", "url", "nets"} : w[f] = IF s[f] = e[f] THEN o[f] ELSE s[f]
  BY CallsAre, WrittenType
<1> HIDE DEF s, o, e, w
<1>6. Steady(w)
  <2>1. w.mail = "good" /\ w.policy = "good"
    BY <1>3, <1>4, <1>5 DEF Kept, Steady
  <2>2. w.nets = o.nets \/ w.nets = s.nets
    BY <1>5
  <2> QED BY <1>3, <1>4, <2>1, <2>2 DEF Kept, Steady
<1>7. Located(w, crossed')
  <2>1. CASE Address(o) # Address(e)
    BY <1>2, <2>1 DEF Located
  <2>2. CASE Address(o) = Address(e)
    <3>1. o.scim = e.scim /\ o.url = e.url
      BY <2>2 DEF Address
    <3>2. Address(w) = Address(s)
      BY <1>5, <3>1 DEF Address
    <3>3. (NoAddress(w) <=> NoAddress(c.service)) \/ (NoAddress(w) <=> NoAddress(e))
      BY <1>4, <3>2, AddressTells
    <3> QED BY <1>2, <1>3, <3>3 DEF Kept, Located
  <2> QED BY <2>1, <2>2
<1>8. CallFits(d, crossed')
  BY <1>1, <1>2 DEF Replied, CallFits
<1> QED BY <1>1, <1>2, <1>6, <1>7, <1>8, RepliedFits DEF Kept

LEMMA HeardFits ==
  ASSUME TypeInv, DraftInv, NEW c \in net, Notes(c) \/ Loads(c)
  PROVE  DraftInv'
<1> DEFINE a == c.by
           o == page[a]
           s == c.service
           x == crossed
<1>1. PICK p, cs : /\ Takes(c, p, cs)
                   /\ \/ p.shown = o.shown /\ Heard(c, o, p) /\ (p.at = "gone" \/ p.at = o.at)
                      \/ Loads(c) /\ p.shown = s /\ Filled(o, p, s)
  BY DEF Notes, Loads
<1>2. /\ a \in Admins /\ page' = [page EXCEPT ![a] = p] /\ net' = (net \ {c}) \union cs
      /\ UNCHANGED <<db, crossed>> /\ \A d \in cs : Asked(a, d)
  BY <1>1, CallsAre DEF Takes
<1>3. page'[a] = p /\ \A b \in Admins : b # a => page'[b] = page[b]
  BY <1>2, Replaced
<1>4. PageFits(a, o, net, x) /\ CallFits(c, x)
  BY <1>2 DEF DraftInv
<1>5. \A d \in net' : CallFits(d, x)
  BY <1>2, AskedFits DEF DraftInv
<1>6. ASSUME Checks(a, net), c.op # "network"  PROVE Checks(a, net')
  BY <1>2, <1>6 DEF Checks
<1>7. PageFits(a, p, net', x)
  <2>1. CASE p.shown = o.shown /\ Heard(c, o, p) /\ (p.at = "gone" \/ p.at = o.at)
    <3>1. Kept(p.shown, x) /\ TextsFit(p)
      BY <1>4, <2>1 DEF Heard, PageFits, TextsFit
    <3>2. p.dialog = "disable" => Located(p.draft, x)
      BY <1>4, <2>1, AddressTells DEF Heard, PageFits, Located
    <3>3. p.checking /\ ~p.emptied /\ p.at # "gone" => Checks(a, net')
      BY <1>4, <1>6, <2>1 DEF Heard, PageFits
    <3> QED BY <3>1, <3>2, <3>3 DEF PageFits
  <2>2. CASE Loads(c) /\ p.shown = s /\ Filled(o, p, s)
    <3>1. c.op = "read" /\ c.status = "ok" /\ o.at \in {"open", "loading"}
      BY <2>2 DEF Loads
    <3>2. Kept(s, x)
      BY <1>4, <3>1 DEF CallFits
    <3>3. TextsFit(p) /\ Located(p.draft, x)
      <4>1. Located(p.draft, x)
        BY <2>2, <3>2, AddressTells DEF Filled, Kept, Located
      <4>2. TextsFit(p)
        BY <2>2 DEF Filled, TextsFit
      <4> QED BY <4>1, <4>2
    <3>4. p.checking /\ ~p.emptied => Checks(a, net')
      BY <1>4, <1>6, <2>2, <3>1 DEF Filled, PageFits
    <3> QED BY <2>2, <3>2, <3>3, <3>4 DEF PageFits
  <2> QED BY <1>1, <2>1, <2>2
<1>8. ASSUME NEW b \in Admins  PROVE PageFits(b, page'[b], net', x)
  <2>1. CASE b = a
    BY <1>3, <1>7, <2>1
  <2>2. CASE b # a
    <3>1. PageFits(b, page[b], net, x) /\ page'[b] = page[b]
      BY <1>3, <2>2 DEF DraftInv
    <3>2. Checks(b, net) => Checks(b, net')
      BY <1>2, <2>2 DEF Checks
    <3> QED BY <3>1, <3>2 DEF PageFits
  <2> QED BY <2>1, <2>2
<1>9. Kept(db'.service, crossed')
  BY <1>2 DEF DraftInv
<1> QED BY <1>2, <1>5, <1>8, <1>9, DraftParts

LEMMA DraftStays ==
  ASSUME TypeInv, DraftInv, Next
  PROVE  DraftInv'
BY StepKinds, TurnedFits, ReceiveFits, ServedFits, UpdateFits, HeardFits

LEMMA DraftStart ==
  ASSUME Init
  PROVE  DraftInv
<1> DEFINE f == Fresh
           on == scene.on
           tokens == {[n |-> 0, kind |-> k] : k \in scene.tokens}
           url == IF scene.swept THEN "url" ELSE ""
           rate == Number(IF scene.swept THEN 4 ELSE 0)
           swept == scene.swept
           rows == [i \in 1 .. Len(scene.nets) |-> Row(scene.nets[i])]
           s == [f EXCEPT !.on = on, !.tokens = tokens, !.scim = swept, !.sweep = swept, !.url = url,
                          !.rate = rate, !.nets = rows]
<1>1. db.service = s /\ net = {} /\ TypeInv
  BY TypeStart DEF Init
<1>2. IsService(f) /\ f.mail = "good" /\ f.policy = "good"
  BY FreshType DEF Fresh
<1>3. \A i \in DOMAIN rows : ~rows[i].error
  BY DEF Row
<1>4. ~(swept /\ url = "")
  OBVIOUS
<1> HIDE DEF f, on, tokens, url, rate, swept, rows
<1>5. s.mail = f.mail /\ s.policy = f.policy /\ s.nets = rows /\ s.scim = swept /\ s.url = url
  BY <1>2 DEF IsService, ServiceOf
<1> HIDE DEF s
<1>6. Kept(s, crossed)
  BY <1>2, <1>3, <1>4, <1>5 DEF Kept, Steady, Located, NoAddress
<1>7. ASSUME NEW a \in Admins  PROVE PageFits(a, page[a], net, crossed)
  <2>1. /\ page[a].shown = s /\ page[a].draft.mail = "good" /\ page[a].draft.policy = "good"
        /\ page[a].invalid = {} /\ Address(page[a].draft) = Address(s) /\ ~page[a].checking
    <3>1. page[a].invalid \subseteq {"mail", "policy"}
      BY <1>1, PagesAre, PageFields
    <3> QED BY <1>1, <1>2, <1>5, <3>1, PageStart
  <2> QED BY <1>6, <2>1, AddressTells DEF PageFits, TextsFit, Kept, Located
<1> QED BY <1>1, <1>6, <1>7 DEF DraftInv

(* A draft that nobody has changed since the service was read can be saved,*)
(* whatever was typed, marked and asked about on the page before, unless   *)
(* two updates of the server of SCIM have crossed and left it on without   *)
(* an address.                                                             *)
THEOREM UntouchedIsValid == Spec => []UntouchedDraftIsValid
<1>1. Init => DraftInv
  BY DraftStart
<1>2. TypeInv /\ DraftInv /\ [Next]_vars => DraftInv'
  <2>1. CASE Next
    BY <2>1, DraftStays
  <2>2. CASE UNCHANGED vars
    BY <2>2 DEF vars, DraftInv, Kept, Steady, Located, NoAddress, CallFits, PageFits, TextsFit, Checks
  <2> QED BY <2>1, <2>2
<1>3. TypeInv /\ DraftInv => UntouchedDraftIsValid
  <2> SUFFICES ASSUME TypeInv, DraftInv, NEW a \in Admins, AtRest(a),
                      page[a].draft = Loaded(page[a].shown), ~page[a].emptied, page[a].exists = {}
               PROVE  Valid(page[a]) \/ ("address" \in crossed /\ NoAddress(page[a].shown))
    BY DEF UntouchedDraftIsValid
  <2> DEFINE p == page[a]
             s == p.shown
             d == p.draft
  <2>1. PageFits(a, p, net, crossed) /\ IsPage(p) /\ IsService(s)
    BY PagesAre DEF DraftInv
  <2>2. d.mail = s.mail /\ d.policy = s.policy /\ Address(d) = Address(s)
        /\ d.nets = (IF s.nets = << >> THEN <<Row("")>> ELSE s.nets)
    <3> HIDE DEF s
    <3> QED BY <2>1 DEF Loaded, IsService, ServiceOf, Address, s
  <2>3. Steady(s) /\ Located(s, crossed)
    BY <2>1 DEF PageFits, Kept
  <2>4. p.invalid = {}
    <3>1. p.invalid \in SUBSET {"mail", "policy"}
      BY <2>1, PageFields
    <3> QED BY <2>1, <2>2, <2>3, <3>1 DEF PageFits, TextsFit, Steady
  <2>5. ~p.checking
    BY <2>1 DEF PageFits, AtRest, Checks
  <2>6. \A i \in DOMAIN d.nets : ~d.nets[i].error
    <3> HIDE DEF s, d
    <3>1. CASE s.nets = << >>
      <4> DEFINE r == Row("")
      <4>1. d.nets = <<r>>
        BY <2>2, <3>1
      <4>2. ~r.error
        BY DEF Row
      <4> HIDE DEF r
      <4>3. \A i \in DOMAIN <<r>> : <<r>>[i] = r
        OBVIOUS
      <4> QED BY <4>1, <4>2, <4>3
    <3>2. CASE s.nets # << >>
      BY <2>2, <2>3, <3>2 DEF Steady
    <3> QED BY <3>1, <3>2
  <2>7. d.mail # "" /\ d.policy # ""
    BY <2>2, <2>3 DEF Steady
  <2>8. ~NoAddress(d) \/ ("address" \in crossed /\ NoAddress(s))
    BY <2>2, <2>3, AddressTells DEF Located
  <2> QED BY <2>4, <2>5, <2>6, <2>7, <2>8 DEF Valid
<1> QED BY <1>1, <1>2, <1>3, TypeCorrect, PTL DEF Spec
===============================================================================
