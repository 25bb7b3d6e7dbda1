--------------------------- MODULE EntityFormsProofs ----------------------------
(***************************************************************************)
(* EntityForms for any users, scenes and numbers of clicks.  The invariant *)
(* is a conjunction of what holds of the rows (Entities, Rows, InOnce) and *)
(* of what holds of each user (Of1): how a form opens, what it was filled  *)
(* with, that it is sent once, and which marks are right or asked about.   *)
(* A step of a user or of the browser touches one form (Turn, AtForm); one *)
(* of the server answers one call and may change rows (Effects), which for *)
(* all other forms is excused.  Each action is shown to be such a step, and*)
(* such a step to keep the invariant.                                      *)
(***************************************************************************)
EXTENDS EntityForms, TLAPS

-----------------------------------------------------------------------------
(* What pages, calls and rows are made of.                                 *)
PageFields == {"at", "draft", "wanted", "loaded", "orgs", "exists", "marks", "marksAt", "listAt", "arrays",
               "invalid", "initial", "busy", "dialog", "onCancel", "orgLogo", "n"}
DraftFields == {"id", "name", "short", "entity", "uri", "text", "joins", "creation", "homes", "org", "logo",
                "mail", "message", "complied", "nets", "invited", "self", "expires", "ends"}
CallFields == {"by", "op", "status", "draft", "wanted", "got", "orgs", "field", "value", "org", "row", "error",
               "homes", "listAt", "exists", "marks", "marksAt", "id"}
EntityFields == Fields \union {"kind", "id", "org"}
IsPage(p) == /\ DOMAIN p = PageFields /\ DOMAIN p.draft = DraftFields /\ DOMAIN p.wanted = Fields
             /\ DOMAIN p.loaded = EntityFields /\ p.loaded.id \in 0 .. 6
IsCall(c) == /\ DOMAIN c = CallFields /\ DOMAIN c.draft = DraftFields /\ DOMAIN c.wanted = Fields
             /\ DOMAIN c.got = EntityFields /\ c.got.id \in 0 .. 6
Shapes == /\ scene \in Scenes /\ DOMAIN page = Users /\ \A u \in Users : IsPage(page[u])
          /\ \A c \in net : c.by \in Users /\ IsCall(c)

(* What no form can change of an entity that is not for it.                *)
Proper(e) == /\ DOMAIN e = EntityFields /\ e.kind # "none"
             /\ e.kind # "organisation" => e.homes = {} /\ e.creation = FALSE
             /\ e.kind # "service" => e.entity = ""
KindOf(id) == CASE id = 1 -> "organisation" [] id = 3 -> "collaboration" [] OTHER -> "service"
Entities ==
  /\ DOMAIN db = {"entities", "invited", "members", "requests", "made"}
  /\ db.made \in Nat /\ db.made >= 7
  /\ \A e \in db.entities : /\ Proper(e) /\ e.id \in Nat \ {0} /\ e.id < db.made
                            /\ e.id \in {1, 3, 6} => e.kind = KindOf(e.id)
  /\ \A e, f \in db.entities : e.id = f.id => e = f
  /\ \A e, f \in db.entities : e # f =>
       /\ e.homes \intersect f.homes = {}
       /\ e.kind = "collaboration" /\ f.kind = e.kind => e.org # f.org \/ e.short # f.short

(* The row of a creation under way is known to no one yet.                 *)
StoredNow(c) == c.op = "create" /\ c.status = "stored"
Rows ==
  /\ \A i \in db.invited : i.of \in Nat /\ i.of < db.made /\ (i.ends # 0 => i.ends > i.expires)
  /\ \A m \in db.members : m.of \in Nat /\ 7 <= m.of /\ m.of < db.made
  /\ \A i \in db.invited, m \in db.members : i.of = m.of => i.who # "own"
  /\ \A c \in net : StoredNow(c) =>
       /\ c.row \in Nat /\ 7 <= c.row /\ c.row < db.made
       /\ (\A i \in db.invited : i.of # c.row) /\ \A m \in db.members : m.of # c.row
  /\ \A c, d \in net : StoredNow(c) /\ StoredNow(d) /\ c.row = d.row => c = d

(* The calls by which a form opens.                                        *)
Arrivals == {"read", "mine", "byHome", "health"}
Edits(u) == scene.form[u] \in {"collaboration", "organisation"} /\ Mode(u) = "edit"
Early(u) ==
  /\ page[u].at \in {"closed", "loading"} =>
       /\ page[u] = [Empty(u) EXCEPT !.at = page[u].at]
       /\ \A c \in net : c.by = u => c.op \in Arrivals
  /\ \A c \in net : c.by = u /\ c.op \in Arrivals =>
       /\ page[u].at = "loading" /\ \A d \in net : d.by = u => d = c
       /\ c.op = "read" => Edits(u) \/ scene.form[u] \in Inviting
       /\ c.op # "read" => ~Edits(u)
       /\ c.op \in {"mine", "byHome"} => scene.form[u] = "collaboration"
       /\ c.op = "read" /\ c.status = "ok" =>
            /\ Proper(c.got) /\ c.got.id = Target(u) /\ (Edits(u) => c.got.kind = scene.form[u])
            /\ <<u, "marks">> \in excuse \/ c.got \in db.entities
  /\ page[u].at = "open" /\ Edits(u) => page[u].loaded.id = Target(u)
  /\ \A c \in net : c.by = u /\ c.op = "update" =>
       /\ Edits(u) /\ (c.status \in {"sent", "begun"} => c.got.id = Target(u))

(* What is in a form was typed or read, and so is what is sent.            *)
Agree(u, d, w) == \A f \in Fields \ {"homes", IF Edits(u) THEN "joins" ELSE "creation"} : d[f] = w[f]
Typed(u) ==
  /\ Agree(u, page[u].draft, page[u].wanted)
  /\ \A c \in net : c.by = u /\ c.op \in {"create", "update", "request"} =>
       /\ Agree(u, c.draft, c.wanted)
       /\ <<u, "homes">> \in excuse \/ c.draft.homes = c.wanted.homes
       /\ c.op # "update" => ~Edits(u)
       /\ c.op = "create" => scene.form[u] \notin Inviting
       /\ c.op = "request" => scene.form[u] = "collaboration"
Simple(u, d) ==
  /\ scene.form[u] # "organisation" => d.homes = {} /\ d.creation = FALSE
  /\ scene.form[u] # "service" => d.entity = ""
  /\ scene.form[u] # "collaboration" => ~d.self
  /\ d.expires \in Nat /\ d.ends \in Nat /\ (d.ends # 0 => d.ends > d.expires)
Plain(u) == Simple(u, page[u].draft) /\ \A c \in net : c.by = u => Simple(u, c.draft)

(* What lets somebody in is sent once: a spinner takes the place of the    *)
(* form, or the form is left.  A creation that has failed has let nobody in*)
(* and may be sent again.                                                  *)
OnceOps == {"create", "update", "request", "invite"}
Settled(c) == c.status = "ok" \/ (c.status = "failed" /\ c.op # "create")
Spent(u) == page[u].busy \/ page[u].at \in {"left", "none"}
Once(u) ==
  /\ \A c \in net : c.by = u /\ c.op \in OnceOps =>
       Spent(u) /\ \A d \in net : d.by = u /\ d.op \in OnceOps => d = c
  /\ (\E i \in db.invited : i.by = u) \/ (\E r \in db.requests : r.by = u) =>
       Spent(u) /\ \A c \in net : c.by = u /\ c.op \in OnceOps => Settled(c)
InOnce ==
  /\ \A i, j \in db.invited : i.by = j.by /\ i.who = j.who => i = j
  /\ \A i \in db.invited : i.by \in Users
  /\ \A r, q \in db.requests : r.by = q.by => r = q

(* The homes of a form are those its user wants once all is answered.      *)
HomeCall(u, c) == c.by = u /\ c.op \in {"home", "homes"}
Homely(u) ==
  /\ <<u, "homes">> \in excuse => <<u, "marks">> \in excuse
  /\ \A c \in net : c.by = u /\ c.op = "exists" => c.field \in {"name", "short", "entity"}
  /\ \A c \in net : HomeCall(u, c) => scene.form[u] = "organisation"
  /\ <<u, "homes">> \notin excuse =>
       /\ \A c, d \in net : HomeCall(u, c) /\ HomeCall(u, d) => c = d
       /\ \A c \in net : HomeCall(u, c) => c.homes = page[u].wanted.homes
       /\ page[u].at = "open" /\ (\A c \in net : HomeCall(u, c) => c.op = "home") =>
            page[u].draft.homes = page[u].wanted.homes

(* The marks of a form that is used are right, or an answer is on its way. *)
Calm(u) == /\ page[u].at = "open" /\ ~page[u].busy
           /\ \A c \in net : c.by = u => ~(c.op = "delete" /\ c.status = "ok")
Right(u, f) ==
  f \in page[u].exists <=> Taken(Kind(u), page[u].draft.org, f, page[u].draft[f], page[u].loaded[f])
Asked(u, f) == \E c \in net : c.by = u /\ c.op = "exists" /\ c.field = f
Verdicts(u) ==
  Calm(u) => \A f \in NamesOf(scene.form[u]) : <<u, f>> \in excuse \/ Asked(u, f) \/ Right(u, f)
TakenOf(u, homes) == {h \in homes : HomeTaken(h, page[u].loaded.id)}
Marked(u) ==
  Calm(u) /\ <<u, "marks">> \notin excuse =>
    /\ (\A c \in net : ~HomeCall(u, c)) => page[u].marks = TakenOf(u, page[u].draft.homes)
    /\ \A c \in net : HomeCall(u, c) =>
         /\ c.op = "home" => /\ c.value \in c.homes /\ c.marks = TakenOf(u, c.homes \ {c.value})
                             /\ c.status = "ok" => (c.error <=> HomeTaken(c.value, page[u].loaded.id))
         /\ c.op = "homes" /\ c.status = "ok" => c.marks = TakenOf(u, c.homes)

Of1(u) == Early(u) /\ Typed(u) /\ Plain(u) /\ Once(u) /\ Homely(u) /\ Verdicts(u) /\ Marked(u)
Inv == Shapes /\ Entities /\ Rows /\ InOnce /\ \A u \in Users : Of1(u)

-----------------------------------------------------------------------------
(* Records.                                                                *)
LEMMA FreshFacts ==
  /\ DOMAIN Fresh = DraftFields /\ DOMAIN Of(Fresh) = Fields
  /\ \A f \in Fields : Fresh[f] = Of(Fresh)[f]
  /\ Fresh.homes = {} /\ Fresh.creation = FALSE /\ Fresh.entity = "" /\ ~Fresh.self
  /\ Fresh.name = "" /\ Fresh.short = "" /\ Fresh.expires \in Nat /\ Fresh.ends \in Nat /\ Fresh.ends = 0
BY DEF Fresh, Of, DraftFields, Fields

LEMMA FreshIsPlain == \A u : Simple(u, Fresh) /\ Agree(u, Fresh, Of(Fresh))
<1>1. \A u : Simple(u, Fresh)
  BY FreshFacts DEF Simple
<1>2. \A u : Agree(u, Fresh, Of(Fresh))
  BY FreshFacts DEF Agree
<1> QED BY <1>1, <1>2

LEMMA NothingFacts ==
  /\ DOMAIN Nothing = EntityFields /\ Nothing.id = 0 /\ Nothing.id \in 0 .. 6
  /\ Nothing.name = "" /\ Nothing.short = "" /\ Nothing.entity = ""
BY DEF Nothing, Entity, EntityFields, Fields

LEMMA CallFacts ==
  ASSUME NEW u, NEW op
  PROVE  /\ IsCall(Call(u, op))
         /\ Call(u, op).by = u /\ Call(u, op).op = op /\ Call(u, op).status = "sent"
         /\ Call(u, op).draft = Fresh /\ Call(u, op).wanted = Of(Fresh) /\ Call(u, op).row = 0
         /\ Call(u, op).got = Nothing /\ Call(u, op).homes = {} /\ Call(u, op).marks = {}
<1>1. DOMAIN Call(u, op) = CallFields
  BY DEF Call, CallFields
<1>2. /\ Call(u, op).by = u /\ Call(u, op).op = op /\ Call(u, op).status = "sent"
      /\ Call(u, op).draft = Fresh /\ Call(u, op).wanted = Of(Fresh) /\ Call(u, op).row = 0
      /\ Call(u, op).got = Nothing /\ Call(u, op).homes = {} /\ Call(u, op).marks = {}
  BY DEF Call
<1>3. DOMAIN Call(u, op).draft = DraftFields /\ DOMAIN Call(u, op).wanted = Fields
  BY <1>2, FreshFacts
<1>4. DOMAIN Call(u, op).got = EntityFields /\ Call(u, op).got.id \in 0 .. 6
  BY <1>2, NothingFacts
<1> QED BY <1>1, <1>2, <1>3, <1>4 DEF IsCall

LEMMA EmptyFacts ==
  ASSUME NEW u
  PROVE  /\ IsPage(Empty(u)) /\ Empty(u).at = "closed" /\ Empty(u).draft = Fresh /\ Empty(u).wanted = Of(Fresh)
         /\ Empty(u).loaded = Nothing /\ Empty(u).exists = {} /\ Empty(u).marks = {} /\ ~Empty(u).busy
<1>1. DOMAIN Empty(u) = PageFields
  BY DEF Empty, PageFields
<1>2. /\ Empty(u).at = "closed" /\ Empty(u).draft = Fresh /\ Empty(u).wanted = Of(Fresh)
      /\ Empty(u).loaded = Nothing /\ Empty(u).exists = {} /\ Empty(u).marks = {} /\ ~Empty(u).busy
  BY DEF Empty
<1>3. DOMAIN Empty(u).draft = DraftFields /\ DOMAIN Empty(u).wanted = Fields
  BY <1>2, FreshFacts
<1>4. DOMAIN Empty(u).loaded = EntityFields /\ Empty(u).loaded.id \in 0 .. 6
  BY <1>2, NothingFacts
<1> QED BY <1>1, <1>2, <1>3, <1>4 DEF IsPage

LEMMA PageTurned ==
  ASSUME Shapes, NEW u \in Users, NEW q, page' = [page EXCEPT ![u] = q]
  PROVE  /\ page'[u] = q /\ DOMAIN page' = Users
         /\ \A v \in Users : v # u => page'[v] = page[v]
BY DEF Shapes

LEMMA SceneFacts ==
  ASSUME Shapes, NEW u \in Users
  PROVE  scene.form[u] \in Forms /\ scene.role[u] \in Roles
BY SceneAssumption DEF Shapes

-----------------------------------------------------------------------------
(* Whoever takes no part in a step.                                        *)
SamePage(u) == /\ scene' = scene /\ page'[u] = page[u]
               /\ \A c : c.by = u => (c \in net' <=> c \in net)
               /\ <<u, "homes">> \in excuse' <=> <<u, "homes">> \in excuse
               /\ \A i \in db'.invited : i.by = u => i \in db.invited
               /\ \A r \in db'.requests : r.by = u => r \in db.requests
Unmoved(u) ==
  \/ /\ db'.entities = db.entities
     /\ \A f \in NamesOf("service") \union {"marks"} : <<u, f>> \in excuse' <=> <<u, f>> \in excuse
  \/ \A f \in NamesOf("service") \union {"marks"} : <<u, f>> \in excuse'

LEMMA SameMarks ==
  ASSUME db'.entities = db.entities
  PROVE  /\ \A h, id : HomeTaken(h, id)' <=> HomeTaken(h, id)
         /\ \A k, o, f, v, x : Taken(k, o, f, v, x)' <=> Taken(k, o, f, v, x)
BY DEF HomeTaken, Taken

LEMMA NamesFacts ==
  /\ \A form : NamesOf(form) \subseteq NamesOf("service")
  /\ NamesOf("service") = {"name", "short", "entity"}
BY DEF NamesOf

LEMMA SameScene ==
  ASSUME scene' = scene
  PROVE  /\ \A u : Edits(u)' = Edits(u) /\ Kind(u)' = Kind(u) /\ Target(u)' = Target(u) /\ Mode(u)' = Mode(u)
         /\ \A u, d : Simple(u, d)' = Simple(u, d)
         /\ \A u, d, w : Agree(u, d, w)' = Agree(u, d, w)
<1>1. \A u : Edits(u)' = Edits(u) /\ Kind(u)' = Kind(u) /\ Target(u)' = Target(u) /\ Mode(u)' = Mode(u)
  BY DEF Edits, Kind, Target, Mode
<1> QED BY <1>1 DEF Simple, Agree

LEMMA BystanderKeeps ==
  ASSUME NEW u \in Users, Of1(u), SamePage(u), Unmoved(u)
  PROVE  Of1(u)'
<1> USE DEF SamePage
<1>1. <<u, "marks">> \in excuse => <<u, "marks">> \in excuse'
  BY DEF Unmoved
<1>2. Empty(u)' = Empty(u)
  BY DEF Empty
<1>3. Early(u)'
  <2>1. \/ db'.entities = db.entities
        \/ <<u, "marks">> \in excuse'
    BY DEF Unmoved
  <2>2. page'[u].at = page[u].at /\ [Empty(u) EXCEPT !.at = page[u].at]' = [Empty(u) EXCEPT !.at = page[u].at]
    BY <1>2
  <2>3. page'[u].at \in {"closed", "loading"} =>
          /\ page'[u] = [Empty(u) EXCEPT !.at = page[u].at]'
          /\ \A c \in net' : c.by = u => c.op \in Arrivals
    BY <2>2 DEF Early, Of1
  <2>4. page'[u].at = "open" /\ Edits(u)' => page'[u].loaded.id = Target(u)'
    BY SameScene DEF Early, Of1
  <2>5. \A c \in net' : c.by = u /\ c.op = "update" =>
          Edits(u)' /\ (c.status \in {"sent", "begun"} => c.got.id = Target(u)')
    BY SameScene DEF Early, Of1
  <2>6. ASSUME NEW c \in net', c.by = u, c.op \in Arrivals
        PROVE  /\ page'[u].at = "loading" /\ \A d \in net' : d.by = u => d = c
               /\ c.op = "read" => Edits(u)' \/ scene'.form[u] \in Inviting
               /\ c.op # "read" => ~Edits(u)'
               /\ c.op \in {"mine", "byHome"} => scene'.form[u] = "collaboration"
               /\ c.op = "read" /\ c.status = "ok" =>
                    /\ Proper(c.got) /\ c.got.id = Target(u)' /\ (Edits(u)' => c.got.kind = scene'.form[u])
                    /\ <<u, "marks">> \in excuse' \/ c.got \in db'.entities
    BY <1>1, <2>1, <2>6, SameScene DEF Early, Of1
  <2> QED BY <2>3, <2>4, <2>5, <2>6 DEF Early, Proper
<1>4. Typed(u)' /\ Plain(u)'
  BY SameScene DEF Typed, Plain, Of1
<1>5. Once(u)'
  BY DEF Once, Of1, Spent
<1>6. Homely(u)'
  BY <1>1 DEF Homely, Of1, HomeCall
<1>7. Calm(u)' <=> Calm(u)
  BY DEF Calm
<1>8. Verdicts(u)'
  <2>1. SUFFICES ASSUME Calm(u), NEW f \in NamesOf(scene.form[u]), <<u, f>> \notin excuse'
        PROVE  Asked(u, f)' \/ Right(u, f)'
    BY <1>7 DEF Verdicts
  <2>2. db'.entities = db.entities /\ <<u, f>> \notin excuse
    BY <2>1, NamesFacts DEF Unmoved
  <2>3. Asked(u, f) \/ Right(u, f)
    BY <2>1, <2>2 DEF Of1, Verdicts
  <2>4. CASE Asked(u, f)
    BY <2>4 DEF Asked
  <2>5. CASE Right(u, f)
    BY <2>2, <2>5, SameMarks, SameScene DEF Right
  <2> QED BY <2>3, <2>4, <2>5
<1>9. Marked(u)'
  <2>1. SUFFICES ASSUME Calm(u), <<u, "marks">> \notin excuse'  PROVE Marked(u)'
    BY <1>7 DEF Marked
  <2>2. db'.entities = db.entities /\ <<u, "marks">> \notin excuse
    BY <2>1 DEF Unmoved
  <2>3. \A homes : TakenOf(u, homes)' = TakenOf(u, homes)
    BY <2>2, SameMarks DEF TakenOf
  <2> QED BY <2>1, <2>2, <2>3, SameMarks DEF Marked, HomeCall, Of1
<1> QED BY <1>3, <1>4, <1>5, <1>6, <1>8, <1>9 DEF Of1

-----------------------------------------------------------------------------
(* A click that leaves the homes alone and sends nothing that is stored;   *)
(* the names F are asked about.                                            *)
AllNames == {"name", "short", "entity"}
Kept(u, p, q, F) ==
  /\ IsPage(q) /\ p.at = "open" /\ q.at \in {"open", "left"} /\ (p.busy => q.busy)
  /\ q.loaded = p.loaded /\ q.marks = p.marks
  /\ q.draft.homes = p.draft.homes /\ q.wanted.homes = p.wanted.homes
  /\ \A f \in AllNames \ F : q.draft[f] = p.draft[f] /\ (f \in q.exists <=> f \in p.exists)
  /\ q.draft.org = p.draft.org \/ NamesOf(scene.form[u]) \subseteq F
  /\ Agree(u, p.draft, p.wanted) => Agree(u, q.draft, q.wanted)
  /\ Simple(u, p.draft) => Simple(u, q.draft)
Asks(u, S, F) ==
  /\ \A c \in S : /\ IsCall(c) /\ c.by = u /\ c.draft = Fresh
                  /\ c.op \in {"logo", "network", "delete", "exists"}
                  /\ c.op = "delete" => c.status # "ok"
                  /\ c.op = "exists" => c.field \in AllNames
  /\ \A f \in F : \E c \in S : c.op = "exists" /\ c.field = f
Excused(u) == excuse' = excuse \/ excuse' = excuse \union {<<u, "homes">>, <<u, "marks">>}
Turn(u, q, S, F) ==
  /\ page' = [page EXCEPT ![u] = q] /\ net' = net \union S /\ scene' = scene /\ db' = db
  /\ Excused(u) /\ Kept(u, page[u], q, F) /\ Asks(u, S, F)

LEMMA TurnKeeps ==
  ASSUME Shapes, NEW u \in Users, Of1(u), NEW q, NEW S, NEW F, Turn(u, q, S, F)
  PROVE  Of1(u)'
<1>1. page'[u] = q /\ scene' = scene /\ db' = db /\ net' = net \union S
  BY PageTurned DEF Turn
<1>2. Kept(u, page[u], q, F) /\ Asks(u, S, F) /\ Excused(u)
  BY DEF Turn
<1>3. Early(u)'
  <2>1. \A c \in net' : c.by = u => c.op \notin Arrivals
    BY <1>1, <1>2 DEF Early, Of1, Kept, Asks, Arrivals
  <2>2. q.at \notin {"closed", "loading"} /\ (q.at = "open" /\ Edits(u) => q.loaded.id = Target(u))
    BY <1>2 DEF Early, Of1, Kept
  <2>3. \A c \in net' : c.by = u /\ c.op = "update" =>
          Edits(u) /\ (c.status \in {"sent", "begun"} => c.got.id = Target(u))
    BY <1>1, <1>2 DEF Early, Of1, Asks
  <2> QED BY <1>1, <2>1, <2>2, <2>3, SameScene DEF Early
<1>4. Typed(u)'
  <2>1. Agree(u, q.draft, q.wanted)
    BY <1>2 DEF Kept, Typed, Of1
  <2>2. \A c \in net' : c.by = u /\ c.op \in {"create", "update", "request"} => c \in net
    BY <1>1, <1>2 DEF Asks
  <2>3. <<u, "homes">> \in excuse => <<u, "homes">> \in excuse'
    BY <1>2 DEF Excused
  <2> QED BY <1>1, <2>1, <2>2, <2>3, SameScene DEF Typed, Of1
<1>5. Plain(u)'
  <2>1. Simple(u, q.draft)
    BY <1>2 DEF Kept, Plain, Of1
  <2>2. \A c \in net' : c.by = u => c \in net \/ c.draft = Fresh
    BY <1>1, <1>2 DEF Asks
  <2> QED BY <1>1, <2>1, <2>2, SameScene, FreshIsPlain DEF Plain, Of1
<1>6. Once(u)'
  <2>1. \A c \in net' : c.by = u /\ c.op \in OnceOps => c \in net
    BY <1>1, <1>2 DEF Asks, OnceOps
  <2>2. Spent(u) => Spent(u)'
    BY <1>1, <1>2 DEF Spent, Kept
  <2> QED BY <1>1, <2>1, <2>2 DEF Once, Of1
<1>7. Homely(u)'
  <2>1. \A c \in net' : HomeCall(u, c) => c \in net
    BY <1>1, <1>2 DEF Asks, HomeCall
  <2>2. \A c \in net' : c.by = u /\ c.op = "exists" => c.field \in AllNames
    BY <1>1, <1>2 DEF Asks, Homely, Of1, AllNames
  <2>3. \/ excuse' = excuse
        \/ <<u, "homes">> \in excuse' /\ <<u, "marks">> \in excuse'
    BY <1>2 DEF Excused
  <2>4. q.draft.homes = page[u].draft.homes /\ q.wanted.homes = page[u].wanted.homes /\ page[u].at = "open"
    BY <1>2 DEF Kept
  <2>5. \A c \in net' : HomeCall(u, c) => scene'.form[u] = "organisation"
    BY <1>1, <2>1 DEF Homely, Of1
  <2>6. CASE excuse' = excuse
    <3>1. ASSUME <<u, "homes">> \notin excuse
          PROVE  /\ \A c, d \in net' : HomeCall(u, c) /\ HomeCall(u, d) => c = d
                 /\ \A c \in net' : HomeCall(u, c) => c.homes = q.wanted.homes
                 /\ (\A c \in net' : HomeCall(u, c) => c.op = "home") => q.draft.homes = q.wanted.homes
      BY <1>1, <2>1, <2>4, <3>1 DEF Homely, Of1
    <3> QED BY <1>1, <2>2, <2>5, <2>6, <3>1 DEF Homely, HomeCall, AllNames, Of1
  <2>7. CASE <<u, "homes">> \in excuse' /\ <<u, "marks">> \in excuse'
    BY <2>2, <2>5, <2>7 DEF Homely, HomeCall, AllNames
  <2> QED BY <2>3, <2>6, <2>7
<1>8. Calm(u)' => Calm(u)
  BY <1>1, <1>2 DEF Calm, Kept
<1>9. Verdicts(u)'
  <2>1. SUFFICES ASSUME Calm(u), NEW f \in NamesOf(scene.form[u]), <<u, f>> \notin excuse'
        PROVE  Asked(u, f)' \/ Right(u, f)'
    BY <1>1, <1>8 DEF Verdicts
  <2>2. <<u, f>> \notin excuse
    BY <1>2, <2>1 DEF Excused
  <2>3. CASE f \in F
    BY <1>1, <1>2, <2>3 DEF Asks, Asked
  <2>4. CASE f \notin F /\ Asked(u, f)
    BY <1>1, <2>4 DEF Asked
  <2>5. CASE f \notin F /\ Right(u, f)
    <3>1. f \in AllNames
      BY NamesFacts DEF AllNames
    <3>2. /\ q.draft[f] = page[u].draft[f] /\ (f \in q.exists <=> f \in page[u].exists)
          /\ q.draft.org = page[u].draft.org /\ q.loaded = page[u].loaded
      BY <1>2, <2>1, <2>5, <3>1 DEF Kept
    <3>3. Kind(u)' = Kind(u)
      BY <1>1, SameScene
    <3> QED BY <1>1, <2>5, <3>2, <3>3, SameMarks DEF Right
  <2> QED BY <2>1, <2>2, <2>3, <2>4, <2>5 DEF Verdicts, Of1
<1>10. Marked(u)'
  <2>1. SUFFICES ASSUME Calm(u), <<u, "marks">> \notin excuse'  PROVE Marked(u)'
    BY <1>8 DEF Marked
  <2>2. <<u, "marks">> \notin excuse
    BY <1>2, <2>1 DEF Excused
  <2>3. \A c : c \in net' /\ HomeCall(u, c) <=> c \in net /\ HomeCall(u, c)
    BY <1>1, <1>2 DEF Asks, HomeCall
  <2>4. q.loaded = page[u].loaded /\ q.marks = page[u].marks /\ q.draft.homes = page[u].draft.homes
    BY <1>2 DEF Kept
  <2>5. \A homes : TakenOf(u, homes)' = TakenOf(u, homes)
    BY <1>1, <2>4, SameMarks DEF TakenOf
  <2>6. (\A c \in net' : ~HomeCall(u, c)) => q.marks = TakenOf(u, q.draft.homes)
    BY <2>1, <2>2, <2>3, <2>4 DEF Marked, Of1
  <2>7. ASSUME NEW c \in net, HomeCall(u, c)
        PROVE  /\ c.op = "home" => /\ c.value \in c.homes /\ c.marks = TakenOf(u, c.homes \ {c.value})
                                   /\ c.status = "ok" => (c.error <=> HomeTaken(c.value, page[u].loaded.id))
               /\ c.op = "homes" /\ c.status = "ok" => c.marks = TakenOf(u, c.homes)
    BY <2>1, <2>2, <2>7 DEF Marked, Of1
  <2> QED BY <1>1, <2>3, <2>4, <2>5, <2>6, <2>7, SameMarks DEF Marked, HomeCall
<1> QED BY <1>3, <1>4, <1>5, <1>6, <1>7, <1>9, <1>10 DEF Of1

-----------------------------------------------------------------------------
(* The clicks that are such turns.                                         *)
LEMMA KeptStill ==
  ASSUME NEW u, NEW p, IsPage(p), p.at = "open", NEW q, DOMAIN q = PageFields, DOMAIN q.draft = DraftFields,
         q.wanted = p.wanted, q.loaded = p.loaded, q.exists = p.exists, q.marks = p.marks,
         q.at = p.at, p.busy => q.busy,
         \A f \in Fields : q.draft[f] = p.draft[f], q.draft.org = p.draft.org,
         Simple(u, p.draft) => Simple(u, q.draft)
  PROVE  Kept(u, p, q, {})
<1>1. \A f \in AllNames \union {"homes"} : f \in Fields
  BY DEF Fields, AllNames
<1>2. Agree(u, p.draft, p.wanted) => Agree(u, q.draft, q.wanted)
  BY DEF Agree
<1>3. q.draft.homes = p.draft.homes
  BY <1>1
<1>4. IsPage(q)
  BY DEF IsPage
<1> QED BY <1>1, <1>2, <1>3, <1>4 DEF Kept

LEMMA StillSimple ==
  ASSUME NEW u, NEW d, NEW e, Simple(u, d), \A f \in Fields : e[f] = d[f], e.expires = d.expires, e.ends = d.ends,
         e.self = d.self \/ scene.form[u] = "collaboration"
  PROVE  Simple(u, e)
<1>1. e.homes = d.homes /\ e.creation = d.creation /\ e.entity = d.entity
  BY DEF Fields
<1> QED BY <1>1 DEF Simple

LEMMA KeptSets ==
  ASSUME NEW u, NEW p, IsPage(p), p.at = "open", NEW F, NEW field \in Fields \ {"homes"}, NEW v,
         field \in AllNames => field \in F,
         field = "creation" => scene.form[u] = "organisation", field = "entity" => scene.form[u] = "service"
  PROVE  Kept(u, p, Sets(p, field, v), F)
<1> DEFINE q == Sets(p, field, v)
<1>1. /\ DOMAIN q = PageFields /\ DOMAIN q.draft = DraftFields /\ DOMAIN q.wanted = Fields
      /\ q.at = p.at /\ q.busy = p.busy /\ q.loaded = p.loaded /\ q.marks = p.marks /\ q.exists = p.exists
  BY DEF Sets, IsPage, PageFields, DraftFields, Fields
<1>2. \A g \in DraftFields : q.draft[g] = IF g = field THEN v ELSE p.draft[g]
  BY DEF Sets, IsPage, PageFields, DraftFields, Fields
<1>3. \A g \in Fields : q.wanted[g] = IF g = field THEN v ELSE p.wanted[g]
  BY DEF Sets, IsPage, PageFields, DraftFields, Fields
<1>4. \A g \in Fields : g \in DraftFields
  BY DEF Fields, DraftFields
<1> HIDE DEF q
<1>5. Agree(u, p.draft, p.wanted) => Agree(u, q.draft, q.wanted)
  BY <1>2, <1>3, <1>4 DEF Agree
<1>6. /\ q.draft.homes = p.draft.homes /\ q.wanted.homes = p.wanted.homes /\ q.draft.org = p.draft.org
      /\ q.draft.self = p.draft.self /\ q.draft.expires = p.draft.expires /\ q.draft.ends = p.draft.ends
      /\ q.draft.creation = p.draft.creation \/ field = "creation"
      /\ q.draft.entity = p.draft.entity \/ field = "entity"
  BY <1>2, <1>3 DEF DraftFields, Fields
<1>7. Simple(u, p.draft) => Simple(u, q.draft)
  BY <1>6 DEF Simple
<1>8. \A f \in AllNames \ F : q.draft[f] = p.draft[f]
  BY <1>2 DEF AllNames, DraftFields
<1>9. IsPage(q)
  BY <1>1 DEF IsPage
<1>10. Kept(u, p, q, F)
  BY <1>1, <1>5, <1>6, <1>7, <1>8, <1>9 DEF Kept
<1> QED BY <1>10 DEF q

LEMMA KeptOn ==
  ASSUME NEW u, NEW p, NEW q, NEW F, Kept(u, p, q, F), NEW r, DOMAIN r = PageFields,
         r.draft = q.draft, r.wanted = q.wanted, r.loaded = q.loaded, r.at = q.at, r.busy = q.busy, r.marks = q.marks,
         \A f \in AllNames \ F : f \in r.exists <=> f \in q.exists
  PROVE  Kept(u, p, r, F)
BY DEF Kept, IsPage

LEMMA AsksFacts ==
  ASSUME NEW u \in Users, Shapes, NEW field \in AllNames, NEW v, NEW org
  PROVE  /\ AsksExists(u, field, v, org) # {}
         /\ \A c \in AsksExists(u, field, v, org) :
           /\ IsCall(c) /\ c.by = u /\ c.draft = Fresh /\ c.op = "exists" /\ c.field = field
<1> DEFINE b == Call(u, "exists")
           c == [b EXCEPT !.field = field, !.value = v, !.org = org, !.got = page[u].loaded]
<1>1. IsCall(b) /\ b.by = u /\ b.draft = Fresh /\ b.op = "exists"
  BY CallFacts
<1>2. IsPage(page[u])
  BY DEF Shapes
<1> HIDE DEF b
<1>3. DOMAIN c = CallFields /\ c.draft = b.draft /\ c.wanted = b.wanted /\ c.got = page[u].loaded
  BY <1>1 DEF IsCall, CallFields
<1>4. c.by = u /\ c.op = "exists" /\ c.field = field
  BY <1>1 DEF IsCall, CallFields
<1> HIDE DEF c
<1>5. IsCall(c)
  BY <1>1, <1>2, <1>3 DEF IsCall, IsPage
<1>6. AsksExists(u, field, v, org) = {c}
  BY DEF AsksExists, c, b
<1> QED BY <1>1, <1>3, <1>4, <1>5, <1>6

Quietly(u) == \E q, S, F : Turn(u, q, S, F)
(* Nothing but calls about networks, logos and deletions is sent.          *)
LEMMA ShownQuietly ==
  ASSUME Shapes, NEW u \in Users, NEW q, Kept(u, page[u], q, {}), NEW S, Asks(u, S, {}), net' = net \union S,
         Shows(u, q), scene' = scene, db' = db, excuse' = excuse
  PROVE  Quietly(u)
<1> DEFINE r == [q EXCEPT !.n = @ + 1]
<1>1. DOMAIN q = PageFields
  BY DEF Kept, IsPage
<1>2. /\ DOMAIN r = PageFields /\ r.draft = q.draft /\ r.wanted = q.wanted /\ r.loaded = q.loaded /\ r.at = q.at
      /\ r.busy = q.busy /\ r.marks = q.marks /\ r.exists = q.exists
  BY <1>1 DEF PageFields
<1>3. page' = [page EXCEPT ![u] = r]
  BY DEF Shows
<1> HIDE DEF r
<1>4. Kept(u, page[u], r, {})
  BY <1>2, KeptOn
<1>5. Turn(u, r, S, {})
  BY <1>3, <1>4 DEF Turn, Excused
<1> QED BY <1>5 DEF Quietly

LEMMA NothingAsked == \A u : Asks(u, {}, {})
BY DEF Asks

LEMMA SetsQuietly ==
  ASSUME Shapes, NEW u \in Users, page[u].at = "open", NEW field \in {"text", "uri", "joins", "creation"}, NEW v, NEW w,
         field = "creation" => scene.form[u] = "organisation",
         Shows(u, Sets(page[u], field, v)) \/ Shows(u, [Sets(page[u], field, v) EXCEPT !.invalid = w]),
         UNCHANGED net, OnlyForms
  PROVE  Quietly(u)
<1> DEFINE p == page[u]
           q == Sets(p, field, v)
           r == [q EXCEPT !.invalid = w]
<1>1. IsPage(p)
  BY DEF Shapes
<1>2. field \in Fields \ {"homes"} /\ field \notin AllNames
  BY DEF Fields, AllNames
<1>3. Kept(u, p, q, {})
  BY <1>1, <1>2, KeptSets DEF AllNames
<1>4. scene' = scene /\ db' = db /\ excuse' = excuse /\ net' = net \union {}
  BY DEF OnlyForms
<1>5. CASE Shows(u, q)
  BY <1>3, <1>4, <1>5, ShownQuietly, NothingAsked
<1>6. CASE Shows(u, r)
  <2>1. DOMAIN q = PageFields
    BY <1>3 DEF Kept, IsPage
  <2> HIDE DEF q
  <2>2. /\ DOMAIN r = PageFields /\ r.draft = q.draft /\ r.wanted = q.wanted /\ r.loaded = q.loaded /\ r.at = q.at
        /\ r.busy = q.busy /\ r.marks = q.marks /\ r.exists = q.exists
    BY <2>1 DEF PageFields
  <2> HIDE DEF r
  <2>3. Kept(u, p, r, {})
    BY <1>3, <2>2, KeptOn
  <2> QED BY <1>4, <1>6, <2>3, ShownQuietly, NothingAsked
<1> QED BY <1>5, <1>6

LEMMA StillQuietly ==
  ASSUME Shapes, NEW u \in Users, NEW q, NEW S, page[u].at = "open", Shows(u, q), Asks(u, S, {}), net' = net \union S,
         OnlyForms, DOMAIN q = PageFields, DOMAIN q.draft = DraftFields,
         q.wanted = page[u].wanted, q.loaded = page[u].loaded, q.exists = page[u].exists, q.marks = page[u].marks,
         q.at = page[u].at, q.busy = page[u].busy,
         \A f \in Fields : q.draft[f] = page[u].draft[f], q.draft.org = page[u].draft.org,
         Simple(u, page[u].draft) => Simple(u, q.draft)
  PROVE  Quietly(u)
<1>1. IsPage(page[u])
  BY DEF Shapes
<1>2. Kept(u, page[u], q, {})
  BY <1>1, KeptStill
<1>3. scene' = scene /\ db' = db /\ excuse' = excuse
  BY DEF OnlyForms
<1> QED BY <1>2, <1>3, ShownQuietly

(* Whatever is no field of what is stored.                                 *)
Still(p, q) ==
  /\ DOMAIN q = PageFields /\ DOMAIN q.draft = DraftFields
  /\ q.wanted = p.wanted /\ q.loaded = p.loaded /\ q.exists = p.exists
  /\ q.marks = p.marks /\ q.at = p.at /\ q.busy = p.busy
  /\ \A f \in Fields \union {"org", "self", "expires", "ends"} : q.draft[f] = p.draft[f]
LEMMA StillPages ==
  ASSUME NEW p, IsPage(p), NEW v, NEW w
  PROVE  /\ Still(p, p)
         /\ Still(p, [p EXCEPT !.draft.message = v])
         /\ Still(p, [p EXCEPT !.draft.logo = v])
         /\ Still(p, [p EXCEPT !.draft.logo = v, !.orgLogo = w])
         /\ Still(p, [p EXCEPT !.orgLogo = w, !.draft.logo = v])
         /\ Still(p, [p EXCEPT !.draft.mail = v, !.invalid = w])
         /\ Still(p, [p EXCEPT !.draft.complied = v])
         /\ Still(p, [p EXCEPT !.draft.nets = v])
         /\ Still(p, [p EXCEPT !.draft.invited = v])
         /\ Still(p, [p EXCEPT !.dialog = v, !.onCancel = w])
         /\ Still(p, [p EXCEPT !.dialog = v])
<1>1. Still(p, p)
  BY DEF IsPage, Still
<1>2. Still(p, [p EXCEPT !.draft.message = v])
  BY DEF IsPage, Still, PageFields, DraftFields, Fields
<1>3. Still(p, [p EXCEPT !.draft.logo = v])
  BY DEF IsPage, Still, PageFields, DraftFields, Fields
<1>4. Still(p, [p EXCEPT !.draft.logo = v, !.orgLogo = w])
  BY DEF IsPage, Still, PageFields, DraftFields, Fields
<1>5. Still(p, [p EXCEPT !.orgLogo = w, !.draft.logo = v])
  BY DEF IsPage, Still, PageFields, DraftFields, Fields
<1>6. Still(p, [p EXCEPT !.draft.mail = v, !.invalid = w])
  BY DEF IsPage, Still, PageFields, DraftFields, Fields
<1>7. Still(p, [p EXCEPT !.draft.complied = v])
  BY DEF IsPage, Still, PageFields, DraftFields, Fields
<1>8. Still(p, [p EXCEPT !.draft.nets = v])
  BY DEF IsPage, Still, PageFields, DraftFields, Fields
<1>9. Still(p, [p EXCEPT !.draft.invited = v])
  BY DEF IsPage, Still, PageFields, DraftFields, Fields
<1>10. Still(p, [p EXCEPT !.dialog = v, !.onCancel = w])
  BY DEF IsPage, Still, PageFields, DraftFields, Fields
<1>11. Still(p, [p EXCEPT !.dialog = v])
  BY DEF IsPage, Still, PageFields, DraftFields, Fields
<1> QED BY <1>1, <1>2, <1>3, <1>4, <1>5, <1>6, <1>7, <1>8, <1>9, <1>10, <1>11

LEMMA OtherQuietly ==
  ASSUME Shapes, NEW u \in Users, NEW q, NEW S, page[u].at = "open", Shows(u, q), Asks(u, S, {}), net' = net \union S,
         OnlyForms, Still(page[u], q)
  PROVE  Quietly(u)
<1>1. Simple(u, page[u].draft) => Simple(u, q.draft)
  BY StillSimple DEF Still
<1> QED BY <1>1, StillQuietly DEF Still

LEMMA FreeFacts ==
  ASSUME Shapes, NEW u \in Users, NEW op, Free(u, op)
  PROVE  page[u].at = "open" /\ ~page[u].busy /\ IsPage(page[u]) /\ page[u].dialog = "none"
BY DEF Free, Shapes

LEMMA NeutralCalls ==
  ASSUME NEW u, NEW op \in {"logo", "network", "delete"}, NEW got, DOMAIN got = EntityFields, got.id \in 0 .. 6
  PROVE  /\ op # "delete" => \A v, i, e : Asks(u, {[Call(u, op) EXCEPT !.status = "ok", !.row = i, !.value = v, !.error = e]}, {})
         /\ op # "delete" => Asks(u, {[Call(u, op) EXCEPT !.status = "ok"]}, {})
         /\ Asks(u, {[Call(u, op) EXCEPT !.got = got]}, {})
<1> DEFINE b == Call(u, op)
<1>1. IsCall(b) /\ b.by = u /\ b.draft = Fresh /\ b.op = op /\ b.status = "sent"
  BY CallFacts
<1> HIDE DEF b
<1>2. ASSUME op # "delete", NEW v, NEW i, NEW e, NEW c, c = [b EXCEPT !.status = "ok", !.row = i, !.value = v, !.error = e]
      PROVE  Asks(u, {c}, {})
  <2>1. /\ DOMAIN c = CallFields /\ c.draft = b.draft /\ c.wanted = b.wanted /\ c.got = b.got /\ c.by = b.by /\ c.op = b.op
    BY <1>1, <1>2 DEF IsCall, CallFields
  <2> QED BY <1>1, <1>2, <2>1 DEF Asks, IsCall
<1>3. ASSUME op # "delete", NEW c, c = [b EXCEPT !.status = "ok"]
      PROVE  Asks(u, {c}, {})
  <2>1. /\ DOMAIN c = CallFields /\ c.draft = b.draft /\ c.wanted = b.wanted /\ c.got = b.got /\ c.by = b.by /\ c.op = b.op
    BY <1>1, <1>3 DEF IsCall, CallFields
  <2> QED BY <1>1, <1>3, <2>1 DEF Asks, IsCall
<1>4. ASSUME NEW c, c = [b EXCEPT !.got = got]
      PROVE  Asks(u, {c}, {})
  <2>1. /\ DOMAIN c = CallFields /\ c.draft = b.draft /\ c.wanted = b.wanted /\ c.got = got /\ c.by = b.by /\ c.op = b.op
        /\ c.status = b.status
    BY <1>1, <1>4 DEF IsCall, CallFields
  <2> QED BY <1>1, <1>4, <2>1 DEF Asks, IsCall
<1> QED BY <1>2, <1>3, <1>4 DEF b

(* Clicks that change a field of the draft, and the user's wish with it.   *)
SetsField(u) ==
  \/ DescribeCollaboration(u) \/ EditWebsite(u) \/ FlipJoinRequests(u) \/ DescribeOrganisation(u)
  \/ FlipCreation(u) \/ EditPolicy(u)
LEMMA SetsFieldQuietly ==
  ASSUME Shapes, NEW u \in Users, SetsField(u)
  PROVE  Quietly(u)
<1>1. CASE DescribeCollaboration(u)
  <2>1. page[u].at = "open" /\ OnlyForms /\ UNCHANGED net
    BY <1>1, FreeFacts DEF DescribeCollaboration, On, OnlyForms
  <2>2. \E v, w : \/ Shows(u, Sets(page[u], "text", v))
                  \/ Shows(u, [Sets(page[u], "text", v) EXCEPT !.invalid = w])
    BY <1>1 DEF DescribeCollaboration
  <2>3. "text" = "creation" => scene.form[u] = "organisation"
    BY <1>1 DEF DescribeCollaboration, On
  <2> QED BY <2>1, <2>2, <2>3, SetsQuietly
<1>2. CASE EditWebsite(u)
  <2>1. page[u].at = "open" /\ OnlyForms /\ UNCHANGED net
    BY <1>2, FreeFacts DEF EditWebsite, On, OnlyForms
  <2>2. \E v, w : \/ Shows(u, Sets(page[u], "uri", v))
                  \/ Shows(u, [Sets(page[u], "uri", v) EXCEPT !.invalid = w])
    BY <1>2 DEF EditWebsite
  <2>3. "uri" = "creation" => scene.form[u] = "organisation"
    BY <1>2 DEF EditWebsite, On
  <2> QED BY <2>1, <2>2, <2>3, SetsQuietly
<1>3. CASE FlipJoinRequests(u)
  <2>1. page[u].at = "open" /\ OnlyForms /\ UNCHANGED net
    BY <1>3, FreeFacts DEF FlipJoinRequests, On, OnlyForms, Flips
  <2>2. \E v, w : \/ Shows(u, Sets(page[u], "joins", v))
                  \/ Shows(u, [Sets(page[u], "joins", v) EXCEPT !.invalid = w])
    BY <1>3 DEF FlipJoinRequests, Flips
  <2>3. "joins" = "creation" => scene.form[u] = "organisation"
    BY <1>3 DEF FlipJoinRequests, On
  <2> QED BY <2>1, <2>2, <2>3, SetsQuietly
<1>4. CASE DescribeOrganisation(u)
  <2>1. page[u].at = "open" /\ OnlyForms /\ UNCHANGED net
    BY <1>4, FreeFacts DEF DescribeOrganisation, On, OnlyForms
  <2>2. \E v, w : \/ Shows(u, Sets(page[u], "text", v))
                  \/ Shows(u, [Sets(page[u], "text", v) EXCEPT !.invalid = w])
    BY <1>4 DEF DescribeOrganisation
  <2>3. "text" = "creation" => scene.form[u] = "organisation"
    BY <1>4 DEF DescribeOrganisation, On
  <2> QED BY <2>1, <2>2, <2>3, SetsQuietly
<1>5. CASE FlipCreation(u)
  <2>1. page[u].at = "open" /\ OnlyForms /\ UNCHANGED net
    BY <1>5, FreeFacts DEF FlipCreation, On, OnlyForms, Flips
  <2>2. \E v, w : \/ Shows(u, Sets(page[u], "creation", v))
                  \/ Shows(u, [Sets(page[u], "creation", v) EXCEPT !.invalid = w])
    BY <1>5 DEF FlipCreation, Flips
  <2>3. "creation" = "creation" => scene.form[u] = "organisation"
    BY <1>5 DEF FlipCreation, On
  <2> QED BY <2>1, <2>2, <2>3, SetsQuietly
<1>6. CASE EditPolicy(u)
  <2>1. page[u].at = "open" /\ OnlyForms /\ UNCHANGED net
    BY <1>6, FreeFacts DEF EditPolicy, On, OnlyForms
  <2>2. \E v, w : \/ Shows(u, Sets(page[u], "uri", v))
                  \/ Shows(u, [Sets(page[u], "uri", v) EXCEPT !.invalid = w])
    BY <1>6 DEF EditPolicy
  <2>3. "uri" = "creation" => scene.form[u] = "organisation"
    BY <1>6 DEF EditPolicy, On
  <2> QED BY <2>1, <2>2, <2>3, SetsQuietly
<1> QED BY <1>1, <1>2, <1>3, <1>4, <1>5, <1>6 DEF SetsField

(* Clicks that change something else.                                      *)
SetsOther(u) ==
  \/ Motivate(u) \/ UploadLogo(u) \/ UseOrganisationLogo(u) \/ EditMail(u) \/ Comply(u)
  \/ AddNetwork(u) \/ TypeNetwork(u) \/ DeleteNetwork(u) \/ AddMail(u) \/ RemoveMail(u)
  \/ FlipCurrentUserAdmin(u) \/ SetExpiry(u) \/ SetMembershipEnd(u)
  \/ Cancel(u) \/ DeleteCollaboration(u) \/ DeleteOrganisation(u)
LEMMA SetsOtherQuietly ==
  ASSUME Shapes, NEW u \in Users, SetsOther(u)
  PROVE  Quietly(u)
<1> DEFINE p == page[u]
<1>1. CASE Motivate(u)
  <2>1. p.at = "open" /\ OnlyForms /\ net' = net \union {} /\ IsPage(p)
    BY <1>1, FreeFacts DEF Motivate, OnlyForms, Fills, On
  <2>2. \E v, w : Shows(u, [p EXCEPT !.draft.message = v])
    BY <1>1 DEF Motivate, Fills, On
  <2> QED BY <2>1, <2>2, StillPages, NothingAsked, OtherQuietly
<1>2. CASE UploadLogo(u)
  <2>1. p.at = "open" /\ OnlyForms /\ net' = net \union {} /\ IsPage(p)
    BY <1>2, FreeFacts DEF UploadLogo, OnlyForms
  <2>2. \E v, w : Shows(u, [p EXCEPT !.draft.logo = v])
    BY <1>2 DEF UploadLogo
  <2> QED BY <2>1, <2>2, StillPages, NothingAsked, OtherQuietly
<1>3. CASE EditMail(u)
  <2>1. p.at = "open" /\ OnlyForms /\ net' = net \union {} /\ IsPage(p)
    BY <1>3, FreeFacts DEF EditMail, OnlyForms, FillsAddress, On
  <2>2. \E v, w : Shows(u, [p EXCEPT !.draft.mail = v, !.invalid = w])
    BY <1>3 DEF EditMail, FillsAddress, On
  <2> QED BY <2>1, <2>2, StillPages, NothingAsked, OtherQuietly
<1>4. CASE Comply(u)
  <2>1. p.at = "open" /\ OnlyForms /\ net' = net \union {} /\ IsPage(p)
    BY <1>4, FreeFacts DEF Comply, OnlyForms, On
  <2>2. \E v, w : Shows(u, [p EXCEPT !.draft.complied = v])
    BY <1>4 DEF Comply, On
  <2> QED BY <2>1, <2>2, StillPages, NothingAsked, OtherQuietly
<1>5. CASE AddNetwork(u)
  <2>1. p.at = "open" /\ OnlyForms /\ net' = net \union {} /\ IsPage(p)
    BY <1>5, FreeFacts DEF AddNetwork, OnlyForms, On
  <2>2. \E v, w : Shows(u, [p EXCEPT !.draft.nets = v])
    BY <1>5 DEF AddNetwork, On
  <2> QED BY <2>1, <2>2, StillPages, NothingAsked, OtherQuietly
<1>6. CASE DeleteNetwork(u)
  <2>1. p.at = "open" /\ OnlyForms /\ net' = net \union {} /\ IsPage(p)
    BY <1>6, FreeFacts DEF DeleteNetwork, OnlyForms, On
  <2>2. \E v, w : Shows(u, [p EXCEPT !.draft.nets = v])
    BY <1>6 DEF DeleteNetwork, On
  <2> QED BY <2>1, <2>2, StillPages, NothingAsked, OtherQuietly
<1>7. CASE AddMail(u)
  <2>1. p.at = "open" /\ OnlyForms /\ net' = net \union {} /\ IsPage(p)
    BY <1>7, FreeFacts DEF AddMail, OnlyForms
  <2>2. \E v, w : Shows(u, [p EXCEPT !.draft.invited = v])
    BY <1>7 DEF AddMail
  <2> QED BY <2>1, <2>2, StillPages, NothingAsked, OtherQuietly
<1>8. CASE RemoveMail(u)
  <2>1. p.at = "open" /\ OnlyForms /\ net' = net \union {} /\ IsPage(p)
    BY <1>8, FreeFacts DEF RemoveMail, OnlyForms
  <2>2. \E v, w : Shows(u, [p EXCEPT !.draft.invited = v])
    BY <1>8 DEF RemoveMail
  <2> QED BY <2>1, <2>2, StillPages, NothingAsked, OtherQuietly
<1>9. CASE Cancel(u)
  <2>1. p.at = "open" /\ OnlyForms /\ net' = net \union {} /\ IsPage(p)
    BY <1>9, FreeFacts DEF Cancel, OnlyForms
  <2>2. \E v, w : Shows(u, [p EXCEPT !.dialog = v, !.onCancel = w])
    BY <1>9 DEF Cancel
  <2> QED BY <2>1, <2>2, StillPages, NothingAsked, OtherQuietly
<1>10. CASE DeleteCollaboration(u)
  <2>1. p.at = "open" /\ OnlyForms /\ net' = net \union {} /\ IsPage(p)
    BY <1>10, FreeFacts DEF DeleteCollaboration, OnlyForms, On
  <2>2. \E v, w : Shows(u, [p EXCEPT !.dialog = v, !.onCancel = w])
    BY <1>10 DEF DeleteCollaboration, On
  <2> QED BY <2>1, <2>2, StillPages, NothingAsked, OtherQuietly
<1>11. CASE DeleteOrganisation(u)
  <2>1. p.at = "open" /\ OnlyForms /\ net' = net \union {} /\ IsPage(p)
    BY <1>11, FreeFacts DEF DeleteOrganisation, OnlyForms, On
  <2>2. \E v, w : Shows(u, [p EXCEPT !.dialog = v])
    BY <1>11 DEF DeleteOrganisation, On
  <2> QED BY <2>1, <2>2, StillPages, NothingAsked, OtherQuietly
<1>12. CASE UseOrganisationLogo(u)
  <2>1. p.at = "open" /\ OnlyForms /\ IsPage(p)
    BY <1>12, FreeFacts DEF UseOrganisationLogo, OnlyForms, On
  <2>2. CASE p.orgLogo
    <3>1. Shows(u, [p EXCEPT !.orgLogo = FALSE, !.draft.logo = ""]) /\ net' = net \union {}
      BY <1>12, <2>2 DEF UseOrganisationLogo
    <3> QED BY <2>1, <3>1, StillPages, NothingAsked, OtherQuietly
  <2>3. CASE ~p.orgLogo
    <3>1. Shows(u, p) /\ net' = net \union {[Call(u, "logo") EXCEPT !.status = "ok"]}
      BY <1>12, <2>3 DEF UseOrganisationLogo, Sends
    <3>2. Asks(u, {[Call(u, "logo") EXCEPT !.status = "ok"]}, {})
      BY NeutralCalls, NothingFacts
    <3> QED BY <2>1, <3>1, <3>2, StillPages, OtherQuietly
  <2> QED BY <2>2, <2>3
<1>13. CASE TypeNetwork(u)
  <2>1. p.at = "open" /\ OnlyForms /\ IsPage(p)
    BY <1>13, FreeFacts DEF TypeNetwork, OnlyForms, On
  <2>2. PICK i, v : /\ Shows(u, [p EXCEPT !.draft.nets[i].value = v])
                    /\ IF v = "" THEN UNCHANGED net
                       ELSE Sends({[Call(u, "network") EXCEPT !.status = "ok", !.row = i, !.value = v, !.error = (v = "bad")]})
    BY <1>13 DEF TypeNetwork
  <2>3. Still(p, [p EXCEPT !.draft.nets[i].value = v])
    BY <2>1 DEF IsPage, Still, PageFields, DraftFields, Fields
  <2>4. CASE v = ""
    <3>1. net' = net \union {}
      BY <2>2, <2>4
    <3> QED BY <2>1, <2>2, <2>3, <3>1, NothingAsked, OtherQuietly
  <2>5. CASE v # ""
    <3>1. net' = net \union {[Call(u, "network") EXCEPT !.status = "ok", !.row = i, !.value = v, !.error = (v = "bad")]}
      BY <2>2, <2>5 DEF Sends
    <3>2. Asks(u, {[Call(u, "network") EXCEPT !.status = "ok", !.row = i, !.value = v, !.error = (v = "bad")]}, {})
      BY NeutralCalls, NothingFacts
    <3> QED BY <2>1, <2>2, <2>3, <3>1, <3>2, OtherQuietly
  <2> QED BY <2>4, <2>5
<1>14. ASSUME NEW q, Shows(u, q), p.at = "open", OnlyForms, UNCHANGED net, IsPage(p),
              DOMAIN q = PageFields, DOMAIN q.draft = DraftFields,
              q.wanted = p.wanted, q.loaded = p.loaded, q.exists = p.exists, q.marks = p.marks, q.at = p.at, q.busy = p.busy,
              \A f \in Fields : q.draft[f] = p.draft[f], q.draft.org = p.draft.org,
              Simple(u, p.draft) => Simple(u, q.draft)
       PROVE  Quietly(u)
  <2>1. net' = net \union {}
    BY <1>14
  <2> QED BY <1>14, <2>1, NothingAsked, StillQuietly
<1>15. CASE FlipCurrentUserAdmin(u)
  <2>1. p.at = "open" /\ OnlyForms /\ UNCHANGED net /\ IsPage(p) /\ scene.form[u] = "collaboration"
    BY <1>15, FreeFacts DEF FlipCurrentUserAdmin, OnlyForms, On
  <2> DEFINE q == [p EXCEPT !.draft.self = ~@, !.draft.invited = IF p.draft.self THEN @ \ {"own"} ELSE @ \union {"own"}]
  <2>2. Shows(u, q)
    BY <1>15 DEF FlipCurrentUserAdmin
  <2>3. /\ DOMAIN q = PageFields /\ DOMAIN q.draft = DraftFields
        /\ q.wanted = p.wanted /\ q.loaded = p.loaded /\ q.exists = p.exists /\ q.marks = p.marks /\ q.at = p.at /\ q.busy = p.busy
    BY <2>1 DEF IsPage, PageFields, DraftFields
  <2>4. /\ \A f \in Fields : q.draft[f] = p.draft[f]
        /\ q.draft.org = p.draft.org /\ q.draft.expires = p.draft.expires /\ q.draft.ends = p.draft.ends
    BY <2>1 DEF IsPage, PageFields, DraftFields, Fields
  <2> HIDE DEF q
  <2>5. Simple(u, p.draft) => Simple(u, q.draft)
    BY <2>1, <2>4, StillSimple
  <2> QED BY <1>14, <2>1, <2>2, <2>3, <2>4, <2>5
<1>16. CASE SetExpiry(u)
  <2>1. p.at = "open" /\ OnlyForms /\ UNCHANGED net /\ IsPage(p)
    BY <1>16, FreeFacts DEF SetExpiry, OnlyForms, On
  <2>2. PICK d \in {1, 2} : Shows(u, [p EXCEPT !.draft.expires = d, !.draft.ends = IF @ # 0 /\ d >= @ THEN d + 1 ELSE @])
    BY <1>16 DEF SetExpiry
  <2> DEFINE q == [p EXCEPT !.draft.expires = d, !.draft.ends = IF @ # 0 /\ d >= @ THEN d + 1 ELSE @]
  <2>3. /\ DOMAIN q = PageFields /\ DOMAIN q.draft = DraftFields
        /\ q.wanted = p.wanted /\ q.loaded = p.loaded /\ q.exists = p.exists /\ q.marks = p.marks /\ q.at = p.at /\ q.busy = p.busy
    BY <2>1 DEF IsPage, PageFields, DraftFields
  <2>4. /\ \A f \in Fields : q.draft[f] = p.draft[f]
        /\ q.draft.org = p.draft.org /\ q.draft.self = p.draft.self
    BY <2>1 DEF IsPage, PageFields, DraftFields, Fields
  <2>5. q.draft.expires = d /\ q.draft.ends = IF p.draft.ends # 0 /\ d >= p.draft.ends THEN d + 1 ELSE p.draft.ends
    BY <2>1 DEF IsPage, PageFields, DraftFields
  <2>6. Shows(u, q)
    BY <2>2
  <2> HIDE DEF q
  <2>7. Simple(u, p.draft) => Simple(u, q.draft)
    <3>1. q.draft.homes = p.draft.homes /\ q.draft.creation = p.draft.creation /\ q.draft.entity = p.draft.entity
      BY <2>4 DEF Fields
    <3>2. p.draft.ends \in Nat => q.draft.expires \in Nat /\ q.draft.ends \in Nat /\ (q.draft.ends # 0 => q.draft.ends > q.draft.expires)
      BY <2>5
    <3> QED BY <2>4, <3>1, <3>2 DEF Simple
  <2> QED BY <1>14, <2>1, <2>3, <2>4, <2>6, <2>7
<1>17. CASE SetMembershipEnd(u)
  <2>1. p.at = "open" /\ OnlyForms /\ UNCHANGED net /\ IsPage(p)
    BY <1>17, FreeFacts DEF SetMembershipEnd, OnlyForms, On
  <2>2. PICK d \in {0} \union {t \in 1 .. 3 : t > p.draft.expires} : Shows(u, [p EXCEPT !.draft.ends = d])
    BY <1>17 DEF SetMembershipEnd, Days
  <2> DEFINE q == [p EXCEPT !.draft.ends = d]
  <2>3. /\ DOMAIN q = PageFields /\ DOMAIN q.draft = DraftFields
        /\ q.wanted = p.wanted /\ q.loaded = p.loaded /\ q.exists = p.exists /\ q.marks = p.marks /\ q.at = p.at /\ q.busy = p.busy
    BY <2>1 DEF IsPage, PageFields, DraftFields
  <2>4. /\ \A f \in Fields : q.draft[f] = p.draft[f]
        /\ q.draft.org = p.draft.org /\ q.draft.self = p.draft.self
    BY <2>1 DEF IsPage, PageFields, DraftFields, Fields
  <2>5. q.draft.expires = p.draft.expires /\ q.draft.ends = d
    BY <2>1 DEF IsPage, PageFields, DraftFields
  <2>6. Shows(u, q)
    BY <2>2
  <2> HIDE DEF q
  <2>7. Simple(u, p.draft) => Simple(u, q.draft)
    <3>1. q.draft.homes = p.draft.homes /\ q.draft.creation = p.draft.creation /\ q.draft.entity = p.draft.entity
      BY <2>4 DEF Fields
    <3>2. p.draft.expires \in Nat => q.draft.expires \in Nat /\ q.draft.ends \in Nat /\ (q.draft.ends # 0 => q.draft.ends > q.draft.expires)
      BY <2>5
    <3> QED BY <2>4, <3>1, <3>2 DEF Simple
  <2> QED BY <1>14, <2>1, <2>3, <2>4, <2>6, <2>7
<1> QED BY <1>1, <1>2, <1>3, <1>4, <1>5, <1>6, <1>7, <1>8, <1>9, <1>10, <1>11, <1>12, <1>13, <1>15, <1>16, <1>17 DEF SetsOther

-----------------------------------------------------------------------------
(* A name typed, another organisation.                                     *)
LEMMA ShownAsking ==
  ASSUME Shapes, NEW u \in Users, NEW F, NEW q, Kept(u, page[u], q, F), NEW S, Asks(u, S, F), net' = net \union S,
         Shows(u, q), OnlyForms
  PROVE  Quietly(u)
<1> DEFINE r == [q EXCEPT !.n = @ + 1]
<1>1. DOMAIN q = PageFields
  BY DEF Kept, IsPage
<1>2. /\ DOMAIN r = PageFields /\ r.draft = q.draft /\ r.wanted = q.wanted /\ r.loaded = q.loaded /\ r.at = q.at
      /\ r.busy = q.busy /\ r.marks = q.marks /\ r.exists = q.exists
  BY <1>1 DEF PageFields
<1>3. page' = [page EXCEPT ![u] = r]
  BY DEF Shows
<1> HIDE DEF r
<1>4. Kept(u, page[u], r, F)
  BY <1>2, KeptOn
<1>5. Turn(u, r, S, F)
  BY <1>3, <1>4 DEF Turn, Excused, OnlyForms
<1> QED BY <1>5 DEF Quietly

LEMMA TypesQuietly ==
  ASSUME Shapes, NEW u \in Users, page[u].at = "open", NEW field \in AllNames, Types(u, field),
         field = "entity" => scene.form[u] = "service"
  PROVE  Quietly(u)
<1>1. IsPage(page[u])
  BY DEF Shapes
<1>2. PICK v : /\ Shows(u, [Sets(page[u], field, v) EXCEPT !.exists = @ \ {field}])
               /\ Sends(AsksExists(u, field, v, page[u].draft.org))
  BY DEF Types
<1> DEFINE s == Sets(page[u], field, v)
           q == [s EXCEPT !.exists = @ \ {field}]
           S == AsksExists(u, field, v, page[u].draft.org)
<1>3. Kept(u, page[u], s, {field})
  BY <1>1, KeptSets DEF Fields, AllNames
<1>4. DOMAIN s = PageFields
  BY <1>3 DEF Kept, IsPage
<1> HIDE DEF s
<1>5. /\ DOMAIN q = PageFields /\ q.draft = s.draft /\ q.wanted = s.wanted /\ q.loaded = s.loaded /\ q.at = s.at
      /\ q.busy = s.busy /\ q.marks = s.marks /\ q.exists = s.exists \ {field}
  BY <1>4 DEF PageFields
<1> HIDE DEF q
<1>6. Kept(u, page[u], q, {field})
  BY <1>3, <1>5, KeptOn
<1>7. S # {} /\ \A c \in S : IsCall(c) /\ c.by = u /\ c.draft = Fresh /\ c.op = "exists" /\ c.field = field
  BY AsksFacts
<1> HIDE DEF S
<1>8. Asks(u, S, {field})
  BY <1>7 DEF Asks
<1>9. Shows(u, q) /\ net' = net \union S /\ OnlyForms
  BY <1>2 DEF Sends, S, q, s, Types
<1> QED BY <1>6, <1>8, <1>9, ShownAsking

Names1(u) ==
  \/ EditCollaborationName(u) \/ EditCollaborationShortName(u) \/ EditOrganisationName(u)
  \/ EditOrganisationShortName(u) \/ EditServiceName(u) \/ EditEntityId(u) \/ EditAbbreviation(u)
LEMMA NamesQuietly ==
  ASSUME Shapes, NEW u \in Users, Names1(u)
  PROVE  Quietly(u)
<1>1. PICK field \in AllNames : Types(u, field) /\ (field = "entity" => scene.form[u] = "service")
  BY DEF Names1, EditCollaborationName, EditCollaborationShortName, EditOrganisationName,
         EditOrganisationShortName, EditServiceName, EditEntityId, EditAbbreviation, On, AllNames
<1>2. \E op : Free(u, op)
  BY DEF Names1, EditCollaborationName, EditCollaborationShortName, EditOrganisationName,
         EditOrganisationShortName, EditServiceName, EditEntityId, EditAbbreviation, On
<1> QED BY <1>1, <1>2, FreeFacts, TypesQuietly

LEMMA ChooseOrganisationQuietly ==
  ASSUME Shapes, NEW u \in Users, ChooseOrganisation(u)
  PROVE  Quietly(u)
<1> DEFINE p == page[u]
<1>1. p.at = "open" /\ IsPage(p) /\ OnlyForms /\ scene.form[u] = "collaboration"
  BY FreeFacts DEF ChooseOrganisation, On
<1>2. PICK o : /\ Shows(u, [p EXCEPT !.draft.org = o, !.draft.logo = IF p.orgLogo THEN "url" ELSE @])
               /\ Sends(AsksExists(u, "name", p.draft.name, o)
                         \union {[c EXCEPT !.id = @ + 1] : c \in AsksExists(u, "short", p.draft.short, o)})
  BY DEF ChooseOrganisation
<1> DEFINE q == [p EXCEPT !.draft.org = o, !.draft.logo = IF p.orgLogo THEN "url" ELSE @]
           A == AsksExists(u, "name", p.draft.name, o)
           B == AsksExists(u, "short", p.draft.short, o)
           S == A \union {[c EXCEPT !.id = @ + 1] : c \in B}
<1>3. /\ DOMAIN q = PageFields /\ DOMAIN q.draft = DraftFields
      /\ q.wanted = p.wanted /\ q.loaded = p.loaded /\ q.exists = p.exists /\ q.marks = p.marks /\ q.at = p.at /\ q.busy = p.busy
  BY <1>1 DEF IsPage, PageFields, DraftFields
<1>4. \A f \in Fields \union {"self", "expires", "ends"} : q.draft[f] = p.draft[f]
  BY <1>1 DEF IsPage, PageFields, DraftFields, Fields
<1>5. Shows(u, q) /\ net' = net \union S
  BY <1>2 DEF Sends
<1> HIDE DEF q
<1>6. Simple(u, p.draft) => Simple(u, q.draft)
  BY <1>4, StillSimple
<1>7. Agree(u, p.draft, p.wanted) => Agree(u, q.draft, q.wanted)
  BY <1>3, <1>4 DEF Agree
<1>8. q.draft.homes = p.draft.homes /\ q.wanted.homes = p.wanted.homes
  BY <1>3, <1>4 DEF Fields
<1>9. \A f \in AllNames : q.draft[f] = p.draft[f]
  BY <1>4 DEF Fields, AllNames
<1>10. NamesOf(scene.form[u]) \subseteq {"name", "short"}
  BY <1>1 DEF NamesOf
<1>11. IsPage(q)
  BY <1>1, <1>3 DEF IsPage
<1>12. Kept(u, p, q, {"name", "short"})
  BY <1>1, <1>3, <1>6, <1>7, <1>8, <1>9, <1>10, <1>11 DEF Kept
<1>13. /\ A # {} /\ \A c \in A : IsCall(c) /\ c.by = u /\ c.draft = Fresh /\ c.op = "exists" /\ c.field = "name"
       /\ B # {} /\ \A c \in B : IsCall(c) /\ c.by = u /\ c.draft = Fresh /\ c.op = "exists" /\ c.field = "short"
  <2>1. "name" \in AllNames /\ "short" \in AllNames
    BY DEF AllNames
  <2>2. A # {} /\ \A c \in A : IsCall(c) /\ c.by = u /\ c.draft = Fresh /\ c.op = "exists" /\ c.field = "name"
    BY <2>1, AsksFacts
  <2>3. B # {} /\ \A c \in B : IsCall(c) /\ c.by = u /\ c.draft = Fresh /\ c.op = "exists" /\ c.field = "short"
    BY <2>1, AsksFacts
  <2> QED BY <2>2, <2>3
<1> DEFINE Later(c) == [c EXCEPT !.id = @ + 1]
<1> HIDE DEF A, B
<1>14. ASSUME NEW c \in B
       PROVE  IsCall(Later(c)) /\ Later(c).by = u /\ Later(c).draft = Fresh /\ Later(c).op = "exists" /\ Later(c).field = "short"
  BY <1>13 DEF IsCall, CallFields
<1>16. S = A \union {Later(c) : c \in B}
  OBVIOUS
<1> HIDE DEF Later, S
<1>15. Asks(u, S, {"name", "short"})
  <2>1. \A c \in S : IsCall(c) /\ c.by = u /\ c.draft = Fresh /\ c.op = "exists" /\ c.field \in {"name", "short"}
    BY <1>13, <1>14, <1>16
  <2>2. \E c \in S : c.op = "exists" /\ c.field = "name"
    BY <1>13, <1>16
  <2>3. \E c \in S : c.op = "exists" /\ c.field = "short"
    BY <1>13, <1>14, <1>16
  <2> QED BY <2>1, <2>2, <2>3 DEF Asks, AllNames
<1> QED BY <1>1, <1>5, <1>12, <1>15, ShownAsking

-----------------------------------------------------------------------------
(* The answer to a question.                                               *)
Answering(u) == CancelDialog(u) \/ Stay(u) \/ DoDeleteCollaboration(u) \/ DoDeleteOrganisation(u)
LEMMA AnsweringQuietly ==
  ASSUME Shapes, NEW u \in Users, Answering(u)
  PROVE  Quietly(u)
<1> DEFINE p == page[u]
<1>1. IsPage(p)
  BY DEF Shapes
<1>2. p.at = "open" /\ scene' = scene /\ db' = db /\ Excused(u)
  BY DEF Answering, CancelDialog, Stay, DoDeleteCollaboration, DoDeleteOrganisation, OnlyForms, Excused
<1>3. ASSUME NEW q, page' = [page EXCEPT ![u] = q], DOMAIN q = PageFields, q.draft = p.draft, q.wanted = p.wanted,
             q.loaded = p.loaded, q.exists = p.exists, q.marks = p.marks, q.at \in {"open", "left"}, p.busy => q.busy,
             NEW S, net' = net \union S, Asks(u, S, {})
      PROVE  Quietly(u)
  <2>1. Kept(u, p, q, {})
    BY <1>1, <1>2, <1>3 DEF Kept, IsPage
  <2>2. Turn(u, q, S, {})
    BY <1>2, <1>3, <2>1 DEF Turn
  <2> QED BY <2>2 DEF Quietly
<1>4. CASE CancelDialog(u)
  <2> DEFINE q == [p EXCEPT !.dialog = "none", !.at = IF p.onCancel = "leave" THEN "left" ELSE "open"]
  <2>1. page' = [page EXCEPT ![u] = q] /\ net' = net \union {}
    BY <1>4 DEF CancelDialog
  <2>2. /\ DOMAIN q = PageFields /\ q.draft = p.draft /\ q.wanted = p.wanted /\ q.loaded = p.loaded /\ q.exists = p.exists
        /\ q.marks = p.marks /\ q.at \in {"open", "left"} /\ q.busy = p.busy
    BY <1>1 DEF IsPage, PageFields
  <2> HIDE DEF q
  <2> QED BY <1>3, <2>1, <2>2, NothingAsked
<1>5. CASE Stay(u)
  <2> DEFINE q == [p EXCEPT !.dialog = "none"]
  <2>1. page' = [page EXCEPT ![u] = q] /\ net' = net \union {}
    BY <1>5 DEF Stay
  <2>2. /\ DOMAIN q = PageFields /\ q.draft = p.draft /\ q.wanted = p.wanted /\ q.loaded = p.loaded /\ q.exists = p.exists
        /\ q.marks = p.marks /\ q.at \in {"open", "left"} /\ q.busy = p.busy
    BY <1>1, <1>2 DEF IsPage, PageFields
  <2> HIDE DEF q
  <2> QED BY <1>3, <2>1, <2>2, NothingAsked
<1>6. Asks(u, {[Call(u, "delete") EXCEPT !.got = p.loaded]}, {})
  BY <1>1, NeutralCalls DEF IsPage
<1>7. CASE DoDeleteCollaboration(u)
  <2> DEFINE q == [p EXCEPT !.dialog = "none", !.busy = TRUE]
  <2>1. page' = [page EXCEPT ![u] = q] /\ net' = net \union {[Call(u, "delete") EXCEPT !.got = p.loaded]}
    BY <1>7 DEF DoDeleteCollaboration, Sends
  <2>2. /\ DOMAIN q = PageFields /\ q.draft = p.draft /\ q.wanted = p.wanted /\ q.loaded = p.loaded /\ q.exists = p.exists
        /\ q.marks = p.marks /\ q.at \in {"open", "left"} /\ q.busy
    BY <1>1, <1>2 DEF IsPage, PageFields
  <2> HIDE DEF q
  <2> QED BY <1>3, <1>6, <2>1, <2>2
<1>8. CASE DoDeleteOrganisation(u)
  <2> DEFINE q == [p EXCEPT !.dialog = "none"]
  <2>1. page' = [page EXCEPT ![u] = q] /\ net' = net \union {[Call(u, "delete") EXCEPT !.got = p.loaded]}
    BY <1>8 DEF DoDeleteOrganisation, Sends
  <2>2. /\ DOMAIN q = PageFields /\ q.draft = p.draft /\ q.wanted = p.wanted /\ q.loaded = p.loaded /\ q.exists = p.exists
        /\ q.marks = p.marks /\ q.at \in {"open", "left"} /\ q.busy = p.busy
    BY <1>1, <1>2 DEF IsPage, PageFields
  <2> HIDE DEF q
  <2> QED BY <1>3, <1>6, <2>1, <2>2
<1> QED BY <1>4, <1>5, <1>7, <1>8 DEF Answering

-----------------------------------------------------------------------------
(* A form is sent: the form of its user waits, and was not waiting before. *)
Sent(u, q, c) ==
  /\ page' = [page EXCEPT ![u] = q] /\ net' = net \union {c} /\ scene' = scene /\ db' = db
  /\ Excused(u) /\ (<<u, "homes">> \notin excuse' => \A d \in net : d.by = u => d.op # "homes")
  /\ page[u].at = "open" /\ ~page[u].busy /\ IsPage(q) /\ q.at = "open" /\ q.busy
  /\ q.draft = page[u].draft /\ q.wanted = page[u].wanted /\ q.loaded = page[u].loaded
  /\ IsCall(c) /\ c.by = u /\ c.op \in OnceOps /\ c.got = page[u].loaded /\ c.wanted = page[u].wanted
  /\ c.status = "sent" /\ Simple(u, c.draft) /\ c.draft.homes = page[u].draft.homes
  /\ Agree(u, c.draft, c.wanted)
  /\ c.op = "update" <=> Edits(u)
  /\ c.op = "create" => scene.form[u] \notin Inviting
  /\ c.op = "request" => scene.form[u] = "collaboration"

LEMMA SentKeeps ==
  ASSUME Shapes, NEW u \in Users, Of1(u), NEW q, NEW c, Sent(u, q, c)
  PROVE  Of1(u)'
<1>1. /\ page'[u] = q /\ scene' = scene /\ db' = db /\ net' = net \union {c}
      /\ c.op \in OnceOps /\ c.by = u
  BY PageTurned DEF Sent
<1>2. q.at = "open" /\ q.busy /\ page[u].at = "open" /\ ~page[u].busy /\ ~Spent(u)
  BY DEF Sent, Spent
<1>3. q.draft = page[u].draft /\ q.wanted = page[u].wanted /\ q.loaded = page[u].loaded
  BY DEF Sent
<1>4. ~Calm(u)'
  BY <1>1, <1>2 DEF Calm
<1>5. Early(u)'
  <2>1. \A d \in net' : d.by = u => d.op \notin Arrivals
    BY <1>1, <1>2 DEF Early, Of1, Arrivals, OnceOps
  <2>2. Edits(u) => q.loaded.id = Target(u)
    BY <1>2, <1>3 DEF Early, Of1
  <2>3. \A d \in net' : d.by = u /\ d.op = "update" =>
          Edits(u) /\ (d.status \in {"sent", "begun"} => d.got.id = Target(u))
    BY <1>1, <1>2 DEF Early, Of1, Sent
  <2> QED BY <1>1, <1>2, <2>1, <2>2, <2>3, SameScene DEF Early
<1>6. Typed(u)'
  <2>1. Agree(u, q.draft, q.wanted)
    BY <1>3 DEF Typed, Of1
  <2>2. <<u, "homes">> \in excuse => <<u, "homes">> \in excuse'
    BY DEF Sent, Excused
  <2>3. <<u, "homes">> \in excuse' \/ c.draft.homes = c.wanted.homes
    <3>1. SUFFICES ASSUME <<u, "homes">> \notin excuse'  PROVE c.draft.homes = c.wanted.homes
      OBVIOUS
    <3>2. <<u, "homes">> \notin excuse
      BY <2>2, <3>1
    <3>3. \A d \in net : HomeCall(u, d) => d.op = "home"
      BY <3>1 DEF Sent, HomeCall
    <3>4. page[u].draft.homes = page[u].wanted.homes
      BY <1>2, <3>2, <3>3 DEF Homely, Of1
    <3> QED BY <3>4 DEF Sent
  <2>4. /\ Agree(u, c.draft, c.wanted) /\ (c.op = "update" <=> Edits(u))
        /\ (c.op = "create" => scene.form[u] \notin Inviting)
        /\ (c.op = "request" => scene.form[u] = "collaboration")
    BY DEF Sent
  <2> QED BY <1>1, <2>1, <2>2, <2>3, <2>4, SameScene DEF Typed, Of1
<1>7. Plain(u)'
  BY <1>1, <1>3, SameScene DEF Plain, Of1, Sent
<1>8. Once(u)'
  <2>1. \A d \in net : d.by = u => d.op \notin OnceOps
    BY <1>2 DEF Once, Of1
  <2>2. (\A i \in db.invited : i.by # u) /\ \A r \in db.requests : r.by # u
    BY <1>2 DEF Once, Of1
  <2> QED BY <1>1, <1>2, <2>1, <2>2 DEF Once, Spent
<1>9. Homely(u)'
  <2>1. \A d \in net' : HomeCall(u, d) => d \in net
    BY <1>1 DEF HomeCall, OnceOps
  <2>2. \A d \in net' : d.by = u /\ d.op = "exists" => d.field \in {"name", "short", "entity"}
    BY <1>1 DEF Homely, Of1, OnceOps
  <2>3. \/ excuse' = excuse
        \/ <<u, "homes">> \in excuse' /\ <<u, "marks">> \in excuse'
    BY DEF Sent, Excused
  <2>4. \A d \in net' : HomeCall(u, d) => scene'.form[u] = "organisation"
    BY <1>1, <2>1 DEF Homely, Of1
  <2>5. CASE excuse' = excuse
    <3>1. ASSUME <<u, "homes">> \notin excuse
          PROVE  /\ \A d, e \in net' : HomeCall(u, d) /\ HomeCall(u, e) => d = e
                 /\ \A d \in net' : HomeCall(u, d) => d.homes = q.wanted.homes
                 /\ (\A d \in net' : HomeCall(u, d) => d.op = "home") => q.draft.homes = q.wanted.homes
      BY <1>1, <1>2, <1>3, <2>1, <3>1 DEF Homely, Of1
    <3> QED BY <1>1, <2>2, <2>4, <2>5, <3>1 DEF Homely, HomeCall, Of1
  <2>6. CASE <<u, "homes">> \in excuse' /\ <<u, "marks">> \in excuse'
    BY <2>2, <2>4, <2>6 DEF Homely, HomeCall
  <2> QED BY <2>3, <2>5, <2>6
<1>10. Verdicts(u)' /\ Marked(u)'
  BY <1>4 DEF Verdicts, Marked
<1> QED BY <1>5, <1>6, <1>7, <1>8, <1>9, <1>10 DEF Of1

LEMMA HomesApart ==
  ASSUME NEW u, NEW ops, Overlaps(u, ops)
  PROVE  /\ Excused(u) /\ scene' = scene /\ db' = db
         /\ <<u, "homes">> \notin excuse' => \A d \in net : d.by = u => d.op \notin ops
<1>1. CASE \A c \in net : c.by = u => c.op \notin ops
  BY <1>1 DEF Overlaps, Excused
<1>2. CASE ~\A c \in net : c.by = u => c.op \notin ops
  BY <1>2 DEF Overlaps, Excused
<1> QED BY <1>1, <1>2

LEMMA SubmitsSends ==
  ASSUME Shapes, NEW u \in Users, Of1(u), NEW op \in OnceOps, NEW draft, Submits(u, op, draft),
         DOMAIN draft = DraftFields, Simple(u, draft), draft.homes = page[u].draft.homes,
         Agree(u, draft, page[u].wanted), op = "update" <=> Edits(u),
         op = "create" => scene.form[u] \notin Inviting, op = "request" => scene.form[u] = "collaboration"
  PROVE  Quietly(u) \/ \E q, c : Sent(u, q, c)
<1>1. page[u].at = "open" /\ ~page[u].busy /\ IsPage(page[u])
  BY FreeFacts DEF Submits
<1>2. Excused(u) /\ scene' = scene /\ db' = db
      /\ (<<u, "homes">> \notin excuse' => \A d \in net : d.by = u => d.op # "homes")
  BY HomesApart DEF Submits
<1>3. CASE Valid(u, page[u])
  <2> DEFINE q == [Waits(page[u]) EXCEPT !.n = @ + 1]
             b == Call(u, op)
             c == [b EXCEPT !.draft = draft, !.wanted = page[u].wanted, !.got = page[u].loaded]
  <2>1. page' = [page EXCEPT ![u] = q] /\ net' = net \union {c}
    BY <1>3 DEF Submits, Shows, Sends
  <2>2. /\ DOMAIN q = PageFields /\ q.at = page[u].at /\ q.busy /\ q.draft = page[u].draft
        /\ q.wanted = page[u].wanted /\ q.loaded = page[u].loaded
    BY <1>1 DEF Waits, IsPage, PageFields
  <2>3. IsCall(b) /\ b.by = u /\ b.op = op /\ b.status = "sent"
    BY CallFacts
  <2> HIDE DEF q, b
  <2>4. DOMAIN c = CallFields /\ c.draft = draft /\ c.wanted = page[u].wanted /\ c.got = page[u].loaded
    BY <2>3 DEF IsCall, CallFields
  <2>5. c.by = u /\ c.op = op /\ c.status = "sent"
    BY <2>3 DEF IsCall, CallFields
  <2> HIDE DEF c
  <2>6. IsCall(c) /\ IsPage(q)
    BY <1>1, <2>2, <2>4 DEF IsCall, IsPage
  <2>7. Sent(u, q, c)
    BY <1>1, <1>2, <2>1, <2>2, <2>4, <2>5, <2>6 DEF Sent
  <2> QED BY <2>7
<1>4. CASE ~Valid(u, page[u])
  <2> DEFINE r == [page[u] EXCEPT !.initial = FALSE]
             q == [r EXCEPT !.n = @ + 1]
  <2>1. page' = [page EXCEPT ![u] = q] /\ net' = net \union {}
    BY <1>4 DEF Submits, Shows
  <2>2. /\ DOMAIN q = PageFields /\ q.at = page[u].at /\ q.busy = page[u].busy /\ q.draft = page[u].draft
        /\ q.wanted = page[u].wanted /\ q.loaded = page[u].loaded /\ q.exists = page[u].exists
        /\ q.marks = page[u].marks
    BY <1>1 DEF IsPage, PageFields
  <2> HIDE DEF q
  <2>3. Kept(u, page[u], q, {})
    BY <1>1, <2>2, KeptStill DEF IsPage
  <2>4. Turn(u, q, {}, {})
    BY <1>2, <2>1, <2>3, NothingAsked DEF Turn
  <2> QED BY <2>4 DEF Quietly
<1> QED BY <1>3, <1>4

Submitting(u) ==
  \/ SubmitCollaboration(u) \/ UpdateCollaboration(u) \/ SubmitOrganisation(u) \/ UpdateOrganisation(u)
  \/ SubmitService(u) \/ InviteMembers(u) \/ InviteManagers(u) \/ InviteAdmins(u)
LEMMA SubmittingSends ==
  ASSUME Shapes, NEW u \in Users, Of1(u), Submitting(u)
  PROVE  Quietly(u) \/ \E q, c : Sent(u, q, c)
<1> DEFINE d == page[u].draft
<1>1. DOMAIN d = DraftFields /\ Simple(u, d) /\ Agree(u, d, page[u].wanted)
  BY DEF Shapes, IsPage, Of1, Plain, Typed
<1>2. scene.form[u] \in Forms /\ Mode(u) \in {"edit", "new", "request"}
  BY SceneFacts DEF Mode
<1>3. Mode(u) = "edit" /\ scene.form[u] \in {"collaboration", "organisation"} <=> Edits(u)
  BY DEF Edits
<1>4. \A op : scene.form[u] \in {"collaboration", "organisation"} /\ op = "create" => scene.form[u] \notin Inviting
  BY DEF Inviting
<1>5. CASE SubmitCollaboration(u)
  BY <1>1, <1>3, <1>4, <1>5, SubmitsSends DEF SubmitCollaboration, OnceOps
<1>6. CASE UpdateCollaboration(u)
  BY <1>1, <1>3, <1>4, <1>6, SubmitsSends DEF UpdateCollaboration, OnceOps
<1>7. CASE SubmitOrganisation(u)
  <2> DEFINE e == [d EXCEPT !.creation = FALSE]
  <2>1. \A f \in DraftFields \ {"creation"} : e[f] = d[f]
    BY <1>1 DEF DraftFields
  <2>2. DOMAIN e = DraftFields /\ e.creation = FALSE
    BY <1>1 DEF DraftFields
  <2>3. /\ e.homes = d.homes /\ e.entity = d.entity /\ e.self = d.self /\ e.expires = d.expires /\ e.ends = d.ends
    BY <2>1 DEF DraftFields
  <2> HIDE DEF e
  <2>4. Simple(u, e)
    BY <1>1, <2>2, <2>3 DEF Simple
  <2>5. ~Edits(u) /\ scene.form[u] = "organisation"
    BY <1>3, <1>7 DEF SubmitOrganisation
  <2>6. \A f \in Fields \ {"creation"} : f \in DraftFields \ {"creation"}
    BY DEF Fields, DraftFields
  <2>7. Agree(u, e, page[u].wanted)
    BY <1>1, <2>1, <2>5, <2>6 DEF Agree
  <2>8. Submits(u, "create", e)
    BY <1>7 DEF SubmitOrganisation, e
  <2> QED BY <1>4, <2>2, <2>3, <2>4, <2>5, <2>7, <2>8, SubmitsSends DEF OnceOps
<1>8. CASE UpdateOrganisation(u)
  BY <1>1, <1>3, <1>4, <1>8, SubmitsSends DEF UpdateOrganisation, OnceOps
<1>9. CASE SubmitService(u)
  <2> DEFINE nets == SelectSeq(d.nets, LAMBDA r : r.value # "")
             e == [d EXCEPT !.nets = nets]
  <2>1. DOMAIN e = DraftFields /\ \A f \in DraftFields \ {"nets"} : e[f] = d[f]
    BY <1>1 DEF DraftFields
  <2>2. Submits(u, "create", e)
    BY <1>9 DEF SubmitService
  <2> HIDE DEF e
  <2>3. e.homes = d.homes /\ e.self = d.self /\ e.expires = d.expires /\ e.ends = d.ends
    BY <2>1 DEF DraftFields
  <2>4. \A f \in Fields : f \in DraftFields \ {"nets"}
    BY DEF Fields, DraftFields
  <2>5. Simple(u, e)
    BY <1>1, <2>1, <2>3, <2>4, StillSimple
  <2>6. Agree(u, e, page[u].wanted)
    BY <1>1, <2>1, <2>4 DEF Agree
  <2>7. ~Edits(u) /\ scene.form[u] \notin Inviting
    BY <1>9 DEF SubmitService, Edits, Inviting
  <2> QED BY <2>1, <2>2, <2>3, <2>5, <2>6, <2>7, SubmitsSends DEF OnceOps
<1>10. CASE InviteMembers(u) \/ InviteManagers(u) \/ InviteAdmins(u)
  <2>1. scene.form[u] \in Inviting /\ Submits(u, "invite", d) /\ ~Edits(u)
    BY <1>10 DEF InviteMembers, InviteManagers, InviteAdmins, Inviting, Edits
  <2> QED BY <1>1, <2>1, SubmitsSends DEF OnceOps
<1> QED BY <1>5, <1>6, <1>7, <1>8, <1>9, <1>10 DEF Submitting

-----------------------------------------------------------------------------
(* Homes are put into a form and taken out.                                *)
Housed(u, q) ==
  /\ page' = [page EXCEPT ![u] = q] /\ scene' = scene /\ db' = db
  /\ scene.form[u] = "organisation" /\ page[u].at = "open" /\ IsPage(q) /\ q.at = "open" /\ q.busy = page[u].busy
  /\ q.loaded = page[u].loaded /\ q.exists = page[u].exists
  /\ \A f \in DraftFields \ {"homes"} : q.draft[f] = page[u].draft[f]
  /\ \A f \in Fields \ {"homes"} : q.wanted[f] = page[u].wanted[f]
  /\ \A c \in net' : c \in net \/ (HomeCall(u, c) /\ IsCall(c) /\ Simple(u, c.draft))
  /\ \A c \in net : HomeCall(u, c) \/ c \in net'
  /\ \/ <<u, "homes">> \in excuse' /\ <<u, "marks">> \in excuse' /\ Excused(u)
     \/ /\ excuse' = excuse
        /\ <<u, "homes">> \notin excuse =>
             /\ \A c, d \in net' : HomeCall(u, c) /\ HomeCall(u, d) => c = d
             /\ \A c \in net' : HomeCall(u, c) => c.homes = q.wanted.homes
             /\ (\A c \in net' : HomeCall(u, c) => c.op = "home") => q.draft.homes = q.wanted.homes
             /\ Marked(u)'

LEMMA HousedKeeps ==
  ASSUME Shapes, NEW u \in Users, Of1(u), NEW q, Housed(u, q)
  PROVE  Of1(u)'
<1>1. /\ page'[u] = q /\ scene' = scene /\ db' = db
      /\ q.at = "open" /\ page[u].at = "open" /\ q.busy = page[u].busy
      /\ q.loaded = page[u].loaded /\ q.exists = page[u].exists /\ scene.form[u] = "organisation"
  BY PageTurned DEF Housed
<1>2. /\ \A c \in net' : c \in net \/ (HomeCall(u, c) /\ IsCall(c) /\ Simple(u, c.draft))
      /\ \A c \in net : HomeCall(u, c) \/ c \in net'
  BY DEF Housed
<1>3. /\ \A f \in DraftFields \ {"homes"} : q.draft[f] = page[u].draft[f]
      /\ \A f \in Fields \ {"homes"} : q.wanted[f] = page[u].wanted[f]
  BY DEF Housed
<1>4. \A f : <<u, f>> \in excuse => <<u, f>> \in excuse'
  BY DEF Housed, Excused
<1>5. Early(u)'
  <2>1. \A c \in net' : c.by = u => c.op \notin Arrivals
    BY <1>1, <1>2 DEF Early, Of1, Arrivals, HomeCall
  <2>2. \A c \in net' : c.by = u /\ c.op = "update" => c \in net
    BY <1>2 DEF HomeCall
  <2> QED BY <1>1, <2>1, <2>2, SameScene DEF Early, Of1
<1>6. Typed(u)'
  <2>1. \A f \in Fields \ {"homes"} : f \in DraftFields \ {"homes"}
    BY DEF Fields, DraftFields
  <2>2. Agree(u, q.draft, q.wanted)
    BY <1>3, <2>1 DEF Agree, Typed, Of1
  <2>3. \A c \in net' : c.by = u /\ c.op \in {"create", "update", "request"} => c \in net
    BY <1>2 DEF HomeCall
  <2> QED BY <1>1, <1>4, <2>2, <2>3, SameScene DEF Typed, Of1
<1>7. Plain(u)'
  <2>1. /\ q.draft.entity = page[u].draft.entity /\ q.draft.self = page[u].draft.self
        /\ q.draft.expires = page[u].draft.expires /\ q.draft.ends = page[u].draft.ends
    BY <1>3 DEF DraftFields
  <2>2. Simple(u, q.draft)
    BY <1>1, <2>1 DEF Simple, Plain, Of1
  <2> QED BY <1>1, <1>2, <2>2, SameScene DEF Plain, Of1
<1>8. Once(u)'
  <2>1. \A c \in net' : c.by = u /\ c.op \in OnceOps => c \in net
    BY <1>2 DEF OnceOps, HomeCall
  <2>2. Spent(u)' <=> Spent(u)
    BY <1>1 DEF Spent
  <2> QED BY <1>1, <2>1, <2>2 DEF Once, Of1
<1>9. Calm(u)' => Calm(u)
  BY <1>1, <1>2 DEF Calm, HomeCall
<1>10. Homely(u)'
  <2>1. \A c \in net' : HomeCall(u, c) => scene'.form[u] = "organisation"
    BY <1>1
  <2>2. \A c \in net' : c.by = u /\ c.op = "exists" => c.field \in {"name", "short", "entity"}
    BY <1>2 DEF Homely, Of1, HomeCall
  <2>3. CASE <<u, "homes">> \in excuse' /\ <<u, "marks">> \in excuse'
    BY <2>1, <2>2, <2>3 DEF Homely, HomeCall
  <2>4. CASE excuse' = excuse /\ <<u, "homes">> \notin excuse'
    <3>1. /\ \A c, d \in net' : HomeCall(u, c) /\ HomeCall(u, d) => c = d
          /\ \A c \in net' : HomeCall(u, c) => c.homes = q.wanted.homes
          /\ (\A c \in net' : HomeCall(u, c) => c.op = "home") => q.draft.homes = q.wanted.homes
      BY <2>4 DEF Housed
    <3> QED BY <1>1, <2>1, <2>2, <2>4, <3>1 DEF Homely, HomeCall, Of1
  <2>5. CASE excuse' = excuse /\ <<u, "homes">> \in excuse
    BY <2>1, <2>2, <2>5 DEF Homely, HomeCall, Of1
  <2> QED BY <2>3, <2>4, <2>5 DEF Housed
<1>11. Verdicts(u)'
  <2>1. SUFFICES ASSUME Calm(u), NEW f \in NamesOf(scene.form[u]), <<u, f>> \notin excuse'
        PROVE  Asked(u, f)' \/ Right(u, f)'
    BY <1>1, <1>9 DEF Verdicts
  <2>2. Asked(u, f) \/ Right(u, f)
    BY <1>4, <2>1 DEF Verdicts, Of1
  <2>3. CASE Asked(u, f)
    BY <1>2, <2>3 DEF Asked, HomeCall
  <2>4. CASE Right(u, f)
    <3>1. f \in DraftFields \ {"homes"} /\ "org" \in DraftFields \ {"homes"}
      BY NamesFacts DEF DraftFields
    <3>2. q.draft[f] = page[u].draft[f] /\ q.draft.org = page[u].draft.org
      BY <1>3, <3>1
    <3>3. Kind(u)' = Kind(u)
      BY <1>1, SameScene
    <3> QED BY <1>1, <2>4, <3>2, <3>3, SameMarks DEF Right
  <2> QED BY <2>2, <2>3, <2>4
<1>12. Marked(u)'
  <2>1. CASE <<u, "marks">> \in excuse'
    BY <2>1 DEF Marked
  <2>2. CASE excuse' = excuse /\ <<u, "homes">> \notin excuse
    BY <2>2 DEF Housed
  <2>3. CASE excuse' = excuse /\ <<u, "homes">> \in excuse
    BY <2>3 DEF Marked, Homely, Of1
  <2> QED BY <2>1, <2>2, <2>3 DEF Housed
<1> QED BY <1>5, <1>6, <1>7, <1>8, <1>10, <1>11, <1>12 DEF Of1

LEMMA AddHomeHouses ==
  ASSUME Shapes, NEW u \in Users, Of1(u), AddHome(u)
  PROVE  \E q : Housed(u, q)
<1>1. page[u].at = "open" /\ ~page[u].busy /\ IsPage(page[u]) /\ scene.form[u] = "organisation"
  BY FreeFacts DEF AddHome, On
<1>2. Excused(u) /\ scene' = scene /\ db' = db
      /\ (<<u, "homes">> \notin excuse' => \A d \in net : d.by = u => d.op \notin {"home", "homes"})
  BY HomesApart DEF AddHome
<1>3. PICK h \in Homes \ page[u].draft.homes :
       LET p == [page[u] EXCEPT !.draft.homes = @ \union {h}, !.wanted.homes = @ \union {h}]
       IN /\ Shows(u, p)
          /\ net' = {IF c.by = u /\ c.op = "home" /\ c.listAt = p.listAt
                       THEN [c EXCEPT !.homes = @ \union {h}] ELSE c : c \in net}
                    \union {[Call(u, "home") EXCEPT
                              !.value = h, !.homes = p.draft.homes, !.listAt = p.listAt,
                              !.exists = p.exists, !.marks = p.marks, !.marksAt = p.marksAt]}
  BY DEF AddHome
<1> DEFINE p == [page[u] EXCEPT !.draft.homes = @ \union {h}, !.wanted.homes = @ \union {h}]
           q == [p EXCEPT !.n = @ + 1]
           H(c) == IF c.by = u /\ c.op = "home" /\ c.listAt = p.listAt
                   THEN [c EXCEPT !.homes = @ \union {h}] ELSE c
           b == Call(u, "home")
           n == [b EXCEPT !.value = h, !.homes = p.draft.homes, !.listAt = p.listAt,
                          !.exists = p.exists, !.marks = p.marks, !.marksAt = p.marksAt]
<1>4. page' = [page EXCEPT ![u] = q] /\ net' = {H(c) : c \in net} \union {n}
  BY <1>3 DEF Shows
<1>5. /\ DOMAIN p = PageFields /\ DOMAIN p.draft = DraftFields /\ DOMAIN p.wanted = Fields
      /\ p.draft.homes = page[u].draft.homes \union {h} /\ p.wanted.homes = page[u].wanted.homes \union {h}
      /\ p.at = page[u].at /\ p.busy = page[u].busy /\ p.loaded = page[u].loaded
      /\ p.exists = page[u].exists /\ p.marks = page[u].marks
  BY <1>1 DEF IsPage, PageFields, DraftFields, Fields
<1>6. /\ \A f \in DraftFields \ {"homes"} : p.draft[f] = page[u].draft[f]
      /\ \A f \in Fields \ {"homes"} : p.wanted[f] = page[u].wanted[f]
  BY <1>1 DEF IsPage, PageFields, DraftFields, Fields
<1> HIDE DEF p
<1>7. /\ DOMAIN q = PageFields /\ q.draft = p.draft /\ q.wanted = p.wanted /\ q.at = p.at /\ q.busy = p.busy
      /\ q.loaded = p.loaded /\ q.exists = p.exists /\ q.marks = p.marks
  BY <1>5 DEF PageFields
<1> HIDE DEF q
<1>8. IsPage(q)
  BY <1>1, <1>5, <1>7 DEF IsPage
<1>9. IsCall(b) /\ b.by = u /\ b.op = "home" /\ b.status = "sent" /\ b.draft = Fresh
  BY CallFacts
<1> HIDE DEF b
<1>10. /\ DOMAIN n = CallFields /\ n.by = u /\ n.op = "home" /\ n.status = "sent" /\ n.draft = Fresh
       /\ n.wanted = b.wanted /\ n.got = b.got
  BY <1>9 DEF IsCall, CallFields
<1>11. n.value = h /\ n.homes = p.draft.homes /\ n.marks = p.marks
  BY <1>9 DEF IsCall, CallFields
<1> HIDE DEF n
<1>12. IsCall(n) /\ HomeCall(u, n) /\ Simple(u, n.draft)
  BY <1>9, <1>10, FreshIsPlain DEF IsCall, HomeCall
<1>13. ASSUME NEW c \in net
       PROVE  H(c) = c \/ (HomeCall(u, c) /\ HomeCall(u, H(c)) /\ IsCall(H(c)) /\ Simple(u, H(c).draft))
  <2>1. IsCall(c)
    BY DEF Shapes
  <2>2. CASE c.by = u /\ c.op = "home" /\ c.listAt = p.listAt
    <3> DEFINE d == [c EXCEPT !.homes = @ \union {h}]
    <3>1. /\ DOMAIN d = CallFields /\ d.by = c.by /\ d.op = c.op /\ d.draft = c.draft
          /\ d.wanted = c.wanted /\ d.got = c.got
      BY <2>1 DEF IsCall, CallFields
    <3>2. H(c) = d
      BY <2>2
    <3> HIDE DEF d, H
    <3>3. IsCall(d)
      BY <2>1, <3>1 DEF IsCall
    <3>4. Simple(u, c.draft)
      BY <2>2 DEF Plain, Of1
    <3> QED BY <2>2, <3>1, <3>2, <3>3, <3>4 DEF HomeCall
  <2>3. CASE ~(c.by = u /\ c.op = "home" /\ c.listAt = p.listAt)
    BY <2>3
  <2> QED BY <2>2, <2>3
<1>14. \A c \in net : ~HomeCall(u, c) => H(c) = c
  BY <1>13
<1>15. /\ \A c \in net' : c \in net \/ (HomeCall(u, c) /\ IsCall(c) /\ Simple(u, c.draft))
       /\ \A c \in net : HomeCall(u, c) \/ c \in net'
  <2>1. \A c \in net' : c = n \/ \E d \in net : c = H(d)
    BY <1>4
  <2>2. \A c \in net : H(c) \in net'
    BY <1>4
  <2> HIDE DEF H
  <2> QED BY <1>12, <1>13, <1>14, <2>1, <2>2
<1>16. /\ \A f \in DraftFields \ {"homes"} : q.draft[f] = page[u].draft[f]
       /\ \A f \in Fields \ {"homes"} : q.wanted[f] = page[u].wanted[f]
  BY <1>6, <1>7
<1>17. CASE <<u, "homes">> \in excuse' /\ <<u, "marks">> \in excuse'
  <2>1. Housed(u, q)
    BY <1>1, <1>2, <1>4, <1>5, <1>7, <1>8, <1>15, <1>16, <1>17 DEF Housed
  <2> QED BY <2>1
<1>18. CASE excuse' = excuse /\ <<u, "homes">> \in excuse
  <2>1. Housed(u, q)
    BY <1>1, <1>2, <1>4, <1>5, <1>7, <1>8, <1>15, <1>16, <1>18 DEF Housed
  <2> QED BY <2>1
<1>19. CASE excuse' = excuse /\ <<u, "homes">> \notin excuse
  <2>1. \A c \in net : ~HomeCall(u, c)
    BY <1>2, <1>19 DEF HomeCall
  <2>2. \A c \in net' : HomeCall(u, c) => c = n
    <3>1. \A c \in net' : c = n \/ \E d \in net : c = H(d)
      BY <1>4
    <3> HIDE DEF H
    <3> QED BY <1>14, <2>1, <3>1
  <2>3. page[u].draft.homes = page[u].wanted.homes
    BY <1>1, <1>19, <2>1 DEF Homely, Of1
  <2>4. page'[u] = q
    BY <1>4, PageTurned
  <2>5. Marked(u)'
    <3>1. SUFFICES ASSUME Calm(u)', <<u, "marks">> \notin excuse  PROVE Marked(u)'
      BY <1>19 DEF Marked
    <3>2. Calm(u)
      BY <1>1, <1>15, <2>4, <3>1 DEF Calm, HomeCall
    <3>3. page[u].marks = TakenOf(u, page[u].draft.homes)
      BY <2>1, <3>1, <3>2 DEF Marked, Of1
    <3>4. h \notin page[u].draft.homes /\ n.homes \ {h} = page[u].draft.homes /\ h \in n.homes
      BY <1>5, <1>11
    <3>5. \A homes : TakenOf(u, homes)' = TakenOf(u, homes)
      BY <1>2, <1>5, <1>7, <2>4, SameMarks DEF TakenOf
    <3>6. n \in net'
      BY <1>4
    <3>7. \A homes : homes = n.homes \ {n.value} => n.marks = TakenOf(u, homes)'
      BY ZenonT(30), <1>5, <1>11, <3>3, <3>4, <3>5
    <3>8. \A c : c = n => /\ c.op = "home" /\ c.status = "sent" /\ c.value \in c.homes
                          /\ \A homes : homes = c.homes \ {c.value} => c.marks = TakenOf(u, homes)'
      BY <1>10, <1>11, <3>4, <3>7
    <3>9. \A c \in net' : HomeCall(u, c)' => c = n
      BY <2>2 DEF HomeCall
    <3>10. ~\A c \in net' : ~HomeCall(u, c)'
      BY <1>12, <3>6 DEF HomeCall
    <3>11. \A c \in net' : HomeCall(u, c)' =>
             /\ c.op = "home" => /\ c.value \in c.homes /\ c.marks = TakenOf(u, c.homes \ {c.value})'
                                 /\ c.status = "ok" => (c.error <=> HomeTaken(c.value, page[u].loaded.id)')
             /\ c.op = "homes" /\ c.status = "ok" => c.marks = TakenOf(u, c.homes)'
      BY <3>8, <3>9
    <3> QED BY <3>10, <3>11 DEF Marked
  <2>6. n.homes = q.wanted.homes /\ q.draft.homes = q.wanted.homes
    BY <1>5, <1>7, <1>11, <2>3
  <2>7. Housed(u, q)
    BY <1>1, <1>2, <1>4, <1>5, <1>7, <1>8, <1>15, <1>16, <1>19, <2>2, <2>5, <2>6 DEF Housed
  <2> QED BY <2>7
<1> QED BY <1>2, <1>17, <1>18, <1>19 DEF Excused

LEMMA RemoveHomeHouses ==
  ASSUME Shapes, NEW u \in Users, Of1(u), RemoveHome(u)
  PROVE  \E q : Housed(u, q)
<1>1. page[u].at = "open" /\ ~page[u].busy /\ IsPage(page[u]) /\ scene.form[u] = "organisation"
  BY FreeFacts DEF RemoveHome, On
<1>2. Excused(u) /\ scene' = scene /\ db' = db
      /\ (<<u, "homes">> \notin excuse' => \A d \in net : d.by = u => d.op \notin {"home", "homes"})
  BY HomesApart DEF RemoveHome
<1>3. PICK h \in page[u].draft.homes :
       LET left == page[u].draft.homes \ {h}
           p == [page[u] EXCEPT !.wanted.homes = @ \ {h}]
       IN IF left = {}
            THEN /\ Shows(u, [p EXCEPT !.draft.homes = {}, !.marks = {}, !.marksAt = 0,
                                       !.arrays = @ + 1, !.listAt = p.arrays + 1])
                 /\ UNCHANGED net
            ELSE /\ Shows(u, p)
                 /\ Sends({[Call(u, "homes") EXCEPT !.homes = left, !.exists = p.exists]})
  BY DEF RemoveHome
<1> DEFINE left == page[u].draft.homes \ {h}
           p == [page[u] EXCEPT !.wanted.homes = @ \ {h}]
<1>4. /\ DOMAIN p = PageFields /\ p.draft = page[u].draft /\ DOMAIN p.wanted = Fields
      /\ p.wanted.homes = page[u].wanted.homes \ {h}
      /\ p.at = page[u].at /\ p.busy = page[u].busy /\ p.loaded = page[u].loaded
      /\ p.exists = page[u].exists /\ p.marks = page[u].marks
  BY <1>1 DEF IsPage, PageFields, Fields
<1>5. \A f \in Fields \ {"homes"} : p.wanted[f] = page[u].wanted[f]
  BY <1>1 DEF IsPage, PageFields, Fields
<1>6. left = {} \/ left # {}
  OBVIOUS
<1>7. CASE left = {}
  <2> DEFINE r == [p EXCEPT !.draft.homes = {}, !.marks = {}, !.marksAt = 0,
                            !.arrays = @ + 1, !.listAt = p.arrays + 1]
             q == [r EXCEPT !.n = @ + 1]
  <2>1. page' = [page EXCEPT ![u] = q] /\ net' = net
    BY <1>3, <1>7 DEF Shows
  <2> HIDE DEF p
  <2>2. DOMAIN p.draft = DraftFields
    BY <1>1, <1>4 DEF IsPage
  <2>3. /\ DOMAIN r = PageFields /\ r.wanted = p.wanted /\ r.at = p.at /\ r.busy = p.busy
        /\ r.loaded = p.loaded /\ r.exists = p.exists /\ r.marks = {}
    BY <1>4, <2>2 DEF PageFields
  <2>4. /\ DOMAIN r.draft = DraftFields /\ r.draft.homes = {}
        /\ \A f \in DraftFields \ {"homes"} : r.draft[f] = p.draft[f]
    BY <1>4, <2>2 DEF PageFields, DraftFields
  <2> HIDE DEF r
  <2>5. /\ DOMAIN q = PageFields /\ q.wanted = r.wanted /\ q.at = r.at /\ q.busy = r.busy
        /\ q.loaded = r.loaded /\ q.exists = r.exists /\ q.marks = r.marks /\ q.draft = r.draft
    BY <2>3 DEF PageFields
  <2> HIDE DEF q
  <2>6. IsPage(q)
    BY <1>1, <1>4, <2>3, <2>4, <2>5 DEF IsPage
  <2>7. /\ \A f \in DraftFields \ {"homes"} : q.draft[f] = page[u].draft[f]
        /\ \A f \in Fields \ {"homes"} : q.wanted[f] = page[u].wanted[f]
    BY <1>4, <1>5, <2>3, <2>4, <2>5
  <2>8. /\ \A c \in net' : c \in net \/ (HomeCall(u, c) /\ IsCall(c) /\ Simple(u, c.draft))
        /\ \A c \in net : HomeCall(u, c) \/ c \in net'
    BY <2>1
  <2>9. CASE <<u, "homes">> \in excuse' /\ <<u, "marks">> \in excuse'
    <3>1. Housed(u, q)
      BY <1>1, <1>2, <1>4, <2>1, <2>3, <2>5, <2>6, <2>7, <2>8, <2>9 DEF Housed
    <3> QED BY <3>1
  <2>10. CASE excuse' = excuse /\ <<u, "homes">> \in excuse
    <3>1. Housed(u, q)
      BY <1>1, <1>2, <1>4, <2>1, <2>3, <2>5, <2>6, <2>7, <2>8, <2>10 DEF Housed
    <3> QED BY <3>1
  <2>11. CASE excuse' = excuse /\ <<u, "homes">> \notin excuse
    <3>1. \A c \in net : ~HomeCall(u, c)
      BY <1>2, <2>11 DEF HomeCall
    <3>2. page[u].draft.homes = page[u].wanted.homes
      BY <1>1, <2>11, <3>1 DEF Homely, Of1
    <3>3. q.wanted.homes = {} /\ q.draft.homes = {} /\ q.marks = {}
      BY <1>4, <1>7, <2>3, <2>4, <2>5, <3>2
    <3>4. page'[u] = q
      BY <2>1, PageTurned
    <3>5. \A homes : homes = {} => TakenOf(u, homes)' = {}
      BY DEF TakenOf
    <3>6. Marked(u)'
      BY <2>1, <3>1, <3>3, <3>4, <3>5 DEF Marked, HomeCall
    <3>7. Housed(u, q)
      BY <1>1, <1>2, <1>4, <2>1, <2>3, <2>5, <2>6, <2>7, <2>8, <2>11, <3>1, <3>3, <3>6 DEF Housed
    <3> QED BY <3>7
  <2> QED BY <1>2, <2>9, <2>10, <2>11 DEF Excused
<1>8. CASE left # {}
  <2> DEFINE q == [p EXCEPT !.n = @ + 1]
             b == Call(u, "homes")
             n == [b EXCEPT !.homes = left, !.exists = p.exists]
  <2>1. page' = [page EXCEPT ![u] = q] /\ net' = net \union {n}
    BY <1>3, <1>8 DEF Shows, Sends
  <2> HIDE DEF p
  <2>2. /\ DOMAIN q = PageFields /\ q.wanted = p.wanted /\ q.at = p.at /\ q.busy = p.busy
        /\ q.loaded = p.loaded /\ q.exists = p.exists /\ q.marks = p.marks /\ q.draft = p.draft
    BY <1>4 DEF PageFields
  <2> HIDE DEF q
  <2>3. IsPage(q)
    BY <1>1, <1>4, <2>2 DEF IsPage
  <2>4. /\ \A f \in DraftFields \ {"homes"} : q.draft[f] = page[u].draft[f]
        /\ \A f \in Fields \ {"homes"} : q.wanted[f] = page[u].wanted[f]
    BY <1>4, <1>5, <2>2
  <2>5. IsCall(b) /\ b.by = u /\ b.op = "homes" /\ b.status = "sent" /\ b.draft = Fresh
    BY CallFacts
  <2> HIDE DEF b, left
  <2>6. /\ DOMAIN n = CallFields /\ n.by = u /\ n.op = "homes" /\ n.status = "sent" /\ n.draft = Fresh
        /\ n.wanted = b.wanted /\ n.got = b.got /\ n.homes = left
    BY <2>5 DEF IsCall, CallFields
  <2> HIDE DEF n
  <2>7. IsCall(n) /\ HomeCall(u, n) /\ Simple(u, n.draft)
    BY <2>5, <2>6, FreshIsPlain DEF IsCall, HomeCall
  <2>8. /\ \A c \in net' : c \in net \/ (HomeCall(u, c) /\ IsCall(c) /\ Simple(u, c.draft))
        /\ \A c \in net : HomeCall(u, c) \/ c \in net'
    BY <2>1, <2>7
  <2>9. CASE <<u, "homes">> \in excuse' /\ <<u, "marks">> \in excuse'
    <3>1. Housed(u, q)
      BY <1>1, <1>2, <1>4, <2>1, <2>2, <2>3, <2>4, <2>8, <2>9 DEF Housed
    <3> QED BY <3>1
  <2>10. CASE excuse' = excuse /\ <<u, "homes">> \in excuse
    <3>1. Housed(u, q)
      BY <1>1, <1>2, <1>4, <2>1, <2>2, <2>3, <2>4, <2>8, <2>10 DEF Housed
    <3> QED BY <3>1
  <2>11. CASE excuse' = excuse /\ <<u, "homes">> \notin excuse
    <3>1. \A c \in net : ~HomeCall(u, c)
      BY <1>2, <2>11 DEF HomeCall
    <3>2. \A c \in net' : HomeCall(u, c) => c = n
      BY <2>1, <3>1
    <3>3. page[u].draft.homes = page[u].wanted.homes
      BY <1>1, <2>11, <3>1 DEF Homely, Of1
    <3>4. n.homes = q.wanted.homes
      BY <1>4, <2>2, <2>6, <3>3 DEF left
    <3>5. \A c \in net' : HomeCall(u, c)' => c.op = "homes" /\ c.status = "sent"
      BY <2>6, <3>2 DEF HomeCall
    <3>6. ~\A c \in net' : ~HomeCall(u, c)'
      BY <2>1, <2>7 DEF HomeCall
    <3>7. Marked(u)'
      BY <3>5, <3>6 DEF Marked
    <3>8. ~\A c \in net' : HomeCall(u, c) => c.op = "home"
      BY <2>1, <2>6, <2>7
    <3>9. Housed(u, q)
      BY <1>1, <1>2, <1>4, <2>1, <2>2, <2>3, <2>4, <2>8, <2>11, <3>2, <3>4, <3>7, <3>8 DEF Housed
    <3> QED BY <3>9
  <2> QED BY <1>2, <2>9, <2>10, <2>11 DEF Excused
<1> QED BY <1>6, <1>7, <1>8

-----------------------------------------------------------------------------
(* A form is opened.                                                       *)
LEMMA ClosedFacts ==
  ASSUME NEW u \in Users, Of1(u), page[u].at = "closed"
  PROVE  page[u] = [Empty(u) EXCEPT !.at = "closed"] /\ \A c \in net : c.by # u
BY DEF Of1, Early

LEMMA EmptyAt ==
  ASSUME NEW u, NEW at
  PROVE  /\ IsPage([Empty(u) EXCEPT !.at = at]) /\ [Empty(u) EXCEPT !.at = at].at = at
         /\ [Empty(u) EXCEPT !.at = at].draft = Fresh /\ [Empty(u) EXCEPT !.at = at].wanted = Of(Fresh)
         /\ [Empty(u) EXCEPT !.at = at].loaded = Nothing /\ [Empty(u) EXCEPT !.at = at].exists = {}
         /\ [Empty(u) EXCEPT !.at = at].marks = {} /\ ~[Empty(u) EXCEPT !.at = at].busy
<1> DEFINE e == Empty(u)
           q == [e EXCEPT !.at = at]
<1>1. /\ IsPage(e) /\ e.draft = Fresh /\ e.wanted = Of(Fresh)
      /\ e.loaded = Nothing /\ e.exists = {} /\ e.marks = {} /\ ~e.busy
  BY EmptyFacts
<1> HIDE DEF e
<1>2. /\ DOMAIN q = PageFields /\ q.at = at /\ q.draft = e.draft /\ q.wanted = e.wanted
      /\ q.loaded = e.loaded /\ q.exists = e.exists /\ q.marks = e.marks /\ q.busy = e.busy
  BY <1>1 DEF IsPage, PageFields
<1> HIDE DEF q
<1>3. IsPage(q)
  BY <1>1, <1>2 DEF IsPage
<1>4. /\ IsPage(q) /\ q.at = at /\ q.draft = Fresh /\ q.wanted = Of(Fresh)
      /\ q.loaded = Nothing /\ q.exists = {} /\ q.marks = {} /\ ~q.busy
  BY <1>1, <1>2, <1>3
<1> QED BY <1>4 DEF q, e

(* A form of which nothing has been sent yet.                              *)
LEMMA Unsent ==
  ASSUME NEW u \in Users, Of1(u), page[u].at \in {"closed", "loading"}
  PROVE  /\ page[u] = [Empty(u) EXCEPT !.at = page[u].at]
         /\ (\A i \in db.invited : i.by # u) /\ \A r \in db.requests : r.by # u
<1>1. page[u] = [Empty(u) EXCEPT !.at = page[u].at]
  BY DEF Of1, Early
<1>2. ~page[u].busy
  BY <1>1, EmptyAt
<1> QED BY <1>1, <1>2 DEF Once, Spent, Of1

Began(u, op) ==
  /\ page[u].at = "closed" /\ page' = [page EXCEPT ![u].at = "loading"] /\ net' = net \union {Call(u, op)}
  /\ scene' = scene /\ db' = db /\ excuse' = excuse
  /\ op \in Arrivals
  /\ op = "read" => Edits(u) \/ scene.form[u] \in Inviting
  /\ op # "read" => ~Edits(u)
  /\ op \in {"mine", "byHome"} => scene.form[u] = "collaboration"

LEMMA BeganKeeps ==
  ASSUME Shapes, NEW u \in Users, Of1(u), NEW op, Began(u, op)
  PROVE  Of1(u)' /\ IsPage(page'[u])
<1> DEFINE q == [Empty(u) EXCEPT !.at = "loading"]
           c == Call(u, op)
<1>1. /\ scene' = scene /\ db' = db /\ excuse' = excuse /\ net' = net \union {c} /\ op \in Arrivals
  BY DEF Began
<1>2. page[u] = [Empty(u) EXCEPT !.at = "closed"] /\ \A d \in net : d.by # u
  BY ClosedFacts DEF Began
<1>3. page'[u] = q
  <2> DEFINE e == Empty(u)
  <2>1. DOMAIN e = PageFields
    BY EmptyFacts DEF IsPage
  <2>2. page'[u] = [page[u] EXCEPT !.at = "loading"]
    BY DEF Shapes, Began
  <2>3. page[u] = [e EXCEPT !.at = "closed"]
    BY <1>2
  <2> HIDE DEF e
  <2>4. page'[u] = [e EXCEPT !.at = "loading"]
    BY <2>1, <2>2, <2>3 DEF PageFields
  <2> QED BY <2>4 DEF e
<1>4. /\ IsPage(q) /\ q.at = "loading" /\ q.draft = Fresh /\ q.wanted = Of(Fresh)
  BY EmptyAt
<1>5. /\ IsCall(c) /\ c.by = u /\ c.op = op /\ c.status = "sent" /\ c.draft = Fresh
  BY CallFacts
<1>6. \A d \in net' : d.by = u => d.op = op /\ d.status = "sent" /\ d.draft = Fresh
  BY <1>1, <1>2, <1>5
<1>7. \A d, e \in net' : d.by = u /\ e.by = u => d = e
  BY <1>1, <1>2
<1>8. Empty(u)' = Empty(u)
  BY DEF Empty
<1> HIDE DEF q, c
<1>9. Early(u)'
  <2>1. page'[u].at = "loading" /\ page'[u] = [Empty(u) EXCEPT !.at = page[u].at]'
    BY <1>3, <1>4, <1>8 DEF q
  <2>2. /\ op = "read" => Edits(u)' \/ scene'.form[u] \in Inviting
        /\ op # "read" => ~Edits(u)'
        /\ op \in {"mine", "byHome"} => scene'.form[u] = "collaboration"
    BY <1>1, SameScene DEF Began
  <2> QED BY <1>1, <1>6, <1>7, <2>1, <2>2 DEF Early, Arrivals
<1>10. Typed(u)' /\ Plain(u)'
  BY <1>1, <1>3, <1>4, <1>6, FreshIsPlain, SameScene DEF Typed, Plain, Arrivals
<1>11. Once(u)' /\ Homely(u)'
  <2>1. (\A i \in db.invited : i.by # u) /\ \A r \in db.requests : r.by # u
    BY Unsent DEF Began
  <2>2. \A d \in net' : d.by = u => d.op \in Arrivals
    BY <1>1, <1>6
  <2>3. Once(u)'
    BY <1>1, <2>1, <2>2 DEF Once, OnceOps, Arrivals
  <2>4. Homely(u)'
    BY <1>1, <1>3, <1>4, <2>2 DEF Homely, HomeCall, Arrivals, Of1
  <2> QED BY <2>3, <2>4
<1>12. Verdicts(u)' /\ Marked(u)'
  BY <1>3, <1>4 DEF Verdicts, Marked, Calm
<1> QED BY <1>3, <1>4, <1>9, <1>10, <1>11, <1>12 DEF Of1

Opening(u) ==
  \/ OpenCollaborationForm(u) \/ OpenOrganisationForm(u)
  \/ OpenMemberInvitations(u) \/ OpenManagerInvitations(u) \/ OpenAdminInvitations(u)
LEMMA OpeningBegins ==
  ASSUME NEW u \in Users, Opening(u)
  PROVE  \E op : Began(u, op)
<1>1. CASE OpenCollaborationForm(u)
  <2>1. Began(u, IF Mode(u) = "edit" THEN "read" ELSE "mine")
    BY <1>1 DEF OpenCollaborationForm, Opens, Began, Edits, Arrivals, Inviting, Sends
  <2> QED BY <2>1
<1>2. CASE OpenOrganisationForm(u)
  <2>1. Began(u, IF Mode(u) = "edit" THEN "read" ELSE "health")
    BY <1>2 DEF OpenOrganisationForm, Opens, Began, Edits, Arrivals, Inviting, Sends
  <2> QED BY <2>1
<1>3. CASE OpenMemberInvitations(u) \/ OpenManagerInvitations(u) \/ OpenAdminInvitations(u)
  <2>1. Began(u, "read")
    BY <1>3 DEF OpenMemberInvitations, OpenManagerInvitations, OpenAdminInvitations, Opens, Began,
                Edits, Arrivals, Inviting, Sends
  <2> QED BY <2>1
<1> QED BY <1>1, <1>2, <1>3 DEF Opening

-----------------------------------------------------------------------------
(* A form shows what it was opened for: no call of its user is left.       *)
Silent(u) ==
  /\ \A c \in net : c.by # u
  /\ (\A i \in db.invited : i.by # u) /\ \A r \in db.requests : r.by # u
  /\ <<u, "homes">> \in excuse => <<u, "marks">> \in excuse
Shown(u, q) ==
  /\ IsPage(q) /\ q.at \in {"open", "left", "none"}
  /\ Agree(u, q.draft, q.wanted) /\ Simple(u, q.draft)
  /\ q.at = "open" =>
       /\ Edits(u) => q.loaded.id = Target(u)
       /\ <<u, "homes">> \in excuse \/ q.draft.homes = q.wanted.homes
       /\ q.exists = {} /\ q.marks = {}
       /\ \A f \in NamesOf(scene.form[u]) :
            q.draft[f] = q.loaded[f] \/ ~Taken(Kind(u), q.draft.org, f, q.draft[f], q.loaded[f])
       /\ <<u, "marks">> \in excuse \/ \A h \in q.draft.homes : ~HomeTaken(h, q.loaded.id)
Arrived(u) == Silent(u) /\ Shown(u, page[u])

LEMMA ArrivedIsWell == \A u \in Users : Arrived(u) => Of1(u)
<1> SUFFICES ASSUME NEW u \in Users, Arrived(u)  PROVE Of1(u)
  OBVIOUS
<1> DEFINE q == page[u]
<1>1. /\ \A c \in net : c.by # u
      /\ (\A i \in db.invited : i.by # u) /\ \A r \in db.requests : r.by # u
      /\ <<u, "homes">> \in excuse => <<u, "marks">> \in excuse
  BY DEF Arrived, Silent
<1>2. Shown(u, q)
  BY DEF Arrived
<1>3. Early(u)
  BY <1>1, <1>2 DEF Early, Shown
<1>4. Typed(u) /\ Plain(u)
  BY <1>1, <1>2 DEF Typed, Plain, Shown
<1>5. Once(u)
  BY <1>1 DEF Once
<1>6. Homely(u)
  BY <1>1, <1>2 DEF Homely, HomeCall, Shown
<1>7. Verdicts(u)
  <2>1. SUFFICES ASSUME q.at = "open", NEW f \in NamesOf(scene.form[u])  PROVE Right(u, f)
    BY DEF Verdicts, Calm
  <2>2. f \notin q.exists /\ ~Taken(Kind(u), q.draft.org, f, q.draft[f], q.loaded[f])
    BY <1>2, <2>1 DEF Shown, Taken
  <2> QED BY <2>2 DEF Right
<1>8. Marked(u)
  <2>1. SUFFICES ASSUME q.at = "open", <<u, "marks">> \notin excuse  PROVE q.marks = TakenOf(u, q.draft.homes)
    BY <1>1 DEF Marked, Calm, HomeCall
  <2>2. q.marks = {} /\ \A h \in q.draft.homes : ~HomeTaken(h, q.loaded.id)
    BY <1>2, <2>1 DEF Shown
  <2> QED BY <2>2 DEF TakenOf
<1> QED BY <1>3, <1>4, <1>5, <1>6, <1>7, <1>8 DEF Of1

LEMMA NoneTaken ==
  ASSUME Entities
  PROVE  \A org, f, v, x : ~Taken("none", org, f, v, x)
BY DEF Entities, Proper, Taken

LEMMA ArrivedWellAfter == \A u \in Users : Arrived(u)' => Of1(u)'
<1>1. (\A u \in Users : Arrived(u) => Of1(u))'
  BY ArrivedIsWell, PTL
<1> QED BY <1>1

LEMMA ShownArrives ==
  ASSUME NEW u \in Users, Silent(u)', NEW q, page'[u] = q, scene' = scene, excuse' = excuse, db' = db,
         Shown(u, q)
  PROVE  Of1(u)' /\ IsPage(page'[u])
<1>1. Shown(u, q)'
  <2>1. /\ Edits(u)' = Edits(u) /\ Target(u)' = Target(u) /\ Kind(u)' = Kind(u)
        /\ Agree(u, q.draft, q.wanted)' = Agree(u, q.draft, q.wanted) /\ Simple(u, q.draft)' = Simple(u, q.draft)
    BY SameScene
  <2>2. \A h : HomeTaken(h, q.loaded.id)' <=> HomeTaken(h, q.loaded.id)
    BY SameMarks
  <2>3. \A k, o, f, v, x : Taken(k, o, f, v, x)' <=> Taken(k, o, f, v, x)
    BY SameMarks
  <2> QED BY <2>1, <2>2, <2>3 DEF Shown
<1>2. Arrived(u)'
  BY <1>1 DEF Arrived
<1> QED BY <1>2, ArrivedWellAfter DEF Shown

LEMMA StillSilent ==
  ASSUME NEW u \in Users, Of1(u), page[u].at \in {"closed", "loading"},
         scene' = scene, db' = db, excuse' = excuse, \A c \in net' : c.by # u
  PROVE  Silent(u)'
<1>1. <<u, "homes">> \in excuse => <<u, "marks">> \in excuse
  BY DEF Homely, Of1
<1> QED BY <1>1, Unsent DEF Silent

LEMMA NewServiceFacts ==
  ASSUME NEW p, IsPage(p)
  PROVE  /\ IsPage(NewService(p)) /\ NewService(p).at = "open" /\ NewService(p).wanted = p.wanted
         /\ NewService(p).loaded = p.loaded /\ NewService(p).exists = p.exists /\ NewService(p).marks = p.marks
         /\ \A f \in DraftFields \ {"nets"} : NewService(p).draft[f] = p.draft[f]
<1> DEFINE v == <<Row("")>>
           q == [p EXCEPT !.at = "open", !.draft.nets = v]
<1>1. NewService(p) = q
  BY DEF NewService
<1> HIDE DEF v
<1>2. /\ DOMAIN q = PageFields /\ q.at = "open" /\ q.wanted = p.wanted
      /\ q.loaded = p.loaded /\ q.exists = p.exists /\ q.marks = p.marks
      /\ DOMAIN q.draft = DraftFields /\ \A f \in DraftFields \ {"nets"} : q.draft[f] = p.draft[f]
  BY DEF IsPage, PageFields, DraftFields
<1> HIDE DEF q
<1> QED BY <1>1, <1>2 DEF IsPage

LEMMA NamesOfFresh ==
  /\ \A f \in AllNames : Fresh[f] = "" /\ Nothing[f] = "" /\ f \in Fields
  /\ Of(Fresh).homes = {} /\ \A form : NamesOf(form) \subseteq AllNames
<1>1. Of(Fresh).homes = {}
  BY FreshFacts DEF Fields
<1> QED BY <1>1, FreshFacts, NothingFacts, NamesFacts DEF AllNames, Fields

LEMMA ServiceFormArrives ==
  ASSUME Shapes, NEW u \in Users, Of1(u), OpenServiceForm(u)
  PROVE  Of1(u)' /\ IsPage(page'[u])
<1> DEFINE p == [Empty(u) EXCEPT !.at = page[u].at]
           q == page'[u]
<1>1. page[u].at = "closed" /\ scene.form[u] = "service" /\ UNCHANGED <<scene, db, net, excuse>>
  BY DEF OpenServiceForm
<1>2. page[u] = p /\ \A c \in net : c.by # u
  BY <1>1, ClosedFacts
<1>3. Silent(u)'
  BY <1>1, <1>2, StillSilent
<1>4. /\ IsPage(p) /\ p.draft = Fresh /\ p.wanted = Of(Fresh) /\ p.at = "closed"
      /\ p.loaded = Nothing /\ p.exists = {} /\ p.marks = {} /\ ~p.busy
  BY <1>1, EmptyAt
<1> HIDE DEF p
<1>5. q = NewService(p) \/ q = [p EXCEPT !.at = "left"]
  BY <1>2 DEF OpenServiceForm, Shapes
<1> HIDE DEF q
<1>6. /\ IsPage(q) /\ q.at \in {"open", "left"} /\ q.wanted = p.wanted /\ q.loaded = p.loaded
      /\ q.exists = p.exists /\ q.marks = p.marks /\ \A f \in DraftFields \ {"nets"} : q.draft[f] = p.draft[f]
  <2>1. CASE q = NewService(p)
    BY <1>4, <2>1, NewServiceFacts
  <2>2. CASE q = [p EXCEPT !.at = "left"]
    BY <1>4, <2>2 DEF IsPage, PageFields
  <2> QED BY <1>5, <2>1, <2>2
<1>7. \A f \in Fields : q.draft[f] = Fresh[f]
  BY <1>4, <1>6 DEF Fields, DraftFields
<1>8. q.draft.expires = Fresh.expires /\ q.draft.ends = Fresh.ends /\ q.draft.self = Fresh.self
  BY <1>4, <1>6 DEF DraftFields
<1>9. Simple(u, q.draft) /\ Agree(u, q.draft, q.wanted)
  <2>1. Simple(u, q.draft)
    BY <1>7, <1>8, FreshIsPlain, StillSimple
  <2>2. Agree(u, q.draft, q.wanted)
    <3>1. q.wanted = Of(Fresh)
      BY <1>4, <1>6
    <3>2. \A f \in Fields : q.draft[f] = q.wanted[f]
      BY <1>7, <3>1, FreshFacts
    <3> QED BY <3>2 DEF Agree
  <2> QED BY <2>1, <2>2
<1>10. q.draft.homes = {} /\ q.wanted.homes = {}
  <2>1. "homes" \in Fields
    BY DEF Fields
  <2>2. q.draft.homes = Fresh.homes
    BY <1>7, <2>1
  <2> QED BY <1>4, <1>6, <2>2, FreshFacts, NamesOfFresh
<1>11. \A f \in NamesOf(scene.form[u]) : q.draft[f] = q.loaded[f]
  BY ZenonT(30), <1>4, <1>6, <1>7, NamesOfFresh
<1>12. Shown(u, q)
  BY <1>1, <1>4, <1>6, <1>9, <1>10, <1>11 DEF Shown, Edits
<1> QED BY <1>1, <1>3, <1>12, ShownArrives DEF q

-----------------------------------------------------------------------------
(* The server turns a call into another, or into its answer.               *)
SameDraft(c, d) == (d.draft = c.draft /\ d.wanted = c.wanted) \/ (d.draft = Fresh /\ d.wanted = Of(Fresh))
Answered(u, c, d) ==
  /\ c \in net /\ c.by = u /\ scene' = scene /\ page' = page /\ net' = (net \ {c}) \union {d}
  /\ IsCall(d) /\ d.by = u /\ d.op = c.op /\ SameDraft(c, d) /\ c.status \notin {"ok", "failed"}
  /\ d.op = "exists" => d.field = c.field
  /\ d.op \in {"home", "homes"} => d.homes = c.homes
  /\ d.op = "home" => /\ d.value = c.value /\ d.marks = c.marks
                      /\ d.status = "ok" => (d.error <=> HomeTaken(d.value, page[u].loaded.id))
  /\ d.op = "homes" /\ d.status = "ok" => d.marks = TakenOf(u, d.homes)
  /\ d.op = "update" /\ d.status \in {"sent", "begun"} => d.got.id = Target(u)
  /\ d.op = "read" /\ d.status = "ok" =>
       /\ Proper(d.got) /\ d.got.id = Target(u) /\ (Edits(u) => d.got.kind = scene.form[u])
       /\ d.got \in db'.entities
  /\ \/ /\ \A i \in db'.invited : i.by = u => i \in db.invited
        /\ \A r \in db'.requests : r.by = u => r \in db.requests
     \/ d.op \in OnceOps /\ Settled(d)
  /\ \A f : <<u, f>> \in excuse' <=> <<u, f>> \in excuse
  /\ db'.entities = db.entities \/ d.op \in OnceOps \/ (d.op = "delete" /\ d.status = "ok")

LEMMA AnsweredKeeps ==
  ASSUME Shapes, NEW u \in Users, Of1(u), NEW c, NEW d, Answered(u, c, d)
  PROVE  Of1(u)'
<1>1. /\ c \in net /\ c.by = u /\ scene' = scene /\ page' = page /\ net' = (net \ {c}) \union {d}
      /\ d.by = u /\ d.op = c.op /\ c.status \notin {"ok", "failed"}
      /\ \A f : <<u, f>> \in excuse' <=> <<u, f>> \in excuse
  BY DEF Answered
<1>2. db'.entities = db.entities \/ d.op \in OnceOps \/ (d.op = "delete" /\ d.status = "ok")
  BY DEF Answered
<1>3. Empty(u)' = Empty(u)
  BY DEF Empty
<1>4. Early(u)'
  <2>1. page[u].at \in {"closed", "loading"} =>
          /\ page'[u] = [Empty(u) EXCEPT !.at = page[u].at]'
          /\ \A e \in net' : e.by = u => e.op \in Arrivals
    BY <1>1, <1>3 DEF Early, Of1
  <2>2. page[u].at = "open" /\ Edits(u) => page[u].loaded.id = Target(u)
    BY DEF Early, Of1
  <2>3. ASSUME NEW e \in net', e.by = u, e.op = "update"
        PROVE  Edits(u) /\ (e.status \in {"sent", "begun"} => e.got.id = Target(u))
    <3>1. CASE e = d
      <4>1. Edits(u)
        BY <1>1, <2>3, <3>1 DEF Early, Of1
      <4> QED BY <2>3, <3>1, <4>1 DEF Answered
    <3>2. CASE e \in net
      BY <2>3, <3>2 DEF Early, Of1
    <3> QED BY <1>1, <3>1, <3>2
  <2>4. ASSUME NEW e \in net', e.by = u, e.op \in Arrivals
        PROVE  /\ page[u].at = "loading" /\ (\A g \in net' : g.by = u => g = e)
               /\ (e.op = "read" => Edits(u) \/ scene.form[u] \in Inviting)
               /\ (e.op # "read" => ~Edits(u))
               /\ (e.op \in {"mine", "byHome"} => scene.form[u] = "collaboration")
               /\ (e.op = "read" /\ e.status = "ok" =>
                     /\ Proper(e.got) /\ e.got.id = Target(u) /\ (Edits(u) => e.got.kind = scene.form[u])
                     /\ <<u, "marks">> \in excuse' \/ e.got \in db'.entities)
    <3>1. c.op \in Arrivals /\ e = d
      BY <1>1, <2>4 DEF Early, Of1
    <3>2. \A g \in net : g.by = u => g = c
      BY <1>1, <3>1 DEF Early, Of1
    <3>3. /\ page[u].at = "loading"
          /\ (c.op = "read" => Edits(u) \/ scene.form[u] \in Inviting)
          /\ (c.op # "read" => ~Edits(u))
          /\ (c.op \in {"mine", "byHome"} => scene.form[u] = "collaboration")
      BY <1>1, <3>1 DEF Early, Of1
    <3>4. \A g \in net' : g.by = u => g = e
      BY <1>1, <3>1, <3>2
    <3>5. e.op = "read" /\ e.status = "ok" =>
            /\ Proper(e.got) /\ e.got.id = Target(u) /\ (Edits(u) => e.got.kind = scene.form[u])
            /\ e.got \in db'.entities
      BY <3>1 DEF Answered
    <3> QED BY <1>1, <3>1, <3>3, <3>4, <3>5
  <2> QED BY ZenonT(30), <1>1, <2>1, <2>2, <2>3, <2>4, SameScene DEF Early, Proper
<1>5. Simple(u, d.draft)
  BY <1>1, FreshIsPlain DEF Answered, SameDraft, Plain, Of1
<1>6. Typed(u)'
  <2>1. ASSUME d.op \in {"create", "update", "request"}
        PROVE  /\ Agree(u, d.draft, d.wanted)
               /\ <<u, "homes">> \in excuse \/ d.draft.homes = d.wanted.homes
               /\ (d.op # "update" => ~Edits(u))
               /\ (d.op = "create" => scene.form[u] \notin Inviting)
               /\ (d.op = "request" => scene.form[u] = "collaboration")
    <3>1. /\ Agree(u, c.draft, c.wanted)
          /\ <<u, "homes">> \in excuse \/ c.draft.homes = c.wanted.homes
          /\ (c.op # "update" => ~Edits(u))
          /\ (c.op = "create" => scene.form[u] \notin Inviting)
          /\ (c.op = "request" => scene.form[u] = "collaboration")
      BY <1>1, <2>1 DEF Typed, Of1
    <3>2. Fresh.homes = Of(Fresh).homes /\ Agree(u, Fresh, Of(Fresh))
      BY FreshFacts, FreshIsPlain, NamesOfFresh
    <3>3. SameDraft(c, d)
      BY DEF Answered
    <3> QED BY <1>1, <3>1, <3>2, <3>3 DEF SameDraft
  <2>2. \A e \in net' : e \in net \/ e = d
    BY <1>1
  <2> QED BY <1>1, <2>1, <2>2, SameScene DEF Typed, Of1
<1>7. Plain(u)'
  BY <1>1, <1>5, SameScene DEF Plain, Of1
<1>8. Once(u)'
  <2>1. \A e \in net' : e \in net \/ e = d
    BY <1>1
  <2>2. ASSUME NEW e \in net', e.by = u, e.op \in OnceOps
        PROVE  Spent(u) /\ \A g \in net' : g.by = u /\ g.op \in OnceOps => g = e
    <3>1. \A g, h \in net : g.by = u /\ g.op \in OnceOps /\ h.by = u /\ h.op \in OnceOps => g = h
      BY DEF Once, Of1
    <3>2. Spent(u)
      BY <1>1, <2>1, <2>2 DEF Once, Of1
    <3>3. ASSUME NEW g \in net', g.by = u, g.op \in OnceOps
          PROVE  g = e
      <4>1. CASE c.op \in OnceOps
        <5>1. \A h \in net' : h.by = u /\ h.op \in OnceOps => h = d
          BY <1>1, <3>1, <4>1
        <5> QED BY <2>2, <3>3, <5>1
      <4>2. CASE c.op \notin OnceOps
        BY <1>1, <2>1, <2>2, <3>1, <3>3, <4>2
      <4> QED BY <4>1, <4>2
    <3> QED BY <3>2, <3>3
  <2>3. CASE /\ \A i \in db'.invited : i.by = u => i \in db.invited
             /\ \A r \in db'.requests : r.by = u => r \in db.requests
    <3>1. ASSUME (\E i \in db'.invited : i.by = u) \/ (\E r \in db'.requests : r.by = u)
          PROVE  Spent(u) /\ \A e \in net' : e.by = u /\ e.op \in OnceOps => Settled(e)
      <4>1. Spent(u) /\ \A e \in net : e.by = u /\ e.op \in OnceOps => Settled(e)
        BY <2>3, <3>1 DEF Once, Of1
      <4> QED BY <1>1, <4>1 DEF Settled
    <3> QED BY <1>1, <2>2, <3>1 DEF Once, Spent
  <2>4. CASE d.op \in OnceOps /\ Settled(d)
    <3>1. d \in net'
      BY <1>1
    <3>2. Spent(u) /\ \A e \in net' : e.by = u /\ e.op \in OnceOps => e = d
      BY <1>1, <2>2, <2>4, <3>1
    <3> QED BY <1>1, <2>2, <2>4, <3>2 DEF Once, Spent
  <2> QED BY <2>3, <2>4 DEF Answered
<1>9. Homely(u)'
  <2>1. <<u, "homes">> \in excuse' => <<u, "marks">> \in excuse'
    BY <1>1 DEF Homely, Of1
  <2>2. \A e \in net' : e.by = u /\ e.op = "exists" => e.field \in {"name", "short", "entity"}
    BY <1>1 DEF Homely, Of1, Answered
  <2>3. \A e \in net' : HomeCall(u, e) => scene'.form[u] = "organisation"
    BY <1>1 DEF Homely, Of1, HomeCall
  <2>4. ASSUME <<u, "homes">> \notin excuse
        PROVE  /\ \A e, g \in net' : HomeCall(u, e) /\ HomeCall(u, g) => e = g
               /\ \A e \in net' : HomeCall(u, e) => e.homes = page[u].wanted.homes
               /\ page[u].at = "open" /\ (\A e \in net' : HomeCall(u, e) => e.op = "home") =>
                    page[u].draft.homes = page[u].wanted.homes
    <3>1. /\ \A e, g \in net : HomeCall(u, e) /\ HomeCall(u, g) => e = g
          /\ \A e \in net : HomeCall(u, e) => e.homes = page[u].wanted.homes
          /\ page[u].at = "open" /\ (\A e \in net : HomeCall(u, e) => e.op = "home") =>
               page[u].draft.homes = page[u].wanted.homes
      BY <2>4 DEF Homely, Of1
    <3>2. HomeCall(u, d) <=> HomeCall(u, c)
      BY <1>1 DEF HomeCall
    <3>3. HomeCall(u, d) => d.homes = c.homes
      BY DEF HomeCall, Answered
    <3>4. \A e, g \in net' : HomeCall(u, e) /\ HomeCall(u, g) => e = g
      BY <1>1, <3>1, <3>2
    <3>5. \A e \in net' : HomeCall(u, e) => e.homes = page[u].wanted.homes
      BY <1>1, <3>1, <3>2, <3>3
    <3>6. (\A e \in net' : HomeCall(u, e) => e.op = "home") => \A e \in net : HomeCall(u, e) => e.op = "home"
      BY <1>1, <3>2
    <3> QED BY <3>1, <3>4, <3>5, <3>6
  <2> QED BY <1>1, <2>1, <2>2, <2>3, <2>4 DEF Homely, HomeCall
<1>10. Calm(u)' => Calm(u) /\ db'.entities = db.entities
  <2>1. SUFFICES ASSUME Calm(u)'  PROVE Calm(u) /\ db'.entities = db.entities
    OBVIOUS
  <2>2. ~(d.op = "delete" /\ d.status = "ok") /\ ~Spent(u)
    BY <1>1, <2>1 DEF Calm, Spent
  <2>3. d.op \notin OnceOps
    BY <1>1, <2>2 DEF Once, Of1
  <2>4. ~(c.op = "delete" /\ c.status = "ok")
    BY <1>1
  <2>5. Calm(u)
    BY <1>1, <2>1, <2>4 DEF Calm
  <2> QED BY <1>2, <2>2, <2>3, <2>5
<1>11. Verdicts(u)'
  <2>1. SUFFICES ASSUME Calm(u), db'.entities = db.entities, NEW f \in NamesOf(scene.form[u]), <<u, f>> \notin excuse
        PROVE  Asked(u, f)' \/ Right(u, f)'
    BY <1>1, <1>10 DEF Verdicts
  <2>2. Asked(u, f) \/ Right(u, f)
    BY <2>1 DEF Verdicts, Of1
  <2>3. CASE Asked(u, f)
    <3>1. PICK e \in net : e.by = u /\ e.op = "exists" /\ e.field = f
      BY <2>3 DEF Asked
    <3>2. CASE e = c
      <4>1. d \in net' /\ d.by = u /\ d.op = "exists" /\ d.field = f
        BY <1>1, <3>1, <3>2 DEF Answered
      <4> QED BY <4>1 DEF Asked
    <3>3. CASE e # c
      BY <1>1, <3>1, <3>3 DEF Asked
    <3> QED BY <3>2, <3>3
  <2>4. CASE Right(u, f)
    BY <1>1, <2>1, <2>4, SameMarks, SameScene DEF Right
  <2> QED BY <2>2, <2>3, <2>4
<1>12. Marked(u)'
  <2>1. SUFFICES Calm(u) /\ db'.entities = db.entities /\ <<u, "marks">> \notin excuse =>
                 /\ (\A e \in net' : ~HomeCall(u, e)) => page[u].marks = TakenOf(u, page[u].draft.homes)
                 /\ \A e \in net' : HomeCall(u, e) =>
                    /\ (e.op = "home" => /\ e.value \in e.homes /\ e.marks = TakenOf(u, e.homes \ {e.value})
                                         /\ e.status = "ok" => (e.error <=> HomeTaken(e.value, page[u].loaded.id)))
                    /\ (e.op = "homes" /\ e.status = "ok" => e.marks = TakenOf(u, e.homes))
    <3>1. db'.entities = db.entities => \A homes : TakenOf(u, homes)' = TakenOf(u, homes)
      BY <1>1, SameMarks DEF TakenOf
    <3>2. SUFFICES ASSUME Calm(u), db'.entities = db.entities, <<u, "marks">> \notin excuse  PROVE Marked(u)'
      BY <1>1, <1>10 DEF Marked
    <3> QED BY <1>1, <2>1, <3>1, <3>2, SameMarks DEF Marked, HomeCall
  <2> SUFFICES ASSUME Calm(u), db'.entities = db.entities, <<u, "marks">> \notin excuse
               PROVE  /\ (\A e \in net' : ~HomeCall(u, e)) => page[u].marks = TakenOf(u, page[u].draft.homes)
                      /\ \A e \in net' : HomeCall(u, e) =>
                           /\ (e.op = "home" => /\ e.value \in e.homes /\ e.marks = TakenOf(u, e.homes \ {e.value})
                                                /\ e.status = "ok" => (e.error <=> HomeTaken(e.value, page[u].loaded.id)))
                           /\ (e.op = "homes" /\ e.status = "ok" => e.marks = TakenOf(u, e.homes))
    OBVIOUS
  <2>2. HomeCall(u, d) <=> HomeCall(u, c)
    BY <1>1 DEF HomeCall
  <2>3. (\A e \in net' : ~HomeCall(u, e)) => \A e \in net : ~HomeCall(u, e)
    BY <1>1, <2>2
  <2>4. (\A e \in net' : ~HomeCall(u, e)) => page[u].marks = TakenOf(u, page[u].draft.homes)
    BY <2>3 DEF Marked, Of1
  <2>5. ASSUME NEW e \in net, HomeCall(u, e)
        PROVE  /\ (e.op = "home" => /\ e.value \in e.homes /\ e.marks = TakenOf(u, e.homes \ {e.value})
                                    /\ e.status = "ok" => (e.error <=> HomeTaken(e.value, page[u].loaded.id)))
               /\ (e.op = "homes" /\ e.status = "ok" => e.marks = TakenOf(u, e.homes))
    BY <2>5 DEF Marked, Of1
  <2>6. ASSUME HomeCall(u, d)
        PROVE  /\ (d.op = "home" => /\ d.value \in d.homes /\ d.marks = TakenOf(u, d.homes \ {d.value})
                                    /\ d.status = "ok" => (d.error <=> HomeTaken(d.value, page[u].loaded.id)))
               /\ (d.op = "homes" /\ d.status = "ok" => d.marks = TakenOf(u, d.homes))
    <3>1. CASE d.op = "home"
      <4>1. c.value \in c.homes /\ c.marks = TakenOf(u, c.homes \ {c.value})
        BY <1>1, <2>2, <2>5, <2>6, <3>1
      <4> QED BY <3>1, <4>1 DEF Answered
    <3>2. CASE d.op = "homes"
      BY <3>2 DEF Answered
    <3> QED BY <2>6, <3>1, <3>2 DEF HomeCall
  <2> QED BY <1>1, <2>4, <2>5, <2>6
<1> QED BY <1>4, <1>6, <1>7, <1>8, <1>9, <1>11, <1>12 DEF Of1

-----------------------------------------------------------------------------
(* What the server does that changes nothing but calls.                    *)
LEMMA DoneFacts ==
  ASSUME NEW c, NEW status
  PROVE  /\ IsCall(Done(c, status)) /\ Done(c, status).by = c.by /\ Done(c, status).op = c.op
         /\ Done(c, status).status = status /\ Done(c, status).draft = Fresh /\ Done(c, status).wanted = Of(Fresh)
         /\ Done(c, status).got = Nothing
<1> DEFINE b == Call(c.by, c.op)
           d == [b EXCEPT !.status = status, !.id = c.id]
<1>1. IsCall(b) /\ b.by = c.by /\ b.op = c.op /\ b.draft = Fresh /\ b.wanted = Of(Fresh) /\ b.got = Nothing
  BY CallFacts
<1> HIDE DEF b
<1>2. /\ DOMAIN d = CallFields /\ d.by = b.by /\ d.op = b.op /\ d.status = status /\ d.draft = b.draft
      /\ d.wanted = b.wanted /\ d.got = b.got
  BY <1>1 DEF IsCall, CallFields
<1> HIDE DEF d
<1>3. IsCall(d)
  BY <1>1, <1>2 DEF IsCall
<1>4. /\ IsCall(d) /\ d.by = c.by /\ d.op = c.op /\ d.status = status /\ d.draft = Fresh
      /\ d.wanted = Of(Fresh) /\ d.got = Nothing
  BY <1>1, <1>2, <1>3
<1> QED BY <1>4 DEF d, b, Done

LEMMA FindFacts ==
  ASSUME Entities, NEW id, Exists(id)
  PROVE  /\ Find(id) \in db.entities /\ Find(id).id = id /\ Proper(Find(id))
         /\ \A e \in db.entities : e.id = id => e = Find(id)
<1>1. Find(id) \in db.entities /\ Find(id).id = id
  BY DEF Find, Exists
<1> QED BY <1>1 DEF Entities

LEMMA TargetFacts ==
  ASSUME NEW u
  PROVE  /\ Target(u) \in {1, 3, 6} /\ Target(u) \in 0 .. 6
         /\ Edits(u) => KindOf(Target(u)) = scene.form[u]
<1>1. Target(u) \in {1, 3, 6}
  BY DEF Target, TheService
<1>2. CASE scene.form[u] = "collaboration"
  BY <1>1, <1>2 DEF Target, KindOf
<1>3. CASE scene.form[u] = "organisation"
  BY <1>1, <1>3 DEF Target, KindOf
<1>4. Edits(u) => scene.form[u] \in {"collaboration", "organisation"}
  BY DEF Edits
<1> QED BY <1>1, <1>2, <1>3, <1>4

Served(c) == \E d : Answered(c.by, c, d) /\ db' = db /\ excuse' = excuse /\ ~StoredNow(d)

LEMMA FailsServed ==
  ASSUME NEW c \in net, c.status \notin {"ok", "failed"}, scene' = scene, page' = page, Fails(c),
         c.op \notin {"exists", "home", "homes"}
  PROVE  Served(c)
<1> DEFINE d == Done(c, "failed")
<1>1. net' = (net \ {c}) \union {d} /\ db' = db /\ excuse' = excuse
  BY DEF Fails, Answers
<1>2. IsCall(d) /\ d.by = c.by /\ d.op = c.op /\ d.status = "failed" /\ d.draft = Fresh /\ d.wanted = Of(Fresh)
  BY DoneFacts
<1> HIDE DEF d
<1>3. Answered(c.by, c, d)
  BY <1>1, <1>2 DEF Answered, SameDraft
<1>4. ~StoredNow(d)
  BY <1>2 DEF StoredNow
<1> QED BY <1>1, <1>3, <1>4 DEF Served

Reading(c) == ServeRead(c) \/ ServeMine(c) \/ ServeByHome(c) \/ ServeHealth(c)
LEMMA ReadingServed ==
  ASSUME Shapes, Entities, NEW c, Reading(c)
  PROVE  Served(c)
<1>1. c \in net /\ c.status = "sent" /\ scene' = scene /\ page' = page
      /\ c.op \in {"read", "mine", "byHome", "health"}
  BY DEF Reading, ServeRead, ServeMine, ServeByHome, ServeHealth, Serves
<1>2. CASE ServeRead(c) /\ ~Exists(Target(c.by))
  BY <1>1, <1>2, FailsServed DEF ServeRead
<1>3. CASE ServeRead(c) /\ Exists(Target(c.by))
  <2> DEFINE g == Find(Target(c.by))
             d == [Done(c, "ok") EXCEPT !.got = g]
  <2>1. g \in db.entities /\ g.id = Target(c.by) /\ Proper(g)
    BY <1>3, FindFacts
  <2>2. Edits(c.by) => g.kind = scene.form[c.by]
    BY <2>1, TargetFacts DEF Entities
  <2>3. net' = (net \ {c}) \union {d} /\ db' = db /\ excuse' = excuse /\ c.op = "read"
    BY <1>3 DEF ServeRead, Answers, Serves
  <2>4. IsCall(d) /\ d.by = c.by /\ d.op = c.op /\ d.status = "ok" /\ SameDraft(c, d) /\ d.got = g
    <3>1. DOMAIN g = EntityFields /\ g.id \in 0 .. 6
      BY <2>1, TargetFacts DEF Proper
    <3> DEFINE b == Done(c, "ok")
               e == [b EXCEPT !.got = g]
    <3>2. IsCall(b) /\ b.by = c.by /\ b.op = c.op /\ b.status = "ok" /\ b.draft = Fresh /\ b.wanted = Of(Fresh)
      BY DoneFacts
    <3> HIDE DEF g, b
    <3>3. /\ DOMAIN e = CallFields /\ e.by = b.by /\ e.op = b.op /\ e.status = b.status /\ e.draft = b.draft
          /\ e.wanted = b.wanted /\ e.got = g
      BY <3>2 DEF IsCall, CallFields
    <3> HIDE DEF e
    <3>4. IsCall(e) /\ e.by = c.by /\ e.op = c.op /\ e.status = "ok" /\ SameDraft(c, e) /\ e.got = g
      BY <3>1, <3>2, <3>3 DEF IsCall, SameDraft
    <3> QED BY <3>4 DEF e, b
  <2> HIDE DEF g
  <2> HIDE DEF d
  <2>5. Answered(c.by, c, d)
    BY <1>1, <2>1, <2>2, <2>3, <2>4 DEF Answered
  <2>6. ~StoredNow(d)
    BY <2>4 DEF StoredNow
  <2> QED BY <2>3, <2>5, <2>6 DEF Served
<1>4. ASSUME NEW orgs, NEW d, d = [Done(c, "ok") EXCEPT !.orgs = orgs] \/ d = Done(c, "ok"),
             Answers(c, d), db' = db, excuse' = excuse, c.op # "read"
      PROVE  Served(c)
  <2>1. IsCall(d) /\ d.by = c.by /\ d.op = c.op /\ d.status = "ok" /\ SameDraft(c, d)
    <3>1. CASE d = Done(c, "ok")
      BY <3>1, DoneFacts DEF SameDraft
    <3>2. CASE d = [Done(c, "ok") EXCEPT !.orgs = orgs]
      <4> DEFINE b == Done(c, "ok")
      <4>1. IsCall(b) /\ b.by = c.by /\ b.op = c.op /\ b.status = "ok" /\ b.draft = Fresh /\ b.wanted = Of(Fresh)
        BY DoneFacts
      <4>2. d = [b EXCEPT !.orgs = orgs]
        BY <3>2
      <4> HIDE DEF b
      <4>3. /\ DOMAIN d = CallFields /\ d.by = b.by /\ d.op = b.op /\ d.status = b.status /\ d.draft = b.draft
            /\ d.wanted = b.wanted /\ d.got = b.got
        BY <4>1, <4>2 DEF IsCall, CallFields
      <4> QED BY <4>1, <4>3 DEF IsCall, SameDraft
    <3> QED BY <1>4, <3>1, <3>2
  <2>2. Answered(c.by, c, d)
    BY <1>1, <1>4, <2>1 DEF Answered, Answers, OnceOps
  <2>3. ~StoredNow(d)
    BY <2>1 DEF StoredNow
  <2> QED BY <1>4, <2>2, <2>3 DEF Served
<1>5. CASE ServeMine(c)
  BY <1>4, <1>5 DEF ServeMine, Serves
<1>6. CASE ServeByHome(c)
  BY <1>4, <1>6 DEF ServeByHome, Serves
<1>7. CASE ServeHealth(c)
  BY <1>4, <1>7 DEF ServeHealth, Serves, Ok
<1> QED BY <1>2, <1>3, <1>5, <1>6, <1>7 DEF Reading

Checking(c) == ServeExists(c) \/ ServeHome(c) \/ ServeHomes(c)
LEMMA CheckingServed ==
  ASSUME Shapes, NEW c, Checking(c)
  PROVE  Served(c)
<1>1. c \in net /\ c.status = "sent" /\ scene' = scene /\ page' = page /\ IsCall(c)
  BY DEF Checking, ServeExists, ServeHome, ServeHomes, Serves, Shapes
<1>2. CASE ServeExists(c)
  <2> DEFINE v == Taken(Kind(c.by), c.org, c.field, c.value, c.got[c.field])
             d == [c EXCEPT !.status = "ok", !.error = v]
  <2>1. net' = (net \ {c}) \union {d} /\ db' = db /\ excuse' = excuse /\ c.op = "exists"
    BY <1>2 DEF ServeExists, Answers, Serves
  <2> HIDE DEF v
  <2>2. /\ DOMAIN d = CallFields /\ d.by = c.by /\ d.op = c.op /\ d.status = "ok" /\ d.draft = c.draft
        /\ d.wanted = c.wanted /\ d.got = c.got /\ d.field = c.field
    BY <1>1 DEF IsCall, CallFields
  <2> HIDE DEF d
  <2>3. IsCall(d) /\ SameDraft(c, d) /\ ~StoredNow(d)
    BY <1>1, <2>2 DEF IsCall, SameDraft, StoredNow
  <2>4. Answered(c.by, c, d)
    BY <1>1, <2>1, <2>2, <2>3 DEF Answered
  <2> QED BY <2>1, <2>3, <2>4 DEF Served
<1>3. CASE ServeHome(c)
  <2> DEFINE v == HomeTaken(c.value, page[c.by].loaded.id)
             d == [c EXCEPT !.status = "ok", !.error = v]
  <2>1. net' = (net \ {c}) \union {d} /\ db' = db /\ excuse' = excuse /\ c.op = "home"
    BY <1>3 DEF ServeHome, Answers, Serves
  <2> HIDE DEF v
  <2>2. /\ DOMAIN d = CallFields /\ d.by = c.by /\ d.op = c.op /\ d.status = "ok" /\ d.draft = c.draft
        /\ d.wanted = c.wanted /\ d.got = c.got /\ d.homes = c.homes /\ d.value = c.value /\ d.marks = c.marks
        /\ d.error = v
    BY <1>1 DEF IsCall, CallFields
  <2> HIDE DEF d
  <2>3. IsCall(d) /\ SameDraft(c, d) /\ ~StoredNow(d)
    BY <1>1, <2>2 DEF IsCall, SameDraft, StoredNow
  <2>4. d.error <=> HomeTaken(d.value, page[c.by].loaded.id)
    BY <2>2 DEF v
  <2>5. Answered(c.by, c, d)
    BY <1>1, <2>1, <2>2, <2>3, <2>4 DEF Answered
  <2> QED BY <2>1, <2>3, <2>5 DEF Served
<1>4. CASE ServeHomes(c)
  <2> DEFINE v == {h \in c.homes : HomeTaken(h, page[c.by].loaded.id)}
             d == [c EXCEPT !.status = "ok", !.marks = v]
  <2>1. net' = (net \ {c}) \union {d} /\ db' = db /\ excuse' = excuse /\ c.op = "homes"
    BY <1>4 DEF ServeHomes, Answers, Serves
  <2> HIDE DEF v
  <2>2. /\ DOMAIN d = CallFields /\ d.by = c.by /\ d.op = c.op /\ d.status = "ok" /\ d.draft = c.draft
        /\ d.wanted = c.wanted /\ d.got = c.got /\ d.homes = c.homes /\ d.marks = v
    BY <1>1 DEF IsCall, CallFields
  <2> HIDE DEF d
  <2>3. IsCall(d) /\ SameDraft(c, d) /\ ~StoredNow(d)
    BY <1>1, <2>2 DEF IsCall, SameDraft, StoredNow
  <2>4. d.marks = TakenOf(c.by, d.homes)
    BY <2>2 DEF v, TakenOf
  <2>5. Answered(c.by, c, d)
    BY <1>1, <2>1, <2>2, <2>3, <2>4 DEF Answered
  <2> QED BY <2>1, <2>3, <2>5 DEF Served
<1> QED BY <1>2, <1>3, <1>4 DEF Checking

Beginning(c) == BeginCreate(c) \/ BeginUpdate(c)
LEMMA BeginningServed ==
  ASSUME Shapes, Entities, NEW c, Beginning(c), Of1(c.by)
  PROVE  Served(c)
<1>1. c \in net /\ c.status = "sent" /\ scene' = scene /\ page' = page /\ IsCall(c) /\ c.op \in {"create", "update"}
  BY DEF Beginning, BeginCreate, BeginUpdate, Serves, Shapes
<1>2. CASE Fails(c)
  BY <1>1, <1>2, FailsServed
<1>3. CASE BeginCreate(c) /\ Answers(c, [c EXCEPT !.status = "begun"]) /\ UNCHANGED <<db, excuse>>
  <2> DEFINE d == [c EXCEPT !.status = "begun"]
  <2>1. net' = (net \ {c}) \union {d} /\ db' = db /\ excuse' = excuse /\ c.op = "create"
    BY <1>3 DEF BeginCreate, Answers, Serves
  <2>2. /\ DOMAIN d = CallFields /\ d.by = c.by /\ d.op = c.op /\ d.status = "begun" /\ d.draft = c.draft
        /\ d.wanted = c.wanted /\ d.got = c.got
    BY <1>1 DEF IsCall, CallFields
  <2> HIDE DEF d
  <2>3. IsCall(d) /\ SameDraft(c, d) /\ ~StoredNow(d)
    BY <1>1, <2>2 DEF IsCall, SameDraft, StoredNow
  <2>4. Answered(c.by, c, d)
    BY <1>1, <2>1, <2>2, <2>3 DEF Answered
  <2> QED BY <2>1, <2>3, <2>4 DEF Served
<1>4. CASE BeginUpdate(c) /\ Exists(c.got.id)
  <2> DEFINE g == Find(c.got.id)
             d == [c EXCEPT !.status = "begun", !.got = g]
  <2>1. net' = (net \ {c}) \union {d} /\ db' = db /\ excuse' = excuse /\ c.op = "update"
    BY <1>4 DEF BeginUpdate, Answers, Serves
  <2>2. g.id = c.got.id /\ Proper(g)
    BY <1>4, FindFacts
  <2> HIDE DEF g
  <2>3. /\ DOMAIN d = CallFields /\ d.by = c.by /\ d.op = c.op /\ d.status = "begun" /\ d.draft = c.draft
        /\ d.wanted = c.wanted /\ d.got = g
    BY <1>1 DEF IsCall, CallFields
  <2> HIDE DEF d
  <2>4. IsCall(d) /\ SameDraft(c, d) /\ ~StoredNow(d)
    BY <1>1, <2>1, <2>2, <2>3 DEF IsCall, SameDraft, StoredNow, Proper
  <2>5. c.got.id = Target(c.by)
    BY <1>1, <2>1 DEF Early, Of1
  <2>6. Answered(c.by, c, d)
    BY <1>1, <2>1, <2>2, <2>3, <2>4, <2>5 DEF Answered
  <2> QED BY <2>1, <2>4, <2>6 DEF Served
<1> QED BY <1>2, <1>3, <1>4 DEF Beginning, BeginCreate, BeginUpdate

-----------------------------------------------------------------------------
(* What the server stores and removes.                                     *)
Effects(c) ==
  /\ \E d : Answered(c.by, c, d)
  /\ Entities' /\ Rows' /\ InOnce'
  /\ \A i \in db'.invited : i \in db.invited \/ i.by = c.by
  /\ \A r \in db'.requests : r \in db.requests \/ r.by = c.by
  /\ (db'.entities = db.entities /\ excuse' = excuse) \/ Outdates(c)

LEMMA ServedEffects ==
  ASSUME Entities, Rows, InOnce, NEW c \in net, Served(c)
  PROVE  Effects(c)
<1>1. PICK d : Answered(c.by, c, d) /\ db' = db /\ excuse' = excuse /\ ~StoredNow(d)
  BY DEF Served
<1>2. \A e \in net' : StoredNow(e) => e \in net
  BY <1>1 DEF Answered
<1>3. Entities'
  BY <1>1 DEF Entities
<1>4. Rows'
  BY <1>1, <1>2 DEF Rows, StoredNow
<1>5. InOnce'
  BY <1>1 DEF InOnce
<1> QED BY <1>1, <1>3, <1>4, <1>5 DEF Effects

LEMMA OutdatesFacts ==
  ASSUME NEW c, Outdates(c)
  PROVE  /\ \A f : <<c.by, f>> \in excuse' <=> <<c.by, f>> \in excuse
         /\ \A u : <<u, "homes">> \in excuse' <=> <<u, "homes">> \in excuse
         /\ \A u \in Users : u # c.by => \A f \in NamesOf("service") \union {"marks"} : <<u, f>> \in excuse'
<1>1. "homes" \notin NamesOf("service") \union {"marks"}
  BY NamesFacts
<1> QED BY <1>1 DEF Outdates

LEMMA EffectsKeep ==
  ASSUME Inv, NEW c \in net, Effects(c)
  PROVE  Inv'
<1>1. PICK d : Answered(c.by, c, d)
  BY DEF Effects
<1>2. c.by \in Users /\ Shapes
  BY DEF Inv, Shapes
<1>3. /\ scene' = scene /\ page' = page /\ net' = (net \ {c}) \union {d} /\ IsCall(d) /\ d.by = c.by
  BY <1>1 DEF Answered
<1>4. Shapes'
  BY <1>2, <1>3 DEF Shapes
<1>5. Of1(c.by)'
  BY <1>1, <1>2, AnsweredKeeps DEF Inv
<1>6. ASSUME NEW u \in Users, u # c.by
      PROVE  Of1(u)'
  <2>1. /\ \A i \in db'.invited : i.by = u => i \in db.invited
        /\ \A r \in db'.requests : r.by = u => r \in db.requests
    BY <1>6 DEF Effects
  <2>2. <<u, "homes">> \in excuse' <=> <<u, "homes">> \in excuse
    BY OutdatesFacts DEF Effects
  <2>3. SamePage(u)
    BY <1>3, <1>6, <2>1, <2>2 DEF SamePage
  <2>4. Unmoved(u)
    BY <1>6, OutdatesFacts DEF Effects, Unmoved
  <2> QED BY <2>3, <2>4, BystanderKeeps DEF Inv
<1> QED BY <1>4, <1>5, <1>6 DEF Inv, Effects

-----------------------------------------------------------------------------
LEMMA DoneAnswered ==
  ASSUME NEW c \in net, c.status \notin {"ok", "failed"}, scene' = scene, page' = page,
         NEW status \in {"ok", "failed"}, Answers(c, Done(c, status)), c.op \in OnceOps \union {"delete"},
         c.op = "create" => status = "ok",
         \A f : <<c.by, f>> \in excuse' <=> <<c.by, f>> \in excuse,
         c.op = "delete" => status = "ok" /\ db'.invited \subseteq db.invited /\ db'.requests = db.requests
  PROVE  Answered(c.by, c, Done(c, status)) /\ \A d \in net' : StoredNow(d) => d \in net \ {c}
<1> DEFINE d == Done(c, status)
<1>1. IsCall(d) /\ d.by = c.by /\ d.op = c.op /\ d.status = status /\ d.draft = Fresh /\ d.wanted = Of(Fresh)
  BY DoneFacts
<1>2. net' = (net \ {c}) \union {d}
  BY DEF Answers
<1> HIDE DEF d
<1>3. d.op \notin {"read", "exists", "home", "homes"}
  BY <1>1 DEF OnceOps
<1>4. /\ \/ /\ \A i \in db'.invited : i.by = c.by => i \in db.invited
            /\ \A r \in db'.requests : r.by = c.by => r \in db.requests
         \/ d.op \in OnceOps /\ Settled(d)
      /\ d.op \in OnceOps \/ (d.op = "delete" /\ d.status = "ok")
  BY <1>1 DEF Settled
<1>5. Answered(c.by, c, d)
  BY <1>1, <1>2, <1>3, <1>4 DEF Answered, SameDraft
<1>6. ~StoredNow(d)
  BY <1>1 DEF StoredNow
<1> QED BY <1>2, <1>5, <1>6 DEF d

(* Of whoever still has something to be stored nothing is stored yet.      *)
LEMMA NotYetIn ==
  ASSUME NEW c \in net, Of1(c.by), c.op \in OnceOps, c.status \notin {"ok", "failed"}
  PROVE  (\A i \in db.invited : i.by # c.by) /\ \A r \in db.requests : r.by # c.by
BY DEF Of1, Once, Settled

LEMMA DbFacts ==
  ASSUME Entities
  PROVE  DOMAIN db = {"entities", "invited", "members", "requests", "made"} /\ db.made \in Nat /\ db.made >= 7
BY DEF Entities

LEMMA StoredFacts ==
  ASSUME NEW kind, NEW id, NEW org, NEW d
  PROVE  /\ DOMAIN Stored(kind, id, org, d) = EntityFields
         /\ Stored(kind, id, org, d).kind = kind /\ Stored(kind, id, org, d).id = id
         /\ Stored(kind, id, org, d).org = org
         /\ \A f \in Fields : Stored(kind, id, org, d)[f] = d[f]
BY DEF Stored, EntityFields, Fields

LEMMA LaterRow ==
  ASSUME NEW m \in Nat, m >= 7
  PROVE  /\ m + 1 \in Nat /\ m + 1 >= 7 /\ m \in Nat \ {0} /\ m < m + 1 /\ m \notin {1, 3, 6}
         /\ \A k \in Nat : k < m => k < m + 1 /\ k # m
OBVIOUS

LEMMA EntityAdded ==
  ASSUME Entities, NEW kind, kind # "none", NEW org, NEW d, kind # "organisation" => d.homes = {} /\ d.creation = FALSE,
         kind # "service" => d.entity = "", ~Clashes(kind, 0, org, d),
         DOMAIN db' = DOMAIN db, db'.made = db.made + 1,
         db'.entities = db.entities \union {Stored(kind, db.made, org, d)}
  PROVE  Entities'
<1> DEFINE n == Stored(kind, db.made, org, d)
<1>1. /\ DOMAIN n = EntityFields /\ n.kind = kind /\ n.id = db.made /\ n.org = org
      /\ n.homes = d.homes /\ n.creation = d.creation /\ n.entity = d.entity /\ n.short = d.short
  BY DEF Stored, EntityFields, Fields
<1>2. db'.entities = db.entities \union {n}
  OBVIOUS
<1> HIDE DEF n
<1>3. Proper(n)
  BY <1>1 DEF Proper
<1>4. /\ db.made \in Nat /\ db.made >= 7 /\ db'.made \in Nat /\ db'.made >= 7
      /\ db.made \in Nat \ {0} /\ db.made < db'.made /\ db.made \notin {1, 3, 6}
      /\ \A k \in Nat : k < db.made => k < db'.made /\ k # db.made
  <2>1. db.made \in Nat /\ db.made >= 7
    BY DEF Entities
  <2>2. db'.made = db.made + 1
    OBVIOUS
  <2> DEFINE m == db.made
  <2>3. m \in Nat /\ m >= 7
    BY <2>1
  <2> HIDE DEF m
  <2>4. /\ m + 1 \in Nat /\ m + 1 >= 7 /\ m \in Nat \ {0} /\ m < m + 1 /\ m \notin {1, 3, 6}
        /\ \A k \in Nat : k < m => k < m + 1 /\ k # m
    BY <2>3, LaterRow
  <2>5. db'.made = m + 1
    BY <2>2 DEF m
  <2> QED BY <2>3, <2>4, <2>5 DEF m
<1>5. \A e \in db.entities : Proper(e) /\ e.id \in Nat \ {0} /\ e.id < db.made
  BY DEF Entities
<1>6. \A e \in db.entities : e.id # n.id /\ e.id # 0
  BY <1>1, <1>4, <1>5
<1>7. ASSUME NEW e \in db.entities
      PROVE  /\ e.homes \intersect n.homes = {}
             /\ e.kind = "collaboration" /\ n.kind = e.kind => e.org # n.org \/ e.short # n.short
  <2>1. e.kind # "organisation" \/ e.homes \intersect d.homes = {}
    BY <1>6, <1>7 DEF Clashes
  <2>2. e.kind # "organisation" => e.homes = {}
    BY <1>5, <1>7 DEF Proper
  <2>3. ~(kind = "collaboration" /\ e.kind = kind /\ e.org = org /\ e.short = d.short)
    BY <1>6, <1>7 DEF Clashes
  <2> QED BY <1>1, <2>1, <2>2, <2>3
<1>8. \A e \in db'.entities : /\ Proper(e) /\ e.id \in Nat \ {0} /\ e.id < db'.made
                              /\ e.id \in {1, 3, 6} => e.kind = KindOf(e.id)
  <2>1. ASSUME NEW e \in db.entities
        PROVE  /\ Proper(e) /\ e.id \in Nat \ {0} /\ e.id < db'.made
               /\ e.id \in {1, 3, 6} => e.kind = KindOf(e.id)
    <3>1. e.id < db'.made
      BY <1>4, <1>5, <2>1
    <3> QED BY <1>5, <2>1, <3>1 DEF Entities
  <2>2. n.id \in Nat \ {0} /\ n.id < db'.made /\ n.id \notin {1, 3, 6}
    BY <1>1, <1>4
  <2> QED BY <1>2, <1>3, <2>1, <2>2
<1>9. \A e, f \in db'.entities : e.id = f.id => e = f
  BY <1>2, <1>6 DEF Entities
<1>10. \A e, f \in db'.entities : e # f =>
         /\ e.homes \intersect f.homes = {}
         /\ e.kind = "collaboration" /\ f.kind = e.kind => e.org # f.org \/ e.short # f.short
  <2>1. \A e, f \in db.entities : e # f =>
          /\ e.homes \intersect f.homes = {}
          /\ e.kind = "collaboration" /\ f.kind = e.kind => e.org # f.org \/ e.short # f.short
    BY DEF Entities
  <2>2. ASSUME NEW e \in db'.entities, NEW f \in db'.entities, e # f
        PROVE  /\ e.homes \intersect f.homes = {}
               /\ e.kind = "collaboration" /\ f.kind = e.kind => e.org # f.org \/ e.short # f.short
    <3>1. CASE e \in db.entities /\ f \in db.entities
      BY <2>1, <2>2, <3>1
    <3>2. CASE f = n /\ e \in db.entities
      BY <1>7, <3>2
    <3>3. CASE e = n /\ f \in db.entities
      <4>1. f.homes \intersect n.homes = {}
        BY <1>7, <3>3
      <4>2. f.kind = "collaboration" /\ n.kind = f.kind => f.org # n.org \/ f.short # n.short
        BY <1>7, <3>3
      <4> QED BY <3>3, <4>1, <4>2
    <3> QED BY <1>2, <2>2, <3>1, <3>2, <3>3
  <2> QED BY <2>2
<1>11. DOMAIN db' = {"entities", "invited", "members", "requests", "made"} /\ db'.made \in Nat /\ db'.made >= 7
  BY <1>4 DEF Entities
<1> QED BY <1>8, <1>9, <1>10, <1>11 DEF Entities, Proper

LEMMA InvitesFacts ==
  ASSUME NEW c, NEW id, NEW mails
  PROVE  /\ \A i \in Invites(c, id, mails) : /\ i.by = c.by /\ i.who \in mails /\ i.of = id
                                             /\ i.ends = c.draft.ends /\ i.expires = c.draft.expires
         /\ \A i, j \in Invites(c, id, mails) : i.who = j.who => i = j
BY DEF Invites

LEMMA InvitedOnce ==
  ASSUME InOnce, NEW c \in net, c.by \in Users, \A i \in db.invited : i.by # c.by, NEW id, NEW mails,
         db'.invited = db.invited \union Invites(c, id, mails), db'.requests = db.requests
  PROVE  InOnce' /\ \A i \in db'.invited : i \in db.invited \/ i.by = c.by
<1>1. \A i, j \in db'.invited : i.by = j.by /\ i.who = j.who => i = j
  BY InvitesFacts DEF InOnce
<1>2. \A i \in db'.invited : i.by \in Users
  BY InvitesFacts DEF InOnce
<1> QED BY <1>1, <1>2, InvitesFacts DEF InOnce

-----------------------------------------------------------------------------
(* Invitations and members.                                                *)
LEMMA EntitiesKept ==
  ASSUME Entities, DOMAIN db' = DOMAIN db, db'.entities = db.entities, db'.made = db.made
  PROVE  Entities'
BY DEF Entities

LEMMA OwnKind ==
  ASSUME Shapes, NEW u \in Users
  PROVE  Kind(u) = "collaboration" <=> scene.form[u] = "collaboration"
BY DEF Kind, Inviting

LEMMA FinishCreateEffects ==
  ASSUME Inv, NEW c, FinishCreate(c)
  PROVE  Effects(c)
<1>1. c \in net /\ c.op = "create" /\ c.status = "stored" /\ scene' = scene /\ page' = page /\ excuse' = excuse
  BY DEF FinishCreate, Halfway
<1>2. c.by \in Users /\ Of1(c.by) /\ Simple(c.by, c.draft) /\ Shapes /\ Entities /\ Rows /\ InOnce
  BY <1>1 DEF Inv, Shapes, Of1, Plain
<1>3. c.op \in OnceOps
  BY <1>1 DEF OnceOps
<1>4. CASE Answers(c, Done(c, "failed")) /\ UNCHANGED db
  <2>1. Fails(c)
    BY <1>1, <1>4 DEF Fails
  <2>2. Served(c)
    BY <1>1, <2>1, FailsServed
  <2> QED BY <1>1, <1>2, <2>2, ServedEffects
<1>5. CASE /\ Ok(c)
           /\ db' = [db EXCEPT !.invited = @ \union Invites(c, c.row, InvitedByCreate(c)),
                !.members = IF c.draft.self THEN @ \union {[user |-> c.by, of |-> c.row]} ELSE @]
  <2> DEFINE mails == InvitedByCreate(c)
             new == Invites(c, c.row, mails)
             own == [user |-> c.by, of |-> c.row]
             members == IF c.draft.self THEN db.members \union {own} ELSE db.members
  <2>1. /\ DOMAIN db' = DOMAIN db /\ db'.entities = db.entities /\ db'.made = db.made
        /\ db'.requests = db.requests /\ db'.invited = db.invited \union new /\ db'.members = members
    <3>1. db' = [db EXCEPT !.invited = db.invited \union new, !.members = members]
      BY <1>5
    <3> HIDE DEF new, members
    <3> QED BY <1>2, <3>1, DbFacts
  <2>2. own.of = c.row
    OBVIOUS
  <2>3. c.draft.self => "own" \notin mails
    BY <1>2, OwnKind DEF InvitedByCreate, Simple
  <2>4. Answered(c.by, c, Done(c, "ok")) /\ \A d \in net' : StoredNow(d) => d \in net \ {c}
    BY <1>1, <1>3, <1>5, DoneAnswered DEF Ok
  <2>5. Entities'
    BY <1>2, <2>1, EntitiesKept
  <2>6. InOnce' /\ \A i \in db'.invited : i \in db.invited \/ i.by = c.by
    BY <1>1, <1>2, <1>3, <2>1, NotYetIn, InvitedOnce
  <2>7. StoredNow(c)
    BY <1>1 DEF StoredNow
  <2>8. /\ c.row \in Nat /\ 7 <= c.row /\ c.row < db.made
        /\ (\A i \in db.invited : i.of # c.row) /\ \A m \in db.members : m.of # c.row
        /\ \A d \in net : StoredNow(d) /\ c.row = d.row => c = d
    BY <1>1, <1>2, <2>7 DEF Rows
  <2>9. \A i \in new : /\ i.by = c.by /\ i.who \in mails /\ i.of = c.row
                       /\ i.ends = c.draft.ends /\ i.expires = c.draft.expires
    BY InvitesFacts
  <2>10. \A m \in db'.members : m \in db.members \/ (m.of = c.row /\ c.draft.self)
    BY <2>1, <2>2
  <2> HIDE DEF new, members, own, mails
  <2>11. \A i \in db'.invited : i.of \in Nat /\ i.of < db'.made /\ (i.ends # 0 => i.ends > i.expires)
    <3>1. c.draft.ends # 0 => c.draft.ends > c.draft.expires
      BY <1>2 DEF Simple
    <3>2. \A i \in new : i.of \in Nat /\ i.of < db'.made /\ (i.ends # 0 => i.ends > i.expires)
      BY <2>1, <2>8, <2>9, <3>1
    <3> QED BY <1>2, <2>1, <3>2 DEF Rows
  <2>12. \A m \in db'.members : m.of \in Nat /\ 7 <= m.of /\ m.of < db'.made
    BY <1>2, <2>1, <2>8, <2>10 DEF Rows
  <2>13. \A i \in db'.invited, m \in db'.members : i.of = m.of => i.who # "own"
    <3>1. \A i \in db.invited, m \in db.members : i.of = m.of => i.who # "own"
      BY <1>2 DEF Rows
    <3>2. \A i \in db'.invited : i \in db.invited \/ (i.of = c.row /\ i.who \in mails)
      BY <2>1, <2>9
    <3> QED BY <2>3, <2>8, <2>10, <3>1, <3>2
  <2>14. \A e \in net' : StoredNow(e) =>
           /\ e.row \in Nat /\ 7 <= e.row /\ e.row < db'.made
           /\ (\A i \in db'.invited : i.of # e.row) /\ \A m \in db'.members : m.of # e.row
    <3>1. ASSUME NEW e \in net', StoredNow(e)
          PROVE  /\ e.row \in Nat /\ 7 <= e.row /\ e.row < db'.made
                 /\ (\A i \in db'.invited : i.of # e.row) /\ \A m \in db'.members : m.of # e.row
      <4>1. e \in net /\ e # c
        BY <2>4, <3>1
      <4>2. e.row # c.row
        BY <2>8, <3>1, <4>1
      <4>3. /\ e.row \in Nat /\ 7 <= e.row /\ e.row < db.made
            /\ (\A i \in db.invited : i.of # e.row) /\ \A m \in db.members : m.of # e.row
        BY <1>2, <3>1, <4>1 DEF Rows
      <4> QED BY <2>1, <2>9, <2>10, <4>2, <4>3
    <3> QED BY <3>1
  <2>15. Rows'
    <3>1. \A d, e \in net' : StoredNow(d) /\ StoredNow(e) /\ d.row = e.row => d = e
      BY <1>2, <2>4 DEF Rows
    <3> QED BY <2>11, <2>12, <2>13, <2>14, <3>1 DEF Rows, StoredNow
  <2> QED BY <1>1, <2>1, <2>4, <2>5, <2>6, <2>15 DEF Effects
<1> QED BY <1>4, <1>5 DEF FinishCreate

(* Rows that are not those of a creation under way.                        *)
LEMMA RowsGrow ==
  ASSUME Rows, \A e \in net' : StoredNow(e) => e \in net, db'.made \in Nat, db.made \in Nat, db.made <= db'.made,
         \A i \in db'.invited : i \in db.invited \/ (/\ i.of \in 0 .. 6 /\ i.of < db'.made
                                                     /\ (i.ends # 0 => i.ends > i.expires)),
         \A m \in db'.members : m \in db.members \/ (m.of = db.made /\ 7 <= db.made /\ db.made < db'.made)
  PROVE  Rows'
<1>1. \A i \in db'.invited : i.of \in Nat /\ i.of < db'.made /\ (i.ends # 0 => i.ends > i.expires)
  <2>1. \A i \in db.invited : i.of \in Nat /\ i.of < db'.made /\ (i.ends # 0 => i.ends > i.expires)
    BY DEF Rows
  <2> QED BY <2>1
<1>2. \A m \in db'.members : m.of \in Nat /\ 7 <= m.of /\ m.of < db'.made
  <2>1. \A m \in db.members : m.of \in Nat /\ 7 <= m.of /\ m.of < db'.made
    BY DEF Rows
  <2> QED BY <2>1
<1>3. ASSUME NEW i \in db'.invited, NEW m \in db'.members, i.of = m.of
      PROVE  i.who # "own"
  <2>1. CASE i \in db.invited /\ m \in db.members
    BY <1>3, <2>1 DEF Rows
  <2>2. CASE i \in db.invited /\ m.of = db.made
    BY <1>3, <2>2 DEF Rows
  <2>3. CASE i \notin db.invited
    BY <1>2, <1>3, <2>3
  <2> QED BY <2>1, <2>2, <2>3
<1>4. ASSUME NEW e \in net', StoredNow(e)
      PROVE  /\ e.row \in Nat /\ 7 <= e.row /\ e.row < db'.made
             /\ (\A i \in db'.invited : i.of # e.row) /\ \A m \in db'.members : m.of # e.row
  <2>1. /\ e.row \in Nat /\ 7 <= e.row /\ e.row < db.made
        /\ (\A i \in db.invited : i.of # e.row) /\ \A m \in db.members : m.of # e.row
    BY <1>4 DEF Rows
  <2>2. e.row < db'.made
    BY <2>1
  <2>3. \A i \in db'.invited : i.of # e.row
    BY <2>1
  <2>4. \A m \in db'.members : m.of # e.row
    BY <2>1
  <2> QED BY <2>1, <2>2, <2>3, <2>4
<1>5. \A d, e \in net' : StoredNow(d) /\ StoredNow(e) /\ d.row = e.row => d = e
  BY DEF Rows
<1> QED BY <1>1, <1>2, <1>3, <1>4, <1>5 DEF Rows, StoredNow

LEMMA ServeRequestEffects ==
  ASSUME Inv, NEW c, ServeRequest(c)
  PROVE  Effects(c)
<1>1. c \in net /\ c.op = "request" /\ c.status = "sent" /\ scene' = scene /\ page' = page
  BY DEF ServeRequest, Serves
<1>2. c.by \in Users /\ Of1(c.by) /\ Simple(c.by, c.draft) /\ Shapes /\ Entities /\ Rows /\ InOnce
  BY <1>1 DEF Inv, Shapes, Of1, Plain
<1>3. c.op \in OnceOps
  BY <1>1 DEF OnceOps
<1>4. CASE Fails(c)
  BY <1>1, <1>2, <1>4, FailsServed, ServedEffects
<1>5. CASE /\ db' = [db EXCEPT !.made = @ + 1,
                !.members = @ \union {[user |-> c.by, of |-> db.made]},
                !.entities = @ \union {Stored("collaboration", db.made, c.draft.org, c.draft)}]
           /\ Tells(c) /\ Outdates(c) /\ ~Clashes("collaboration", 0, c.draft.org, c.draft)
  <2> DEFINE n == Stored("collaboration", db.made, c.draft.org, c.draft)
             own == [user |-> c.by, of |-> db.made]
  <2>1. /\ DOMAIN db' = DOMAIN db /\ db'.entities = db.entities \union {n} /\ db'.made = db.made + 1
        /\ db'.requests = db.requests /\ db'.invited = db.invited /\ db'.members = db.members \union {own}
    <3>1. db' = [db EXCEPT !.made = @ + 1, !.members = @ \union {own}, !.entities = @ \union {n}]
      BY <1>5
    <3> HIDE DEF n, own
    <3> QED BY <1>2, <3>1, DbFacts
  <2>2. own.of = db.made
    OBVIOUS
  <2> HIDE DEF own
  <2>3. PICK status \in {"ok", "failed"} :
          Answered(c.by, c, Done(c, status)) /\ \A d \in net' : StoredNow(d) => d \in net \ {c}
    BY <1>1, <1>3, <1>5, DoneAnswered, OutdatesFacts DEF Tells, Ok
  <2>4. scene.form[c.by] = "collaboration"
    BY <1>1, <1>2 DEF Of1, Typed
  <2>5. c.draft.homes = {} /\ c.draft.creation = FALSE /\ c.draft.entity = ""
    BY <1>2, <2>4 DEF Simple
  <2>6. Entities'
    BY <1>2, <1>5, <2>1, <2>5, EntityAdded
  <2>7. InOnce'
    BY <1>2, <2>1 DEF InOnce
  <2>8. db.made \in Nat /\ db.made >= 7 /\ db'.made \in Nat /\ db.made < db'.made /\ db.made <= db'.made
    BY <1>2, <2>1, DbFacts
  <2>9. \A m \in db'.members : m \in db.members \/ m.of = db.made
    BY <2>1, <2>2
  <2>10. Rows'
    BY <1>2, <2>1, <2>3, <2>8, <2>9, RowsGrow
  <2> QED BY <1>1, <1>5, <2>1, <2>3, <2>6, <2>7, <2>10 DEF Effects
<1>6. CASE /\ db' = [db EXCEPT !.requests = @ \union {[by |-> c.by, org |-> c.draft.org, n |-> Cardinality(db.requests)]}]
           /\ Tells(c) /\ UNCHANGED excuse
  <2> DEFINE r == [by |-> c.by, org |-> c.draft.org, n |-> Cardinality(db.requests)]
  <2>1. /\ DOMAIN db' = DOMAIN db /\ db'.entities = db.entities /\ db'.made = db.made
        /\ db'.requests = db.requests \union {r} /\ db'.invited = db.invited /\ db'.members = db.members
    <3>1. db' = [db EXCEPT !.requests = @ \union {r}]
      BY <1>6
    <3> HIDE DEF r
    <3> QED BY <1>2, <3>1, DbFacts
  <2>2. r.by = c.by
    OBVIOUS
  <2> HIDE DEF r
  <2>3. PICK status \in {"ok", "failed"} :
          Answered(c.by, c, Done(c, status)) /\ \A d \in net' : StoredNow(d) => d \in net \ {c}
    BY <1>1, <1>3, <1>6, DoneAnswered DEF Tells, Ok
  <2>4. Entities'
    BY <1>2, <2>1, EntitiesKept
  <2>5. \A q \in db.requests : q.by # c.by
    BY <1>1, <1>2, <1>3, NotYetIn
  <2>6. InOnce'
    BY <1>2, <2>1, <2>2, <2>5 DEF InOnce
  <2>7. Rows'
    BY <1>2, <2>1, <2>3 DEF Rows, StoredNow
  <2> QED BY <1>1, <1>6, <2>1, <2>2, <2>3, <2>4, <2>6, <2>7 DEF Effects
<1> QED BY <1>4, <1>5, <1>6 DEF ServeRequest

LEMMA ServeInviteEffects ==
  ASSUME Inv, NEW c, ServeInvite(c)
  PROVE  Effects(c)
<1>1. c \in net /\ c.op = "invite" /\ c.status = "sent" /\ scene' = scene /\ page' = page
  BY DEF ServeInvite, Serves
<1>2. /\ c.by \in Users /\ Of1(c.by) /\ Simple(c.by, c.draft) /\ Shapes /\ Entities /\ Rows /\ InOnce
      /\ c.got.id \in 0 .. 6
  BY <1>1 DEF Inv, Shapes, Of1, Plain, IsCall
<1>3. c.op \in OnceOps
  BY <1>1 DEF OnceOps
<1>4. CASE Fails(c)
  BY <1>1, <1>2, <1>4, FailsServed, ServedEffects
<1>5. ASSUME NEW mails, NEW status \in {"ok", "failed"}, Answers(c, Done(c, status)), excuse' = excuse,
             db' = [db EXCEPT !.invited = @ \union Invites(c, c.got.id, mails)]
      PROVE  Effects(c)
  <2> DEFINE new == Invites(c, c.got.id, mails)
  <2>1. /\ DOMAIN db' = DOMAIN db /\ db'.entities = db.entities /\ db'.made = db.made
        /\ db'.requests = db.requests /\ db'.invited = db.invited \union new /\ db'.members = db.members
    <3> HIDE DEF new
    <3> QED BY <1>2, <1>5, DbFacts DEF new
  <2>2. Answered(c.by, c, Done(c, status)) /\ \A d \in net' : StoredNow(d) => d \in net \ {c}
    BY <1>1, <1>3, <1>5, DoneAnswered
  <2>3. Entities'
    BY <1>2, <2>1, EntitiesKept
  <2>4. InOnce' /\ \A i \in db'.invited : i \in db.invited \/ i.by = c.by
    BY <1>1, <1>2, <1>3, <2>1, NotYetIn, InvitedOnce
  <2>5. \A i \in new : i.of = c.got.id /\ i.ends = c.draft.ends /\ i.expires = c.draft.expires
    BY InvitesFacts
  <2> HIDE DEF new
  <2>6. db.made \in Nat /\ 7 <= db.made
    BY <1>2, DbFacts
  <2>7. c.got.id < db'.made
    BY <1>2, <2>1, <2>6
  <2>8. c.draft.ends # 0 => c.draft.ends > c.draft.expires
    BY <1>2 DEF Simple
  <2>9. \A i \in db'.invited : i \in db.invited \/ (/\ i.of \in 0 .. 6 /\ i.of < db'.made
                                                    /\ (i.ends # 0 => i.ends > i.expires))
    BY <1>2, <2>1, <2>5, <2>7, <2>8
  <2>10. Rows'
    BY <1>2, <2>1, <2>2, <2>6, <2>9, RowsGrow
  <2> QED BY <1>1, <1>5, <2>1, <2>2, <2>3, <2>4, <2>10 DEF Effects
<1>6. CASE /\ db' = [db EXCEPT !.invited = @ \union Invites(c, c.got.id, c.draft.invited)]
           /\ Ok(c) /\ UNCHANGED excuse
  BY <1>5, <1>6 DEF Ok
<1>7. ASSUME NEW some, db' = [db EXCEPT !.invited = @ \union
                      Invites(c, c.got.id, IF scene.form[c.by] = "members" THEN some ELSE {})],
             Answers(c, Done(c, "failed")), UNCHANGED excuse
      PROVE  Effects(c)
  BY <1>5, <1>7
<1> QED BY <1>4, <1>6, <1>7 DEF ServeInvite

-----------------------------------------------------------------------------
(* Entities made, changed and removed.                                     *)
LEMMA CommitCreateEffects ==
  ASSUME Inv, NEW c, CommitCreate(c)
  PROVE  Effects(c)
<1>1. c \in net /\ c.op = "create" /\ c.status = "begun" /\ scene' = scene /\ page' = page /\ IsCall(c)
  BY DEF CommitCreate, Halfway, Inv, Shapes
<1>2. c.by \in Users /\ Of1(c.by) /\ Simple(c.by, c.draft) /\ Shapes /\ Entities /\ Rows /\ InOnce
  BY <1>1 DEF Inv, Shapes, Of1, Plain
<1>3. c.op \in OnceOps
  BY <1>1 DEF OnceOps
<1>4. CASE Fails(c)
  BY <1>1, <1>2, <1>4, FailsServed, ServedEffects
<1>5. CASE /\ ~Clashes(Kind(c.by), 0, c.draft.org, c.draft)
           /\ db' = [db EXCEPT !.made = @ + 1, !.entities = @ \union
                     {Stored(Kind(c.by), db.made, c.draft.org, c.draft)}]
           /\ Answers(c, [c EXCEPT !.status = "stored", !.row = db.made]) /\ Outdates(c)
  <2> DEFINE n == Stored(Kind(c.by), db.made, c.draft.org, c.draft)
             d == [c EXCEPT !.status = "stored", !.row = db.made]
  <2>1. /\ DOMAIN db' = DOMAIN db /\ db'.entities = db.entities \union {n} /\ db'.made = db.made + 1
        /\ db'.requests = db.requests /\ db'.invited = db.invited /\ db'.members = db.members
    <3>1. db' = [db EXCEPT !.made = @ + 1, !.entities = @ \union {n}]
      BY <1>5
    <3> HIDE DEF n
    <3> QED BY <1>2, <3>1, DbFacts
  <2>2. net' = (net \ {c}) \union {d}
    BY <1>5 DEF Answers
  <2>3. /\ DOMAIN d = CallFields /\ d.by = c.by /\ d.op = c.op /\ d.status = "stored" /\ d.draft = c.draft
        /\ d.wanted = c.wanted /\ d.got = c.got /\ d.row = db.made
    BY <1>1 DEF IsCall, CallFields
  <2> HIDE DEF d
  <2>4. IsCall(d) /\ SameDraft(c, d)
    BY <1>1, <2>3 DEF IsCall, SameDraft
  <2>5. \A f : <<c.by, f>> \in excuse' <=> <<c.by, f>> \in excuse
    BY <1>5, OutdatesFacts
  <2>6. Answered(c.by, c, d)
    BY <1>1, <1>3, <2>1, <2>2, <2>3, <2>4, <2>5 DEF Answered
  <2>7. scene.form[c.by] \notin Inviting
    BY <1>1, <1>2 DEF Of1, Typed
  <2>8. Kind(c.by) = scene.form[c.by] /\ scene.form[c.by] # "none"
    BY <1>2, <2>7, SceneFacts DEF Kind, Forms, Inviting
  <2>9. /\ Kind(c.by) # "none"
        /\ Kind(c.by) # "organisation" => c.draft.homes = {} /\ c.draft.creation = FALSE
        /\ Kind(c.by) # "service" => c.draft.entity = ""
    BY <1>2, <2>8 DEF Simple
  <2>10. Entities'
    BY <1>2, <1>5, <2>1, <2>9, EntityAdded
  <2>11. InOnce'
    BY <1>2, <2>1 DEF InOnce
  <2>12. db.made \in Nat /\ 7 <= db.made /\ db'.made \in Nat /\ db.made < db'.made /\ db.made <= db'.made
    BY <1>2, <2>1, DbFacts
  <2>13. /\ \A i \in db.invited : i.of \in Nat /\ i.of < db.made /\ i.of # db.made
         /\ \A m \in db.members : m.of \in Nat /\ m.of < db.made /\ m.of # db.made
         /\ \A e \in net : StoredNow(e) => e.row \in Nat /\ e.row < db.made /\ e.row # db.made
    BY <1>2, <2>12 DEF Rows
  <2>14. \A e \in net' : StoredNow(e) => e \in net \/ e = d
    BY <2>2
  <2>15. \A k \in Nat : k < db.made => k < db'.made
    BY <2>12
  <2>16. Rows'
    <3>1. /\ \A i \in db'.invited : i.of \in Nat /\ i.of < db'.made /\ (i.ends # 0 => i.ends > i.expires)
          /\ \A m \in db'.members : m.of \in Nat /\ 7 <= m.of /\ m.of < db'.made
          /\ \A i \in db'.invited, m \in db'.members : i.of = m.of => i.who # "own"
      BY <1>2, <2>1, <2>13, <2>15 DEF Rows
    <3>2. ASSUME NEW e \in net', StoredNow(e)
          PROVE  /\ e.row \in Nat /\ 7 <= e.row /\ e.row < db'.made
                 /\ (\A i \in db'.invited : i.of # e.row) /\ \A m \in db'.members : m.of # e.row
      <4>1. CASE e = d
        BY <2>1, <2>3, <2>12, <2>13, <4>1
      <4>2. CASE e \in net
        BY <1>2, <2>1, <2>13, <2>15, <3>2, <4>2 DEF Rows
      <4> QED BY <2>14, <3>2, <4>1, <4>2
    <3>3. ASSUME NEW e \in net', NEW g \in net', StoredNow(e), StoredNow(g), e.row = g.row
          PROVE  e = g
      <4>1. CASE e \in net /\ g \in net
        BY <1>2, <3>3, <4>1 DEF Rows
      <4>2. CASE e = d /\ g \in net
        BY <2>3, <2>13, <3>3, <4>2
      <4>3. CASE g = d /\ e \in net
        BY <2>3, <2>13, <3>3, <4>3
      <4> QED BY <2>14, <3>3, <4>1, <4>2, <4>3
    <3> QED BY <3>1, <3>2, <3>3 DEF Rows, StoredNow
  <2> QED BY <1>5, <2>1, <2>6, <2>10, <2>11, <2>16 DEF Effects
<1> QED BY <1>4, <1>5 DEF CommitCreate

LEMMA WrittenFacts ==
  ASSUME NEW e, DOMAIN e = EntityFields, NEW c
  PROVE  /\ DOMAIN Written(e, c) = EntityFields
         /\ Written(e, c).kind = e.kind /\ Written(e, c).id = e.id /\ Written(e, c).org = e.org
         /\ Written(e, c).entity = e.entity
         /\ \A f \in Fields \ {"homes", "entity"} :
              Written(e, c)[f] = IF c.draft[f] = c.got[f] THEN e[f] ELSE c.draft[f]
         /\ Written(e, c).homes = (e.homes \ (c.got.homes \ c.draft.homes)) \union c.draft.homes
BY DEF Written, EntityFields, Fields

LEMMA EntityReplaced ==
  ASSUME Entities, NEW e \in db.entities, NEW f, Proper(f), f.kind = e.kind, f.id = e.id, f.org = e.org,
         ~Clashes(e.kind, e.id, e.org, f), DOMAIN db' = DOMAIN db, db'.made = db.made,
         db'.entities = (db.entities \ {e}) \union {f}
  PROVE  Entities'
<1>1. ASSUME NEW g \in db.entities, g # e
      PROVE  /\ g.id # f.id /\ g.homes \intersect f.homes = {}
             /\ g.kind = "collaboration" /\ f.kind = g.kind => g.org # f.org \/ g.short # f.short
  <2>1. g.id # e.id /\ Proper(g)
    BY <1>1 DEF Entities
  <2>2. g.kind # "organisation" \/ g.homes \intersect f.homes = {}
    BY <2>1 DEF Clashes
  <2>3. g.kind # "organisation" => g.homes = {}
    BY <2>1 DEF Proper
  <2>4. g.kind = "collaboration" /\ f.kind = g.kind => g.org # f.org \/ g.short # f.short
    BY <2>1 DEF Clashes
  <2> QED BY <2>1, <2>2, <2>3, <2>4
<1>2. \A g \in db'.entities : /\ Proper(g) /\ g.id \in Nat \ {0} /\ g.id < db'.made
                              /\ g.id \in {1, 3, 6} => g.kind = KindOf(g.id)
  BY DEF Entities
<1>3. \A g, h \in db'.entities : g.id = h.id => g = h
  BY <1>1 DEF Entities
<1>4. \A g, h \in db'.entities : g # h =>
         /\ g.homes \intersect h.homes = {}
         /\ g.kind = "collaboration" /\ h.kind = g.kind => g.org # h.org \/ g.short # h.short
  <2>1. \A g, h \in db.entities : g # h =>
          /\ g.homes \intersect h.homes = {}
          /\ g.kind = "collaboration" /\ h.kind = g.kind => g.org # h.org \/ g.short # h.short
    BY DEF Entities
  <2>2. ASSUME NEW g \in db'.entities, NEW h \in db'.entities, g # h
        PROVE  /\ g.homes \intersect h.homes = {}
               /\ g.kind = "collaboration" /\ h.kind = g.kind => g.org # h.org \/ g.short # h.short
    <3>1. CASE g \in db.entities \ {e} /\ h \in db.entities \ {e}
      BY <2>1, <2>2, <3>1
    <3>2. CASE h = f /\ g \in db.entities \ {e}
      BY <1>1, <3>2
    <3>3. CASE g = f /\ h \in db.entities \ {e}
      <4>1. h.homes \intersect f.homes = {}
        BY <1>1, <3>3
      <4>2. h.kind = "collaboration" /\ f.kind = h.kind => h.org # f.org \/ h.short # f.short
        BY <1>1, <3>3
      <4> QED BY <3>3, <4>1, <4>2
    <3> QED BY <2>2, <3>1, <3>2, <3>3
  <2> QED BY <2>2
<1>5. DOMAIN db' = {"entities", "invited", "members", "requests", "made"} /\ db'.made \in Nat /\ db'.made >= 7
  BY DEF Entities
<1> QED BY <1>2, <1>3, <1>4, <1>5 DEF Entities, Proper

(* Who edits has read the entity that is written.                          *)
LEMMA WrittenIsProper ==
  ASSUME Inv, NEW c \in net, c.op = "update", c.status = "begun", Exists(c.got.id)
  PROVE  Find(c.got.id) \in db.entities /\ Proper(Written(Find(c.got.id), c))
<1> DEFINE e == Find(c.got.id)
           f == Written(e, c)
<1>1. c.by \in Users /\ Of1(c.by) /\ Simple(c.by, c.draft) /\ Shapes /\ Entities
  BY DEF Inv, Shapes, Of1, Plain
<1>2. Edits(c.by) /\ c.got.id = Target(c.by)
  BY <1>1 DEF Of1, Early
<1>3. e \in db.entities /\ e.id = c.got.id /\ Proper(e)
  BY <1>1, FindFacts
<1>4. e.kind = scene.form[c.by]
  BY <1>1, <1>2, <1>3, TargetFacts DEF Entities
<1>5. /\ DOMAIN f = EntityFields /\ f.kind = e.kind /\ f.entity = e.entity
      /\ f.creation = IF c.draft.creation = c.got.creation THEN e.creation ELSE c.draft.creation
      /\ f.homes = (e.homes \ (c.got.homes \ c.draft.homes)) \union c.draft.homes
  <2>1. DOMAIN e = EntityFields
    BY <1>3 DEF Proper
  <2> HIDE DEF e
  <2>2. /\ DOMAIN f = EntityFields /\ f.kind = e.kind /\ f.entity = e.entity
        /\ f.homes = (e.homes \ (c.got.homes \ c.draft.homes)) \union c.draft.homes
    BY <2>1, WrittenFacts
  <2>3. f.creation = IF c.draft.creation = c.got.creation THEN e.creation ELSE c.draft.creation
    BY <2>1 DEF Written, EntityFields, Fields
  <2> QED BY <2>2, <2>3
<1> HIDE DEF e, f
<1>6. e.kind # "organisation" => f.homes = {} /\ f.creation = FALSE
  BY <1>1, <1>3, <1>4, <1>5 DEF Proper, Simple
<1>7. Proper(f)
  BY <1>3, <1>5, <1>6 DEF Proper
<1> QED BY <1>3, <1>7 DEF e, f

LEMMA CommitUpdateEffects ==
  ASSUME Inv, NEW c, CommitUpdate(c)
  PROVE  Effects(c)
<1>1. c \in net /\ c.op = "update" /\ c.status = "begun" /\ scene' = scene /\ page' = page
  BY DEF CommitUpdate, Halfway
<1>2. c.by \in Users /\ Of1(c.by) /\ Shapes /\ Entities /\ Rows /\ InOnce
  BY <1>1 DEF Inv, Shapes
<1>3. c.op \in OnceOps
  BY <1>1 DEF OnceOps
<1>4. CASE Fails(c)
  BY <1>1, <1>2, <1>4, FailsServed, ServedEffects
<1> DEFINE e == Find(c.got.id)
           f == Written(e, c)
<1>5. CASE /\ Exists(c.got.id) /\ ~Clashes(e.kind, e.id, e.org, f)
           /\ db' = [db EXCEPT !.entities = (@ \ {e}) \union {f}] /\ Ok(c) /\ Outdates(c)
  <2>1. e \in db.entities /\ Proper(f)
    BY <1>1, <1>5, WrittenIsProper
  <2>2. f.kind = e.kind /\ f.id = e.id /\ f.org = e.org
    <3>1. DOMAIN e = EntityFields
      BY <1>2, <2>1 DEF Entities, Proper
    <3> HIDE DEF e
    <3> QED BY <3>1, WrittenFacts
  <2> HIDE DEF e, f
  <2>3. /\ DOMAIN db' = DOMAIN db /\ db'.entities = (db.entities \ {e}) \union {f} /\ db'.made = db.made
        /\ db'.requests = db.requests /\ db'.invited = db.invited /\ db'.members = db.members
    BY <1>2, <1>5, DbFacts
  <2>4. Answered(c.by, c, Done(c, "ok")) /\ \A d \in net' : StoredNow(d) => d \in net \ {c}
    BY <1>1, <1>3, <1>5, DoneAnswered, OutdatesFacts DEF Ok
  <2>5. Entities'
    BY <1>2, <1>5, <2>1, <2>2, <2>3, EntityReplaced
  <2>6. InOnce' /\ Rows'
    BY <1>2, <2>3, <2>4 DEF InOnce, Rows, StoredNow
  <2> QED BY <1>5, <2>3, <2>4, <2>5, <2>6 DEF Effects
<1> QED BY <1>4, <1>5 DEF CommitUpdate

LEMMA ServeDeleteEffects ==
  ASSUME Inv, NEW c, ServeDelete(c)
  PROVE  Effects(c)
<1>1. c \in net /\ c.op = "delete" /\ c.status = "sent" /\ scene' = scene /\ page' = page
  BY DEF ServeDelete, Serves
<1>2. c.by \in Users /\ Of1(c.by) /\ Shapes /\ Entities /\ Rows /\ InOnce
  BY <1>1 DEF Inv, Shapes
<1>3. CASE Fails(c)
  BY <1>1, <1>2, <1>3, FailsServed, ServedEffects
<1>4. CASE /\ db' = [db EXCEPT !.entities = {e \in @ : e.id # c.got.id /\ e.org # c.got.id},
                               !.invited = {i \in @ : i.of # c.got.id}]
           /\ Ok(c) /\ Outdates(c)
  <2> DEFINE left == {e \in db.entities : e.id # c.got.id /\ e.org # c.got.id}
             invited == {i \in db.invited : i.of # c.got.id}
  <2>1. left \subseteq db.entities /\ invited \subseteq db.invited
    OBVIOUS
  <2>2. db' = [db EXCEPT !.entities = left, !.invited = invited]
    BY <1>4
  <2> HIDE DEF left, invited
  <2>3. /\ DOMAIN db' = DOMAIN db /\ db'.entities = left /\ db'.made = db.made
        /\ db'.requests = db.requests /\ db'.invited = invited /\ db'.members = db.members
    BY <1>2, <2>2, DbFacts
  <2>4. Answered(c.by, c, Done(c, "ok")) /\ \A d \in net' : StoredNow(d) => d \in net \ {c}
    BY <1>1, <1>4, <2>1, <2>3, DoneAnswered, OutdatesFacts DEF Ok
  <2>5. Entities'
    BY <1>2, <2>1, <2>3 DEF Entities, Proper
  <2>6. InOnce' /\ Rows'
    BY <1>2, <2>1, <2>3, <2>4 DEF InOnce, Rows, StoredNow
  <2> QED BY <1>4, <2>1, <2>3, <2>4, <2>5, <2>6 DEF Effects
<1> QED BY <1>3, <1>4 DEF ServeDelete

LEMMA ServerKeeps ==
  ASSUME Inv, NEW c \in net, Server(c)
  PROVE  Inv'
<1>1. Shapes /\ Entities /\ Rows /\ InOnce /\ Of1(c.by)
  BY DEF Inv, Shapes
<1>2. CASE Reading(c) \/ Checking(c) \/ Beginning(c)
  <2>1. Served(c)
    BY <1>1, <1>2, ReadingServed, CheckingServed, BeginningServed
  <2> QED BY <1>1, <2>1, ServedEffects, EffectsKeep
<1>3. CASE FinishCreate(c) \/ ServeRequest(c) \/ ServeInvite(c) \/ CommitCreate(c) \/ CommitUpdate(c) \/ ServeDelete(c)
  BY <1>3, FinishCreateEffects, ServeRequestEffects, ServeInviteEffects, CommitCreateEffects,
     CommitUpdateEffects, ServeDeleteEffects, EffectsKeep
<1> QED BY <1>2, <1>3 DEF Server, Reading, Checking, Beginning

-----------------------------------------------------------------------------
(* A step at the form of one user.                                         *)
AtForm(u, q) ==
  /\ page' = [page EXCEPT ![u] = q] \/ (page' = page /\ q = page[u])
  /\ IsPage(q) /\ scene' = scene /\ db' = db
  /\ \A d \in net' : d \in net \/ (d.by = u /\ IsCall(d) /\ ~StoredNow(d))
  /\ \A d \in net : d.by = u \/ d \in net'
  /\ \A v \in Users \ {u} : \A f : (<<v, f>> \in excuse' <=> <<v, f>> \in excuse)

LEMMA AtFormKeeps ==
  ASSUME Inv, NEW u \in Users, NEW q, AtForm(u, q), Of1(u)'
  PROVE  Inv'
<1>1. /\ page'[u] = q /\ DOMAIN page' = Users /\ \A v \in Users : v # u => page'[v] = page[v]
  BY PageTurned DEF Inv, Shapes, AtForm
<1>2. scene' = scene /\ db' = db /\ IsPage(q)
  BY DEF AtForm
<1>3. Shapes'
  <2>1. \A v \in Users : IsPage(page'[v])
    BY <1>1, <1>2 DEF Inv, Shapes
  <2>2. \A d \in net' : d.by \in Users /\ IsCall(d)
    BY DEF AtForm, Inv, Shapes
  <2> QED BY <1>1, <1>2, <2>1, <2>2 DEF Inv, Shapes
<1>4. Entities' /\ InOnce'
  BY <1>2 DEF Inv, Entities, InOnce
<1>5. Rows'
  <2>1. \A d \in net' : StoredNow(d) => d \in net
    BY DEF AtForm
  <2> QED BY <1>2, <2>1 DEF Inv, Rows, StoredNow
<1>6. ASSUME NEW v \in Users, v # u
      PROVE  Of1(v)'
  <2>1. SamePage(v)
    BY <1>1, <1>2, <1>6 DEF SamePage, AtForm
  <2>2. Unmoved(v)
    BY <1>2, <1>6 DEF Unmoved, AtForm
  <2> QED BY <2>1, <2>2, BystanderKeeps DEF Inv
<1> QED BY <1>3, <1>4, <1>5, <1>6 DEF Inv

-----------------------------------------------------------------------------
(* The answers by which a form opens.                                      *)
LEMMA UnsentFacts ==
  ASSUME NEW u \in Users, Of1(u), page[u].at = "loading"
  PROVE  /\ page[u].draft = Fresh /\ page[u].wanted = Of(Fresh) /\ page[u].loaded = Nothing
         /\ page[u].exists = {} /\ page[u].marks = {} /\ ~page[u].busy
<1> DEFINE p == [Empty(u) EXCEPT !.at = "loading"]
<1>1. page[u] = p
  BY Unsent
<1>2. /\ IsPage(p) /\ p.at = "loading" /\ p.draft = Fresh /\ p.wanted = Of(Fresh) /\ p.loaded = Nothing
      /\ p.exists = {} /\ p.marks = {} /\ ~p.busy
  BY EmptyAt
<1> HIDE DEF p
<1> QED BY <1>1, <1>2

LEMMA ArrivalFacts ==
  ASSUME Inv, NEW c \in net, c.op \in Arrivals
  PROVE  /\ c.by \in Users /\ Of1(c.by) /\ IsPage(page[c.by]) /\ page[c.by].at = "loading"
         /\ page[c.by].draft = Fresh /\ page[c.by].wanted = Of(Fresh) /\ page[c.by].loaded = Nothing
         /\ page[c.by].exists = {} /\ page[c.by].marks = {}
         /\ \A d \in net : d.by = c.by => d = c
<1>1. c.by \in Users /\ Of1(c.by) /\ IsPage(page[c.by])
  BY DEF Inv, Shapes
<1>2. page[c.by].at = "loading" /\ \A d \in net : d.by = c.by => d = c
  BY <1>1 DEF Of1, Early
<1> QED BY <1>1, <1>2, UnsentFacts

LEMMA ArrivedKeeps ==
  ASSUME Inv, NEW c \in net, c.op \in Arrivals, NEW q, page' = [page EXCEPT ![c.by] = q], net' = net \ {c},
         scene' = scene, db' = db, excuse' = excuse, Shown(c.by, q)
  PROVE  Inv'
<1>1. c.by \in Users /\ Of1(c.by) /\ page[c.by].at = "loading" /\ \A d \in net : d.by = c.by => d = c
  BY ArrivalFacts
<1>2. Silent(c.by)'
  BY <1>1, StillSilent
<1>3. Entities'
  BY DEF Inv, Entities
<1>4. page'[c.by] = q
  BY <1>1, PageTurned DEF Inv
<1>5. Of1(c.by)'
  BY <1>1, <1>2, <1>3, <1>4, ShownArrives
<1>6. AtForm(c.by, q)
  BY DEF AtForm, Shown
<1> QED BY <1>1, <1>5, <1>6, AtFormKeeps

LEMMA OfFacts ==
  ASSUME NEW e
  PROVE  DOMAIN Of(e) = Fields /\ \A f \in Fields : Of(e)[f] = e[f]
BY DEF Of

(* Nobody else has the homes of what has been read.                        *)
LEMMA ReadFacts ==
  ASSUME Inv, NEW c \in net, c.op = "read", c.status = "ok"
  PROVE  /\ Proper(c.got) /\ c.got.id = Target(c.by) /\ c.got.id \in 0 .. 6
         /\ Edits(c.by) => c.got.kind = scene.form[c.by]
         /\ Edits(c.by) \/ scene.form[c.by] \in Inviting
         /\ <<c.by, "marks">> \in excuse \/ \A h \in c.got.homes : ~HomeTaken(h, c.got.id)
<1>1. c.by \in Users /\ Of1(c.by) /\ Entities /\ IsCall(c)
  BY DEF Inv, Shapes
<1>2. /\ Proper(c.got) /\ c.got.id = Target(c.by) /\ (Edits(c.by) => c.got.kind = scene.form[c.by])
      /\ Edits(c.by) \/ scene.form[c.by] \in Inviting
      /\ <<c.by, "marks">> \in excuse \/ c.got \in db.entities
  BY <1>1 DEF Of1, Early, Arrivals
<1>3. c.got \in db.entities => \A h \in c.got.homes : ~HomeTaken(h, c.got.id)
  BY <1>1 DEF Entities, HomeTaken
<1> QED BY <1>1, <1>2, <1>3 DEF IsCall

LEMMA CollaborationShown ==
  ASSUME NEW u, scene.form[u] = "collaboration", Edits(u), NEW p, IsPage(p), p.exists = {}, p.marks = {},
         NEW e, Proper(e), e.id = Target(u), e.id \in 0 .. 6, e.kind = "collaboration"
  PROVE  Shown(u, LoadedCollaboration(p, e))
<1> DEFINE d == [Fresh EXCEPT !.id = e.id, !.org = e.org, !.logo = "url", !.name = e.name,
                              !.short = e.short, !.uri = e.uri, !.text = e.text]
           w == Of(e)
           q == [p EXCEPT !.at = "open", !.loaded = e, !.wanted = w, !.orgs = {e.org}, !.draft = d]
<1>1. /\ DOMAIN d = DraftFields /\ d.name = e.name /\ d.short = e.short /\ d.uri = e.uri /\ d.text = e.text
      /\ d.org = e.org /\ d.entity = Fresh.entity /\ d.creation = Fresh.creation /\ d.homes = Fresh.homes
      /\ d.self = Fresh.self /\ d.expires = Fresh.expires /\ d.ends = Fresh.ends
  BY FreshFacts DEF DraftFields
<1>2. DOMAIN w = Fields /\ \A f \in Fields : w[f] = e[f]
  BY OfFacts
<1>3. LoadedCollaboration(p, e) = q
  BY DEF LoadedCollaboration
<1> HIDE DEF d, w
<1>4. /\ DOMAIN q = PageFields /\ q.at = "open" /\ q.loaded = e /\ q.wanted = w /\ q.draft = d
      /\ q.exists = p.exists /\ q.marks = p.marks
  BY DEF IsPage, PageFields
<1> HIDE DEF q
<1>5. IsPage(q)
  BY <1>1, <1>2, <1>4 DEF IsPage, Proper
<1>6. e.homes = {} /\ e.creation = FALSE /\ e.entity = ""
  BY DEF Proper
<1>7. d.homes = {} /\ d.creation = FALSE /\ d.entity = "" /\ ~d.self
  BY <1>1, FreshFacts
<1>8. \A f \in Fields \ {"homes", "joins"} : d[f] = w[f]
  <2>1. \A f \in {"name", "short", "uri", "text"} : d[f] = w[f]
    BY <1>1, <1>2 DEF Fields
  <2>2. d.entity = w.entity /\ d.creation = w.creation
    BY <1>2, <1>6, <1>7 DEF Fields
  <2> QED BY <2>1, <2>2 DEF Fields
<1>9. Agree(u, d, w)
  BY <1>8 DEF Agree
<1>10. Simple(u, d)
  BY <1>1, <1>7, FreshFacts DEF Simple
<1>11. \A f \in NamesOf(scene.form[u]) : q.draft[f] = q.loaded[f]
  BY <1>1, <1>4 DEF NamesOf
<1>12. w.homes = {}
  BY <1>2, <1>6 DEF Fields
<1> QED BY <1>3, <1>4, <1>5, <1>7, <1>9, <1>10, <1>11, <1>12 DEF Shown

LEMMA HearCollaborationKeeps ==
  ASSUME Inv, NEW c \in net, HearCollaboration(c)
  PROVE  Inv'
<1> DEFINE q == LoadedCollaboration(page[c.by], c.got)
<1>1. /\ c.op = "read" /\ c.status = "ok" /\ scene.form[c.by] = "collaboration"
      /\ page' = [page EXCEPT ![c.by] = q] /\ net' = (net \ {c}) \union {} /\ UNCHANGED <<scene, db, excuse>>
  BY DEF HearCollaboration, Hears
<1>2. /\ Proper(c.got) /\ c.got.id = Target(c.by) /\ c.got.id \in 0 .. 6
      /\ Edits(c.by) /\ c.got.kind = "collaboration"
  BY <1>1, ReadFacts DEF Inviting
<1>3. IsPage(page[c.by]) /\ page[c.by].exists = {} /\ page[c.by].marks = {}
  BY <1>1, ArrivalFacts DEF Arrivals
<1>4. Shown(c.by, q)
  BY <1>1, <1>2, <1>3, CollaborationShown
<1> HIDE DEF q
<1> QED BY <1>1, <1>4, ArrivedKeeps DEF Arrivals

LEMMA OrganisationShown ==
  ASSUME NEW u, scene.form[u] = "organisation", Edits(u), NEW p, IsPage(p), p.exists = {}, p.marks = {},
         NEW e, Proper(e), e.id = Target(u), e.id \in 0 .. 6, e.kind = "organisation",
         <<u, "marks">> \in excuse \/ \A h \in e.homes : ~HomeTaken(h, e.id)
  PROVE  Shown(u, LoadedOrganisation(p, e))
<1> DEFINE d == [Fresh EXCEPT !.id = e.id, !.logo = "url", !.name = e.name, !.short = e.short,
                              !.uri = e.uri, !.text = e.text, !.homes = e.homes,
                              !.creation = e.creation]
           w == Of(e)
           q == [p EXCEPT !.at = "open", !.loaded = e, !.wanted = w, !.draft = d]
<1>1. /\ DOMAIN d = DraftFields /\ d.name = e.name /\ d.short = e.short /\ d.uri = e.uri /\ d.text = e.text
      /\ d.homes = e.homes /\ d.entity = Fresh.entity /\ d.creation = e.creation
      /\ d.self = Fresh.self /\ d.expires = Fresh.expires /\ d.ends = Fresh.ends
  BY FreshFacts DEF DraftFields
<1>2. DOMAIN w = Fields /\ \A f \in Fields : w[f] = e[f]
  BY OfFacts
<1>3. LoadedOrganisation(p, e) = q
  BY DEF LoadedOrganisation
<1> HIDE DEF d, w
<1>4. /\ DOMAIN q = PageFields /\ q.at = "open" /\ q.loaded = e /\ q.wanted = w /\ q.draft = d
      /\ q.exists = p.exists /\ q.marks = p.marks
  BY DEF IsPage, PageFields
<1> HIDE DEF q
<1>5. IsPage(q)
  BY <1>1, <1>2, <1>4 DEF IsPage, Proper
<1>6. e.entity = "" /\ d.entity = "" /\ ~d.self
  BY <1>1, FreshFacts DEF Proper
<1>7. \A f \in Fields \ {"homes", "joins"} : d[f] = w[f]
  BY ZenonT(30), <1>1, <1>2, <1>6 DEF Fields
<1>8. Agree(u, d, w)
  BY <1>7 DEF Agree
<1>9. Simple(u, d)
  BY <1>1, <1>6, FreshFacts DEF Simple
<1>10. \A f \in NamesOf(scene.form[u]) : q.draft[f] = q.loaded[f]
  BY <1>1, <1>4 DEF NamesOf
<1>11. w.homes = d.homes
  BY <1>1, <1>2 DEF Fields
<1> QED BY <1>1, <1>3, <1>4, <1>5, <1>8, <1>9, <1>10, <1>11 DEF Shown

LEMMA HearOrganisationKeeps ==
  ASSUME Inv, NEW c \in net, HearOrganisation(c)
  PROVE  Inv'
<1> DEFINE q == LoadedOrganisation(page[c.by], c.got)
<1>1. /\ c.op = "read" /\ c.status = "ok" /\ scene.form[c.by] = "organisation"
      /\ page' = [page EXCEPT ![c.by] = q] /\ net' = (net \ {c}) \union {} /\ UNCHANGED <<scene, db, excuse>>
  BY DEF HearOrganisation, Hears
<1>2. /\ Proper(c.got) /\ c.got.id = Target(c.by) /\ c.got.id \in 0 .. 6
      /\ Edits(c.by) /\ c.got.kind = "organisation"
      /\ <<c.by, "marks">> \in excuse \/ \A h \in c.got.homes : ~HomeTaken(h, c.got.id)
  BY <1>1, ReadFacts DEF Inviting
<1>3. IsPage(page[c.by]) /\ page[c.by].exists = {} /\ page[c.by].marks = {}
  BY <1>1, ArrivalFacts DEF Arrivals
<1>4. Shown(c.by, q)
  BY <1>1, <1>2, <1>3, OrganisationShown
<1> HIDE DEF q
<1> QED BY <1>1, <1>4, ArrivedKeeps DEF Arrivals

LEMMA InvitationShown ==
  ASSUME Entities, NEW u, scene.form[u] \in Inviting, NEW p, IsPage(p), p.draft = Fresh, p.wanted = Of(Fresh),
         p.exists = {}, p.marks = {}, NEW e, DOMAIN e = EntityFields, e.id \in 0 .. 6
  PROVE  Shown(u, Invitation(p, e))
<1> DEFINE q == [p EXCEPT !.at = "open", !.loaded = e]
<1>1. Invitation(p, e) = q
  BY DEF Invitation
<1>2. /\ DOMAIN q = PageFields /\ q.at = "open" /\ q.loaded = e /\ q.wanted = p.wanted /\ q.draft = p.draft
      /\ q.exists = p.exists /\ q.marks = p.marks
  BY DEF IsPage, PageFields
<1> HIDE DEF q
<1>3. IsPage(q)
  BY <1>2 DEF IsPage
<1>4. ~Edits(u) /\ Kind(u) = "none"
  BY DEF Edits, Kind, Inviting
<1>5. Fresh.homes = {} /\ Of(Fresh).homes = {}
  BY FreshFacts, NamesOfFresh
<1>6. \A f : ~Taken(Kind(u), q.draft.org, f, q.draft[f], q.loaded[f])
  BY <1>4, NoneTaken
<1> QED BY <1>1, <1>2, <1>3, <1>4, <1>5, <1>6, FreshIsPlain DEF Shown

LEMMA HearInvitationKeeps ==
  ASSUME Inv, NEW c \in net, HearInvitation(c)
  PROVE  Inv'
<1> DEFINE q == Invitation(page[c.by], c.got)
<1>1. /\ c.op = "read" /\ c.status = "ok" /\ scene.form[c.by] \in Inviting
      /\ page' = [page EXCEPT ![c.by] = q] /\ net' = (net \ {c}) \union {} /\ UNCHANGED <<scene, db, excuse>>
  BY DEF HearInvitation, Hears
<1>2. DOMAIN c.got = EntityFields /\ c.got.id \in 0 .. 6 /\ Entities
  BY DEF Inv, Shapes, IsCall
<1>3. /\ IsPage(page[c.by]) /\ page[c.by].draft = Fresh /\ page[c.by].wanted = Of(Fresh)
      /\ page[c.by].exists = {} /\ page[c.by].marks = {}
  BY <1>1, ArrivalFacts DEF Arrivals
<1>4. Shown(c.by, q)
  BY <1>1, <1>2, <1>3, InvitationShown
<1> HIDE DEF q
<1> QED BY <1>1, <1>4, ArrivedKeeps DEF Arrivals

(* A form for something new.                                               *)
LEMMA NewShown ==
  ASSUME NEW u, NEW p, IsPage(p), p.draft = Fresh, p.wanted = Of(Fresh), p.loaded = Nothing, p.exists = {},
         p.marks = {}, ~Edits(u), NEW q, DOMAIN q = PageFields, DOMAIN q.draft = DraftFields,
         q.at \in {"open", "left", "none"}, q.wanted = p.wanted, q.loaded = p.loaded, q.exists = p.exists,
         q.marks = p.marks, \A f \in DraftFields \ {"org", "self"} : q.draft[f] = p.draft[f],
         q.draft.self => scene.form[u] = "collaboration"
  PROVE  Shown(u, q)
<1>1. IsPage(q)
  BY DEF IsPage
<1>2. \A f \in Fields : q.draft[f] = Fresh[f]
  BY DEF Fields, DraftFields
<1>3. q.draft.expires = Fresh.expires /\ q.draft.ends = Fresh.ends
  BY DEF DraftFields
<1>4. q.draft.homes = Fresh.homes /\ q.draft.creation = Fresh.creation /\ q.draft.entity = Fresh.entity
  BY <1>2 DEF Fields
<1>5. Simple(u, q.draft)
  BY <1>3, <1>4, FreshFacts DEF Simple
<1>6. \A f \in Fields : q.draft[f] = q.wanted[f]
  <2>1. q.wanted = Of(Fresh)
    OBVIOUS
  <2> QED BY <1>2, <2>1, FreshFacts
<1>7. Agree(u, q.draft, q.wanted)
  BY <1>6 DEF Agree
<1>8. q.draft.homes = {} /\ q.wanted.homes = {}
  BY <1>4, FreshFacts, NamesOfFresh
<1>9. \A f \in NamesOf(scene.form[u]) : q.draft[f] = q.loaded[f]
  <2>1. q.loaded = Nothing
    OBVIOUS
  <2>2. \A f \in AllNames : q.draft[f] = Nothing[f]
    BY <1>2, NamesOfFresh
  <2> QED BY <2>1, <2>2, NamesOfFresh
<1> QED BY <1>1, <1>5, <1>7, <1>8, <1>9 DEF Shown

LEMMA ArrivalNew ==
  ASSUME Inv, NEW c \in net, c.op \in Arrivals, c.op # "read"
  PROVE  ~Edits(c.by) /\ (c.op \in {"mine", "byHome"} => scene.form[c.by] = "collaboration")
<1>1. c.by \in Users /\ Of1(c.by)
  BY ArrivalFacts
<1> QED BY <1>1 DEF Of1, Early

LEMMA HearNewKeeps ==
  ASSUME Inv, NEW c \in net, c.op \in {"mine", "byHome", "health"}, NEW q, page' = [page EXCEPT ![c.by] = q],
         net' = (net \ {c}) \union {}, UNCHANGED <<scene, db, excuse>>,
         NEW orgs, NEW o, NEW request,
         \/ q = OfOrganisations(page[c.by], orgs, o, request) /\ c.op # "health"
         \/ q = [page[c.by] EXCEPT !.at = "none"] \/ q = [page[c.by] EXCEPT !.at = "open"]
  PROVE  Inv'
<1> DEFINE p == page[c.by]
<1>1. /\ IsPage(p) /\ p.draft = Fresh /\ p.wanted = Of(Fresh) /\ p.loaded = Nothing
      /\ p.exists = {} /\ p.marks = {}
  BY ArrivalFacts DEF Arrivals
<1>2. ~Edits(c.by) /\ (c.op \in {"mine", "byHome"} => scene.form[c.by] = "collaboration")
  BY ArrivalNew DEF Arrivals
<1>3. /\ DOMAIN q = PageFields /\ DOMAIN q.draft = DraftFields /\ q.at \in {"open", "left", "none"}
      /\ q.wanted = p.wanted /\ q.loaded = p.loaded /\ q.exists = p.exists
      /\ q.marks = p.marks /\ \A f \in DraftFields \ {"org", "self"} : q.draft[f] = p.draft[f]
      /\ q.draft.self = p.draft.self \/ c.op # "health"
  <2>1. CASE q = OfOrganisations(p, orgs, o, request) /\ c.op # "health"
    <3> HIDE DEF p
    <3>1. q = [p EXCEPT !.at = "open", !.orgs = orgs, !.draft.org = o, !.draft.self = request]
      BY <2>1 DEF OfOrganisations
    <3>2. DOMAIN p = PageFields /\ DOMAIN p.draft = DraftFields
      BY <1>1 DEF IsPage
    <3>3. /\ DOMAIN q = PageFields /\ q.at = "open" /\ q.wanted = p.wanted /\ q.loaded = p.loaded
          /\ q.exists = p.exists /\ q.marks = p.marks
      BY <3>1, <3>2 DEF PageFields
    <3>4. DOMAIN q.draft = DraftFields /\ \A f \in DraftFields \ {"org", "self"} : q.draft[f] = p.draft[f]
      BY <3>1, <3>2 DEF PageFields, DraftFields
    <3> QED BY <2>1, <3>3, <3>4
  <2>2. CASE q = [p EXCEPT !.at = "none"]
    <3> HIDE DEF p
    <3> QED BY <1>1, <2>2 DEF IsPage, PageFields, DraftFields
  <2>3. CASE q = [p EXCEPT !.at = "open"]
    <3> HIDE DEF p
    <3> QED BY <1>1, <2>3 DEF IsPage, PageFields, DraftFields
  <2> QED BY <2>1, <2>2, <2>3
<1>4. q.draft.self => scene.form[c.by] = "collaboration"
  BY <1>1, <1>2, <1>3, FreshFacts
<1>5. Shown(c.by, q)
  BY <1>1, <1>2, <1>3, <1>4, NewShown
<1> QED BY <1>5, ArrivedKeeps DEF Arrivals

(* Who manages no organisation is asked for by home.                       *)
LEMMA AsksByHome ==
  ASSUME Inv, NEW c \in net, c.op = "mine", page' = [page EXCEPT ![c.by] = page[c.by]],
         net' = (net \ {c}) \union {Call(c.by, "byHome")}, UNCHANGED <<scene, db, excuse>>
  PROVE  Inv'
<1> DEFINE u == c.by
           d == Call(u, "byHome")
<1>1. u \in Users /\ Of1(u) /\ IsPage(page[u]) /\ page[u].at = "loading" /\ \A g \in net : g.by = u => g = c
  BY ArrivalFacts DEF Arrivals
<1>2. IsCall(d) /\ d.by = u /\ d.op = "byHome" /\ d.draft = Fresh
  BY CallFacts
<1>3. ~Edits(u) /\ scene.form[u] = "collaboration"
  BY ArrivalNew DEF Arrivals
<1>4. page'[u] = page[u]
  BY <1>1 DEF Inv, Shapes
<1> HIDE DEF d
<1>5. net' = (net \ {c}) \union {d}
  BY DEF d
<1> HIDE DEF u
<1>6. c.by = u
  BY DEF u
<1>7. \A g \in net' : g.by = u => g = d
  BY <1>1, <1>5
<1>8. Empty(u)' = Empty(u)
  BY DEF Empty
<1>9. Early(u)'
  <2>1. page'[u] = [Empty(u) EXCEPT !.at = page[u].at]'
    BY <1>1, <1>4, <1>8 DEF Of1, Early
  <2>2. ~Edits(u)' /\ scene'.form[u] = "collaboration"
    BY <1>3, SameScene
  <2> QED BY <1>1, <1>2, <1>4, <1>7, <2>1, <2>2 DEF Early, Arrivals
<1>10. Typed(u)'
  BY <1>1, <1>2, <1>4, <1>7, SameScene DEF Of1, Typed
<1>11. Plain(u)'
  BY <1>1, <1>2, <1>4, <1>7, SameScene, FreshIsPlain DEF Of1, Plain
<1>12. Once(u)'
  <2>1. (\A i \in db.invited : i.by # u) /\ \A r \in db.requests : r.by # u
    BY <1>1, Unsent
  <2> QED BY <1>2, <1>7, <2>1 DEF Once, OnceOps
<1>13. Homely(u)'
  BY <1>1, <1>2, <1>4, <1>7 DEF Of1, Homely, HomeCall
<1>14. Verdicts(u)' /\ Marked(u)'
  BY <1>1, <1>4 DEF Verdicts, Marked, Calm
<1>15. Of1(u)'
  BY <1>9, <1>10, <1>11, <1>12, <1>13, <1>14 DEF Of1
<1>16. AtForm(u, page[u])
  BY <1>1, <1>2, <1>5, <1>6 DEF AtForm, StoredNow
<1> QED BY <1>1, <1>15, <1>16, AtFormKeeps

LEMMA HearMineKeeps ==
  ASSUME Inv, NEW c \in net, HearMine(c) \/ HearByHome(c) \/ HearHealth(c)
  PROVE  Inv'
<1>1. CASE HearMine(c)
  <2>1. PICK o : Hears(c, "mine", "ok",
                   IF c.orgs = {} THEN page[c.by] ELSE OfOrganisations(page[c.by], c.orgs, o, FALSE),
                   IF c.orgs = {} THEN {Call(c.by, "byHome")} ELSE {}) /\ UNCHANGED excuse
    BY <1>1 DEF HearMine
  <2>2. CASE c.orgs = {}
    BY <2>1, <2>2, AsksByHome DEF Hears
  <2>3. CASE c.orgs # {}
    <3> DEFINE q == OfOrganisations(page[c.by], c.orgs, o, FALSE)
    <3>1. /\ page' = [page EXCEPT ![c.by] = q] /\ net' = (net \ {c}) \union {} /\ UNCHANGED <<scene, db, excuse>>
          /\ c.op = "mine"
      BY <2>1, <2>3 DEF Hears
    <3>2. \E orgs, p, request : q = OfOrganisations(page[c.by], orgs, p, request)
      OBVIOUS
    <3> HIDE DEF q
    <3> QED BY <3>1, <3>2, HearNewKeeps
  <2> QED BY <2>2, <2>3
<1>2. CASE HearByHome(c)
  <2>1. PICK o : Hears(c, "byHome", "ok",
                   IF c.orgs = {} THEN [page[c.by] EXCEPT !.at = "none"]
                   ELSE OfOrganisations(page[c.by], c.orgs, o, TRUE), {}) /\ UNCHANGED excuse
    BY <1>2 DEF HearByHome
  <2>2. CASE c.orgs = {}
    BY <2>1, <2>2, HearNewKeeps DEF Hears
  <2>3. CASE c.orgs # {}
    <3> DEFINE q == OfOrganisations(page[c.by], c.orgs, o, TRUE)
    <3>1. /\ page' = [page EXCEPT ![c.by] = q] /\ net' = (net \ {c}) \union {} /\ UNCHANGED <<scene, db, excuse>>
          /\ c.op = "byHome"
      BY <2>1, <2>3 DEF Hears
    <3>2. \E orgs, p, request : q = OfOrganisations(page[c.by], orgs, p, request)
      OBVIOUS
    <3> HIDE DEF q
    <3> QED BY <3>1, <3>2, HearNewKeeps
  <2> QED BY <2>2, <2>3
<1>3. CASE HearHealth(c)
  BY <1>3, HearNewKeeps DEF HearHealth, Hears
<1> QED BY <1>1, <1>2, <1>3

LEMMA HearGoneKeeps ==
  ASSUME Inv, NEW c \in net, HearGone(c)
  PROVE  Inv'
<1> DEFINE u == c.by
<1>1. c.op = "read" /\ c.status = "failed" /\ net' = net \ {c} /\ UNCHANGED <<scene, db, excuse>>
  BY DEF HearGone, Hears
<1>2. u \in Users /\ Of1(u) /\ IsPage(page[u]) /\ page[u].at = "loading" /\ \A g \in net : g.by = u => g = c
  BY <1>1, ArrivalFacts DEF Arrivals
<1> HIDE DEF u
<1>3. CASE page'[u] = page[u] /\ page' = [page EXCEPT ![u] = page[u]]
  <2>1. \A g \in net' : g.by # u
    BY <1>1, <1>2
  <2>2. Empty(u)' = Empty(u)
    BY DEF Empty
  <2>3. Early(u)'
    <3>1. page'[u] = [Empty(u) EXCEPT !.at = page[u].at]'
      BY <1>2, <1>3, <2>2 DEF Of1, Early
    <3> QED BY <1>2, <1>3, <2>1, <3>1 DEF Early
  <2>4. Typed(u)' /\ Plain(u)'
    BY <1>1, <1>2, <1>3, <2>1, SameScene DEF Of1, Typed, Plain
  <2>5. Once(u)'
    <3>1. (\A i \in db.invited : i.by # u) /\ \A r \in db.requests : r.by # u
      BY <1>2, Unsent
    <3> QED BY <1>1, <2>1, <3>1 DEF Once
  <2>6. Homely(u)'
    BY <1>1, <1>2, <1>3, <2>1 DEF Of1, Homely, HomeCall
  <2>7. Verdicts(u)' /\ Marked(u)'
    BY <1>2, <1>3 DEF Verdicts, Marked, Calm
  <2>8. Of1(u)'
    BY <2>3, <2>4, <2>5, <2>6, <2>7 DEF Of1
  <2>9. AtForm(u, page[u])
    BY <1>1, <1>2, <1>3 DEF AtForm, u
  <2> QED BY <1>2, <2>8, <2>9, AtFormKeeps
<1>4. CASE page' = [page EXCEPT ![u] = [page[u] EXCEPT !.at = "left"]] /\ scene.form[u] = "members"
  <2> DEFINE p == page[u]
             q == [p EXCEPT !.at = "left"]
  <2>1. p.draft = Fresh /\ p.wanted = Of(Fresh)
    BY <1>2, UnsentFacts
  <2>2. IsPage(p)
    BY <1>2
  <2> HIDE DEF p
  <2>3. DOMAIN q = PageFields /\ q.at = "left" /\ q.draft = p.draft /\ q.wanted = p.wanted /\ q.loaded = p.loaded
    BY <2>2 DEF IsPage, PageFields
  <2>4. page' = [page EXCEPT ![u] = q]
    BY <1>4 DEF p
  <2> HIDE DEF q
  <2>5. IsPage(q)
    BY <2>2, <2>3 DEF IsPage
  <2>6. Shown(u, q)
    BY <2>1, <2>3, <2>5, FreshIsPlain DEF Shown
  <2> QED BY <1>1, <2>4, <2>6, ArrivedKeeps DEF u, Arrivals
<1> QED
  <2>1. page' = [page EXCEPT ![u] = IF scene.form[u] = "members" THEN [page[u] EXCEPT !.at = "left"] ELSE page[u]]
    BY DEF HearGone, Hears, u
  <2>2. CASE scene.form[u] = "members"
    BY <1>4, <2>1, <2>2
  <2>3. CASE scene.form[u] # "members"
    <3>1. page' = [page EXCEPT ![u] = page[u]]
      BY <2>1, <2>3
    <3>2. page'[u] = page[u]
      BY <1>2, <3>1 DEF Inv, Shapes
    <3> QED BY <1>3, <3>1, <3>2
  <2> QED BY <2>2, <2>3

-----------------------------------------------------------------------------
(* Answers that leave names and homes alone, and those heard too late.     *)
LEMMA OpenFor ==
  ASSUME Inv, NEW c \in net, c.op \notin Arrivals, page[c.by].at \in {"open", "loading"}
  PROVE  /\ c.by \in Users /\ Of1(c.by) /\ Shapes /\ IsPage(page[c.by]) /\ IsCall(c)
         /\ page[c.by].at = "open" /\ \A d \in net : d.by = c.by => d.op \notin Arrivals
BY DEF Inv, Shapes, Of1, Early

Heard(u, c, q) ==
  /\ c \in net /\ c.by = u /\ page' = [page EXCEPT ![u] = q] /\ net' = net \ {c}
  /\ scene' = scene /\ db' = db /\ excuse' = excuse /\ Kept(u, page[u], q, {})
  /\ c.op \notin {"exists", "home", "homes"} /\ (c.op = "delete" /\ c.status = "ok" => q.at = "left")

LEMMA HeardKeeps ==
  ASSUME Inv, NEW u \in Users, NEW c, NEW q, Heard(u, c, q)
  PROVE  Inv'
<1>1. page'[u] = q /\ scene' = scene /\ db' = db /\ net' = net \ {c} /\ excuse' = excuse
  BY PageTurned DEF Inv, Heard
<1>2. Kept(u, page[u], q, {}) /\ Of1(u)
  BY DEF Heard, Inv
<1>3. Early(u)'
  <2>1. \A d \in net' : d.by = u => d.op \notin Arrivals
    BY <1>1, <1>2 DEF Early, Of1, Kept, Arrivals
  <2>2. q.at \notin {"closed", "loading"} /\ (q.at = "open" /\ Edits(u) => q.loaded.id = Target(u))
    BY <1>2 DEF Early, Of1, Kept
  <2>3. \A d \in net' : d.by = u /\ d.op = "update" =>
          Edits(u) /\ (d.status \in {"sent", "begun"} => d.got.id = Target(u))
    BY <1>1, <1>2 DEF Early, Of1
  <2> QED BY <1>1, <2>1, <2>2, <2>3, SameScene DEF Early
<1>4. Typed(u)'
  <2>1. Agree(u, q.draft, q.wanted)
    BY <1>2 DEF Kept, Typed, Of1
  <2> QED BY <1>1, <1>2, <2>1, SameScene DEF Typed, Of1
<1>5. Plain(u)'
  <2>1. Simple(u, q.draft)
    BY <1>2 DEF Kept, Plain, Of1
  <2> QED BY <1>1, <1>2, <2>1, SameScene DEF Plain, Of1
<1>6. Once(u)'
  <2>1. Spent(u) => Spent(u)'
    BY <1>1, <1>2 DEF Spent, Kept
  <2> QED BY <1>1, <1>2, <2>1 DEF Once, Of1
<1>7. \A d : HomeCall(u, d) => d # c
  BY DEF Heard, HomeCall
<1>8. Homely(u)'
  <2>1. q.draft.homes = page[u].draft.homes /\ q.wanted.homes = page[u].wanted.homes /\ page[u].at = "open"
    BY <1>2 DEF Kept
  <2> QED BY <1>1, <1>2, <1>7, <2>1 DEF Homely, HomeCall, Of1
<1>9. Calm(u)' => Calm(u)
  BY <1>1, <1>2 DEF Calm, Kept, Heard
<1>10. Verdicts(u)'
  <2>1. SUFFICES ASSUME Calm(u), NEW f \in NamesOf(scene.form[u]), <<u, f>> \notin excuse
        PROVE  Asked(u, f)' \/ Right(u, f)'
    BY <1>1, <1>9 DEF Verdicts
  <2>2. CASE Asked(u, f)
    BY <1>1, <2>2 DEF Asked, Heard
  <2>3. CASE Right(u, f)
    <3>1. f \in AllNames
      BY NamesFacts DEF AllNames
    <3>2. NamesOf(scene.form[u]) # {}
      BY <2>1
    <3>3. /\ q.draft[f] = page[u].draft[f] /\ (f \in q.exists <=> f \in page[u].exists)
          /\ q.draft.org = page[u].draft.org /\ q.loaded = page[u].loaded
      BY <1>2, <3>1, <3>2 DEF Kept
    <3>4. Kind(u)' = Kind(u)
      BY <1>1, SameScene
    <3> QED BY <1>1, <2>3, <3>3, <3>4, SameMarks DEF Right
  <2> QED BY <1>2, <2>1, <2>2, <2>3 DEF Verdicts, Of1
<1>11. Marked(u)'
  <2>1. SUFFICES ASSUME Calm(u), <<u, "marks">> \notin excuse  PROVE Marked(u)'
    BY <1>1, <1>9 DEF Marked
  <2>2. \A d : d \in net' /\ HomeCall(u, d) <=> d \in net /\ HomeCall(u, d)
    BY <1>1, <1>7
  <2>3. q.loaded = page[u].loaded /\ q.marks = page[u].marks /\ q.draft.homes = page[u].draft.homes
    BY <1>2 DEF Kept
  <2>4. \A homes : TakenOf(u, homes)' = TakenOf(u, homes)
    BY <1>1, <2>3, SameMarks DEF TakenOf
  <2>5. (\A d \in net' : ~HomeCall(u, d)) => q.marks = TakenOf(u, q.draft.homes)
    BY <1>2, <2>1, <2>2, <2>3 DEF Marked, Of1
  <2>6. ASSUME NEW d \in net, HomeCall(u, d)
        PROVE  /\ d.op = "home" => /\ d.value \in d.homes /\ d.marks = TakenOf(u, d.homes \ {d.value})
                                   /\ d.status = "ok" => (d.error <=> HomeTaken(d.value, page[u].loaded.id))
               /\ d.op = "homes" /\ d.status = "ok" => d.marks = TakenOf(u, d.homes)
    BY <1>2, <2>1, <2>6 DEF Marked, Of1
  <2> QED BY <1>1, <2>2, <2>3, <2>4, <2>5, <2>6, SameMarks DEF Marked, HomeCall
<1>12. Of1(u)'
  BY <1>3, <1>4, <1>5, <1>6, <1>8, <1>10, <1>11 DEF Of1
<1>13. AtForm(u, q)
  BY DEF AtForm, Heard, Kept
<1> QED BY <1>12, <1>13, AtFormKeeps

LEMMA HearLateKeeps ==
  ASSUME Inv, NEW c \in net, HearLate(c)
  PROVE  Inv'
<1>1. c.by \in Users /\ Of1(c.by) /\ IsPage(page[c.by]) /\ DOMAIN page = Users
  BY DEF Inv, Shapes
<1> DEFINE u == c.by
           q == page[u]
<1>2. /\ page' = page /\ net' = net \ {c} /\ scene' = scene /\ db' = db
      /\ excuse' = excuse /\ q.at \in {"left", "none"}
  BY <1>1 DEF HearLate
<1>3. ~Calm(u)'
  BY <1>2 DEF Calm
<1>4. Early(u)'
  <2>1. \A d \in net : d.by = u => d.op \notin Arrivals
    BY <1>1, <1>2 DEF Of1, Early
  <2> QED BY <1>1, <1>2, <2>1, SameScene DEF Of1, Early
<1>5. Typed(u)' /\ Plain(u)'
  BY <1>1, <1>2, SameScene DEF Of1, Typed, Plain
<1>6. Once(u)' /\ Homely(u)'
  BY <1>1, <1>2 DEF Of1, Once, Spent, Homely, HomeCall
<1>7. Verdicts(u)' /\ Marked(u)'
  BY <1>3 DEF Verdicts, Marked
<1>8. Of1(u)'
  BY <1>4, <1>5, <1>6, <1>7 DEF Of1
<1>9. AtForm(u, q)
  BY <1>1, <1>2 DEF AtForm
<1> QED BY <1>1, <1>8, <1>9, AtFormKeeps

LEMMA HearQuietlyKeeps ==
  ASSUME Inv, NEW c \in net, HearLogo(c) \/ HearNetwork(c)
  PROVE  Inv'
<1> DEFINE u == c.by
           p == page[u]
<1>1. c.op \in {"logo", "network"} /\ p.at \in {"open", "loading"} /\ net' = net \ {c} /\ UNCHANGED <<scene, db, excuse>>
  BY DEF HearLogo, HearNetwork, Hears
<1>2. u \in Users /\ Of1(u) /\ IsPage(p) /\ p.at = "open"
  BY <1>1, OpenFor DEF Arrivals
<1>3. ASSUME NEW q, page' = [page EXCEPT ![u] = q], Still(p, q)
      PROVE  Inv'
  <2>1. Simple(u, p.draft) => Simple(u, q.draft)
    BY <1>3, StillSimple DEF Still
  <2>2. Kept(u, p, q, {})
    BY <1>2, <1>3, <2>1, KeptStill DEF Still
  <2>3. Heard(u, c, q)
    BY <1>1, <1>3, <2>2 DEF Heard
  <2> QED BY <1>2, <2>3, HeardKeeps
<1>4. CASE HearLogo(c)
  <2> DEFINE q == [p EXCEPT !.orgLogo = TRUE, !.draft.logo = "image"]
  <2>1. page' = [page EXCEPT ![u] = q]
    BY <1>4 DEF HearLogo, Hears
  <2>2. Still(p, q)
    BY <1>2 DEF IsPage, Still, PageFields, DraftFields, Fields
  <2> QED BY <1>3, <2>1, <2>2
<1>5. CASE HearNetwork(c)
  <2> DEFINE v == Spliced(p.draft.nets, c.row, [value |-> c.value, error |-> c.error])
             q == [p EXCEPT !.draft.nets = v]
  <2>1. page' = [page EXCEPT ![u] = q]
    BY <1>5 DEF HearNetwork, Hears
  <2> HIDE DEF v
  <2>2. Still(p, q)
    BY <1>2 DEF IsPage, Still, PageFields, DraftFields, Fields
  <2> QED BY <1>3, <2>1, <2>2
<1> QED BY <1>4, <1>5

LEMMA HearDoneKeeps ==
  ASSUME Inv, NEW c \in net, HearDone(c) \/ (HearUnhandled(c) /\ ~BeginsAnew(c))
  PROVE  Inv'
<1> DEFINE u == c.by
           p == page[u]
           q == IF HearDone(c) THEN [p EXCEPT !.at = "left"] ELSE p
<1>1. /\ c.op \in {"create", "update", "request", "invite", "delete"} /\ p.at \in {"open", "loading"}
      /\ net' = net \ {c} /\ UNCHANGED <<scene, db, excuse>>
  BY DEF HearDone, HearUnhandled, Hears
<1>2. page' = [page EXCEPT ![u] = q]
  BY DEF HearDone, HearUnhandled, Hears
<1>3. c.status = "ok" => HearDone(c)
  BY DEF HearUnhandled, Hears
<1>4. u \in Users /\ Of1(u) /\ IsPage(p) /\ p.at = "open"
  BY <1>1, OpenFor DEF Arrivals
<1>5. /\ DOMAIN q = PageFields /\ q.draft = p.draft /\ q.wanted = p.wanted /\ q.loaded = p.loaded
      /\ q.exists = p.exists /\ q.marks = p.marks /\ q.busy = p.busy
      /\ q.at \in {"open", "left"} /\ (HearDone(c) => q.at = "left")
  <2>1. CASE HearDone(c)
    BY <1>4, <2>1 DEF IsPage, PageFields
  <2>2. CASE ~HearDone(c)
    BY <1>4, <2>2 DEF IsPage
  <2> QED BY <2>1, <2>2
<1> HIDE DEF q
<1>6. Kept(u, p, q, {})
  BY <1>4, <1>5 DEF Kept, IsPage
<1>7. Heard(u, c, q)
  BY <1>1, <1>2, <1>3, <1>5, <1>6 DEF Heard
<1> QED BY <1>4, <1>7, HeardKeeps

LEMMA AnewFacts ==
  ASSUME NEW u
  PROVE  /\ IsPage(Anew(u)) /\ Anew(u).at = "open" /\ Anew(u).wanted = Of(Fresh) /\ Anew(u).loaded = Nothing
         /\ Anew(u).exists = {} /\ Anew(u).marks = {} /\ Anew(u).draft.homes = {}
         /\ Agree(u, Anew(u).draft, Anew(u).wanted) /\ Simple(u, Anew(u).draft)
         /\ \A f \in AllNames : Anew(u).draft[f] = ""
<1> DEFINE e == Empty(u)
           p == [e EXCEPT !.n = page[u].n]
           q == NewService(p)
<1>1. /\ IsPage(e) /\ e.draft = Fresh /\ e.wanted = Of(Fresh)
      /\ e.loaded = Nothing /\ e.exists = {} /\ e.marks = {}
  BY EmptyFacts
<1> HIDE DEF e
<1>2. /\ IsPage(p) /\ p.draft = Fresh /\ p.wanted = Of(Fresh)
      /\ p.loaded = Nothing /\ p.exists = {} /\ p.marks = {}
  BY <1>1 DEF IsPage, PageFields
<1> HIDE DEF p
<1>3. /\ IsPage(q) /\ q.at = "open" /\ q.wanted = Of(Fresh) /\ q.loaded = Nothing
      /\ q.exists = {} /\ q.marks = {} /\ \A f \in DraftFields \ {"nets"} : q.draft[f] = Fresh[f]
  BY <1>2, NewServiceFacts
<1> HIDE DEF q
<1>4. \A f \in Fields : q.draft[f] = Fresh[f]
  BY <1>3 DEF Fields, DraftFields
<1>5. q.draft.expires = Fresh.expires /\ q.draft.ends = Fresh.ends /\ q.draft.self = Fresh.self
  BY <1>3 DEF DraftFields
<1>6. Simple(u, q.draft)
  BY <1>4, <1>5, FreshIsPlain, StillSimple
<1>7. Agree(u, q.draft, q.wanted)
  <2>1. \A f \in Fields : q.draft[f] = q.wanted[f]
    BY <1>3, <1>4, FreshFacts
  <2> QED BY <2>1 DEF Agree
<1>8. q.draft.homes = {}
  BY <1>3, FreshFacts DEF DraftFields
<1>9. \A f \in AllNames : q.draft[f] = ""
  BY <1>4, NamesOfFresh
<1> QED BY <1>3, <1>6, <1>7, <1>8, <1>9 DEF q, p, e, Anew

(* The form of a service after a creation that failed.                     *)
LEMMA BeginsAnewKeeps ==
  ASSUME Inv, NEW c \in net, HearUnhandled(c), BeginsAnew(c)
  PROVE  Inv'
<1> DEFINE u == c.by
           q == Anew(u)
<1>1. /\ c.op = "create" /\ c.status = "failed" /\ scene.form[u] = "service" /\ page[u].at \in {"open", "loading"}
      /\ page' = [page EXCEPT ![u] = q] /\ net' = net \ {c} /\ scene' = scene /\ db' = db
      /\ excuse' = excuse \ {<<u, f>> : f \in NamesOf("service")}
  BY DEF HearUnhandled, Hears, BeginsAnew
<1>2. u \in Users /\ Of1(u) /\ Shapes /\ \A d \in net : d.by = u => d.op \notin Arrivals
  BY <1>1, OpenFor DEF Arrivals
<1>3. /\ IsPage(q) /\ q.at = "open" /\ q.wanted = Of(Fresh) /\ q.loaded = Nothing
      /\ q.exists = {} /\ q.marks = {} /\ q.draft.homes = {}
      /\ Agree(u, q.draft, q.wanted) /\ Simple(u, q.draft)
      /\ \A f \in AllNames : q.draft[f] = ""
  BY AnewFacts
<1> HIDE DEF q
<1>4. page'[u] = q
  BY <1>1, <1>2, PageTurned
<1>5. \A f : <<u, f>> \in excuse' => <<u, f>> \in excuse
  BY <1>1
<1>6. \A f \in {"homes", "marks"} : <<u, f>> \in excuse' <=> <<u, f>> \in excuse
  <2>1. \A f \in NamesOf("service") : f \notin {"homes", "marks"}
    BY NamesFacts
  <2> QED BY <1>1, <2>1
<1>7. Early(u)'
  <2>1. ~Edits(u)
    BY <1>1 DEF Edits
  <2>2. \A d \in net : d.by = u => d.op # "update"
    BY <1>2, <2>1 DEF Of1, Early
  <2> QED BY <1>1, <1>2, <1>3, <1>4, <2>1, <2>2, SameScene DEF Early
<1>8. Typed(u)'
  <2>1. Typed(u)
    BY <1>2 DEF Of1
  <2>2. \A d \in net' : d \in net
    BY <1>1
  <2>3. <<u, "homes">> \in excuse' <=> <<u, "homes">> \in excuse
    BY <1>6
  <2>4. scene' = scene
    BY <1>1
  <2>5. Agree(u, q.draft, q.wanted)
    BY <1>3
  <2> QED BY <1>4, <2>1, <2>2, <2>3, <2>4, <2>5, SameScene DEF Typed
<1>9. Plain(u)'
  <2>1. \A d \in net' : d \in net
    BY <1>1
  <2>2. \A d \in net' : d.by = u => Simple(u, d.draft)
    BY <1>2, <2>1 DEF Of1, Plain
  <2>3. Simple(u, page'[u].draft)
    BY <1>3, <1>4
  <2>4. scene' = scene
    BY <1>1
  <2> QED BY <2>2, <2>3, <2>4 DEF Plain, Simple
<1>10. Once(u)'
  <2>1. c.op \in OnceOps /\ ~Settled(c)
    BY <1>1 DEF OnceOps, Settled
  <2>2. \A d \in net' : d.by = u => d.op \notin OnceOps
    BY <1>1, <1>2, <2>1 DEF Of1, Once
  <2>3. (\A i \in db.invited : i.by # u) /\ \A r \in db.requests : r.by # u
    BY <1>2, <2>1 DEF Of1, Once
  <2> QED BY <1>1, <2>2, <2>3 DEF Once
<1>11. \A d \in net' : ~HomeCall(u, d)
  BY <1>1, <1>2 DEF Of1, Homely
<1>12. Homely(u)'
  <2>1. <<u, "homes">> \in excuse' => <<u, "marks">> \in excuse'
    BY <1>2, <1>6 DEF Of1, Homely
  <2>2. \A d \in net' : d.by = u /\ d.op = "exists" => d.field \in {"name", "short", "entity"}
    BY <1>1, <1>2 DEF Of1, Homely
  <2>3. q.draft.homes = q.wanted.homes
    BY <1>3, NamesOfFresh
  <2> QED BY <1>4, <1>11, <2>1, <2>2, <2>3 DEF Homely, HomeCall
<1>13. Verdicts(u)'
  <2>1. SUFFICES ASSUME NEW f \in NamesOf(scene.form[u])  PROVE Right(u, f)'
    BY <1>1 DEF Verdicts
  <2>2. f \in AllNames
    BY NamesOfFresh
  <2>3. q.draft[f] = q.loaded[f] /\ f \notin q.exists
    BY <1>3, <2>2, NamesOfFresh
  <2> QED BY <1>4, <2>3 DEF Right, Taken
<1>14. Marked(u)'
  <2>1. TakenOf(u, {})' = {}
    BY DEF TakenOf
  <2> QED BY <1>3, <1>4, <1>11, <2>1 DEF Marked, HomeCall
<1>15. Of1(u)'
  BY <1>7, <1>8, <1>9, <1>10, <1>12, <1>13, <1>14 DEF Of1
<1>16. AtForm(u, q)
  <2>1. \A v \in Users \ {u} : \A f : (<<v, f>> \in excuse' <=> <<v, f>> \in excuse)
    BY <1>1
  <2> QED BY <1>1, <1>3, <2>1 DEF AtForm
<1> QED BY <1>2, <1>15, <1>16, AtFormKeeps

-----------------------------------------------------------------------------
(* The answer about a name.                                                *)
LEMMA HearExistsKeeps ==
  ASSUME Inv, NEW c \in net, HearExists(c)
  PROVE  Inv'
<1> DEFINE u == c.by
           p == page[u]
           g == c.field
           x == IF c.error THEN p.exists \union {g} ELSE p.exists \ {g}
           q == [p EXCEPT !.exists = x]
           now == /\ c.value = p.draft[g] /\ c.org = p.draft.org
                  /\ c.error = Taken(Kind(u), c.org, g, c.value, p.loaded[g])
<1>1. /\ c.op = "exists" /\ p.at \in {"open", "loading"} /\ page' = [page EXCEPT ![u] = q]
      /\ net' = net \ {c} /\ scene' = scene /\ db' = db
      /\ excuse' = IF now THEN excuse \ {<<u, g>>} ELSE excuse \union {<<u, g>>}
  BY DEF HearExists, Hears
<1>2. /\ u \in Users /\ Of1(u) /\ IsPage(p) /\ p.at = "open" /\ Shapes
      /\ \A d \in net : d.by = u => d.op \notin Arrivals
  BY <1>1, OpenFor DEF Arrivals
<1>3. g \in AllNames
  BY <1>1, <1>2 DEF Of1, Homely, AllNames
<1>4. /\ \A f : f # g => (<<u, f>> \in excuse' <=> <<u, f>> \in excuse)
      /\ \A v, f : v # u => (<<v, f>> \in excuse' <=> <<v, f>> \in excuse)
      /\ <<u, g>> \notin excuse' => now
  BY <1>1
<1>5. /\ <<u, "homes">> \in excuse' <=> <<u, "homes">> \in excuse
      /\ <<u, "marks">> \in excuse' <=> <<u, "marks">> \in excuse
  BY <1>3, <1>4 DEF AllNames
<1>6. (g \in x <=> c.error) /\ \A f : f # g => (f \in x <=> f \in p.exists)
  OBVIOUS
<1> HIDE DEF x, now
<1>7. /\ DOMAIN q = PageFields /\ q.draft = p.draft /\ q.wanted = p.wanted /\ q.loaded = p.loaded
      /\ q.exists = x /\ q.marks = p.marks /\ q.busy = p.busy /\ q.at = "open"
  BY <1>2 DEF IsPage, PageFields
<1> HIDE DEF q
<1>8. page'[u] = q
  BY <1>1, <1>2, PageTurned
<1>9. IsPage(q)
  BY <1>2, <1>7 DEF IsPage
<1>10. Early(u)'
  BY <1>1, <1>2, <1>7, <1>8, SameScene DEF Of1, Early
<1>11. Typed(u)' /\ Plain(u)'
  BY <1>1, <1>2, <1>5, <1>7, <1>8, SameScene DEF Of1, Typed, Plain
<1>12. Once(u)'
  BY <1>1, <1>2, <1>7, <1>8 DEF Of1, Once, Spent
<1>13. \A d : HomeCall(u, d) => d # c
  BY <1>1 DEF HomeCall
<1>14. Homely(u)'
  BY <1>1, <1>2, <1>5, <1>7, <1>8, <1>13 DEF Of1, Homely, HomeCall
<1>15. Calm(u)' => Calm(u)
  BY <1>1, <1>2, <1>7, <1>8 DEF Calm
<1>16. Verdicts(u)'
  <2>1. SUFFICES ASSUME Calm(u), NEW f \in NamesOf(scene.form[u]), <<u, f>> \notin excuse'
        PROVE  Asked(u, f)' \/ Right(u, f)'
    BY <1>1, <1>15 DEF Verdicts
  <2>2. Kind(u)' = Kind(u)
    BY <1>1, SameScene
  <2>3. CASE f = g
    <3>1. now /\ (f \in q.exists <=> c.error)
      BY <1>4, <1>6, <1>7, <2>1, <2>3
    <3>2. f \in q.exists <=> Taken(Kind(u), p.draft.org, f, p.draft[f], p.loaded[f])
      BY <2>3, <3>1 DEF now
    <3> QED BY <1>1, <1>7, <1>8, <2>2, <3>2, SameMarks DEF Right
  <2>4. CASE f # g
    <3>1. Asked(u, f) \/ Right(u, f)
      BY <1>2, <1>4, <2>1, <2>4 DEF Of1, Verdicts
    <3>2. Asked(u, f) => Asked(u, f)'
      BY <1>1, <2>4 DEF Asked
    <3>3. Right(u, f) => Right(u, f)'
      BY <1>1, <1>6, <1>7, <1>8, <2>2, <2>4, SameMarks DEF Right
    <3> QED BY <3>1, <3>2, <3>3
  <2> QED BY <2>3, <2>4
<1>17. Marked(u)'
  <2>1. SUFFICES ASSUME Calm(u), <<u, "marks">> \notin excuse  PROVE Marked(u)'
    BY <1>5, <1>15 DEF Marked
  <2>2. \A d : d \in net' /\ HomeCall(u, d) <=> d \in net /\ HomeCall(u, d)
    BY <1>1, <1>13
  <2>3. \A homes : TakenOf(u, homes)' = TakenOf(u, homes)
    BY <1>1, <1>7, <1>8, SameMarks DEF TakenOf
  <2>4. (\A d \in net' : ~HomeCall(u, d)) => q.marks = TakenOf(u, q.draft.homes)
    BY <1>2, <1>7, <2>1, <2>2 DEF Marked, Of1
  <2>5. ASSUME NEW d \in net, HomeCall(u, d)
        PROVE  /\ d.op = "home" => /\ d.value \in d.homes /\ d.marks = TakenOf(u, d.homes \ {d.value})
                                   /\ d.status = "ok" => (d.error <=> HomeTaken(d.value, page[u].loaded.id))
               /\ d.op = "homes" /\ d.status = "ok" => d.marks = TakenOf(u, d.homes)
    BY <1>2, <2>1, <2>5 DEF Marked, Of1
  <2> QED BY SMTT(30), <1>1, <1>7, <1>8, <2>2, <2>3, <2>4, <2>5, SameMarks DEF Marked, HomeCall
<1>18. Of1(u)'
  BY <1>10, <1>11, <1>12, <1>14, <1>16, <1>17 DEF Of1
<1>19. AtForm(u, q)
  BY <1>1, <1>4, <1>9 DEF AtForm
<1> QED BY <1>2, <1>18, <1>19, AtFormKeeps

-----------------------------------------------------------------------------
(* The answers about homes.                                                *)
Listed(u, c, q) ==
  /\ c \in net /\ HomeCall(u, c) /\ page' = [page EXCEPT ![u] = q] /\ scene' = scene /\ db' = db
  /\ page[u].at = "open" /\ IsPage(q) /\ q.at = "open" /\ q.busy = page[u].busy
  /\ q.loaded = page[u].loaded /\ q.wanted = page[u].wanted
  /\ q.draft.homes = c.homes /\ \A f \in DraftFields \ {"homes"} : q.draft[f] = page[u].draft[f]
  /\ \A f \in {"name", "short"} : <<u, f>> \in excuse' \/ (f \in q.exists <=> f \in page[u].exists)
  /\ \A f : <<u, f>> \in excuse \/ (<<u, f>> \in excuse' => f \in {"name", "short"})
  /\ excuse \subseteq excuse' /\ \A v \in Users \ {u} : \A f : <<v, f>> \in excuse' => <<v, f>> \in excuse
  /\ \A d \in net' : \/ d \in net \ {c}
                     \/ /\ HomeCall(u, d) /\ IsCall(d) /\ Simple(u, d.draft)
                        /\ \E e \in net \ {c} : HomeCall(u, e)
  /\ \A d \in net : HomeCall(u, d) \/ d \in net'
  /\ Calm(u) /\ <<u, "marks">> \notin excuse => q.marks = TakenOf(u, c.homes)

LEMMA ListedKeeps ==
  ASSUME Inv, NEW u \in Users, NEW c, NEW q, Listed(u, c, q)
  PROVE  Inv'
<1>1. /\ page'[u] = q /\ scene' = scene /\ db' = db /\ page[u].at = "open" /\ q.at = "open"
      /\ q.busy = page[u].busy /\ q.loaded = page[u].loaded /\ q.wanted = page[u].wanted /\ q.draft.homes = c.homes
      /\ c \in net /\ HomeCall(u, c)
  BY PageTurned DEF Inv, Listed
<1>2. \A f \in DraftFields \ {"homes"} : q.draft[f] = page[u].draft[f]
  BY DEF Listed
<1>3. /\ \A d \in net' : d \in net \/ (HomeCall(u, d) /\ IsCall(d) /\ Simple(u, d.draft))
      /\ \A d \in net : HomeCall(u, d) \/ d \in net'
  BY DEF Listed
<1>4. Of1(u) /\ scene.form[u] = "organisation"
  BY <1>1 DEF Inv, Of1, Homely
<1>5. /\ <<u, "homes">> \in excuse' <=> <<u, "homes">> \in excuse
      /\ <<u, "marks">> \in excuse' <=> <<u, "marks">> \in excuse
  BY DEF Listed
<1>6. <<u, "homes">> \notin excuse => \A d \in net' : ~HomeCall(u, d)
  <2>1. <<u, "homes">> \notin excuse => \A d \in net \ {c} : ~HomeCall(u, d)
    BY <1>1, <1>4 DEF Of1, Homely
  <2> QED BY <2>1 DEF Listed
<1>7. Early(u)'
  <2>1. \A d \in net' : d.by = u => d.op \notin Arrivals
    BY <1>1, <1>3, <1>4 DEF Of1, Early, Arrivals, HomeCall
  <2>2. Edits(u) => q.loaded.id = Target(u)
    BY <1>1, <1>4 DEF Of1, Early
  <2>3. \A d \in net' : d.by = u /\ d.op = "update" =>
          Edits(u) /\ (d.status \in {"sent", "begun"} => d.got.id = Target(u))
    BY <1>3, <1>4 DEF Of1, Early, HomeCall
  <2> QED BY <1>1, <2>1, <2>2, <2>3, SameScene DEF Early
<1>8. Typed(u)'
  <2>1. \A f \in Fields \ {"homes"} : q.draft[f] = page[u].draft[f]
    BY <1>2 DEF Fields, DraftFields
  <2>2. Agree(u, q.draft, q.wanted)
    BY <1>1, <1>4, <2>1 DEF Of1, Typed, Agree
  <2>3. \A d \in net' : d.by = u /\ d.op \in {"create", "update", "request"} => d \in net
    BY <1>3 DEF HomeCall
  <2> QED BY <1>1, <1>4, <1>5, <2>2, <2>3, SameScene DEF Of1, Typed
<1>9. Plain(u)'
  <2>1. /\ q.draft.entity = page[u].draft.entity /\ q.draft.self = page[u].draft.self
        /\ q.draft.expires = page[u].draft.expires /\ q.draft.ends = page[u].draft.ends
    BY <1>2 DEF DraftFields
  <2>2. Simple(u, q.draft)
    BY <1>4, <2>1 DEF Of1, Plain, Simple
  <2>3. \A d \in net' : d.by = u => Simple(u, d.draft)
    BY <1>3, <1>4 DEF Of1, Plain
  <2> QED BY <1>1, <2>2, <2>3, SameScene DEF Plain
<1>10. Once(u)'
  <2>1. \A d \in net' : d.by = u /\ d.op \in OnceOps => d \in net
    BY <1>3 DEF HomeCall, OnceOps
  <2> QED BY <1>1, <1>4, <2>1 DEF Of1, Once, Spent
<1>11. Homely(u)'
  <2>1. \A d \in net' : d.by = u /\ d.op = "exists" => d.field \in {"name", "short", "entity"}
    BY <1>3, <1>4 DEF Of1, Homely, HomeCall
  <2>2. <<u, "homes">> \notin excuse => c.homes = page[u].wanted.homes
    BY <1>1, <1>4 DEF Of1, Homely
  <2> QED BY <1>1, <1>4, <1>5, <1>6, <2>1, <2>2 DEF Of1, Homely, HomeCall
<1>12. Calm(u)' => Calm(u)
  BY <1>1, <1>3 DEF Calm, HomeCall
<1>13. Verdicts(u)'
  <2>1. SUFFICES ASSUME Calm(u), NEW f \in {"name", "short"}, <<u, f>> \notin excuse'
        PROVE  Asked(u, f)' \/ Right(u, f)'
    BY <1>1, <1>4, <1>12 DEF Verdicts, NamesOf
  <2>2. <<u, f>> \notin excuse
    BY <2>1 DEF Listed
  <2>3. f \in NamesOf(scene.form[u])
    BY <1>4 DEF NamesOf
  <2>4. CASE Asked(u, f)
    BY <1>3, <2>4 DEF Asked, HomeCall
  <2>5. CASE Right(u, f)
    <3>1. f \in DraftFields \ {"homes"} /\ "org" \in DraftFields \ {"homes"}
      BY DEF DraftFields
    <3>2. q.draft[f] = page[u].draft[f] /\ q.draft.org = page[u].draft.org /\ (f \in q.exists <=> f \in page[u].exists)
      BY <1>2, <2>1, <3>1 DEF Listed
    <3>3. Kind(u)' = Kind(u)
      BY <1>1, SameScene
    <3> QED BY <1>1, <2>5, <3>2, <3>3, SameMarks DEF Right
  <2> QED BY <1>4, <2>1, <2>2, <2>3, <2>4, <2>5 DEF Verdicts, Of1
<1>14. Marked(u)'
  <2>1. SUFFICES ASSUME Calm(u), <<u, "marks">> \notin excuse  PROVE Marked(u)'
    BY <1>5, <1>12 DEF Marked
  <2>2. \A d \in net' : ~HomeCall(u, d)
    BY <1>4, <1>6, <2>1 DEF Of1, Homely
  <2>3. q.marks = TakenOf(u, c.homes)
    BY <2>1 DEF Listed
  <2>4. \A homes : TakenOf(u, homes)' = TakenOf(u, homes)
    BY <1>1, SameMarks DEF TakenOf
  <2> QED BY <1>1, <2>2, <2>3, <2>4 DEF Marked, HomeCall
<1>15. Of1(u)'
  BY <1>7, <1>8, <1>9, <1>10, <1>11, <1>13, <1>14 DEF Of1
<1>16. AtForm(u, q)
  <2>1. \A d \in net' : d \in net \/ (d.by = u /\ IsCall(d) /\ ~StoredNow(d))
    BY <1>3 DEF HomeCall, StoredNow
  <2>2. \A d \in net : d.by = u \/ d \in net'
    BY <1>3 DEF HomeCall
  <2>3. \A v \in Users \ {u} : \A f : (<<v, f>> \in excuse' <=> <<v, f>> \in excuse)
    BY DEF Listed
  <2> QED BY <1>1, <2>1, <2>2, <2>3 DEF AtForm, Listed
<1> QED BY <1>15, <1>16, AtFormKeeps

LEMMA PutBack ==
  ASSUME NEW c, PutsBack(c), NEW x, x = c.exists
  PROVE  /\ \A f \in {"name", "short"} : <<c.by, f>> \in excuse' \/ (f \in x <=> f \in page[c.by].exists)
         /\ \A f : <<c.by, f>> \in excuse \/ (<<c.by, f>> \in excuse' => f \in {"name", "short"})
         /\ excuse \subseteq excuse' /\ \A v \in Users \ {c.by} : \A f : <<v, f>> \in excuse' => <<v, f>> \in excuse
BY DEF PutsBack

LEMMA HomeHeard ==
  ASSUME Inv, NEW c \in net, c.op \in {"home", "homes"}, c.status = "ok", Calm(c.by), <<c.by, "marks">> \notin excuse
  PROVE  /\ c.op = "home" => /\ c.value \in c.homes /\ c.marks = TakenOf(c.by, c.homes \ {c.value})
                             /\ c.error <=> HomeTaken(c.value, page[c.by].loaded.id)
         /\ c.op = "homes" => c.marks = TakenOf(c.by, c.homes)
<1>1. c.by \in Users /\ Marked(c.by) /\ HomeCall(c.by, c)
  BY DEF Inv, Shapes, Of1, HomeCall
<1> QED BY <1>1 DEF Marked

LEMMA HearHomeKeeps ==
  ASSUME Inv, NEW c \in net, HearHome(c)
  PROVE  Inv'
<1> DEFINE u == c.by
           p == page[u]
           old == c.marks # {}
           at == p.arrays + 1
           marksAt == IF old \/ ~c.error THEN c.marksAt ELSE at
           marks == IF c.error THEN c.marks \union {c.value} ELSE c.marks
           q == [p EXCEPT !.draft.homes = c.homes, !.listAt = at, !.arrays = at, !.exists = c.exists,
                          !.marks = marks, !.marksAt = marksAt]
           M(d) == IF old /\ d.by = u /\ d.op = "home" /\ d.marksAt = c.marksAt
                   THEN [d EXCEPT !.marks = marks] ELSE d
<1>1. /\ c.op = "home" /\ c.status = "ok" /\ p.at = "open" /\ page' = [page EXCEPT ![u] = q]
      /\ net' = {M(d) : d \in net \ {c}} /\ PutsBack(c) /\ scene' = scene /\ db' = db
  BY DEF HearHome
<1>2. u \in Users /\ Of1(u) /\ IsPage(p) /\ HomeCall(u, c)
  BY <1>1 DEF Inv, Shapes, HomeCall
<1>3. Calm(u) /\ <<u, "marks">> \notin excuse => marks = TakenOf(u, c.homes)
  <2>1. SUFFICES ASSUME Calm(u), <<u, "marks">> \notin excuse  PROVE marks = TakenOf(u, c.homes)
    OBVIOUS
  <2>2. /\ c.value \in c.homes /\ c.marks = TakenOf(u, c.homes \ {c.value})
        /\ c.error <=> HomeTaken(c.value, p.loaded.id)
    BY <1>1, <2>1, HomeHeard
  <2>3. CASE c.error
    BY <2>2, <2>3 DEF TakenOf
  <2>4. CASE ~c.error
    BY <2>2, <2>4 DEF TakenOf
  <2> QED BY <2>3, <2>4
<1> HIDE DEF marks, marksAt, at
<1>4. ASSUME NEW d \in net
      PROVE  \/ M(d) = d
             \/ HomeCall(u, d) /\ HomeCall(u, M(d)) /\ IsCall(M(d)) /\ Simple(u, M(d).draft)
  <2>1. IsCall(d)
    BY DEF Inv, Shapes
  <2>2. CASE old /\ d.by = u /\ d.op = "home" /\ d.marksAt = c.marksAt
    <3> DEFINE e == [d EXCEPT !.marks = marks]
    <3>1. /\ DOMAIN e = CallFields /\ e.by = d.by /\ e.op = d.op /\ e.draft = d.draft
          /\ e.wanted = d.wanted /\ e.got = d.got
      BY <2>1 DEF IsCall, CallFields
    <3>2. M(d) = e
      BY <2>2
    <3> HIDE DEF e, M
    <3>3. IsCall(e)
      BY <2>1, <3>1 DEF IsCall
    <3>4. Simple(u, d.draft)
      BY <1>2, <2>2 DEF Plain, Of1
    <3> QED BY <2>2, <3>1, <3>2, <3>3, <3>4 DEF HomeCall
  <2>3. CASE ~(old /\ d.by = u /\ d.op = "home" /\ d.marksAt = c.marksAt)
    BY <2>3
  <2> QED BY <2>2, <2>3
<1>5. /\ \A d \in net' : \/ d \in net \ {c}
                         \/ /\ HomeCall(u, d) /\ IsCall(d) /\ Simple(u, d.draft)
                            /\ \E e \in net \ {c} : HomeCall(u, e)
      /\ \A d \in net : HomeCall(u, d) \/ d \in net'
  <2>1. \A d \in net' : \E e \in net \ {c} : d = M(e)
    BY <1>1
  <2>2. \A d \in net \ {c} : M(d) \in net'
    BY <1>1
  <2> HIDE DEF M
  <2>3. \A d \in net' : \/ d \in net \ {c}
                        \/ /\ HomeCall(u, d) /\ IsCall(d) /\ Simple(u, d.draft)
                           /\ \E e \in net \ {c} : HomeCall(u, e)
    BY <1>4, <2>1
  <2>4. \A d \in net : HomeCall(u, d) \/ d \in net'
    BY <1>2, <1>4, <2>2
  <2> QED BY <2>3, <2>4
<1>6. /\ DOMAIN q = PageFields /\ q.at = p.at /\ q.busy = p.busy /\ q.loaded = p.loaded /\ q.wanted = p.wanted
      /\ q.exists = c.exists /\ q.marks = marks
  BY <1>2 DEF IsPage, PageFields
<1>7. /\ DOMAIN q.draft = DraftFields /\ q.draft.homes = c.homes
      /\ \A f \in DraftFields \ {"homes"} : q.draft[f] = p.draft[f]
  BY <1>2 DEF IsPage, PageFields, DraftFields
<1> HIDE DEF q, M
<1>8. IsPage(q)
  BY <1>2, <1>6, <1>7 DEF IsPage
<1>9. /\ \A f \in {"name", "short"} : <<u, f>> \in excuse' \/ (f \in q.exists <=> f \in p.exists)
      /\ \A f : <<u, f>> \in excuse \/ (<<u, f>> \in excuse' => f \in {"name", "short"})
      /\ excuse \subseteq excuse' /\ \A v \in Users \ {u} : \A f : <<v, f>> \in excuse' => <<v, f>> \in excuse
  BY <1>1, <1>6, PutBack
<1>10. Listed(u, c, q)
  BY <1>1, <1>2, <1>3, <1>5, <1>6, <1>7, <1>8, <1>9 DEF Listed
<1> QED BY <1>2, <1>10, ListedKeeps

LEMMA HearHomesKeeps ==
  ASSUME Inv, NEW c \in net, HearHomes(c)
  PROVE  Inv'
<1> DEFINE u == c.by
           p == page[u]
           at == p.arrays + 1
           marksAt == IF c.marks = {} THEN 0 ELSE at
           q == [p EXCEPT !.draft.homes = c.homes, !.listAt = at, !.arrays = at, !.exists = c.exists,
                          !.marks = c.marks, !.marksAt = marksAt]
<1>1. /\ c.op = "homes" /\ c.status = "ok" /\ p.at \in {"open", "loading"} /\ page' = [page EXCEPT ![u] = q]
      /\ net' = net \ {c} /\ PutsBack(c) /\ scene' = scene /\ db' = db
  BY DEF HearHomes, Hears
<1>2. u \in Users /\ Of1(u) /\ IsPage(p) /\ HomeCall(u, c) /\ p.at = "open"
  BY <1>1, OpenFor DEF HomeCall, Arrivals
<1>3. Calm(u) /\ <<u, "marks">> \notin excuse => c.marks = TakenOf(u, c.homes)
  BY <1>1, HomeHeard
<1> HIDE DEF marksAt, at
<1>4. /\ \A d \in net' : d \in net \ {c}
      /\ \A d \in net : HomeCall(u, d) \/ d \in net'
  BY <1>1, <1>2
<1>5. /\ DOMAIN q = PageFields /\ q.at = p.at /\ q.busy = p.busy /\ q.loaded = p.loaded /\ q.wanted = p.wanted
      /\ q.exists = c.exists /\ q.marks = c.marks
  BY <1>2 DEF IsPage, PageFields
<1>6. /\ DOMAIN q.draft = DraftFields /\ q.draft.homes = c.homes
      /\ \A f \in DraftFields \ {"homes"} : q.draft[f] = p.draft[f]
  BY <1>2 DEF IsPage, PageFields, DraftFields
<1> HIDE DEF q
<1>7. IsPage(q)
  BY <1>2, <1>5, <1>6 DEF IsPage
<1>8. /\ \A f \in {"name", "short"} : <<u, f>> \in excuse' \/ (f \in q.exists <=> f \in p.exists)
      /\ \A f : <<u, f>> \in excuse \/ (<<u, f>> \in excuse' => f \in {"name", "short"})
      /\ excuse \subseteq excuse' /\ \A v \in Users \ {u} : \A f : <<v, f>> \in excuse' => <<v, f>> \in excuse
  BY <1>1, <1>5, PutBack
<1>9. Listed(u, c, q)
  BY <1>1, <1>2, <1>3, <1>4, <1>5, <1>6, <1>7, <1>8 DEF Listed
<1> QED BY <1>2, <1>9, ListedKeeps

LEMMA BrowserKeeps ==
  ASSUME Inv, NEW c \in net, Browser(c)
  PROVE  Inv'
<1>1. CASE HearCollaboration(c) \/ HearOrganisation(c) \/ HearInvitation(c) \/ HearGone(c)
  BY <1>1, HearCollaborationKeeps, HearOrganisationKeeps, HearInvitationKeeps, HearGoneKeeps
<1>2. CASE HearMine(c) \/ HearByHome(c) \/ HearHealth(c)
  BY <1>2, HearMineKeeps
<1>3. CASE HearExists(c) \/ HearHome(c) \/ HearHomes(c)
  BY <1>3, HearExistsKeeps, HearHomeKeeps, HearHomesKeeps
<1>4. CASE HearLogo(c) \/ HearNetwork(c) \/ HearDone(c) \/ HearUnhandled(c) \/ HearLate(c)
  BY <1>4, HearQuietlyKeeps, HearDoneKeeps, BeginsAnewKeeps, HearLateKeeps
<1> QED BY <1>1, <1>2, <1>3, <1>4 DEF Browser

-----------------------------------------------------------------------------
(* What a user does.                                                       *)
LEMMA ExcusedForOne ==
  ASSUME NEW u \in Users, Excused(u) \/ excuse' = excuse
  PROVE  \A v \in Users \ {u} : \A f : (<<v, f>> \in excuse' <=> <<v, f>> \in excuse)
BY DEF Excused

LEMMA QuietlyKeeps ==
  ASSUME Inv, NEW u \in Users, Quietly(u)
  PROVE  Inv'
<1>1. PICK q, S, F : Turn(u, q, S, F)
  BY DEF Quietly
<1>2. Of1(u)'
  BY <1>1, TurnKeeps DEF Inv
<1>3. \A v \in Users \ {u} : \A f : (<<v, f>> \in excuse' <=> <<v, f>> \in excuse)
  BY <1>1, ExcusedForOne DEF Turn
<1>4. \A d \in S : d.by = u /\ IsCall(d) /\ ~StoredNow(d)
  BY <1>1 DEF Turn, Asks, StoredNow
<1>5. AtForm(u, q)
  BY <1>1, <1>3, <1>4 DEF Turn, AtForm, Kept
<1> QED BY <1>2, <1>5, AtFormKeeps

LEMMA SubmittedKeeps ==
  ASSUME Inv, NEW u \in Users, NEW q, NEW c, Sent(u, q, c)
  PROVE  Inv'
<1>1. Of1(u)'
  BY SentKeeps DEF Inv
<1>2. \A v \in Users \ {u} : \A f : (<<v, f>> \in excuse' <=> <<v, f>> \in excuse)
  BY ExcusedForOne DEF Sent
<1>3. AtForm(u, q)
  BY <1>2 DEF Sent, AtForm, StoredNow
<1> QED BY <1>1, <1>3, AtFormKeeps

LEMMA HousingKeeps ==
  ASSUME Inv, NEW u \in Users, NEW q, Housed(u, q)
  PROVE  Inv'
<1>1. Of1(u)'
  BY HousedKeeps DEF Inv
<1>2. \A v \in Users \ {u} : \A f : (<<v, f>> \in excuse' <=> <<v, f>> \in excuse)
  BY ExcusedForOne DEF Housed
<1>3. /\ \A d \in net' : d \in net \/ (d.by = u /\ IsCall(d) /\ ~StoredNow(d))
      /\ \A d \in net : d.by = u \/ d \in net'
  BY DEF Housed, HomeCall, StoredNow
<1>4. AtForm(u, q)
  BY <1>2, <1>3 DEF Housed, AtForm
<1> QED BY <1>1, <1>4, AtFormKeeps

LEMMA OpeningKeeps ==
  ASSUME Inv, NEW u \in Users, Opening(u) \/ OpenServiceForm(u)
  PROVE  Inv'
<1> DEFINE q == page'[u]
<1>1. CASE Opening(u)
  <2>1. PICK op : Began(u, op)
    BY <1>1, OpeningBegins
  <2>2. Of1(u)' /\ IsPage(q)
    BY <2>1, BeganKeeps DEF Inv
  <2> DEFINE d == Call(u, op)
  <2>3. /\ page' = [page EXCEPT ![u].at = "loading"] /\ net' = net \union {d}
        /\ scene' = scene /\ db' = db /\ excuse' = excuse /\ op \in Arrivals
    BY <2>1 DEF Began
  <2>4. IsCall(d) /\ d.by = u /\ d.op = op
    BY CallFacts
  <2> HIDE DEF d
  <2>5. page' = [page EXCEPT ![u] = q]
    BY <2>3 DEF Inv, Shapes
  <2>6. AtForm(u, q)
    BY <2>2, <2>3, <2>4, <2>5 DEF AtForm, StoredNow, Arrivals
  <2> QED BY <2>2, <2>6, AtFormKeeps
<1>2. CASE OpenServiceForm(u)
  <2>1. UNCHANGED <<scene, db, net, excuse>>
    BY <1>2 DEF OpenServiceForm
  <2>2. Of1(u)' /\ IsPage(q)
    BY <1>2, ServiceFormArrives DEF Inv
  <2>3. page' = [page EXCEPT ![u] = q]
    BY <1>2 DEF OpenServiceForm, Inv, Shapes
  <2>4. AtForm(u, q)
    BY <2>1, <2>2, <2>3 DEF AtForm
  <2> QED BY <2>2, <2>4, AtFormKeeps
<1> QED BY <1>1, <1>2

LEMMA UserKeeps ==
  ASSUME Inv, NEW u \in Users, User(u)
  PROVE  Inv'
<1>1. Shapes /\ Of1(u)
  BY DEF Inv
<1>2. CASE SetsField(u) \/ SetsOther(u) \/ Names1(u) \/ ChooseOrganisation(u) \/ Answering(u)
  <2>1. Quietly(u)
    BY <1>1, <1>2, SetsFieldQuietly, SetsOtherQuietly, NamesQuietly, ChooseOrganisationQuietly, AnsweringQuietly
  <2> QED BY <2>1, QuietlyKeeps
<1>3. CASE AddHome(u) \/ RemoveHome(u)
  <2>1. \E q : Housed(u, q)
    BY <1>1, <1>3, AddHomeHouses, RemoveHomeHouses
  <2> QED BY <2>1, HousingKeeps
<1>4. CASE Submitting(u)
  BY <1>1, <1>4, SubmittingSends, QuietlyKeeps, SubmittedKeeps
<1>5. CASE Opening(u) \/ OpenServiceForm(u)
  BY <1>5, OpeningKeeps
<1> QED BY <1>2, <1>3, <1>4, <1>5 DEF User, SetsField, SetsOther, Names1, Answering, Submitting, Opening

-----------------------------------------------------------------------------
(* The start.                                                              *)
(* Nobody has the name with which a form is filled in.                     *)
LEMMA StartEntities ==
  ASSUME Init
  PROVE  /\ Entities /\ Rows /\ InOnce /\ db.invited = {} /\ db.requests = {} /\ \A id \in {1, 3, 6} : Exists(id)
         /\ \A e \in db.entities : /\ e.kind = "collaboration" /\ e.org = 1 => e.name # "d" /\ e.short # "d"
                                   /\ e.kind = "organisation" => e.name # "d" /\ e.short # "d"
                                   /\ e.kind = "service" => e.name # "d" /\ e.short # "d" /\ e.entity # "d"
<1> DEFINE b1 == Entity("organisation", 1, 0, "a")
           a1 == [b1 EXCEPT !.homes = scene.homes, !.creation = scene.creation]
           b2 == Entity("organisation", 2, 0, "b")
           a2 == [b2 EXCEPT !.homes = {"h3"}]
           b3 == Entity("collaboration", 3, 1, "a")
           a3 == [b3 EXCEPT !.joins = scene.joins]
           a4 == Entity("collaboration", 4, 2, "d")
           a5 == Entity("collaboration", 5, 1, "b")
           a6 == Entity("service", 6, 0, "a")
<1>1. /\ db = [entities |-> {a1, a2, a3, a4, a5, a6}, invited |-> {}, members |-> {}, requests |-> {}, made |-> 7]
      /\ net = {} /\ scene \in Scenes
  BY DEF Init, TheService
<1>2. "h3" \notin scene.homes
  BY <1>1, SceneAssumption
<1>3. /\ DOMAIN b1 = EntityFields /\ b1.kind = "organisation" /\ b1.id = 1 /\ b1.org = 0 /\ b1.name = "a" /\ b1.short = "a"
      /\ b1.entity = ""
  BY DEF Entity, EntityFields, Fields
<1>4. /\ DOMAIN b2 = EntityFields /\ b2.kind = "organisation" /\ b2.id = 2 /\ b2.org = 0 /\ b2.name = "b" /\ b2.short = "b"
      /\ b2.entity = ""
  BY DEF Entity, EntityFields, Fields
<1>5. /\ DOMAIN b3 = EntityFields /\ b3.kind = "collaboration" /\ b3.id = 3 /\ b3.org = 1 /\ b3.name = "a" /\ b3.short = "a"
      /\ b3.entity = "" /\ b3.homes = {} /\ b3.creation = FALSE
  BY DEF Entity, EntityFields, Fields
<1>6. /\ DOMAIN a4 = EntityFields /\ a4.kind = "collaboration" /\ a4.id = 4 /\ a4.org = 2 /\ a4.name = "d" /\ a4.short = "d"
      /\ a4.entity = "" /\ a4.homes = {} /\ a4.creation = FALSE
  BY DEF Entity, EntityFields, Fields
<1>7. /\ DOMAIN a5 = EntityFields /\ a5.kind = "collaboration" /\ a5.id = 5 /\ a5.org = 1 /\ a5.name = "b" /\ a5.short = "b"
      /\ a5.entity = "" /\ a5.homes = {} /\ a5.creation = FALSE
  BY DEF Entity, EntityFields, Fields
<1>8. /\ DOMAIN a6 = EntityFields /\ a6.kind = "service" /\ a6.id = 6 /\ a6.name = "a" /\ a6.short = "a"
      /\ a6.entity = "a" /\ a6.homes = {} /\ a6.creation = FALSE
  BY DEF Entity, EntityFields, Fields
<1> HIDE DEF b1, b2, b3, a4, a5, a6
<1>9. /\ DOMAIN a1 = EntityFields /\ a1.kind = "organisation" /\ a1.id = 1 /\ a1.name = "a" /\ a1.short = "a"
      /\ a1.entity = "" /\ a1.homes = scene.homes
  BY <1>3 DEF EntityFields, Fields
<1>10. /\ DOMAIN a2 = EntityFields /\ a2.kind = "organisation" /\ a2.id = 2 /\ a2.name = "b" /\ a2.short = "b"
       /\ a2.entity = "" /\ a2.homes = {"h3"}
  BY <1>4 DEF EntityFields, Fields
<1>11. /\ DOMAIN a3 = EntityFields /\ a3.kind = "collaboration" /\ a3.id = 3 /\ a3.org = 1 /\ a3.name = "a" /\ a3.short = "a"
       /\ a3.entity = "" /\ a3.homes = {} /\ a3.creation = FALSE
  BY <1>5 DEF EntityFields, Fields
<1> HIDE DEF a1, a2, a3
<1>12. /\ DOMAIN db = {"entities", "invited", "members", "requests", "made"} /\ db.made = 7
       /\ db.invited = {} /\ db.members = {} /\ db.requests = {} /\ db.entities = {a1, a2, a3, a4, a5, a6}
  BY <1>1
<1>13. \A e \in db.entities : e \in {a1, a2, a3, a4, a5, a6}
  BY <1>12
<1>14. \A e \in {a1, a2, a3, a4, a5, a6} : Proper(e)
  BY ZenonT(30), <1>6, <1>7, <1>8, <1>9, <1>10, <1>11 DEF Proper
<1>15. ASSUME NEW e \in {a1, a2, a3, a4, a5, a6}
       PROVE  e.id \in Nat \ {0} /\ e.id < 7 /\ (e.id \in {1, 3, 6} => e.kind = KindOf(e.id))
  <2>1. a1.id = 1 /\ a2.id = 2 /\ a3.id = 3 /\ a4.id = 4 /\ a5.id = 5 /\ a6.id = 6
    BY <1>6, <1>7, <1>8, <1>9, <1>10, <1>11
  <2>2. e.id = 1 \/ e.id = 2 \/ e.id = 3 \/ e.id = 4 \/ e.id = 5 \/ e.id = 6
    BY <2>1
  <2>3. e.id \in Nat \ {0} /\ e.id < 7
    BY <2>2
  <2>4. /\ e.id = 1 => e = a1
        /\ e.id = 3 => e = a3
        /\ e.id = 6 => e = a6
    BY <2>1
  <2>5. a1.kind = "organisation" /\ a3.kind = "collaboration" /\ a6.kind = "service"
    BY <1>8, <1>9, <1>11
  <2>6. KindOf(1) = "organisation" /\ KindOf(3) = "collaboration" /\ KindOf(6) = "service"
    BY DEF KindOf
  <2>7. e.id \in {1, 3, 6} => e.kind = KindOf(e.id)
    BY <2>4, <2>5, <2>6
  <2> QED BY <2>3, <2>7
<1>16. \A e, f \in {a1, a2, a3, a4, a5, a6} : e.id = f.id => e = f
  <2>1. a1.id = 1 /\ a2.id = 2 /\ a3.id = 3 /\ a4.id = 4 /\ a5.id = 5 /\ a6.id = 6
    BY <1>6, <1>7, <1>8, <1>9, <1>10, <1>11
  <2> QED BY <2>1
<1>17. ASSUME NEW e \in {a1, a2, a3, a4, a5, a6}, NEW f \in {a1, a2, a3, a4, a5, a6}, e # f
       PROVE  /\ e.homes \intersect f.homes = {}
              /\ e.kind = "collaboration" /\ f.kind = e.kind => e.org # f.org \/ e.short # f.short
  <2>1. e.homes = {} \/ e = a1 \/ e = a2
    BY <1>6, <1>7, <1>8, <1>11
  <2>2. f.homes = {} \/ f = a1 \/ f = a2
    BY <1>6, <1>7, <1>8, <1>11
  <2>3. a1.homes \intersect a2.homes = {} /\ a2.homes \intersect a1.homes = {}
    BY <1>2, <1>9, <1>10
  <2>4. e.homes \intersect f.homes = {}
    BY <1>17, <2>1, <2>2, <2>3
  <2>5. e.kind = "collaboration" => e \in {a3, a4, a5}
    BY <1>8, <1>9, <1>10
  <2>6. f.kind = "collaboration" => f \in {a3, a4, a5}
    BY <1>8, <1>9, <1>10
  <2>7. e.kind = "collaboration" /\ f.kind = e.kind => e.org # f.org \/ e.short # f.short
    <3>1. a3.org = 1 /\ a4.org = 2 /\ a5.org = 1 /\ a3.short = "a" /\ a5.short = "b"
      BY <1>6, <1>7, <1>11
    <3>2. SUFFICES ASSUME e \in {a3, a4, a5}, f \in {a3, a4, a5}  PROVE e.org # f.org \/ e.short # f.short
      BY <2>5, <2>6
    <3> QED BY <1>17, <3>1, <3>2
  <2> QED BY <2>4, <2>7
<1>18. Entities
  BY <1>12, <1>14, <1>15, <1>16, <1>17 DEF Entities
<1>19. Rows /\ InOnce
  BY <1>1, <1>12 DEF Rows, InOnce
<1>20. \A id \in {1, 3, 6} : Exists(id)
  <2>1. a1 \in db.entities /\ a3 \in db.entities /\ a6 \in db.entities
    BY <1>12
  <2> QED BY <1>8, <1>9, <1>11, <2>1 DEF Exists
<1>21. \A e \in db.entities : /\ e.kind = "collaboration" /\ e.org = 1 => e.name # "d" /\ e.short # "d"
                              /\ e.kind = "organisation" => e.name # "d" /\ e.short # "d"
                              /\ e.kind = "service" => e.name # "d" /\ e.short # "d" /\ e.entity # "d"
  <2> SUFFICES ASSUME NEW e \in {a1, a2, a3, a4, a5, a6}
               PROVE  /\ e.kind = "collaboration" /\ e.org = 1 => e.name # "d" /\ e.short # "d"
                      /\ e.kind = "organisation" => e.name # "d" /\ e.short # "d"
                      /\ e.kind = "service" => e.name # "d" /\ e.short # "d" /\ e.entity # "d"
    BY <1>13
  <2>1. CASE e = a4
    <3>1. a4.kind = "collaboration" /\ a4.org = 2
      BY <1>6
    <3> QED BY <2>1, <3>1
  <2>2. CASE e # a4
    <3>1. /\ a1.name = "a" /\ a2.name = "b" /\ a3.name = "a" /\ a5.name = "b" /\ a6.name = "a"
          /\ a1.short = "a" /\ a2.short = "b" /\ a3.short = "a" /\ a5.short = "b" /\ a6.short = "a"
          /\ a1.entity = "" /\ a2.entity = "" /\ a3.entity = "" /\ a5.entity = "" /\ a6.entity = "a"
      BY <1>7, <1>8, <1>9, <1>10, <1>11
    <3> QED BY <2>2, <3>1
  <2> QED BY <2>1, <2>2
<1> QED BY <1>12, <1>18, <1>19, <1>20, <1>21

LEMMA FilledShown ==
  ASSUME NEW u, ~Edits(u), NEW p, IsPage(p), p.at = "open", p.loaded = Nothing, p.exists = {}, p.marks = {},
         \A f \in DraftFields \ {"org", "self", "nets"} : p.draft[f] = Fresh[f],
         scene.form[u] # "service" => p.draft.nets = << >>, p.draft.self => scene.form[u] = "collaboration",
         \A f \in NamesOf(scene.form[u]) : ~Taken(Kind(u), p.draft.org, f, "d", "")
  PROVE  Shown(u, FilledIn(p))
<1> DEFINE x == IF p.draft.nets = << >> THEN "" ELSE "d"
           d == [p.draft EXCEPT !.logo = "own", !.text = "good", !.uri = "good", !.mail = "good",
                   !.name = "d", !.short = "d", !.complied = TRUE, !.message = "good", !.entity = x]
           w == Of(d)
           q == [p EXCEPT !.draft = d, !.wanted = w]
<1>1. FilledIn(p) = q
  BY DEF FilledIn
<1>2. x \in {"", "d"} /\ (scene.form[u] # "service" => x = "")
  OBVIOUS
<1> HIDE DEF x
<1>3. DOMAIN p.draft = DraftFields
  BY DEF IsPage
<1>4. /\ DOMAIN d = DraftFields /\ d.name = "d" /\ d.short = "d" /\ d.entity = x
      /\ d.org = p.draft.org /\ d.self = p.draft.self
      /\ \A f \in {"homes", "creation", "expires", "ends"} : d[f] = p.draft[f]
  BY <1>3 DEF DraftFields
<1>5. d.homes = Fresh.homes /\ d.creation = Fresh.creation /\ d.expires = Fresh.expires /\ d.ends = Fresh.ends
  <2>1. /\ p.draft.homes = Fresh.homes /\ p.draft.creation = Fresh.creation
        /\ p.draft.expires = Fresh.expires /\ p.draft.ends = Fresh.ends
    BY DEF DraftFields
  <2>2. d.homes = p.draft.homes /\ d.creation = p.draft.creation /\ d.expires = p.draft.expires /\ d.ends = p.draft.ends
    BY <1>4
  <2> QED BY <2>1, <2>2
<1>6. DOMAIN w = Fields /\ \A f \in Fields : w[f] = d[f]
  BY OfFacts
<1> HIDE DEF d, w
<1>7. /\ DOMAIN q = PageFields /\ q.at = "open" /\ q.draft = d /\ q.wanted = w /\ q.loaded = p.loaded
      /\ q.exists = {} /\ q.marks = {}
  BY DEF IsPage, PageFields
<1> HIDE DEF q
<1>8. IsPage(q)
  BY <1>4, <1>6, <1>7 DEF IsPage
<1>9. Agree(u, d, w)
  BY <1>6 DEF Agree
<1>10. d.homes = {} /\ d.creation = FALSE /\ d.expires \in Nat /\ d.ends = 0 /\ w.homes = {}
  <2>1. w.homes = d.homes
    BY <1>6 DEF Fields
  <2> QED BY <1>5, <2>1, FreshFacts
<1>11. Simple(u, d)
  <2>1. d.self => scene.form[u] = "collaboration"
    BY <1>4
  <2>2. scene.form[u] # "service" => d.entity = ""
    BY <1>2, <1>4
  <2>3. d.ends = 0
    BY <1>10
  <2>4. d.ends \in Nat
    BY <1>5, FreshIsPlain DEF Simple
  <2>5. d.ends # 0 => d.ends > d.expires
    BY <2>3
  <2> QED BY <1>10, <2>1, <2>2, <2>4, <2>5 DEF Simple
<1>12. ASSUME NEW f \in NamesOf(scene.form[u])
       PROVE  q.draft[f] = q.loaded[f] \/ ~Taken(Kind(u), q.draft.org, f, q.draft[f], q.loaded[f])
  <2>1. f \in AllNames
    BY NamesFacts DEF AllNames
  <2>2. q.loaded[f] = ""
    BY <1>7, <2>1, NamesOfFresh
  <2>3. q.draft[f] \in {"", "d"}
    BY <1>2, <1>4, <1>7, <2>1 DEF AllNames
  <2>4. ~Taken(Kind(u), q.draft.org, f, "d", "")
    BY <1>4, <1>7
  <2> QED BY <2>2, <2>3, <2>4
<1> QED BY <1>1, <1>7, <1>8, <1>9, <1>10, <1>11, <1>12 DEF Shown

LEMMA StartsShown ==
  ASSUME Init, NEW u \in Users
  PROVE  Shown(u, Opened(u, scene.form[u]))
<1> DEFINE p == Empty(u)
           form == scene.form[u]
<1>1. /\ IsPage(p) /\ p.at = "closed" /\ p.draft = Fresh /\ p.wanted = Of(Fresh)
      /\ p.loaded = Nothing /\ p.exists = {} /\ p.marks = {}
  BY EmptyFacts
<1>2. /\ Entities /\ \A id \in {1, 3, 6} : Exists(id)
      /\ \A e \in db.entities : /\ e.kind = "collaboration" /\ e.org = 1 => e.name # "d" /\ e.short # "d"
                                /\ e.kind = "organisation" => e.name # "d" /\ e.short # "d"
                                /\ e.kind = "service" => e.name # "d" /\ e.short # "d" /\ e.entity # "d"
  BY StartEntities
<1>3. form \in Forms
  BY SceneAssumption DEF Init
<1>4. ASSUME NEW id \in {1, 3, 6}
      PROVE  /\ Find(id) \in db.entities /\ Find(id).id = id /\ Proper(Find(id))
             /\ DOMAIN Find(id) = EntityFields /\ Find(id).kind = KindOf(id)
  <2>1. Find(id) \in db.entities /\ Find(id).id = id
    BY <1>2, FindFacts
  <2>2. Proper(Find(id)) /\ Find(id).kind = KindOf(id)
    BY <1>2, <2>1 DEF Entities
  <2> QED BY <2>1, <2>2 DEF Proper
<1> HIDE DEF p
<1>5. CASE form = "collaboration" /\ Mode(u) = "edit"
  <2>1. Opened(u, form) = LoadedCollaboration(p, Find(3))
    BY <1>5 DEF Opened, p
  <2>2. Edits(u) /\ Target(u) = 3 /\ KindOf(3) = "collaboration"
    BY <1>5 DEF Edits, Target, KindOf
  <2> DEFINE e == Find(3)
  <2>3. Proper(e) /\ e.id = 3 /\ e.kind = "collaboration"
    BY <1>4, <2>2
  <2> HIDE DEF e
  <2>4. Shown(u, LoadedCollaboration(p, e))
    BY <1>1, <1>5, <2>2, <2>3, CollaborationShown
  <2> QED BY <2>1, <2>4 DEF e
<1>6. CASE form = "organisation" /\ Mode(u) = "edit"
  <2>1. Opened(u, form) = LoadedOrganisation(p, Find(1))
    BY <1>6 DEF Opened, p
  <2>2. Edits(u) /\ Target(u) = 1 /\ KindOf(1) = "organisation"
    BY <1>6 DEF Edits, Target, KindOf
  <2> DEFINE e == Find(1)
  <2>3. Proper(e) /\ e.id = 1 /\ e.kind = "organisation" /\ e \in db.entities
    BY <1>4, <2>2
  <2> HIDE DEF e
  <2>4. \A h \in e.homes : ~HomeTaken(h, e.id)
    BY <1>2, <2>3 DEF Entities, HomeTaken
  <2>5. <<u, "marks">> \in excuse \/ \A h \in e.homes : ~HomeTaken(h, e.id)
    BY <2>4
  <2>6. e.id \in 0 .. 6 /\ e.id = Target(u)
    BY <2>2, <2>3
  <2>7. Shown(u, LoadedOrganisation(p, e))
    BY <1>1, <1>6, <2>2, <2>3, <2>5, <2>6, OrganisationShown
  <2> QED BY <2>1, <2>7 DEF e
<1>7. CASE form \in Inviting
  <2>1. Opened(u, form) = Invitation(p, Find(Target(u)))
    BY <1>7 DEF Opened, p, Inviting
  <2>2. Target(u) \in {1, 3, 6} /\ Target(u) \in 0 .. 6
    BY TargetFacts
  <2> DEFINE e == Find(Target(u))
  <2>3. DOMAIN e = EntityFields /\ e.id \in 0 .. 6
    BY <1>4, <2>2
  <2> HIDE DEF e
  <2>4. Shown(u, Invitation(p, e))
    BY <1>1, <1>2, <1>7, <2>3, InvitationShown
  <2> QED BY <2>1, <2>4 DEF e
<1>8. CASE form = "service"
  <2> DEFINE q == NewService(p)
  <2>1. Opened(u, form) = FilledIn(q)
    BY <1>8 DEF Opened, p
  <2>2. /\ IsPage(q) /\ q.at = "open" /\ q.loaded = p.loaded /\ q.exists = p.exists /\ q.marks = p.marks
        /\ \A f \in DraftFields \ {"nets"} : q.draft[f] = p.draft[f]
    BY <1>1, NewServiceFacts
  <2> HIDE DEF q
  <2>3. q.draft.self = Fresh.self /\ ~Fresh.self
    BY <1>1, <2>2, FreshFacts DEF DraftFields
  <2>4. ~Edits(u) /\ Kind(u) = "service" /\ NamesOf(form) = {"name", "entity", "short"}
    BY <1>8 DEF Edits, Kind, Inviting, NamesOf
  <2>5. \A f \in NamesOf(form) : ~Taken(Kind(u), q.draft.org, f, "d", "")
    BY <1>2, <2>4 DEF Taken
  <2>6. Shown(u, FilledIn(q))
    BY <1>1, <1>8, <2>2, <2>3, <2>4, <2>5, FilledShown
  <2> QED BY <2>1, <2>6
<1>9. CASE form = "organisation" /\ Mode(u) = "new"
  <2> DEFINE q == [p EXCEPT !.at = "open"]
  <2>1. Opened(u, form) = FilledIn(q)
    BY <1>9 DEF Opened, p
  <2>2. /\ DOMAIN q = PageFields /\ q.at = "open" /\ q.loaded = p.loaded /\ q.exists = p.exists /\ q.marks = p.marks
        /\ q.draft = p.draft /\ q.wanted = p.wanted
    BY <1>1 DEF IsPage, PageFields
  <2> HIDE DEF q
  <2>3. q.draft = Fresh /\ ~Fresh.self /\ Fresh.nets = << >> /\ IsPage(q)
    BY <1>1, <2>2, FreshFacts DEF IsPage, Fresh
  <2>4. ~Edits(u) /\ Kind(u) = "organisation" /\ NamesOf(form) = {"name", "short"}
    BY <1>9 DEF Edits, Kind, Inviting, NamesOf
  <2>5. \A f \in NamesOf(form) : ~Taken(Kind(u), q.draft.org, f, "d", "")
    BY <1>2, <2>4 DEF Taken
  <2>6. Shown(u, FilledIn(q))
    BY <1>1, <2>2, <2>3, <2>4, <2>5, FilledShown
  <2> QED BY <2>1, <2>6
<1>10. CASE form = "collaboration" /\ Mode(u) # "edit"
  <2>1. PICK orgs, request : Opened(u, form) = FilledIn(OfOrganisations(p, orgs, 1, request))
    BY <1>10 DEF Opened, p, Mode
  <2> DEFINE q == [p EXCEPT !.at = "open", !.orgs = orgs, !.draft.org = 1, !.draft.self = request]
  <2>2. Opened(u, form) = FilledIn(q)
    BY <2>1 DEF OfOrganisations
  <2>3. /\ DOMAIN q = PageFields /\ q.at = "open" /\ q.loaded = p.loaded /\ q.exists = p.exists /\ q.marks = p.marks
        /\ q.wanted = p.wanted
    BY <1>1 DEF IsPage, PageFields
  <2>4. /\ DOMAIN q.draft = DraftFields /\ q.draft.org = 1
        /\ \A f \in DraftFields \ {"org", "self"} : q.draft[f] = Fresh[f]
    BY <1>1 DEF IsPage, PageFields, DraftFields
  <2> HIDE DEF q
  <2>5. IsPage(q)
    BY <1>1, <2>3, <2>4 DEF IsPage
  <2>6. q.draft.nets = << >>
    BY <2>4 DEF DraftFields, Fresh
  <2>7. ~Edits(u) /\ Kind(u) = "collaboration" /\ NamesOf(form) = {"name", "short"}
    BY <1>10 DEF Edits, Kind, Inviting, NamesOf
  <2>8. \A f \in NamesOf(form) : ~Taken(Kind(u), q.draft.org, f, "d", "")
    BY <1>2, <2>4, <2>7 DEF Taken
  <2>9. Shown(u, FilledIn(q))
    BY <1>1, <1>10, <2>3, <2>4, <2>5, <2>6, <2>7, <2>8, FilledShown
  <2> QED BY <2>2, <2>9
<1>11. form = "organisation" => Mode(u) \in {"edit", "new"}
  BY DEF Mode
<1> QED BY <1>3, <1>5, <1>6, <1>7, <1>8, <1>9, <1>10, <1>11 DEF Forms

LEMMA StartInv == Init => Inv
<1> SUFFICES ASSUME Init  PROVE Inv
  OBVIOUS
<1>1. Entities /\ Rows /\ InOnce /\ db.invited = {} /\ db.requests = {}
  BY StartEntities
<1>2. /\ net = {} /\ excuse = {} /\ scene \in Scenes
      /\ page = [u \in Users |-> IF u \in scene.filled THEN Opened(u, scene.form[u]) ELSE Empty(u)]
  BY DEF Init
<1>3. ASSUME NEW u \in Users
      PROVE  IsPage(page[u]) /\ Of1(u)
  <2>1. CASE u \in scene.filled
    <3>1. Shown(u, page[u])
      BY <1>2, <2>1, StartsShown
    <3>2. Arrived(u)
      BY <1>1, <1>2, <3>1 DEF Arrived, Silent
    <3> QED BY <3>1, <3>2, ArrivedIsWell DEF Shown
  <2>2. CASE u \notin scene.filled
    <3>1. page[u] = Empty(u)
      BY <1>2, <2>2
    <3>2. IsPage(page[u]) /\ page[u].at = "closed" /\ page[u].draft = Fresh /\ page[u].wanted = Of(Fresh)
      BY <3>1, EmptyFacts
    <3>3. page[u] = [Empty(u) EXCEPT !.at = page[u].at]
      BY <3>1 DEF Empty
    <3>4. Early(u)
      BY <1>2, <3>2, <3>3 DEF Early
    <3>5. Typed(u) /\ Plain(u)
      BY <1>2, <3>2, FreshIsPlain DEF Typed, Plain
    <3>6. Once(u) /\ Homely(u)
      BY <1>1, <1>2, <3>2 DEF Once, Homely
    <3>7. Verdicts(u) /\ Marked(u)
      BY <3>2 DEF Verdicts, Marked, Calm
    <3> QED BY <3>2, <3>4, <3>5, <3>6, <3>7 DEF Of1
  <2> QED BY <2>1, <2>2
<1>4. Shapes
  BY <1>2, <1>3 DEF Shapes
<1> QED BY <1>1, <1>3, <1>4 DEF Inv

-----------------------------------------------------------------------------
(* The invariant, and what follows from it.                                *)
LEMMA NextKeeps == Inv /\ [Next]_vars => Inv'
<1>1. ASSUME Inv, Next  PROVE Inv'
  <2>1. CASE \E u \in Users : User(u)
    BY <1>1, <2>1, UserKeeps
  <2>2. CASE \E c \in net : Server(c) \/ Browser(c)
    BY <1>1, <2>2, ServerKeeps, BrowserKeeps
  <2> QED BY <1>1, <2>1, <2>2 DEF Next
<1>2. ASSUME Inv, UNCHANGED vars  PROVE Inv'
  <2>1. scene' = scene /\ db' = db /\ net' = net /\ page' = page /\ excuse' = excuse
    BY <1>2 DEF vars
  <2>2. Shapes' /\ Entities' /\ InOnce'
    BY <1>2, <2>1 DEF Inv, Shapes, Entities, InOnce
  <2>3. Rows'
    BY <1>2, <2>1 DEF Inv, Rows, StoredNow
  <2>4. ASSUME NEW u \in Users  PROVE Of1(u)'
    <3>1. Of1(u)
      BY <1>2 DEF Inv
    <3>2. Early(u)'
      BY <2>1, <3>1 DEF Of1, Early, Edits, Mode, Target, Empty
    <3>3. Typed(u)' /\ Plain(u)'
      BY <2>1, <3>1 DEF Of1, Edits, Mode, Typed, Agree, Plain, Simple
    <3>4. Once(u)' /\ Homely(u)'
      BY <2>1, <3>1 DEF Of1, Once, Spent, Homely, HomeCall
    <3>5. Verdicts(u)' /\ Marked(u)'
      BY <2>1, <3>1 DEF Of1, Verdicts, Calm, Asked, Right, Kind, Taken, Marked, TakenOf, HomeCall, HomeTaken
    <3> QED BY <3>2, <3>3, <3>4, <3>5 DEF Of1
  <2> QED BY <2>2, <2>3, <2>4 DEF Inv
<1> QED BY <1>1, <1>2

(* What is said of the rows and of each form holds throughout.             *)
THEOREM InvHolds == Spec => []Inv
BY StartInv, NextKeeps, PTL DEF Spec

(* A form at rest marks the names and homes that others have, and no       *)
(* others: however the answers of the checks and the commits of others   *)
(* have been interleaved, but for those the history excuses.               *)
THEOREM VerdictsHold == Spec => []VerdictsMatch
<1>1. Inv => VerdictsMatch
  <2> SUFFICES ASSUME Inv, NEW u \in Users, AtRest(u)
               PROVE  /\ \A f \in NamesOf(scene.form[u]) : <<u, f>> \in excuse \/ Right(u, f)
                      /\ \/ <<u, "marks">> \in excuse
                         \/ page[u].marks = TakenOf(u, page[u].draft.homes)
    BY DEF VerdictsMatch, Right, TakenOf
  <2>1. Calm(u) /\ (\A f : ~Asked(u, f)) /\ \A c \in net : ~HomeCall(u, c)
    BY DEF AtRest, Calm, Asked, HomeCall
  <2>2. Verdicts(u) /\ Marked(u)
    BY DEF Inv, Of1
  <2> QED BY <2>1, <2>2 DEF Verdicts, Marked
<1> QED BY <1>1, InvHolds, PTL

(* No form lets anybody in twice, and no two collaborations of an          *)
(* organisation share a short name, no two organisations a home.           *)
THEOREM OnceHolds == Spec => []ComesInOnce
<1>1. Inv => ComesInOnce
  <2> SUFFICES ASSUME Inv  PROVE ComesInOnce
    OBVIOUS
  <2>1. Entities /\ InOnce /\ Rows
    BY DEF Inv
  <2>2. \A e, f \in db.entities : e # f =>
          /\ e.homes \intersect f.homes = {}
          /\ e.kind = "collaboration" /\ f.kind = e.kind => e.org # f.org \/ e.short # f.short
    BY <2>1 DEF Entities
  <2>3. /\ \A i, j \in db.invited : i.by = j.by /\ i.who = j.who => i = j
        /\ \A r, q \in db.requests : r.by = q.by => r = q
    BY <2>1 DEF InOnce
  <2>4. \A i \in db.invited, m \in db.members : i.of = m.of => i.who # "own"
    BY <2>1 DEF Rows
  <2> QED BY <2>2, <2>3, <2>4 DEF ComesInOnce
<1> QED BY <1>1, InvHolds, PTL

(* A membership ends after the last day its invitation can be accepted,    *)
(* in whatever order the two dates were set.                               *)
THEOREM DatesHold == Spec => []EndsAfterInvitation
<1>1. Inv => EndsAfterInvitation
  BY DEF Inv, Rows, EndsAfterInvitation
<1> QED BY <1>1, InvHolds, PTL

-----------------------------------------------------------------------------
(* What a step adds to what there is.                                      *)
LEMMA UserLeavesEntities ==
  ASSUME Inv, NEW u \in Users, User(u)
  PROVE  db' = db
<1>1. Shapes /\ Of1(u)
  BY DEF Inv
<1>2. CASE SetsField(u) \/ SetsOther(u) \/ Names1(u) \/ ChooseOrganisation(u) \/ Answering(u)
  <2>1. Quietly(u)
    BY <1>1, <1>2, SetsFieldQuietly, SetsOtherQuietly, NamesQuietly, ChooseOrganisationQuietly, AnsweringQuietly
  <2> QED BY <2>1 DEF Quietly, Turn
<1>3. CASE AddHome(u) \/ RemoveHome(u)
  <2>1. \E q : Housed(u, q)
    BY <1>1, <1>3, AddHomeHouses, RemoveHomeHouses
  <2> QED BY <2>1 DEF Housed
<1>4. CASE Submitting(u)
  BY <1>1, <1>4, SubmittingSends DEF Quietly, Turn, Sent
<1>5. CASE Opening(u)
  BY <1>5, OpeningBegins DEF Began
<1>6. CASE OpenServiceForm(u)
  BY <1>6 DEF OpenServiceForm
<1> QED BY <1>2, <1>3, <1>4, <1>5, <1>6 DEF User, SetsField, SetsOther, Names1, Answering, Submitting, Opening

LEMMA BrowserLeavesEntities ==
  ASSUME NEW c, Browser(c)
  PROVE  db' = db
BY DEF Browser, Hears, HearCollaboration, HearOrganisation, HearInvitation, HearGone, HearMine, HearByHome,
       HearHealth, HearExists, HearHome, HearHomes, HearLogo, HearNetwork, HearDone, HearUnhandled, HearLate

(* All that is new is what one of three handlers has written.              *)
Writes(c) == CommitCreate(c) \/ ServeRequest(c) \/ CommitUpdate(c)
LEMMA ServerAdds ==
  ASSUME Inv, NEW c \in net, Server(c), ~Writes(c)
  PROVE  db'.entities \subseteq db.entities
<1>1. Shapes /\ Entities /\ Of1(c.by) /\ DOMAIN db = {"entities", "invited", "members", "requests", "made"}
  BY DEF Inv, Shapes, Entities
<1>2. CASE Reading(c) \/ Checking(c) \/ Beginning(c)
  BY <1>1, <1>2, ReadingServed, CheckingServed, BeginningServed DEF Served
<1>3. CASE FinishCreate(c) \/ ServeInvite(c)
  <2>1. db' = db \/ \E v, w : db' = [db EXCEPT !.invited = v, !.members = w] \/ db' = [db EXCEPT !.invited = v]
    BY <1>3 DEF FinishCreate, ServeInvite, Fails
  <2> QED BY <1>1, <2>1
<1>4. CASE ServeDelete(c)
  <2>1. db' = db \/ \E v, w : v \subseteq db.entities /\ db' = [db EXCEPT !.entities = v, !.invited = w]
    BY <1>4 DEF ServeDelete, Fails
  <2> QED BY <1>1, <2>1
<1> QED BY <1>2, <1>3, <1>4 DEF Server, Writes, Reading, Checking, Beginning

(* A row that a call has written is what was typed, if none but it was     *)
(* written since it was read.                                              *)
Untyped(e) == IF Exists(e.id) THEN "joins" ELSE "creation"
Overtaken(c, e) == Exists(e.id) /\ Of(Find(e.id)) # Of(c.got)
AsTyped(c, e) ==
  \A f \in Fields \ {Untyped(e)} :
    e[f] = c.wanted[f] \/ Overtaken(c, e) \/ (f = "homes" /\ <<c.by, f>> \in excuse)

LEMMA MadeAsTyped ==
  ASSUME Inv, NEW c \in net, c.op \in {"create", "request"}, NEW kind, NEW org
  PROVE  AsTyped(c, Stored(kind, db.made, org, c.draft))
<1> DEFINE e == Stored(kind, db.made, org, c.draft)
<1>1. c.by \in Users /\ Typed(c.by) /\ Entities
  BY DEF Inv, Shapes, Of1
<1>2. /\ Agree(c.by, c.draft, c.wanted) /\ ~Edits(c.by)
      /\ <<c.by, "homes">> \in excuse \/ c.draft.homes = c.wanted.homes
  BY <1>1 DEF Typed
<1>3. e.id = db.made /\ \A f \in Fields : e[f] = c.draft[f]
  BY StoredFacts
<1> HIDE DEF e
<1>4. ~Exists(e.id)
  BY <1>1, <1>3, LaterRow DEF Entities, Exists
<1>5. \A f \in Fields \ {"homes", "creation"} : e[f] = c.wanted[f]
  BY <1>2, <1>3 DEF Agree
<1>6. e.homes = c.draft.homes
  BY <1>3 DEF Fields
<1> QED BY <1>2, <1>4, <1>5, <1>6 DEF AsTyped, Untyped, e

LEMMA WrittenAsTyped ==
  ASSUME Inv, NEW c \in net, c.op = "update", c.status = "begun", Exists(c.got.id)
  PROVE  AsTyped(c, Written(Find(c.got.id), c))
<1> DEFINE e == Find(c.got.id)
           f == Written(e, c)
<1>1. c.by \in Users /\ Typed(c.by) /\ Early(c.by) /\ Simple(c.by, c.draft) /\ Entities
  BY DEF Inv, Shapes, Of1, Plain
<1>2. /\ Agree(c.by, c.draft, c.wanted) /\ Edits(c.by) /\ c.got.id = Target(c.by)
      /\ <<c.by, "homes">> \in excuse \/ c.draft.homes = c.wanted.homes
  BY <1>1 DEF Typed, Early
<1>3. e \in db.entities /\ e.id = c.got.id /\ Proper(e)
  BY <1>1, FindFacts
<1>4. /\ f.id = e.id /\ f.entity = e.entity
      /\ \A g \in Fields \ {"homes", "entity"} : f[g] = IF c.draft[g] = c.got[g] THEN e[g] ELSE c.draft[g]
      /\ f.homes = (e.homes \ (c.got.homes \ c.draft.homes)) \union c.draft.homes
  <2>1. DOMAIN e = EntityFields
    BY <1>3 DEF Proper
  <2> HIDE DEF e
  <2>2. /\ f.id = e.id /\ f.entity = e.entity
        /\ f.homes = (e.homes \ (c.got.homes \ c.draft.homes)) \union c.draft.homes
    BY <2>1, WrittenFacts
  <2>3. \A g \in Fields \ {"homes", "entity"} : f[g] = IF c.draft[g] = c.got[g] THEN e[g] ELSE c.draft[g]
    BY <2>1 DEF Written, EntityFields, Fields
  <2> QED BY <2>2, <2>3
<1>5. e.entity = "" /\ c.draft.entity = ""
  <2>1. scene.form[c.by] # "service"
    BY <1>2 DEF Edits
  <2>2. e.kind = scene.form[c.by]
    BY <1>1, <1>2, <1>3, TargetFacts DEF Entities
  <2> QED BY <1>1, <1>3, <2>1, <2>2 DEF Proper, Simple
<1>6. Find(f.id) = e /\ Exists(f.id)
  BY <1>3, <1>4
<1> HIDE DEF e, f
<1>7. \A g \in Fields \ {"homes", "joins"} : c.draft[g] = c.wanted[g]
  BY <1>2 DEF Agree
<1>8. ASSUME Of(e) = Of(c.got)  PROVE AsTyped(c, f)
  <2>1. \A g \in Fields : e[g] = c.got[g]
    BY <1>8, OfFacts
  <2>2. ASSUME NEW g \in Fields \ {"homes", "joins"}  PROVE f[g] = c.wanted[g]
    <3>1. CASE g = "entity"
      BY <1>4, <1>5, <1>7, <2>2, <3>1
    <3>2. CASE g # "entity"
      BY <1>4, <1>7, <2>1, <2>2, <3>2
    <3> QED BY <3>1, <3>2
  <2>3. f.homes = c.draft.homes
    BY <1>4, <2>1 DEF Fields
  <2>4. Untyped(f) = "joins"
    BY <1>6 DEF Untyped
  <2> QED BY <1>2, <2>2, <2>3, <2>4 DEF AsTyped
<1>9. ASSUME Of(e) # Of(c.got)  PROVE AsTyped(c, f)
  BY <1>6, <1>9 DEF AsTyped, Overtaken
<1> QED BY <1>8, <1>9 DEF e, f

(* The call that leaves the net while rows appear is the one that wrote    *)
(* them.                                                                   *)
LEMMA WritesAsTyped ==
  ASSUME Inv, NEW c \in net, Writes(c), NEW d \in net, d \notin net', NEW e \in db'.entities, e \notin db.entities
  PROVE  AsTyped(d, e)
<1>1. Entities /\ DOMAIN db = {"entities", "invited", "members", "requests", "made"}
  BY DEF Inv, Entities
<1>2. db' # db
  OBVIOUS
<1>3. CASE CommitCreate(c)
  <2> DEFINE n == Stored(Kind(c.by), db.made, c.draft.org, c.draft)
  <2>1. /\ c.op = "create" /\ db' = [db EXCEPT !.made = @ + 1, !.entities = @ \union {n}]
        /\ \E a : net' = (net \ {c}) \union {a}
    BY <1>2, <1>3 DEF CommitCreate, Halfway, Fails, Answers
  <2> HIDE DEF n
  <2>2. d = c /\ e = n
    BY <1>1, <2>1
  <2> QED BY <2>1, <2>2, MadeAsTyped DEF n
<1>4. CASE ServeRequest(c)
  <2> DEFINE n == Stored("collaboration", db.made, c.draft.org, c.draft)
  <2>1. /\ c.op = "request" /\ \E a : net' = (net \ {c}) \union {a}
        /\ \/ \E v : db' = [db EXCEPT !.requests = v]
           \/ \E v : db' = [db EXCEPT !.made = @ + 1, !.members = v, !.entities = @ \union {n}]
    BY <1>2, <1>4 DEF ServeRequest, Serves, Fails, Answers, Tells, Ok
  <2> HIDE DEF n
  <2>2. d = c
    BY <2>1
  <2>3. ASSUME NEW v, db' = [db EXCEPT !.made = @ + 1, !.members = v, !.entities = @ \union {n}]
        PROVE  e = n
    BY <1>1, <2>3
  <2>4. ASSUME NEW v, db' = [db EXCEPT !.requests = v]
        PROVE  FALSE
    BY <1>1, <2>4
  <2>5. e = n
    BY <2>1, <2>3, <2>4
  <2> QED BY <2>1, <2>2, <2>5, MadeAsTyped DEF n
<1>5. CASE CommitUpdate(c)
  <2> DEFINE k == Find(c.got.id)
             n == Written(k, c)
  <2>1. /\ c.op = "update" /\ c.status = "begun" /\ Exists(c.got.id)
        /\ db' = [db EXCEPT !.entities = (@ \ {k}) \union {n}] /\ \E a : net' = (net \ {c}) \union {a}
    BY <1>2, <1>5 DEF CommitUpdate, Halfway, Fails, Answers, Ok
  <2> HIDE DEF n, k
  <2>2. d = c /\ e = n
    BY <1>1, <2>1
  <2> QED BY <2>1, <2>2, WrittenAsTyped DEF n, k
<1> QED BY <1>3, <1>4, <1>5 DEF Writes

(* What a form makes or changes is what its user typed and, for the rest,  *)
(* what was read for it: unless another change was committed within the    *)
(* handler, or homes were asked about at once.                             *)
THEOREM SavesHolds == Spec => SavesWhatWasTyped
<1>1. ASSUME Inv, [Next]_vars, NEW c \in net, NEW e \in db'.entities \ db.entities, c \notin net'
      PROVE  AsTyped(c, e)
  <2>1. Next
    BY <1>1 DEF vars
  <2>2. CASE \E u \in Users : User(u)
    BY <1>1, <2>2, UserLeavesEntities
  <2>3. ASSUME NEW d \in net, Server(d) \/ Browser(d)  PROVE AsTyped(c, e)
    BY <1>1, <2>3, BrowserLeavesEntities, ServerAdds, WritesAsTyped
  <2> QED BY <2>1, <2>2, <2>3 DEF Next
<1>2. Inv /\ [Next]_vars =>
        [\A c \in net : \A e \in db'.entities \ db.entities :
           LET known == Exists(e.id)
               others == known /\ Of(Find(e.id)) # Of(c.got)
           IN c \notin net' =>
                \A f \in Fields \ {IF known THEN "joins" ELSE "creation"} :
                  e[f] = c.wanted[f] \/ others \/ (f = "homes" /\ <<c.by, f>> \in excuse)]_vars
  BY <1>1 DEF AsTyped, Untyped, Overtaken
<1> QED BY <1>2, InvHolds, PTL DEF Spec, SavesWhatWasTyped
===============================================================================
