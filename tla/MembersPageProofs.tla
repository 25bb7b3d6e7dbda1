------------------------- MODULE MembersPageProofs --------------------------
(***************************************************************************)
(* MembersPage for any users, invitations, scenes and numbers of browsers. *)
(***************************************************************************)
EXTENDS MembersPage, FiniteSetTheorems, TLAPS

-----------------------------------------------------------------------------
(* The types of the variables.                                             *)
Dialogs == [op : {"none", "gone", "refused", "removeSelected", "removeOne", "role", "expiry", "resend"},
            rows : SUBSET Rows, role : {"admin", "member"}, warned : BOOLEAN, raced : BOOLEAN]
Calls == [by : Actors \union Invites, job : Nat, op : {"delete", "role", "expiry", "resend", "accept"},
          rows : SUBSET Rows, role : {"admin", "member"}, warned : BOOLEAN, raced : BOOLEAN,
          silent : BOOLEAN, phase : {"sent", "told", "ok", "failed", "thrown"}, heard : BOOLEAN]
Fetches == [by : Actors, reset : BOOLEAN, rows : [Rows -> States], version : Nat]

ServerTypes == /\ scene \in Scenes /\ db \in [Rows -> States] /\ version \in Nat
               /\ calls \subseteq Calls /\ fetches \subseteq Fetches /\ inbox \subseteq Actors
PageTypes ==
  /\ view \in [Actors -> [Rows -> States]] /\ refs \in [Actors -> [Rows -> States]]
  /\ seen \in [Actors -> Nat] /\ jobs \in [Actors -> Nat]
  /\ ticked \in [Actors -> SUBSET Rows] /\ hiding \in [Actors -> SUBSET Rows]
  /\ found \in [Actors -> (SUBSET Rows) \union {NoSearch}]
  /\ dialog \in [Actors -> Dialogs]
  /\ mixed \in [Actors -> BOOLEAN] /\ loading \in [Actors -> BOOLEAN] /\ blind \in [Actors -> BOOLEAN]
  /\ where \in [Actors -> {"page", "left", "crashed", "elsewhere"}]
TypeInv == ServerTypes /\ PageTypes

(* The requests: which browser sent them, in which of its operations.      *)
Fits(c) ==
  /\ c.by \in Invites <=> c.op = "accept"
  /\ c.op = "accept" => c.rows = {c.by} /\ ~c.heard
  /\ c.by \in Actors => c.job < jobs[c.by]
  /\ c.op \in {"delete", "resend"} => c.silent
  /\ c.phase = "thrown" => ~c.silent
SameJob(c, d) == c.by = d.by /\ c.job = d.job
Together(c, d) == /\ c.op = d.op /\ (c.op # "delete" => c = d)
                  /\ c.heard <=> d.heard
CallsInv == /\ \A c \in calls : Fits(c)
            /\ \A c, d \in calls : SameJob(c, d) => Together(c, d)

(* The selection does not change behind the question what to do with it.   *)
AskedInv == \A a \in Actors : dialog[a].op = "removeSelected" => dialog[a].rows = Selected(a)

(* An administrator is left whatever is done with the rows.                *)
Leave(t, rows) == Admins(t) # {} => \E u \in Admins(t) : u \notin rows
(* The buttons of an organisation leave one out of the selection.          *)
ChecksInv == \A a \in Actors : page = "organisation" /\ ~mixed[a] => Leave(refs[a], ticked[a])
(* A question without a warning is about rows that leave one.              *)
Excused(c) == c.raced \/ c.warned \/ (c.op = "role" /\ c.role = "admin")
DialogsInv ==
  \A a \in Actors : dialog[a].op \in {"removeSelected", "removeOne", "role"} =>
    Excused(dialog[a]) \/ Leave(db, dialog[a].rows)
(* So do all requests of an operation together, as long as no other changes*)
(* the rows.                                                               *)
RowsOf(c) == UNION {d.rows : d \in {e \in calls : SameJob(c, e)}}
SparesInv ==
  \A c \in calls : c.phase \in {"sent", "told"} /\ c.op \in {"delete", "role"} =>
    Excused(c) \/ Leave(db, RowsOf(c))

(* Who has not read the last version will read it, knows nothing of it or  *)
(* read too early.                                                         *)
Numbered == /\ \A a \in Actors : seen[a] <= version
            /\ \A f \in fetches : f.version <= version
Awaits(a) == \E c \in calls : /\ c.by = a /\ c.heard /\ c.phase # "thrown"
                              /\ c.op = "resend" => c.phase = "ok"
Fetching(a) == \E f \in fetches : f.by = a /\ f.version = version
Informed(a) == \/ blind[a] \/ seen[a] = version \/ dialog[a].op = "gone"
               \/ a \in inbox \/ Fetching(a) \/ Awaits(a)
NewsInv == \A a \in Actors : where[a] = "page" => Informed(a)
Inv == /\ TypeInv /\ CallsInv /\ AskedInv /\ ChecksInv /\ DialogsInv /\ SparesInv
       /\ Numbered /\ NewsInv

-----------------------------------------------------------------------------
(* What the user's steps come to: a change of what is checked or listed, a *)
(* question, an operation sent.                                            *)
ServerSame == UNCHANGED <<scene, db, version, calls, fetches, inbox>>
Checks(a) ==
  /\ ServerSame /\ UNCHANGED <<view, seen, refs, dialog, loading, where, jobs, blind>>
  /\ dialog[a].op = "none"
  /\ ticked' \in [Actors -> SUBSET Rows] /\ hiding' \in [Actors -> SUBSET Rows]
  /\ found' \in [Actors -> (SUBSET Rows) \union {NoSearch}] /\ mixed' \in [Actors -> BOOLEAN]
  /\ \A b \in Actors : b # a => ticked'[b] = ticked[b] /\ found'[b] = found[b] /\ mixed'[b] = mixed[b]
  /\ page = "organisation" /\ ~mixed'[a] => Leave(refs[a], ticked'[a])

Answerable(q, a) ==
  /\ q \in Dialogs /\ q.op # "gone"
  /\ q.op = "removeSelected" => q.rows = Selected(a)
  /\ q.op \in {"removeSelected", "removeOne", "role"} => Excused(q) \/ Leave(db, q.rows)
Asks(a) == \E q : Answerable(q, a) /\ dialog[a].op # "gone" /\ Ask(a, q)

Fresh(a, c) == /\ c \in Calls /\ c.by = a /\ c.job = jobs[a] /\ c.op # "accept" /\ c.heard
               /\ c.phase = "sent" /\ (c.op \in {"delete", "resend"} => c.silent)
Spread(cs) == \A c, d \in cs : c.op = d.op /\ (c.op # "delete" => c = d)
Spared(cs) == \A c \in cs : c.op \in {"delete", "role"} =>
                Excused(c) \/ \E rows : Leave(db, rows) /\ \A d \in cs : d.rows \subseteq rows
Operates(a) ==
  \E cs : /\ Send(a, cs) /\ (\A c \in cs : Fresh(a, c)) /\ Spread(cs) /\ Spared(cs)
          /\ loading' \in [Actors -> BOOLEAN]
          /\ dialog[a].op # "gone"
          /\ dialog' \in {dialog, [dialog EXCEPT ![a] = NoDialog]}

-----------------------------------------------------------------------------
(* Facts about the rows and about questions.                               *)
LEMMA RowsFacts == /\ Users \subseteq Rows /\ Invites \subseteq Rows /\ Actors \subseteq Users
                   /\ Users \cap Invites = {} /\ IsFiniteSet(Users)
<1>1. IsFiniteSet(Users)
  BY RowsAssumption, FS_Subset DEF Rows
<1> QED BY <1>1, RowsAssumption DEF Rows

LEMMA NoDialogType == NoDialog \in Dialogs /\ NoDialog.op = "none"
BY DEF NoDialog, Dialogs

LEMMA ShownType ==
  ASSUME TypeInv, NEW a \in Actors
  PROVE  /\ Selected(a) \subseteq Rows /\ Listed(a) \subseteq Rows /\ Stale(a) \in BOOLEAN
         /\ ticked[a] \subseteq Rows /\ Shown(a) \subseteq Users
         /\ mixed[a] \in BOOLEAN /\ dialog[a] \in Dialogs /\ view[a] \in [Rows -> States]
         /\ refs[a] \in [Rows -> States] /\ Here(view[a]) \subseteq Rows
BY DEF TypeInv, PageTypes, Selected, Listed, Stale, Shown, Admins, Here

(* Counting administrators.                                                *)
LEMMA AdminsFinite ==
  ASSUME NEW t
  PROVE  Admins(t) \subseteq Users /\ IsFiniteSet(Admins(t)) /\ Cardinality(Admins(t)) \in Nat
<1>1. Admins(t) \subseteq Users
  BY DEF Admins
<1> QED BY <1>1, RowsFacts, FS_Subset, FS_CardinalityType

LEMMA TwoLeaveOne ==
  ASSUME NEW t, Cardinality(Admins(t)) # 1 \/ Cardinality(Admins(t)) >= 2, NEW r
  PROVE  Leave(t, {r})
<1> SUFFICES ASSUME Admins(t) # {}, Admins(t) \subseteq {r}  PROVE FALSE
  BY DEF Leave
<1>1. Admins(t) = {r}
  OBVIOUS
<1>2. Cardinality({r}) = 1
  BY FS_Singleton
<1> QED BY <1>1, <1>2

-----------------------------------------------------------------------------
(* Checking boxes, and the filters.                                        *)
LEMMA OnCheckChecks ==
  ASSUME Inv, NEW a \in Actors, NEW r \in Rows, OnCheck(a, r)
  PROVE  Checks(a)
<1> DEFINE t == IF r \in ticked[a] THEN ticked[a] \ {r} ELSE ticked[a] \union {r}
<1>1. /\ ticked \in [Actors -> SUBSET Rows] /\ mixed \in [Actors -> BOOLEAN]
      /\ hiding \in [Actors -> SUBSET Rows] /\ found \in [Actors -> (SUBSET Rows) \union {NoSearch}]
  BY DEF Inv, TypeInv, PageTypes
<1>2. /\ ticked' = [ticked EXCEPT ![a] = t] /\ mixed' = [mixed EXCEPT ![a] = mixed[a] \/ refs[a] # view[a]]
      /\ UNCHANGED <<scene, db, version, calls, fetches, inbox, view, seen, refs, found,
                     hiding, dialog, loading, where, jobs, blind>>
      /\ dialog[a].op = "none" /\ Free(a, r)
  BY DEF OnCheck, AtTable
<1>3. t \in SUBSET Rows
  BY <1>1
<1> HIDE DEF t
<1>4. /\ ticked' \in [Actors -> SUBSET Rows] /\ ticked'[a] = t
      /\ \A b \in Actors : b # a => ticked'[b] = ticked[b]
  BY <1>1, <1>2, <1>3
<1>5. /\ mixed' \in [Actors -> BOOLEAN] /\ (mixed'[a] <=> (mixed[a] \/ refs[a] # view[a]))
      /\ \A b \in Actors : b # a => mixed'[b] = mixed[b]
  BY <1>1, <1>2
<1>6. ASSUME page = "organisation", ~mixed'[a]  PROVE Leave(refs[a], ticked'[a])
  <2>1. ~mixed[a] /\ refs[a] = view[a]
    BY <1>5, <1>6
  <2>2. Leave(refs[a], ticked[a])
    BY <1>6, <2>1 DEF Inv, ChecksInv
  <2>3. CASE r \in ticked[a]
    <3>1. t = ticked[a] \ {r}
      BY <2>3 DEF t
    <3> QED BY <1>4, <2>2, <3>1 DEF Leave
  <2>4. CASE r \notin ticked[a]
    <3>1. t = ticked[a] \union {r}
      BY <2>4 DEF t
    <3>2. CASE r \notin Admins(refs[a])
      BY <1>4, <2>2, <3>1, <3>2 DEF Leave
    <3>3. CASE r \in Admins(refs[a])
      <4>1. r \notin Invites /\ view[a][r] # "member"
        BY <2>1, <3>3, RowsFacts DEF Admins
      <4>2. ~NoMoreAdmins(a, view[a])
        BY <1>2, <1>6, <2>4, <4>1 DEF Free
      <4>3. Cardinality(ticked[a] \cap Admins(refs[a])) + 1 # Cardinality(Admins(refs[a]))
        BY <2>1, <4>2 DEF NoMoreAdmins
      <4>4. SUFFICES ASSUME \A u \in Admins(refs[a]) : u \in t  PROVE FALSE
        BY <1>4 DEF Leave
      <4>5. ticked[a] \cap Admins(refs[a]) = Admins(refs[a]) \ {r}
        BY <2>4, <3>1, <3>3, <4>4
      <4>6. Cardinality(Admins(refs[a]) \ {r}) = Cardinality(Admins(refs[a])) - 1
        BY <3>3, AdminsFinite, FS_RemoveElement
      <4>7. Cardinality(Admins(refs[a])) \in Nat
        BY AdminsFinite
      <4>8. Cardinality(ticked[a] \cap Admins(refs[a])) = Cardinality(Admins(refs[a])) - 1
        BY <4>5, <4>6
      <4> QED BY <4>3, <4>7, <4>8
    <3> QED BY <3>2, <3>3
  <2> QED BY <2>3, <2>4
<1>7. UNCHANGED <<scene, db, version, calls, fetches, inbox>>
  BY <1>2
<1>8. /\ UNCHANGED <<view, seen, refs, dialog, loading, where, jobs, blind>>
      /\ hiding' \in [Actors -> SUBSET Rows] /\ found' \in [Actors -> (SUBSET Rows) \union {NoSearch}]
      /\ \A b \in Actors : b # a => found'[b] = found[b]
  BY <1>1, <1>2
<1> QED BY <1>2, <1>4, <1>5, <1>6, <1>7, <1>8 DEF Checks, ServerSame

(* The rest of the table belongs to collaborations.                        *)
LEMMA AllSelectedChecks ==
  ASSUME Inv, NEW a \in Actors, NEW checked \in BOOLEAN, AllSelected(a, checked)
  PROVE  Checks(a)
<1>1. /\ ticked \in [Actors -> SUBSET Rows] /\ mixed \in [Actors -> BOOLEAN]
      /\ hiding \in [Actors -> SUBSET Rows] /\ found \in [Actors -> (SUBSET Rows) \union {NoSearch}]
  BY DEF Inv, TypeInv, PageTypes
<1>2. /\ page = "collaboration" /\ dialog[a].op = "none"
      /\ UNCHANGED <<scene, db, version, calls, fetches, inbox, view, seen, refs, mixed,
                     found, hiding, dialog, loading, where, jobs, blind>>
  BY DEF AllSelected, AtTable
<1>3. PICK t : ticked' = [ticked EXCEPT ![a] = t] /\ t \in SUBSET Rows
  <2>1. PICK ids \in SUBSET Rows : ticked' = [ticked EXCEPT ![a] = IF checked THEN @ \union ids ELSE @ \ ids]
    <3>1. Here(refs[a]) \subseteq Rows
      BY DEF Here
    <3> QED BY <3>1 DEF AllSelected
  <2>2. ticked' = [ticked EXCEPT ![a] = IF checked THEN ticked[a] \union ids ELSE ticked[a] \ ids]
    BY <2>1
  <2> DEFINE t == IF checked THEN ticked[a] \union ids ELSE ticked[a] \ ids
  <2>3. t \in SUBSET Rows
    BY <1>1
  <2> QED BY <2>2, <2>3
<1>4. ticked' \in [Actors -> SUBSET Rows] /\ \A b \in Actors : b # a => ticked'[b] = ticked[b]
  BY <1>1, <1>3
<1> QED BY <1>1, <1>2, <1>4 DEF Checks, ServerSame

LEMMA FilterChecks ==
  ASSUME Inv, NEW a \in Actors, NEW hidden \in SUBSET Rows, Filter(a, hidden)
  PROVE  Checks(a)
<1>1. /\ ticked \in [Actors -> SUBSET Rows] /\ mixed \in [Actors -> BOOLEAN]
      /\ hiding \in [Actors -> SUBSET Rows] /\ found \in [Actors -> (SUBSET Rows) \union {NoSearch}]
  BY DEF Inv, TypeInv, PageTypes
<1>2. /\ page = "collaboration" /\ dialog[a].op = "none" /\ hiding' = [hiding EXCEPT ![a] = hidden]
      /\ UNCHANGED <<scene, db, version, calls, fetches, inbox, view, seen, refs, ticked,
                     mixed, found, dialog, loading, where, jobs, blind>>
  BY DEF Filter, AtTable
<1>3. hiding' \in [Actors -> SUBSET Rows]
  BY <1>1, <1>2
<1> QED BY <1>1, <1>2, <1>3 DEF Checks, ServerSame

LEMMA FiltersCheck ==
  ASSUME Inv, NEW a \in Actors, HideInvitees(a) \/ ShowGroup(a)
  PROVE  Checks(a)
<1>1. hiding[a] \subseteq Rows
  BY DEF Inv, TypeInv, PageTypes
<1>2. CASE HideInvitees(a)
  <2>1. (IF Invites \subseteq hiding[a] THEN hiding[a] \ Invites ELSE hiding[a] \union Invites) \in SUBSET Rows
    BY <1>1, RowsFacts
  <2> QED BY <1>2, <2>1, FilterChecks DEF HideInvitees
<1>3. CASE ShowGroup(a)
  <2>1. PICK g \in Groups \union {Users} : Filter(a, (hiding[a] \cap Invites) \union (Users \ g))
    BY <1>3 DEF ShowGroup
  <2>2. (hiding[a] \cap Invites) \union (Users \ g) \in SUBSET Rows
    BY <1>1, RowsFacts
  <2> QED BY <2>1, <2>2, FilterChecks
<1> QED BY <1>2, <1>3

LEMMA SearchChecks ==
  ASSUME Inv, NEW a \in Actors, Search(a)
  PROVE  Checks(a)
<1>1. /\ ticked \in [Actors -> SUBSET Rows] /\ mixed \in [Actors -> BOOLEAN]
      /\ hiding \in [Actors -> SUBSET Rows] /\ found \in [Actors -> (SUBSET Rows) \union {NoSearch}]
  BY DEF Inv, TypeInv, PageTypes
<1>2. /\ page = "collaboration" /\ dialog[a].op = "none"
      /\ UNCHANGED <<scene, db, version, calls, fetches, inbox, view, seen, refs, ticked,
                     mixed, hiding, dialog, loading, where, jobs, blind>>
  BY DEF Search, AtTable
<1>3. PICK q : found' = [found EXCEPT ![a] = q \cap Listed(a)]
  BY DEF Search
<1>4. q \cap Listed(a) \in SUBSET Rows
  BY ShownType DEF Inv
<1>5. found' \in [Actors -> (SUBSET Rows) \union {NoSearch}] /\ \A b \in Actors : b # a => found'[b] = found[b]
  BY <1>1, <1>3, <1>4
<1> QED BY <1>1, <1>2, <1>5 DEF Checks, ServerSame

-----------------------------------------------------------------------------
(* Questions.                                                              *)

(* What is current and not warned of.                                      *)
LEMMA NotStale ==
  ASSUME NEW a \in Actors, ~Stale(a)
  PROVE  view[a] = db /\ refs[a] = db /\ ~mixed[a] /\ Shown(a) = Admins(db)
BY DEF Stale, Shown

LEMMA AskedOf ==
  ASSUME Inv, NEW a \in Actors, NEW use, AtTable(a, use)
  PROVE  dialog[a].op # "gone" /\ dialog[a].op = "none"
BY DEF AtTable

LEMMA RemoveAsks ==
  ASSUME Inv, NEW a \in Actors, CollaborationRemove(a) \/ OrganisationRemove(a) \/ ServiceRemove(a)
  PROVE  Asks(a)
<1> USE ShownType DEF Inv
<1>1. CASE CollaborationRemove(a)
  <2> DEFINE batch == a \in Selected(a) /\ Cardinality(Selected(a)) > 1
             last == ~batch /\ \A m \in Shown(a) : Id[m] \in {Id[s] : s \in Selected(a)}
             q == IF batch THEN Question("refused", {}, "member", FALSE, FALSE)
                  ELSE Question("removeSelected", Selected(a), "member", last, Stale(a))
  <2>1. AtTable(a, "select") /\ Ask(a, q)
    BY <1>1 DEF CollaborationRemove
  <2>2. Answerable(q, a)
    <3>1. CASE batch
      <4>1. q = Question("refused", {}, "member", FALSE, FALSE)
        BY <3>1
      <4>2. Question("refused", {}, "member", FALSE, FALSE) \in Dialogs
        BY DEF Question, Dialogs
      <4>3. Question("refused", {}, "member", FALSE, FALSE).op = "refused"
        BY DEF Question
      <4> HIDE DEF q
      <4> QED BY <4>1, <4>2, <4>3 DEF Answerable
    <3>2. CASE ~batch
      <4>1. Leave(db, Selected(a)) \/ last \/ Stale(a)
        <5> SUFFICES ASSUME ~last, ~Stale(a)  PROVE Leave(db, Selected(a))
          OBVIOUS
        <5>1. PICK m \in Shown(a) : Id[m] \notin {Id[s] : s \in Selected(a)}
          BY <3>2
        <5>2. m \notin Selected(a)
          BY <5>1
        <5> QED BY <5>1, <5>2, NotStale DEF Leave
      <4>2. last \in BOOLEAN
        OBVIOUS
      <4>3. q = Question("removeSelected", Selected(a), "member", last, Stale(a))
        BY <3>2
      <4> HIDE DEF last, q
      <4>4. /\ q \in Dialogs /\ q.op = "removeSelected" /\ q.rows = Selected(a)
            /\ q.warned = last /\ q.raced = Stale(a)
        BY <4>2, <4>3 DEF Question, Dialogs
      <4> QED BY <4>1, <4>4 DEF Answerable, Excused
    <3> QED BY <3>1, <3>2
  <2> QED BY <2>1, <2>2, AskedOf DEF Asks
<1>2. CASE OrganisationRemove(a)
  <2> DEFINE q == Question("removeSelected", ticked[a], "member", FALSE, Stale(a))
  <2>1. AtTable(a, "select") /\ Ask(a, q) /\ page = "organisation"
    BY <1>2 DEF OrganisationRemove
  <2>2. ticked[a] = Selected(a)
    BY <2>1 DEF Selected
  <2>3. /\ q \in Dialogs /\ q.op = "removeSelected" /\ q.rows = ticked[a] /\ q.raced = Stale(a)
    BY DEF Question, Dialogs
  <2>4. Stale(a) \/ Leave(db, ticked[a])
    BY <2>1, NotStale DEF ChecksInv
  <2>5. Answerable(q, a)
    BY <2>2, <2>3, <2>4 DEF Answerable, Excused
  <2> QED BY <2>1, <2>5, AskedOf DEF Asks
<1>3. CASE ServiceRemove(a)
  <2> DEFINE removed == {r \in ticked[a] \cap Users : refs[a][r] = "admin"}
             w == Cardinality(Shown(a)) = Cardinality(removed)
             q == Question("removeSelected", ticked[a], "member", w, Stale(a))
  <2>1. AtTable(a, "select") /\ Ask(a, q) /\ page = "service"
    BY <1>3 DEF ServiceRemove
  <2>2. ticked[a] = Selected(a)
    BY <2>1 DEF Selected
  <2>3. w \in BOOLEAN
    OBVIOUS
  <2>4. Leave(db, ticked[a]) \/ w \/ Stale(a)
    <3> SUFFICES ASSUME ~w, ~Stale(a)  PROVE Leave(db, ticked[a])
      OBVIOUS
    <3>1. removed # Admins(db)
      BY NotStale
    <3>2. removed \subseteq Admins(db) /\ \A u \in Admins(db) : u \in ticked[a] => u \in removed
      BY NotStale DEF Admins
    <3> HIDE DEF removed
    <3> QED BY <3>1, <3>2 DEF Leave
  <2> HIDE DEF w
  <2>5. /\ q \in Dialogs /\ q.op = "removeSelected" /\ q.rows = ticked[a]
        /\ q.warned = w /\ q.raced = Stale(a)
    BY <2>3 DEF Question, Dialogs
  <2>6. Answerable(q, a)
    <3> HIDE DEF q
    <3> QED BY <2>2, <2>4, <2>5 DEF Answerable, Excused
  <2> QED BY <2>1, <2>6, AskedOf DEF Asks
<1> QED BY <1>1, <1>2, <1>3

(* A row by its icon.                                                      *)
LEMMA RowAsks ==
  ASSUME Inv, NEW a \in Actors, NEW use, AtTable(a, use), NEW r \in Rows, NEW op \in {"removeOne", "role"},
         NEW role \in {"admin", "member"}, NEW w \in BOOLEAN, Ask(a, Question(op, {r}, role, w, Stale(a))),
         w \/ Stale(a) \/ Leave(db, {r})
  PROVE  Asks(a)
<1> DEFINE q == Question(op, {r}, role, w, Stale(a))
<1>1. {r} \in SUBSET Rows /\ Stale(a) \in BOOLEAN
  BY ShownType DEF Inv
<1>2. q \in Dialogs /\ q.op = op /\ q.rows = {r} /\ q.warned = w /\ q.raced = Stale(a)
  BY <1>1 DEF Question, Dialogs
<1>3. Ask(a, q)
  OBVIOUS
<1> HIDE DEF q
<1>4. Answerable(q, a)
  BY <1>2 DEF Answerable, Excused
<1> QED BY <1>3, <1>4, AskedOf DEF Asks

(* An organisation offers that for a member, or for one of two.            *)
LEMMA FreeLeaves ==
  ASSUME Inv, NEW a \in Actors, NEW r \in Rows, page = "organisation", Free(a, r)
  PROVE  Stale(a) \/ Leave(db, {r})
<1> SUFFICES ASSUME ~Stale(a)  PROVE Leave(db, {r})
  OBVIOUS
<1>1. CASE r \notin Admins(db)
  BY <1>1 DEF Leave
<1>2. CASE r \in Admins(db)
  <2>1. r \notin Invites /\ view[a][r] # "member"
    BY <1>2, NotStale, RowsFacts DEF Admins
  <2>2. Cardinality(Admins(db)) >= 2
    BY <2>1, NotStale DEF Free
  <2> QED BY <2>2, TwoLeaveOne
<1> QED BY <1>1, <1>2

LEMMA RemoveOneAsks ==
  ASSUME Inv, NEW a \in Actors, NEW r \in Rows,
         CollaborationRemoveOne(a, r) \/ OrganisationRemoveOne(a, r) \/ ServiceRemoveOne(a, r)
  PROVE  Asks(a)
<1>1. CASE CollaborationRemoveOne(a, r)
  <2>1. /\ AtTable(a, "icon")
        /\ Ask(a, Question("removeOne", {r}, "member", r \in Users /\ Shown(a) \subseteq {r}, Stale(a)))
    BY <1>1 DEF CollaborationRemoveOne
  <2>2. (r \in Users /\ Shown(a) \subseteq {r}) \/ Stale(a) \/ Leave(db, {r})
    <3> SUFFICES ASSUME ~(r \in Users /\ Shown(a) \subseteq {r}), ~Stale(a)  PROVE Leave(db, {r})
      OBVIOUS
    <3>1. Shown(a) = Admins(db)
      BY NotStale
    <3> QED BY <3>1 DEF Leave, Admins
  <2>3. (r \in Users /\ Shown(a) \subseteq {r}) \in BOOLEAN
    OBVIOUS
  <2> QED BY <2>1, <2>2, <2>3, RowAsks
<1>2. CASE OrganisationRemoveOne(a, r)
  <2>1. /\ AtTable(a, "icon") /\ page = "organisation" /\ Free(a, r)
        /\ Ask(a, Question("removeOne", {r}, "member", FALSE, Stale(a)))
    BY <1>2 DEF OrganisationRemoveOne
  <2> QED BY <2>1, FreeLeaves, RowAsks
<1>3. CASE ServiceRemoveOne(a, r)
  <2>1. /\ AtTable(a, "icon") /\ Ask(a, Question("removeOne", {r}, "member", Shown(a) = {r}, Stale(a)))
    BY <1>3 DEF ServiceRemoveOne
  <2>2. Shown(a) = {r} \/ Stale(a) \/ Leave(db, {r})
    BY NotStale DEF Leave
  <2>3. (Shown(a) = {r}) \in BOOLEAN
    OBVIOUS
  <2> QED BY <2>1, <2>2, <2>3, RowAsks
<1> QED BY <1>1, <1>2, <1>3

(* Questions that leave the administrators alone.                          *)
LEMMA HarmlessAsks ==
  ASSUME Inv, NEW a \in Actors, NEW op \in {"none", "refused", "expiry", "resend"}, NEW rows \in SUBSET Rows,
         dialog[a].op # "gone", Ask(a, Question(op, rows, "member", FALSE, Stale(a))) \/ Ask(a, NoDialog)
  PROVE  Asks(a)
<1>1. CASE Ask(a, NoDialog)
  <2>1. Answerable(NoDialog, a)
    BY NoDialogType DEF Answerable
  <2> QED BY <1>1, <2>1 DEF Asks
<1>2. CASE Ask(a, Question(op, rows, "member", FALSE, Stale(a)))
  <2> DEFINE q == Question(op, rows, "member", FALSE, Stale(a))
  <2>1. q \in Dialogs /\ q.op = op
    BY ShownType DEF Inv, Question, Dialogs
  <2>2. Ask(a, q)
    BY <1>2
  <2> HIDE DEF q
  <2>3. Answerable(q, a)
    BY <2>1 DEF Answerable
  <2> QED BY <2>2, <2>3 DEF Asks
<1> QED BY <1>1, <1>2

LEMMA OtherAsks ==
  ASSUME Inv, NEW a \in Actors,
         \/ \E u \in Users : CollaborationExpiry(a, u)
         \/ \E i \in Invites : ResendOne(a, i)
         \/ CollaborationResend(a) \/ OrganisationResend(a) \/ ServiceResend(a)
         \/ Cancel(a) \/ ConfirmCloses(a)
  PROVE  Asks(a)
<1>1. CASE \E u \in Users : CollaborationExpiry(a, u)
  <2>1. PICK u \in Users : AtTable(a, "dates") /\ Ask(a, Question("expiry", {u}, "member", FALSE, Stale(a)))
    BY <1>1 DEF CollaborationExpiry
  <2>2. {u} \in SUBSET Rows
    BY RowsFacts
  <2> QED BY <2>1, <2>2, AskedOf, HarmlessAsks
<1>2. CASE \E i \in Invites : ResendOne(a, i)
  <2>1. PICK i \in Invites : AtTable(a, "resend") /\ Ask(a, Question("resend", {i}, "member", FALSE, Stale(a)))
    BY <1>2 DEF ResendOne
  <2>2. {i} \in SUBSET Rows
    BY RowsFacts
  <2> QED BY <2>1, <2>2, AskedOf, HarmlessAsks
<1>3. CASE CollaborationResend(a) \/ OrganisationResend(a) \/ ServiceResend(a)
  <2>1. PICK rows \in SUBSET Rows : AtTable(a, "resend") /\ Ask(a, Question("resend", rows, "member", FALSE, Stale(a)))
    <3>1. Selected(a) \in SUBSET Rows /\ ticked[a] \in SUBSET Rows
      BY ShownType DEF Inv
    <3> QED BY <1>3, <3>1 DEF CollaborationResend, OrganisationResend, ServiceResend
  <2> QED BY <2>1, AskedOf, HarmlessAsks
<1>4. CASE Cancel(a) \/ ConfirmCloses(a)
  <2>1. dialog[a].op # "gone" /\ Ask(a, NoDialog)
    BY <1>4 DEF Cancel, ConfirmCloses
  <2> QED BY <2>1, HarmlessAsks
<1> QED BY <1>1, <1>2, <1>3, <1>4

-----------------------------------------------------------------------------
(* Operations.  One call, or one for each row.                             *)
LEMMA OneCallOperates ==
  ASSUME Inv, NEW a \in Actors, NEW c, Fresh(a, c), Send(a, {c}), dialog[a].op # "gone",
         c.op \in {"delete", "role"} => Excused(c) \/ Leave(db, c.rows),
         loading' \in [Actors -> BOOLEAN], dialog' \in {dialog, [dialog EXCEPT ![a] = NoDialog]}
  PROVE  Operates(a)
<1> DEFINE cs == {c}
<1>1. Send(a, cs) /\ (\A d \in cs : Fresh(a, d)) /\ Spread(cs)
  BY DEF Spread
<1>2. Spared(cs)
  BY DEF Spared
<1> HIDE DEF cs
<1> QED BY <1>1, <1>2 DEF Operates

LEMMA LoadingType ==
  ASSUME Inv, NEW a \in Actors, NEW b \in BOOLEAN, loading' = [loading EXCEPT ![a] = b]
  PROVE  loading' \in [Actors -> BOOLEAN]
<1>1. loading \in [Actors -> BOOLEAN]
  BY DEF Inv, TypeInv, PageTypes
<1> QED BY <1>1

(* A role is changed without a question when another administrator is left.*)
LEMMA RoleSent ==
  ASSUME Inv, NEW a \in Actors, AtTable(a, "role"), NEW u \in Users, NEW role \in {"admin", "member"},
         NEW s \in BOOLEAN, Send(a, {Call(a, "role", {u}, role, FALSE, Stale(a), s)}),
         loading' = [loading EXCEPT ![a] = TRUE], UNCHANGED dialog, Stale(a) \/ Leave(db, {u})
  PROVE  Operates(a)
<1> DEFINE c == Call(a, "role", {u}, role, FALSE, Stale(a), s)
<1>1. {u} \in SUBSET Rows /\ Stale(a) \in BOOLEAN
  BY RowsFacts, ShownType DEF Inv
<1>2. Fresh(a, c) /\ c.rows = {u} /\ c.raced = Stale(a)
  <2>1. jobs[a] \in Nat
    BY DEF Inv, TypeInv, PageTypes
  <2> QED BY <1>1, <2>1 DEF Call, Calls, Fresh
<1>3. Send(a, {c})
  OBVIOUS
<1> HIDE DEF c
<1>4. Excused(c) \/ Leave(db, c.rows)
  BY <1>2 DEF Excused
<1>5. dialog[a].op # "gone"
  BY AskedOf
<1> QED BY <1>2, <1>3, <1>4, <1>5, LoadingType, OneCallOperates

LEMMA RoleLeaves ==
  ASSUME Inv, NEW a \in Actors, NEW u \in Users, NEW role \in {"admin", "member"}, view[a][u] # role,
         ~(Cardinality(Shown(a)) = 1 /\ role # "admin")
  PROVE  Stale(a) \/ Leave(db, {u})
<1> SUFFICES ASSUME ~Stale(a)  PROVE Leave(db, {u})
  OBVIOUS
<1>1. CASE role = "admin"
  <2>1. u \notin Admins(db)
    BY <1>1, NotStale DEF Admins
  <2> QED BY <2>1 DEF Leave
<1>2. CASE role # "admin"
  <2>1. Cardinality(Admins(db)) # 1
    BY <1>2, NotStale
  <2> QED BY <2>1, TwoLeaveOne
<1> QED BY <1>1, <1>2

LEMMA CollaborationRoleTurns ==
  ASSUME Inv, NEW a \in Actors, NEW u \in Users, NEW role \in {"admin", "member"}, CollaborationRole(a, u, role)
  PROVE  Asks(a) \/ Operates(a)
<1> DEFINE last == Cardinality(Shown(a)) = 1 /\ role # "admin"
<1>1. AtTable(a, "role") /\ view[a][u] # role
  BY DEF CollaborationRole
<1>2. u \in Rows /\ last \in BOOLEAN
  BY RowsFacts
<1>3. last \/ Stale(a) \/ Leave(db, {u})
  BY <1>1, RoleLeaves
<1>4. CASE (u = a /\ a \notin Super) \/ last
  <2>1. Ask(a, Question("role", {u}, role, last, Stale(a)))
    BY <1>4 DEF CollaborationRole
  <2> HIDE DEF last
  <2> QED BY <1>1, <1>2, <1>3, <2>1, RowAsks
<1>5. CASE ~((u = a /\ a \notin Super) \/ last)
  <2>1. /\ Send(a, {Call(a, "role", {u}, role, FALSE, Stale(a), TRUE)})
        /\ loading' = [loading EXCEPT ![a] = TRUE] /\ UNCHANGED dialog
    BY <1>5 DEF CollaborationRole
  <2>2. Stale(a) \/ Leave(db, {u})
    BY <1>3, <1>5
  <2> QED BY <1>1, <2>1, <2>2, RoleSent
<1> QED BY <1>4, <1>5

LEMMA OrganisationRoleTurns ==
  ASSUME Inv, NEW a \in Actors, NEW u \in Users, NEW role \in {"admin", "member"}, OrganisationRole(a, u, role)
  PROVE  Asks(a) \/ Operates(a)
<1>1. AtTable(a, "role") /\ page = "organisation" /\ Free(a, u)
  BY DEF OrganisationRole
<1>2. u \in Rows
  BY RowsFacts
<1>3. Stale(a) \/ Leave(db, {u})
  BY <1>1, <1>2, FreeLeaves
<1>4. CASE u = a /\ a \notin Super
  <2>1. Ask(a, Question("role", {u}, role, FALSE, Stale(a)))
    BY <1>4 DEF OrganisationRole
  <2> QED BY <1>1, <1>2, <1>3, <2>1, RowAsks
<1>5. CASE ~(u = a /\ a \notin Super)
  <2>1. /\ Send(a, {Call(a, "role", {u}, role, FALSE, Stale(a), FALSE)})
        /\ loading' = [loading EXCEPT ![a] = TRUE] /\ UNCHANGED dialog
    BY <1>5 DEF OrganisationRole
  <2> QED BY <1>1, <1>3, <2>1, RoleSent
<1> QED BY <1>4, <1>5

(* What is confirmed is what was asked, or less.                           *)
LEMMA ConfirmedIsAsked ==
  ASSUME Inv, NEW a \in Actors, dialog[a].op \in {"removeSelected", "removeOne"}
  PROVE  /\ Confirmed(a) = IF dialog[a].op = "removeOne" THEN dialog[a].rows \cap Here(view[a])
                           ELSE dialog[a].rows
         /\ Confirmed(a) \subseteq dialog[a].rows
BY DEF Confirmed, Inv, AskedInv

LEMMA ConfirmRemoveOperates ==
  ASSUME Inv, NEW a \in Actors, ConfirmRemove(a)
  PROVE  Operates(a)
<1> DEFINE call(r) == Call(a, "delete", {r}, "member", dialog[a].warned, dialog[a].raced, TRUE)
           cs == {call(r) : r \in Confirmed(a)}
<1>1. /\ dialog[a].op \in {"removeSelected", "removeOne"} /\ Send(a, cs)
      /\ loading' = [loading EXCEPT ![a] = TRUE] /\ dialog' = [dialog EXCEPT ![a] = NoDialog]
  BY DEF ConfirmRemove
<1>2. dialog[a].rows \subseteq Rows /\ dialog[a].warned \in BOOLEAN /\ dialog[a].raced \in BOOLEAN
  BY DEF Inv, TypeInv, PageTypes, Dialogs
<1>3. Confirmed(a) \subseteq dialog[a].rows
  BY <1>1, ConfirmedIsAsked
<1>4. \A r \in Confirmed(a) :
        /\ Fresh(a, call(r)) /\ call(r).op = "delete" /\ call(r).rows = {r}
        /\ call(r).warned = dialog[a].warned /\ call(r).raced = dialog[a].raced
  <2>1. jobs[a] \in Nat
    BY DEF Inv, TypeInv, PageTypes
  <2> QED BY <1>2, <1>3, <2>1 DEF Call, Calls, Fresh
<1> HIDE DEF call
<1>5. (\A c \in cs : Fresh(a, c)) /\ Spread(cs)
  BY <1>4 DEF Spread
<1>6. \A c \in cs : c.rows \subseteq dialog[a].rows
  BY <1>3, <1>4
<1>7. \A c \in cs : c.warned = dialog[a].warned /\ c.raced = dialog[a].raced
  BY <1>4
<1> HIDE DEF cs
<1>8. Spared(cs)
  <2>1. CASE Excused(dialog[a])
    BY <1>1, <1>7, <2>1 DEF Spared, Excused
  <2>2. CASE Leave(db, dialog[a].rows)
    BY <1>6, <2>2 DEF Spared
  <2> QED BY <1>1, <2>1, <2>2 DEF Inv, DialogsInv
<1>9. loading' \in [Actors -> BOOLEAN] /\ dialog[a].op # "gone"
  BY <1>1, LoadingType
<1> QED BY <1>1, <1>5, <1>8, <1>9 DEF Operates

LEMMA ConfirmUpdateOperates ==
  ASSUME Inv, NEW a \in Actors, ConfirmUpdate(a) \/ ConfirmResend(a)
  PROVE  Operates(a)
<1>1. dialog[a] \in Dialogs /\ jobs[a] \in Nat
  BY DEF Inv, TypeInv, PageTypes
<1>2. CASE ConfirmUpdate(a)
  <2> DEFINE s == page = "collaboration" /\ dialog[a].op = "role"
             c == Call(a, dialog[a].op, dialog[a].rows, dialog[a].role, dialog[a].warned, dialog[a].raced, s)
  <2>1. /\ dialog[a].op \in {"role", "expiry"} /\ Send(a, {c})
        /\ loading' = [loading EXCEPT ![a] = TRUE] /\ dialog' = dialog
    BY <1>2 DEF ConfirmUpdate
  <2>2. s \in BOOLEAN
    OBVIOUS
  <2> HIDE DEF s
  <2>3. /\ Fresh(a, c) /\ c.op = dialog[a].op /\ c.rows = dialog[a].rows /\ c.role = dialog[a].role
        /\ c.warned = dialog[a].warned /\ c.raced = dialog[a].raced
    BY <1>1, <2>1, <2>2 DEF Call, Calls, Fresh, Dialogs
  <2> HIDE DEF c
  <2>4. c.op \in {"delete", "role"} => Excused(c) \/ Leave(db, c.rows)
    BY <2>1, <2>3 DEF Inv, DialogsInv, Excused
  <2>5. loading' \in [Actors -> BOOLEAN] /\ dialog[a].op # "gone"
    BY <2>1, LoadingType
  <2> QED BY <2>1, <2>3, <2>4, <2>5, OneCallOperates
<1>3. CASE ConfirmResend(a)
  <2> DEFINE c == Call(a, "resend", dialog[a].rows, "member", FALSE, dialog[a].raced, TRUE)
  <2>1. /\ dialog[a].op = "resend" /\ Send(a, {c})
        /\ loading' = [loading EXCEPT ![a] = (page = "collaboration")] /\ dialog' = dialog
    BY <1>3 DEF ConfirmResend
  <2>2. Fresh(a, c) /\ c.op = "resend"
    BY <1>1 DEF Call, Calls, Fresh, Dialogs
  <2> HIDE DEF c
  <2>3. loading' \in [Actors -> BOOLEAN] /\ dialog[a].op # "gone"
    BY <2>1, LoadingType
  <2> QED BY <2>1, <2>2, <2>3, OneCallOperates
<1> QED BY <1>2, <1>3

(* So the steps of a user are of four kinds.                               *)
LEMMA UserStepKinds ==
  ASSUME Inv, NEW a \in Actors, UserStep(a)
  PROVE  Checks(a) \/ Asks(a) \/ Operates(a) \/ ConfirmGone(a)
<1>1. CASE \E r \in Rows : OnCheck(a, r)
  BY <1>1, OnCheckChecks
<1>2. CASE \E r \in Rows : CollaborationRemoveOne(a, r) \/ OrganisationRemoveOne(a, r) \/ ServiceRemoveOne(a, r)
  BY <1>2, RemoveOneAsks
<1>3. CASE \E checked \in BOOLEAN : AllSelected(a, checked)
  BY <1>3, AllSelectedChecks
<1>4. CASE HideInvitees(a) \/ ShowGroup(a) \/ Search(a)
  BY <1>4, FiltersCheck, SearchChecks
<1>5. CASE CollaborationRemove(a) \/ OrganisationRemove(a) \/ ServiceRemove(a)
  BY <1>5, RemoveAsks
<1>6. CASE \E u \in Users, role \in {"admin", "member"} : CollaborationRole(a, u, role) \/ OrganisationRole(a, u, role)
  BY <1>6, CollaborationRoleTurns, OrganisationRoleTurns
<1>7. CASE \/ (\E u \in Users : CollaborationExpiry(a, u)) \/ (\E i \in Invites : ResendOne(a, i))
           \/ CollaborationResend(a) \/ OrganisationResend(a) \/ ServiceResend(a)
           \/ Cancel(a) \/ ConfirmCloses(a)
  BY <1>7, OtherAsks
<1>8. CASE ConfirmRemove(a)
  BY <1>8, ConfirmRemoveOperates
<1>9. CASE ConfirmUpdate(a) \/ ConfirmResend(a)
  BY <1>9, ConfirmUpdateOperates
<1> QED BY <1>1, <1>2, <1>3, <1>4, <1>5, <1>6, <1>7, <1>8, <1>9 DEF UserStep

-----------------------------------------------------------------------------
(* Types.                                                                  *)
LEMMA SceneType ==
  ASSUME scene \in Scenes
  PROVE  page \in PageKinds /\ scene.rows \in [Rows -> States]
BY SceneAssumption DEF page

LEMMA FetchType ==
  ASSUME TypeInv, NEW a \in Actors, NEW reset \in BOOLEAN
  PROVE  /\ Fetch(a, reset) \in Fetches /\ Fetch(a, reset).by = a
         /\ Fetch(a, reset).version = version
<1>1. NoRows \in [Rows -> States]
  BY DEF NoRows, States
<1>2. db \in [Rows -> States] /\ version \in Nat
  BY DEF TypeInv, ServerTypes
<1>3. (IF MayAdminister(db, a) THEN db ELSE NoRows) \in [Rows -> States]
  BY <1>1, <1>2
<1> QED BY <1>2, <1>3 DEF Fetch, Fetches

LEMMA AppliedType ==
  ASSUME Inv, NEW c \in calls
  PROVE  Applied(c) \in [Rows -> States]
<1>1. /\ db \in [Rows -> States] /\ c.role \in {"admin", "member"}
      /\ c.op \in {"delete", "role", "expiry", "resend", "accept"} /\ Fits(c)
  BY DEF Inv, TypeInv, ServerTypes, CallsInv, Calls
<1>2. CASE c.op = "accept"
  <2>1. c.rows = {c.by} /\ c.by \in Invites
    BY <1>1, <1>2 DEF Fits
  <2>2. Intended[CHOOSE i \in c.rows : TRUE] \in States
    <3>1. (CHOOSE i \in c.rows : TRUE) \in Invites
      BY <2>1
    <3> QED BY <3>1, RowsAssumption DEF States
  <2> QED BY <1>1, <1>2, <2>2 DEF Applied, States, Gone
<1>3. CASE c.op # "accept"
  BY <1>1, <1>3 DEF Applied, States, Gone
<1> QED BY <1>2, <1>3

LEMMA InitTypes == Init => TypeInv
<1> SUFFICES ASSUME Init  PROVE TypeInv
  OBVIOUS
<1>1. db \in [Rows -> States]
  BY SceneType DEF Init
<1>2. ServerTypes
  BY <1>1 DEF Init, ServerTypes
<1>3. /\ view \in [Actors -> [Rows -> States]] /\ refs \in [Actors -> [Rows -> States]]
      /\ seen \in [Actors -> Nat] /\ jobs \in [Actors -> Nat]
      /\ ticked \in [Actors -> SUBSET Rows] /\ hiding \in [Actors -> SUBSET Rows]
  BY <1>1 DEF Init
<1>4. found \in [Actors -> (SUBSET Rows) \union {NoSearch}]
  <2>1. NoSearch \in (SUBSET Rows) \union {NoSearch} /\ found = [a \in Actors |-> NoSearch]
    BY DEF Init
  <2> QED BY <2>1
<1>7. where \in [Actors -> {"page", "left", "crashed", "elsewhere"}]
  BY DEF Init
<1>6. dialog \in [Actors -> Dialogs]
  BY NoDialogType DEF Init
<1>5. mixed \in [Actors -> BOOLEAN] /\ loading \in [Actors -> BOOLEAN] /\ blind \in [Actors -> BOOLEAN]
  BY DEF Init
<1> QED BY <1>2, <1>3, <1>4, <1>5, <1>6, <1>7 DEF TypeInv, PageTypes

LEMMA ChecksTypes ==
  ASSUME Inv, NEW a \in Actors, Checks(a)
  PROVE  TypeInv'
<1>1. ServerTypes'
  BY DEF Inv, TypeInv, ServerTypes, Checks, ServerSame
<1>2. PageTypes'
  BY DEF Inv, TypeInv, PageTypes, Checks
<1> QED BY <1>1, <1>2 DEF TypeInv

LEMMA AsksTypes ==
  ASSUME Inv, NEW a \in Actors, Asks(a)
  PROVE  TypeInv'
<1>1. PICK q : Answerable(q, a) /\ Ask(a, q)
  BY DEF Asks
<1>2. ServerTypes'
  BY <1>1 DEF Inv, TypeInv, ServerTypes, Ask
<1>3. dialog' \in [Actors -> Dialogs]
  BY <1>1 DEF Inv, TypeInv, PageTypes, Ask, Answerable
<1>4. PageTypes'
  BY <1>1, <1>3 DEF Inv, TypeInv, PageTypes, Ask
<1> QED BY <1>2, <1>4 DEF TypeInv

LEMMA OperatesTypes ==
  ASSUME Inv, NEW a \in Actors, Operates(a)
  PROVE  TypeInv'
<1>1. PICK cs : /\ Send(a, cs) /\ \A c \in cs : Fresh(a, c)
                /\ loading' \in [Actors -> BOOLEAN] /\ dialog' \in {dialog, [dialog EXCEPT ![a] = NoDialog]}
  BY DEF Operates
<1>2. calls' \subseteq Calls
  BY <1>1 DEF Inv, TypeInv, ServerTypes, Send, Fresh
<1>3. ServerTypes'
  BY <1>1, <1>2 DEF Inv, TypeInv, ServerTypes, Send
<1>4. dialog' \in [Actors -> Dialogs]
  BY <1>1, NoDialogType DEF Inv, TypeInv, PageTypes
<1>5. jobs' \in [Actors -> Nat]
  BY <1>1 DEF Inv, TypeInv, PageTypes, Send
<1>6. PageTypes'
  BY <1>1, <1>4, <1>5 DEF Inv, TypeInv, PageTypes, Send
<1> QED BY <1>3, <1>6 DEF TypeInv

LEMMA ConfirmGoneTypes ==
  ASSUME Inv, NEW a \in Actors, ConfirmGone(a)
  PROVE  TypeInv'
<1>1. fetches' \subseteq Fetches
  BY FetchType DEF Inv, TypeInv, ServerTypes, ConfirmGone
<1>2. ServerTypes'
  BY <1>1 DEF Inv, TypeInv, ServerTypes, ConfirmGone
<1>3. dialog' \in [Actors -> Dialogs]
  BY NoDialogType DEF Inv, TypeInv, PageTypes, ConfirmGone
<1>4. PageTypes'
  BY <1>3 DEF Inv, TypeInv, PageTypes, ConfirmGone
<1> QED BY <1>2, <1>4 DEF TypeInv

LEMMA PagesSame ==
  ASSUME Inv, UNCHANGED browser
  PROVE  PageTypes'
BY DEF Inv, TypeInv, PageTypes, browser

LEMMA AcceptTypes ==
  ASSUME Inv, NEW i \in Invites, Accept(i)
  PROVE  TypeInv'
<1> DEFINE c == [by |-> i, job |-> 0, op |-> "accept", rows |-> {i}, role |-> "member", warned |-> FALSE,
                 raced |-> FALSE, silent |-> FALSE, phase |-> "sent", heard |-> FALSE]
<1>1. calls' = calls \union {c} /\ UNCHANGED <<scene, db, version, fetches, inbox, browser>>
  BY DEF Accept
<1>2. c \in Calls
  BY RowsFacts DEF Calls
<1> HIDE DEF c
<1>3. ServerTypes'
  BY <1>1, <1>2 DEF Inv, TypeInv, ServerTypes
<1> QED BY <1>1, <1>3, PagesSame DEF TypeInv

(* A call at a later phase, raced or unheard is a call.                    *)
LEMMA CallChanges ==
  ASSUME NEW c \in Calls
  PROVE  /\ \A p \in {"sent", "told", "ok", "failed", "thrown"} : [c EXCEPT !.phase = p] \in Calls
         /\ [c EXCEPT !.raced = TRUE] \in Calls /\ [c EXCEPT !.heard = FALSE] \in Calls
BY DEF Calls

LEMMA PhaseTypes ==
  ASSUME Inv, NEW c \in calls, Refuse(c) \/ Tell(c)
  PROVE  TypeInv'
<1>1. calls' \subseteq Calls
  BY CallChanges DEF Inv, TypeInv, ServerTypes, Refuse, Tell, Served
<1>2. inbox' \subseteq Actors
  BY DEF Inv, TypeInv, ServerTypes, Refuse, Tell, Others
<1>3. ServerTypes'
  BY <1>1, <1>2 DEF Inv, TypeInv, ServerTypes, Refuse, Tell
<1>4. UNCHANGED browser
  BY DEF Refuse, Tell
<1> QED BY <1>3, <1>4, PagesSame DEF TypeInv

LEMMA CommitTypes ==
  ASSUME Inv, NEW c \in calls, Commit(c), inbox' \subseteq Actors, blind' \in [Actors -> BOOLEAN]
  PROVE  TypeInv'
<1>1. db' \in [Rows -> States] /\ version' \in Nat
  BY AppliedType DEF Commit, Inv, TypeInv, ServerTypes
<1>2. Served(c, "ok") \subseteq Calls
  BY CallChanges DEF Inv, TypeInv, ServerTypes, Served
<1>3. Raced(Served(c, "ok"), c) \subseteq Calls
  BY <1>2, CallChanges DEF Raced
<1>4. calls' \subseteq Calls
  BY <1>2, <1>3 DEF Commit
<1>5. ServerTypes'
  BY <1>1, <1>4 DEF Inv, TypeInv, ServerTypes, Commit
<1>6. dialog' \in [Actors -> Dialogs]
  <2>1. \A a \in Actors : dialog[a] \in Dialogs
    BY DEF Inv, TypeInv, PageTypes
  <2>2. \A a \in Actors : [dialog[a] EXCEPT !.raced = dialog[a].op # "none"] \in Dialogs
    BY <2>1 DEF Dialogs
  <2> QED BY <2>1, <2>2 DEF Commit
<1>7. PageTypes'
  BY <1>6 DEF Inv, TypeInv, PageTypes, Commit
<1> QED BY <1>5, <1>7 DEF TypeInv

(* A commit with what is told of it.                                       *)
LEMMA CommitsNews ==
  ASSUME Inv, NEW c \in calls, CommitThenTell(c) \/ CommitTold(c)
  PROVE  /\ Commit(c) /\ c.phase \in {"sent", "told"}
         /\ inbox' \subseteq Actors /\ inbox \subseteq inbox' /\ blind' \in [Actors -> BOOLEAN]
         /\ \A a \in Actors : /\ blind[a] => blind'[a]
                              /\ a = c.by /\ ~c.heard => blind'[a]
                              /\ a # c.by /\ where[a] = "page" => blind'[a] \/ a \in inbox'
<1>0. blind \in [Actors -> BOOLEAN] /\ inbox \subseteq Actors
  BY DEF Inv, TypeInv, ServerTypes, PageTypes
<1>1. CASE CommitThenTell(c)
  <2>1. Commit(c) /\ c.phase = "sent"
    BY <1>1 DEF CommitThenTell
  <2>2. CASE Announces(c.op, c.rows) = "after"
    <3>1. inbox' = inbox \union Others(c) /\ blind' = Unheard(c)
      BY <1>1, <2>2 DEF CommitThenTell
    <3> QED BY <1>0, <2>1, <3>1 DEF Others, Unheard
  <2>3. CASE Announces(c.op, c.rows) # "after"
    <3>1. inbox' = inbox /\ blind' = [a \in Actors |-> Unheard(c)[a] \/ a # c.by]
      BY <1>1, <2>3 DEF CommitThenTell
    <3> QED BY <1>0, <2>1, <3>1 DEF Unheard
  <2> QED BY <2>2, <2>3
<1>2. CASE CommitTold(c)
  <2>1. /\ Commit(c) /\ c.phase = "told" /\ inbox' = inbox
        /\ blind' = [a \in Actors |-> Unheard(c)[a] \/ (a \in Others(c) /\ a \notin inbox)]
    BY <1>2 DEF CommitTold
  <2> QED BY <1>0, <2>1 DEF Others, Unheard
<1> QED BY <1>1, <1>2

LEMMA HearTypes ==
  ASSUME Inv, NEW f \in fetches, Hear(f)
  PROVE  TypeInv'
<1> DEFINE a == f.by
<1>1. /\ f.by \in Actors /\ f.rows \in [Rows -> States] /\ f.version \in Nat
      /\ fetches' = fetches \ {f} /\ UNCHANGED <<scene, db, version, calls, inbox>>
  BY DEF Inv, TypeInv, ServerTypes, Fetches, Hear
<1>2. ServerTypes'
  BY <1>1 DEF Inv, TypeInv, ServerTypes
<1>3. CASE where[a] # "page"
  <2>1. UNCHANGED browser
    BY <1>3 DEF Hear
  <2> QED BY <1>2, <2>1, PagesSame DEF TypeInv
<1>4. CASE where[a] = "page" /\ (f.rows = NoRows \/ RenderFails(a, f.rows))
  <2>1. /\ where' = [where EXCEPT ![a] = IF f.rows = NoRows THEN "left" ELSE "crashed"]
        /\ UNCHANGED <<view, seen, refs, ticked, mixed, found, hiding, dialog, loading, jobs, blind>>
    BY <1>4 DEF Hear
  <2>2. where' \in [Actors -> {"page", "left", "crashed", "elsewhere"}]
    BY <2>1 DEF Inv, TypeInv, PageTypes
  <2>3. PageTypes'
    BY <2>1, <2>2 DEF Inv, TypeInv, PageTypes
  <2> QED BY <1>2, <2>3 DEF TypeInv
<1>5. CASE where[a] = "page" /\ ~(f.rows = NoRows \/ RenderFails(a, f.rows))
  <2>1. PICK b \in BOOLEAN : blind' = [blind EXCEPT ![a] = b]
    <3>1. blind' = [blind EXCEPT ![a] = (@ \/ f.version < seen[a] \/ (dialog[a].op = "gone" /\ Remounts(f)))
                                        /\ f.version # version]
      BY <1>5 DEF Hear
    <3> QED BY <3>1
  <2>2. /\ view' = [view EXCEPT ![a] = f.rows] /\ seen' = [seen EXCEPT ![a] = f.version]
        /\ UNCHANGED <<found, where, jobs>>
        /\ IF Remounts(f) THEN Mount(a, f.rows) ELSE UNCHANGED <<refs, ticked, mixed, hiding, loading, dialog>>
    BY <1>5 DEF Hear
  <2>3. /\ refs' \in [Actors -> [Rows -> States]] /\ ticked' \in [Actors -> SUBSET Rows]
        /\ hiding' \in [Actors -> SUBSET Rows]
    <3>1. refs' \in {refs, [refs EXCEPT ![a] = f.rows]} /\ ticked' \in {ticked, [ticked EXCEPT ![a] = {}]}
          /\ hiding' \in {hiding, [hiding EXCEPT ![a] = hiding[a] \cap Invites]}
      BY <2>2 DEF Mount
    <3>2. hiding[a] \subseteq Rows
      BY <1>1 DEF Inv, TypeInv, PageTypes
    <3>3. refs \in [Actors -> [Rows -> States]] /\ ticked \in [Actors -> SUBSET Rows] /\ hiding \in [Actors -> SUBSET Rows]
      BY DEF Inv, TypeInv, PageTypes
    <3>4. [refs EXCEPT ![a] = f.rows] \in [Actors -> [Rows -> States]]
      BY <1>1, <3>3
    <3>5. [ticked EXCEPT ![a] = {}] \in [Actors -> SUBSET Rows]
      BY <3>3
    <3>6. [hiding EXCEPT ![a] = hiding[a] \cap Invites] \in [Actors -> SUBSET Rows]
      BY <3>2, <3>3
    <3> QED BY <3>1, <3>3, <3>4, <3>5, <3>6
  <2>4. /\ mixed' \in [Actors -> BOOLEAN] /\ loading' \in [Actors -> BOOLEAN] /\ dialog' \in [Actors -> Dialogs]
    <3>1. mixed' \in {mixed, [mixed EXCEPT ![a] = FALSE]} /\ loading' \in {loading, [loading EXCEPT ![a] = FALSE]}
          /\ dialog' \in {dialog, [dialog EXCEPT ![a] = NoDialog]}
      BY <2>2 DEF Mount
    <3>2. mixed \in [Actors -> BOOLEAN] /\ loading \in [Actors -> BOOLEAN] /\ dialog \in [Actors -> Dialogs]
      BY DEF Inv, TypeInv, PageTypes
    <3>3. [mixed EXCEPT ![a] = FALSE] \in [Actors -> BOOLEAN]
      BY <3>2
    <3>4. [loading EXCEPT ![a] = FALSE] \in [Actors -> BOOLEAN]
      BY <3>2
    <3>5. [dialog EXCEPT ![a] = NoDialog] \in [Actors -> Dialogs]
      BY <3>2, NoDialogType
    <3> QED BY <3>1, <3>2, <3>3, <3>4, <3>5
  <2>5. /\ view' \in [Actors -> [Rows -> States]] /\ seen' \in [Actors -> Nat] /\ blind' \in [Actors -> BOOLEAN]
    BY <1>1, <2>1, <2>2 DEF Inv, TypeInv, PageTypes
  <2>6. PageTypes'
    BY <2>2, <2>3, <2>4, <2>5 DEF Inv, TypeInv, PageTypes
  <2> QED BY <1>2, <2>6 DEF TypeInv
<1> QED BY <1>3, <1>4, <1>5

LEMMA HearSocketTypes ==
  ASSUME Inv, NEW a \in Actors, HearSocket(a)
  PROVE  TypeInv'
<1>1. fetches' \subseteq Fetches
  BY FetchType DEF Inv, TypeInv, ServerTypes, HearSocket
<1>2. ServerTypes' /\ UNCHANGED browser
  BY <1>1 DEF Inv, TypeInv, ServerTypes, HearSocket
<1> QED BY <1>2, PagesSame DEF TypeInv

LEMMA HearOkTypes ==
  ASSUME Inv, NEW c \in calls, HearOk(c)
  PROVE  TypeInv'
<1>0. c \in Calls /\ Fits(c)
  BY DEF Inv, TypeInv, ServerTypes, CallsInv
<1>1. c.heard => c.by \in Actors
  BY <1>0 DEF Calls, Fits
<1>2. fetches' \subseteq Fetches
  BY <1>1, FetchType DEF Inv, TypeInv, ServerTypes, HearOk
<1>3. where' \in [Actors -> {"page", "left", "crashed", "elsewhere"}]
  BY DEF Inv, TypeInv, PageTypes, HearOk
<1>4. ServerTypes'
  BY <1>2 DEF Inv, TypeInv, ServerTypes, HearOk
<1>5. PageTypes'
  BY <1>3 DEF Inv, TypeInv, PageTypes, HearOk
<1> QED BY <1>4, <1>5 DEF TypeInv

LEMMA HearFailedTypes ==
  ASSUME Inv, NEW c \in calls, HearFailed(c)
  PROVE  TypeInv'
<1>1. calls \subseteq Calls /\ Rest(c) \subseteq Calls
  BY DEF Inv, TypeInv, ServerTypes, Rest
<1>2. {[d EXCEPT !.heard = FALSE] : d \in Rest(c)} \subseteq Calls /\ [c EXCEPT !.phase = "thrown"] \in Calls
  BY <1>1, CallChanges
<1>3. calls' \subseteq Calls
  BY <1>1, <1>2 DEF HearFailed
<1>4. ServerTypes'
  BY <1>3 DEF Inv, TypeInv, ServerTypes, HearFailed
<1>5. Question("gone", {}, "member", FALSE, FALSE) \in Dialogs
  BY DEF Question, Dialogs
<1>6. loading' \in [Actors -> BOOLEAN] /\ dialog' \in [Actors -> Dialogs]
  BY <1>5 DEF Inv, TypeInv, PageTypes, HearFailed
<1>7. PageTypes'
  BY <1>6 DEF Inv, TypeInv, PageTypes, HearFailed
<1> QED BY <1>4, <1>7 DEF TypeInv

LEMMA ThrownTypes ==
  ASSUME Inv, NEW c \in calls, Thrown(c)
  PROVE  TypeInv'
<1>1. where' \in [Actors -> {"page", "left", "crashed", "elsewhere"}]
  <2>1. where' = [where EXCEPT ![c.by] = IF where[c.by] = "page" THEN "elsewhere" ELSE where[c.by]]
    BY DEF Thrown
  <2> QED BY <2>1 DEF Inv, TypeInv, PageTypes
<1>2. ServerTypes'
  BY DEF Inv, TypeInv, ServerTypes, Thrown
<1>3. PageTypes'
  BY <1>1 DEF Inv, TypeInv, PageTypes, Thrown
<1> QED BY <1>2, <1>3 DEF TypeInv

-----------------------------------------------------------------------------
(* The requests of an operation.                                           *)

(* A request that has come further: what it asks for stays.                *)
Later(c, d) ==
  /\ d.by = c.by /\ d.job = c.job /\ d.op = c.op /\ d.rows = c.rows /\ d.role = c.role
  /\ d.warned = c.warned /\ d.silent = c.silent
  /\ c.raced => d.raced
  /\ d.heard => c.heard
  /\ d.phase \in {"sent", "told"} => c.phase \in {"sent", "told"}
  /\ d.phase = "thrown" => ~d.silent
(* The requests in flight are some of those before, come further.          *)
Advances ==
  \E g : /\ \A d \in calls' : \E c \in calls : d = g[c] /\ Later(c, g[c])
         /\ \A c, e \in calls : SameJob(c, e) /\ g[c] \in calls' /\ g[e] \in calls' => (g[c].heard <=> g[e].heard)

LEMMA LaterFits ==
  ASSUME NEW c, NEW d, Fits(c), Later(c, d), UNCHANGED jobs
  PROVE  Fits(d)'
BY DEF Fits, Later

LEMMA AdvancesKeepsCalls ==
  ASSUME Inv, Advances, UNCHANGED jobs
  PROVE  CallsInv'
<1>1. PICK g :
        /\ \A d \in calls' : \E c \in calls : d = g[c] /\ Later(c, g[c])
        /\ \A c, e \in calls : SameJob(c, e) /\ g[c] \in calls' /\ g[e] \in calls' => (g[c].heard <=> g[e].heard)
  BY DEF Advances
<1>2. \A d \in calls' : Fits(d)'
  BY <1>1, LaterFits DEF Inv, CallsInv
<1>3. ASSUME NEW d \in calls', NEW e \in calls', SameJob(d, e)  PROVE Together(d, e)
  <2>1. PICK c \in calls : d = g[c] /\ Later(c, d)
    BY <1>1
  <2>2. PICK b \in calls : e = g[b] /\ Later(b, e)
    BY <1>1
  <2>3. SameJob(c, b)
    BY <1>3, <2>1, <2>2 DEF SameJob, Later
  <2>4. Together(c, b)
    BY <2>3 DEF Inv, CallsInv
  <2>5. d.heard <=> e.heard
    BY <1>1, <2>1, <2>2, <2>3
  <2>6. d.op = c.op /\ e.op = b.op
    BY <2>1, <2>2 DEF Later
  <2> QED BY <2>1, <2>2, <2>4, <2>5, <2>6 DEF Together
<1> QED BY <1>2, <1>3 DEF CallsInv

LEMMA AdvancesSpares ==
  ASSUME Inv, Advances, UNCHANGED db
  PROVE  SparesInv'
<1>1. \A d \in calls' : \E c \in calls : Later(c, d)
  BY DEF Advances
<1> SUFFICES ASSUME NEW d \in calls', d.phase \in {"sent", "told"}, d.op \in {"delete", "role"}
             PROVE  Excused(d) \/ Leave(db, RowsOf(d)')
  BY DEF SparesInv, Excused, Leave, Admins
<1>2. PICK c \in calls : Later(c, d)
  BY <1>1
<1>3. c.phase \in {"sent", "told"} /\ c.op \in {"delete", "role"}
  BY <1>2 DEF Later
<1>4. Excused(c) \/ Leave(db, RowsOf(c))
  BY <1>3 DEF Inv, SparesInv
<1>5. Excused(c) => Excused(d)
  BY <1>2 DEF Excused, Later
<1>6. RowsOf(d)' \subseteq RowsOf(c)
  <2> SUFFICES ASSUME NEW r, NEW e \in calls', SameJob(d, e), r \in e.rows  PROVE r \in RowsOf(c)
    BY DEF RowsOf
  <2>1. PICK b \in calls : Later(b, e)
    BY <1>1
  <2>2. SameJob(c, b) /\ r \in b.rows
    BY <1>2, <2>1 DEF SameJob, Later
  <2> QED BY <2>2 DEF RowsOf
<1> QED BY <1>4, <1>5, <1>6 DEF Leave

(* A call answered or told.                                                *)
LEMMA ServedAdvances ==
  ASSUME Inv, NEW c \in calls, NEW p \in {"sent", "told", "ok", "failed"},
         c.phase \in {"sent", "told"} \/ p \notin {"sent", "told"}, calls' = Served(c, p)
  PROVE  Advances
<1> DEFINE g == [d \in calls |-> IF d = c THEN [c EXCEPT !.phase = p] ELSE d]
<1>1. c \in Calls /\ \A d \in calls : Fits(d)
  BY DEF Inv, TypeInv, ServerTypes, CallsInv
<1>2. Later(c, [c EXCEPT !.phase = p]) /\ [c EXCEPT !.phase = p].heard = c.heard
  BY <1>1 DEF Later, Calls
<1>3. \A d \in calls : Later(d, d)
  BY <1>1 DEF Later, Fits
<1>4. \A d \in calls : Later(d, g[d]) /\ g[d].heard = d.heard
  BY <1>2, <1>3
<1>5. \A d \in calls' : \E e \in calls : d = g[e]
  BY DEF Served
<1>6. \A d, e \in calls : SameJob(d, e) => (d.heard <=> e.heard)
  BY DEF Inv, CallsInv, Together
<1> HIDE DEF g
<1> QED BY <1>4, <1>5, <1>6 DEF Advances

LEMMA FewerAdvance ==
  ASSUME Inv, calls' \subseteq calls
  PROVE  Advances
<1> DEFINE g == [d \in calls |-> d]
<1>1. \A d \in calls : g[d] = d /\ Later(d, d)
  BY DEF Inv, CallsInv, Fits, Later
<1>2. \A d, e \in calls : SameJob(d, e) => (d.heard <=> e.heard)
  BY DEF Inv, CallsInv, Together
<1> HIDE DEF g
<1> QED BY <1>1, <1>2 DEF Advances

(* A failure makes the other answers to the operation unheard.             *)
LEMMA HearFailedAdvances ==
  ASSUME Inv, NEW c \in calls, HearFailed(c)
  PROVE  Advances
<1> DEFINE g == [d \in calls |-> IF d = c THEN [c EXCEPT !.phase = "thrown"]
                                 ELSE IF d \in Rest(c) THEN [d EXCEPT !.heard = FALSE] ELSE d]
<1>1. /\ calls \subseteq Calls /\ \A d \in calls : Fits(d)
      /\ \A d, e \in calls : SameJob(d, e) => Together(d, e)
  BY DEF Inv, TypeInv, ServerTypes, CallsInv
<1>2. calls' = (calls \ ({c} \union Rest(c))) \union {[d EXCEPT !.heard = FALSE] : d \in Rest(c)}
               \union (IF c.silent \/ ~c.heard THEN {} ELSE {[c EXCEPT !.phase = "thrown"]})
  BY DEF HearFailed
<1>3. \A d \in Rest(c) : d \in calls /\ d # c /\ SameJob(d, c)
  BY DEF Rest, SameJob
<1>4. \A d \in calls : d # c /\ SameJob(d, c) => d \in Rest(c)
  BY DEF Rest, SameJob
<1>5. \A d \in calls : Later(d, d)
  BY <1>1 DEF Later, Fits
<1>6. \A d \in calls : Later(d, [d EXCEPT !.heard = FALSE]) /\ ~[d EXCEPT !.heard = FALSE].heard
  BY <1>1 DEF Later, Fits, Calls
<1>7. ~c.silent => Later(c, [c EXCEPT !.phase = "thrown"])
  BY <1>1 DEF Later, Calls
<1>8. ASSUME NEW d \in calls'  PROVE \E e \in calls : d = g[e] /\ Later(e, g[e])
  <2>1. CASE d \in calls \ ({c} \union Rest(c))
    BY <1>5, <2>1
  <2>2. CASE d \in {[e EXCEPT !.heard = FALSE] : e \in Rest(c)}
    <3>1. PICK e \in Rest(c) : d = [e EXCEPT !.heard = FALSE]
      BY <2>2
    <3> QED BY <1>3, <1>6, <3>1
  <2>3. CASE ~c.silent /\ d = [c EXCEPT !.phase = "thrown"]
    BY <1>7, <2>3
  <2> QED BY <1>2, <2>1, <2>2, <2>3
<1>9. ASSUME NEW d \in calls, NEW e \in calls, SameJob(d, e), g[d] \in calls', g[e] \in calls'
      PROVE  g[d].heard <=> g[e].heard
  <2>1. d.heard <=> e.heard
    BY <1>1, <1>9 DEF Together
  <2>2. CASE d = e
    BY <2>2
  <2>3. CASE d # e /\ SameJob(d, c)
    <3>1. SameJob(e, c)
      BY <1>9, <2>3 DEF SameJob
    <3>2. c.silent
      <4>1. d.op = "delete"
        BY <1>1, <1>9, <2>3 DEF Together
      <4>2. c.op = "delete"
        BY <1>1, <2>3, <4>1 DEF Together
      <4> QED BY <1>1, <4>2 DEF Fits
    <3>3. ASSUME NEW x \in calls, SameJob(x, c), g[x] \in calls'  PROVE ~g[x].heard
      <4>1. CASE x # c
        BY <1>4, <1>6, <3>3, <4>1
      <4>2. CASE x = c
        <5>1. g[c] = [c EXCEPT !.phase = "thrown"]
          OBVIOUS
        <5>2. g[c].phase = "thrown" /\ g[c].silent
          BY <1>1, <3>2, <5>1 DEF Calls
        <5>3. \A y \in calls : y.phase = "thrown" => ~y.silent
          BY <1>1 DEF Fits
        <5>4. \A y \in Rest(c) : ~[y EXCEPT !.heard = FALSE].heard
          BY <1>3, <1>6
        <5>5. g[c] \in {[y EXCEPT !.heard = FALSE] : y \in Rest(c)}
          BY <1>2, <3>2, <3>3, <4>2, <5>2, <5>3
        <5> QED BY <4>2, <5>4, <5>5
      <4> QED BY <4>1, <4>2
    <3> QED BY <1>9, <2>3, <3>1, <3>3
  <2>4. CASE d # e /\ ~SameJob(d, c)
    <3>1. ~SameJob(e, c) /\ d # c /\ e # c
      BY <1>9, <2>4 DEF SameJob
    <3>2. d \notin Rest(c) /\ e \notin Rest(c)
      BY <1>3, <2>4, <3>1
    <3> QED BY <2>1, <3>1, <3>2
  <2> QED BY <2>2, <2>3, <2>4
<1> HIDE DEF g
<1> QED BY <1>8, <1>9 DEF Advances

(* A commit: the call is answered, and a change marks the others as raced. *)
LEMMA CommitCalls ==
  ASSUME Inv, NEW c \in calls, Commit(c)
  PROVE  /\ Advances /\ UNCHANGED jobs /\ [c EXCEPT !.phase = "ok"] \in calls'
         /\ db' # db => \A d \in calls' : d.raced \/ SameJob(d, c)
<1> DEFINE ok == [c EXCEPT !.phase = "ok"]
           raced(d) == [d EXCEPT !.raced = TRUE]
           g == [d \in calls |-> IF d = c THEN ok ELSE IF SameJob(d, c) THEN d ELSE raced(d)]
<1>1. /\ calls \subseteq Calls /\ \A d \in calls : Fits(d)
  BY DEF Inv, TypeInv, ServerTypes, CallsInv
<1>2. ok \in calls' /\ (Applied(c) = db => calls' = Served(c, "ok"))
      /\ (Applied(c) # db => calls' = Raced(Served(c, "ok"), c)) /\ UNCHANGED jobs /\ db' = Applied(c)
  <2>1. ok \in Served(c, "ok")
    BY DEF Served
  <2>2. ok.by = c.by /\ ok.job = c.job
    BY <1>1 DEF Calls
  <2>3. ok \in Raced(Served(c, "ok"), c)
    BY <2>1, <2>2 DEF Raced
  <2> QED BY <2>1, <2>3 DEF Commit
<1>3. CASE Applied(c) = db
  BY <1>2, <1>3, ServedAdvances
<1>4. CASE Applied(c) # db
  <2>1. Later(c, ok) /\ ok.heard = c.heard /\ SameJob(ok, c)
    BY <1>1 DEF Later, Calls, SameJob
  <2>2. \A d \in calls : /\ Later(d, raced(d)) /\ raced(d).heard = d.heard /\ raced(d).raced
                         /\ Later(d, d)
    BY <1>1 DEF Later, Fits, Calls
  <2>3. \A d \in calls : Later(d, g[d]) /\ g[d].heard = d.heard
    BY <2>1, <2>2
  <2> HIDE DEF raced
  <2>4. \A d \in calls' : \E e \in calls : d = g[e]
    <3>1. calls' = {IF SameJob(d, c) THEN d ELSE raced(d) : d \in Served(c, "ok")}
      BY <1>2, <1>4 DEF Raced, SameJob, raced
    <3>2. Served(c, "ok") = (calls \ {c}) \union {ok}
      BY DEF Served
    <3> HIDE DEF ok
    <3> SUFFICES ASSUME NEW d \in Served(c, "ok")
                 PROVE  \E e \in calls : (IF SameJob(d, c) THEN d ELSE raced(d)) = g[e]
      BY <3>1
    <3>3. CASE d = ok
      BY <2>1, <3>3
    <3>4. CASE d \in calls \ {c}
      BY <3>4
    <3> QED BY <3>2, <3>3, <3>4
  <2>5. \A d, e \in calls : SameJob(d, e) => (d.heard <=> e.heard)
    BY DEF Inv, CallsInv, Together
  <2>6. \A d \in calls' : d.raced \/ SameJob(d, c)
    <3>1. \A d \in calls : g[d].raced \/ SameJob(g[d], c)
      <4> HIDE DEF ok
      <4> QED BY <2>1, <2>2
    <3> HIDE DEF g
    <3> QED BY <2>4, <3>1
  <2> HIDE DEF g
  <2>7. Advances
    BY <2>3, <2>4, <2>5 DEF Advances
  <2> QED BY <1>2, <2>6, <2>7
<1> QED BY <1>2, <1>3, <1>4

(* What a handler does to the administrators.                              *)
LEMMA AppliedAdmins ==
  ASSUME Inv, NEW c \in calls
  PROVE  /\ c.op \in {"delete", "role"} => \A u \in Admins(db) : u \notin c.rows => u \in Admins(Applied(c))
         /\ c.op \notin {"delete", "role"} => Admins(db) \subseteq Admins(Applied(c))
         /\ c.op = "role" /\ c.role = "admin" => Admins(db) \subseteq Admins(Applied(c))
         /\ c.op \in {"delete", "role"} /\ ~(c.op = "role" /\ c.role = "admin") => Admins(Applied(c)) \subseteq Admins(db)
<1>1. /\ db \in [Rows -> States] /\ c.role \in {"admin", "member"} /\ Fits(c)
      /\ c.op \in {"delete", "role", "expiry", "resend", "accept"}
  BY DEF Inv, TypeInv, ServerTypes, CallsInv, Calls
<1>2. CASE c.op = "delete"
  BY <1>2, RowsFacts DEF Applied, Admins, Gone
<1>3. CASE c.op = "role"
  BY <1>1, <1>3, RowsFacts DEF Applied, Admins
<1>4. CASE c.op = "expiry"
  BY <1>4 DEF Applied
<1>5. CASE c.op = "resend"
  <2>1. Target(c) \subseteq Invites
    BY <1>5 DEF Target
  <2>2. Applied(c) = [r \in Rows |-> IF r \in Target(c) THEN "open" ELSE db[r]]
    BY <1>5 DEF Applied
  <2> QED BY <1>5, <2>1, <2>2, RowsFacts DEF Admins
<1>6. CASE c.op = "accept"
  <2>1. c.rows \subseteq Invites
    BY <1>1, <1>6 DEF Fits
  <2>2. \A u \in Admins(db) : Applied(c)[u] = "admin"
    <3> SUFFICES ASSUME NEW u \in Admins(db)  PROVE Applied(c)[u] = "admin"
      OBVIOUS
    <3>1. u \in Users /\ db[u] = "admin" /\ u \in Rows /\ u \notin c.rows /\ db[u] # Gone
      BY <2>1, RowsFacts DEF Admins, Gone
    <3> QED BY <1>6, <3>1 DEF Applied
  <2> QED BY <1>6, <2>2 DEF Admins
<1> QED BY <1>1, <1>2, <1>3, <1>4, <1>5, <1>6

(* An operation that a question excused, or that leaves one, does.         *)
LEMMA CommitLeaves ==
  ASSUME Inv, NEW c \in calls, c.phase \in {"sent", "told"}, Admins(db) # {}, Admins(Applied(c)) = {}
  PROVE  c.warned \/ c.raced
<1>1. c.op \in {"delete", "role"} /\ ~(c.op = "role" /\ c.role = "admin")
  BY AppliedAdmins
<1>2. c.rows \subseteq RowsOf(c)
  BY DEF RowsOf, SameJob
<1>3. ~Leave(db, RowsOf(c))
  BY <1>1, <1>2, AppliedAdmins DEF Leave
<1> QED BY <1>1, <1>3 DEF Inv, SparesInv, Excused

LEMMA CommitSpares ==
  ASSUME Inv, NEW c \in calls, Commit(c), c.phase \in {"sent", "told"}
  PROVE  SparesInv'
<1>1. /\ Advances /\ (db' # db => \A d \in calls' : d.raced \/ SameJob(d, c)) /\ db' = Applied(c)
  BY CommitCalls DEF Commit
<1>2. CASE db' = db
  BY <1>1, <1>2, AdvancesSpares
<1>3. CASE db' # db
  <2> SUFFICES ASSUME NEW d \in calls', d.phase \in {"sent", "told"}, d.op \in {"delete", "role"}, ~Excused(d)
               PROVE  Leave(db', RowsOf(d)')
    BY DEF SparesInv, Excused, Leave, Admins
  <2>1. \A e \in calls' : \E b \in calls : Later(b, e)
    BY <1>1 DEF Advances
  <2>2. PICK b \in calls : Later(b, d)
    BY <2>1
  <2>3. SameJob(d, c) /\ SameJob(b, c)
    BY <1>1, <1>3, <2>2 DEF Excused, SameJob, Later
  <2>4. Together(b, c) /\ c.op = d.op /\ b.op = d.op
    BY <2>2, <2>3 DEF Inv, CallsInv, Together, Later
  <2>5. ~Excused(b) /\ b.phase \in {"sent", "told"}
    BY <2>2 DEF Excused, Later
  <2>6. Leave(db, RowsOf(b))
    BY <2>4, <2>5 DEF Inv, SparesInv
  <2>7. ~(c.op = "role" /\ c.role = "admin")
    BY <2>2, <2>4, <2>5 DEF Together, Excused
  <2>8. RowsOf(d)' \subseteq RowsOf(b)
    <3> SUFFICES ASSUME NEW r, NEW e \in calls', SameJob(d, e), r \in e.rows  PROVE r \in RowsOf(b)
      BY DEF RowsOf
    <3>1. PICK x \in calls : Later(x, e)
      BY <2>1
    <3>2. SameJob(b, x) /\ r \in x.rows
      BY <2>2, <3>1 DEF SameJob, Later
    <3> QED BY <3>2 DEF RowsOf
  <2>9. c.rows \subseteq RowsOf(b)
    BY <2>3 DEF RowsOf, SameJob
  <2>10. SUFFICES ASSUME Admins(db') # {}  PROVE \E u \in Admins(db') : u \notin RowsOf(d)'
    BY DEF Leave
  <2>11. Admins(db) # {}
    BY <1>1, <2>4, <2>7, <2>10, AppliedAdmins
  <2>12. PICK u \in Admins(db) : u \notin RowsOf(b)
    BY <2>6, <2>11 DEF Leave
  <2>13. u \in Admins(db')
    BY <1>1, <2>4, <2>9, <2>12, AppliedAdmins
  <2> QED BY <2>8, <2>12, <2>13
<1> QED BY <1>2, <1>3

(* A new operation.                                                        *)
LEMMA OperatesApart ==
  ASSUME Inv, NEW a \in Actors, NEW c \in calls, NEW d, Fresh(a, d)
  PROVE  ~SameJob(c, d) /\ ~SameJob(d, c)
<1>1. c.by = a => c.job < jobs[a] /\ c.job \in Nat
  BY DEF Inv, CallsInv, Fits, TypeInv, ServerTypes, Calls
<1>2. jobs[a] \in Nat
  BY DEF Inv, TypeInv, PageTypes
<1> QED BY <1>1, <1>2 DEF SameJob, Fresh

LEMMA OperatesCalls ==
  ASSUME Inv, NEW a \in Actors, Operates(a)
  PROVE  CallsInv' /\ SparesInv'
<1>1. PICK cs : Send(a, cs) /\ (\A c \in cs : Fresh(a, c)) /\ Spread(cs) /\ Spared(cs)
  BY DEF Operates
<1>2. /\ calls' = calls \union cs /\ jobs' = [jobs EXCEPT ![a] = jobs[a] + 1] /\ UNCHANGED db
  BY <1>1 DEF Send
<1>3. \A c \in calls, d \in cs : ~SameJob(c, d) /\ ~SameJob(d, c)
  BY <1>1, OperatesApart
<1>4. ASSUME NEW c \in calls'  PROVE Fits(c)'
  <2>0. jobs \in [Actors -> Nat]
    BY DEF Inv, TypeInv, PageTypes
  <2>1. CASE c \in calls
    <3>1. Fits(c) /\ c.job \in Nat
      BY <2>1 DEF Inv, CallsInv, TypeInv, ServerTypes, Calls
    <3>2. c.by \in Actors => c.job < jobs'[c.by]
      BY <1>2, <2>0, <3>1 DEF Fits
    <3> QED BY <3>1, <3>2 DEF Fits
  <2>2. CASE c \in cs
    <3>1. Fresh(a, c)
      BY <1>1, <2>2
    <3>2. c.job < jobs'[c.by]
      BY <1>2, <2>0, <3>1 DEF Fresh
    <3>3. c.by \notin Invites /\ c.op # "accept"
      BY <3>1, RowsFacts DEF Fresh
    <3> QED BY <3>1, <3>2, <3>3 DEF Fits, Fresh
  <2> QED BY <1>2, <2>1, <2>2
<1>5. ASSUME NEW c \in calls', NEW d \in calls', SameJob(c, d)  PROVE Together(c, d)
  <2>1. CASE c \in calls /\ d \in calls
    BY <1>5, <2>1 DEF Inv, CallsInv
  <2>2. CASE c \in cs /\ d \in cs
    BY <1>1, <2>2 DEF Spread, Fresh, Together
  <2> QED BY <1>2, <1>3, <1>5, <2>1, <2>2
<1>6. ASSUME NEW c \in calls', c.phase \in {"sent", "told"}, c.op \in {"delete", "role"}, ~Excused(c)
      PROVE  Leave(db, RowsOf(c)')
  <2>1. CASE c \in calls
    <3>1. RowsOf(c)' \subseteq RowsOf(c)
      BY <1>2, <1>3, <2>1 DEF RowsOf
    <3>2. Leave(db, RowsOf(c))
      BY <1>6, <2>1 DEF Inv, SparesInv
    <3> QED BY <3>1, <3>2 DEF Leave
  <2>2. CASE c \in cs
    <3>1. PICK rows : Leave(db, rows) /\ \A d \in cs : d.rows \subseteq rows
      BY <1>1, <1>6, <2>2 DEF Spared
    <3>2. RowsOf(c)' \subseteq rows
      BY <1>2, <1>3, <2>2, <3>1 DEF RowsOf
    <3> QED BY <3>1, <3>2 DEF Leave
  <2> QED BY <1>2, <2>1, <2>2
<1>7. CallsInv'
  BY <1>4, <1>5 DEF CallsInv
<1>8. SparesInv'
  BY <1>2, <1>6 DEF SparesInv, Excused, Leave, Admins
<1> QED BY <1>7, <1>8

LEMMA AcceptCalls ==
  ASSUME Inv, NEW i \in Invites, Accept(i)
  PROVE  CallsInv' /\ SparesInv'
<1> DEFINE c == [by |-> i, job |-> 0, op |-> "accept", rows |-> {i}, role |-> "member", warned |-> FALSE,
                 raced |-> FALSE, silent |-> FALSE, phase |-> "sent", heard |-> FALSE]
<1>1. calls' = calls \union {c} /\ UNCHANGED <<db, jobs>> /\ \A d \in calls : d.op # "accept"
  BY DEF Accept, browser
<1>2. c.by = i /\ c.op = "accept" /\ c.rows = {c.by} /\ ~c.heard /\ c.phase = "sent"
  OBVIOUS
<1> HIDE DEF c
<1>3. \A d \in calls : ~SameJob(c, d) /\ ~SameJob(d, c) /\ Fits(d)
  BY <1>1, <1>2 DEF Inv, CallsInv, Fits, SameJob
<1>4. \A d \in calls' : Fits(d)'
  <2>1. Fits(c)'
    <3>1. c.by \notin Actors
      BY <1>2, RowsFacts
    <3> QED BY <1>2, <3>1 DEF Fits
  <2>2. \A d \in calls : Fits(d)'
    BY <1>1, <1>3 DEF Fits
  <2> QED BY <1>1, <2>1, <2>2
<1>5. \A d, e \in calls' : SameJob(d, e) => Together(d, e)
  BY <1>1, <1>3 DEF Inv, CallsInv, Together
<1>6. ASSUME NEW d \in calls', d.phase \in {"sent", "told"}, d.op \in {"delete", "role"}, ~Excused(d)
      PROVE  Leave(db, RowsOf(d)')
  <2>1. d \in calls
    BY <1>1, <1>2, <1>6
  <2>2. RowsOf(d)' \subseteq RowsOf(d)
    BY <1>1, <1>3, <2>1 DEF RowsOf
  <2>3. Leave(db, RowsOf(d))
    BY <1>6, <2>1 DEF Inv, SparesInv
  <2> QED BY <2>2, <2>3 DEF Leave
<1>7. CallsInv'
  BY <1>4, <1>5 DEF CallsInv
<1>8. SparesInv'
  BY <1>1, <1>6 DEF SparesInv, Excused, Leave, Admins
<1> QED BY <1>7, <1>8

-----------------------------------------------------------------------------
(* Selections and questions.                                               *)
Quiet == \A a \in Actors : dialog'[a] = dialog[a] \/ dialog'[a].op \in {"none", "gone"}

LEMMA QuietAsked ==
  ASSUME Inv, Quiet, UNCHANGED <<scene, ticked, found>>
  PROVE  AskedInv'
BY DEF Inv, AskedInv, Quiet, Selected, page

LEMMA QuietDialogs ==
  ASSUME Inv, Quiet, UNCHANGED db
  PROVE  DialogsInv'
<1>1. ASSUME NEW a \in Actors, dialog'[a].op \in {"removeSelected", "removeOne", "role"}
      PROVE  Excused(dialog'[a]) \/ Leave(db, dialog'[a].rows)
  <2>1. dialog'[a] = dialog[a]
    BY <1>1 DEF Quiet
  <2> QED BY <1>1, <2>1 DEF Inv, DialogsInv
<1> QED BY <1>1 DEF DialogsInv, Excused, Leave, Admins

LEMMA SameChecks ==
  ASSUME Inv, UNCHANGED <<scene, mixed, refs, ticked>>
  PROVE  ChecksInv'
BY DEF Inv, ChecksInv, Leave, Admins, page

LEMMA ChecksKeep ==
  ASSUME Inv, NEW a \in Actors, Checks(a)
  PROVE  AskedInv' /\ ChecksInv' /\ DialogsInv'
<1>1. UNCHANGED <<scene, db, refs, dialog>> /\ dialog[a].op = "none"
  BY DEF Checks, ServerSame
<1>2. \A b \in Actors : b # a => ticked'[b] = ticked[b] /\ found'[b] = found[b] /\ mixed'[b] = mixed[b]
  BY DEF Checks
<1>3. AskedInv'
  BY <1>1, <1>2 DEF Inv, AskedInv, Selected, page
<1>4. ASSUME NEW b \in Actors, page = "organisation", ~mixed'[b]  PROVE Leave(refs[b], ticked'[b])
  <2>1. CASE b = a
    BY <1>4, <2>1 DEF Checks
  <2>2. CASE b # a
    BY <1>2, <1>4, <2>2 DEF Inv, ChecksInv
  <2> QED BY <2>1, <2>2
<1>5. ChecksInv'
  BY <1>1, <1>4 DEF ChecksInv, Leave, Admins, page
<1>6. DialogsInv'
  BY <1>1, QuietDialogs DEF Quiet
<1> QED BY <1>3, <1>5, <1>6

LEMMA AsksKeep ==
  ASSUME Inv, NEW a \in Actors, Asks(a)
  PROVE  AskedInv' /\ ChecksInv' /\ DialogsInv'
<1>1. PICK q : Answerable(q, a) /\ Ask(a, q)
  BY DEF Asks
<1>2. /\ UNCHANGED <<scene, db, refs, ticked, found, mixed>> /\ dialog' = [dialog EXCEPT ![a] = q]
  BY <1>1 DEF Ask
<1>3. dialog \in [Actors -> Dialogs]
  BY DEF Inv, TypeInv, PageTypes
<1>4. \A b \in Actors : dialog'[b] = IF b = a THEN q ELSE dialog[b]
  BY <1>2, <1>3
<1>5. ASSUME NEW b \in Actors, dialog'[b].op = "removeSelected"  PROVE dialog'[b].rows = Selected(b)
  BY <1>1, <1>4, <1>5 DEF Inv, AskedInv, Answerable
<1>6. AskedInv'
  BY <1>2, <1>5 DEF AskedInv, Selected, page
<1>7. ASSUME NEW b \in Actors, dialog'[b].op \in {"removeSelected", "removeOne", "role"}
      PROVE  Excused(dialog'[b]) \/ Leave(db, dialog'[b].rows)
  <2>1. CASE b = a
    BY <1>1, <1>4, <1>7, <2>1 DEF Answerable
  <2>2. CASE b # a
    BY <1>4, <1>7, <2>2 DEF Inv, DialogsInv
  <2> QED BY <2>1, <2>2
<1>8. DialogsInv'
  BY <1>2, <1>7 DEF DialogsInv, Excused, Leave, Admins
<1> QED BY <1>2, <1>6, <1>8, SameChecks

(* The steps that leave what is selected.                                  *)
LEMMA QuietKeep ==
  ASSUME Inv, Quiet, UNCHANGED <<scene, db, ticked, found, mixed, refs>>
  PROVE  AskedInv' /\ ChecksInv' /\ DialogsInv'
BY QuietAsked, QuietDialogs, SameChecks

LEMMA QuietSteps ==
  ASSUME Inv
  PROVE  /\ \A a \in Actors : Operates(a) \/ ConfirmGone(a) \/ HearSocket(a) => AskedInv' /\ ChecksInv' /\ DialogsInv'
         /\ \A i \in Invites : Accept(i) => AskedInv' /\ ChecksInv' /\ DialogsInv'
         /\ \A c \in calls : Refuse(c) \/ Tell(c) \/ HearOk(c) \/ HearFailed(c) \/ Thrown(c)
                               => AskedInv' /\ ChecksInv' /\ DialogsInv'
<1>0. dialog \in [Actors -> Dialogs] /\ NoDialog.op = "none"
  BY NoDialogType DEF Inv, TypeInv, PageTypes
<1>1. ASSUME NEW a \in Actors, Operates(a)  PROVE AskedInv' /\ ChecksInv' /\ DialogsInv'
  <2>1. UNCHANGED <<scene, db, ticked, found, mixed, refs>> /\ dialog' \in {dialog, [dialog EXCEPT ![a] = NoDialog]}
    BY <1>1 DEF Operates, Send
  <2>2. Quiet
    BY <1>0, <2>1 DEF Quiet
  <2> QED BY <2>1, <2>2, QuietKeep
<1>2. ASSUME NEW a \in Actors, ConfirmGone(a)  PROVE AskedInv' /\ ChecksInv' /\ DialogsInv'
  <2>1. UNCHANGED <<scene, db, ticked, found, mixed, refs>> /\ dialog' = [dialog EXCEPT ![a] = NoDialog]
    BY <1>2 DEF ConfirmGone
  <2>2. Quiet
    BY <1>0, <2>1 DEF Quiet
  <2> QED BY <2>1, <2>2, QuietKeep
<1>3. ASSUME UNCHANGED <<scene, db, ticked, found, mixed, refs, dialog>>
      PROVE  AskedInv' /\ ChecksInv' /\ DialogsInv'
  BY <1>3, QuietKeep DEF Quiet
<1>4. ASSUME NEW a \in Actors, HearSocket(a)  PROVE AskedInv' /\ ChecksInv' /\ DialogsInv'
  BY <1>3, <1>4 DEF HearSocket, browser
<1>5. ASSUME NEW i \in Invites, Accept(i)  PROVE AskedInv' /\ ChecksInv' /\ DialogsInv'
  BY <1>3, <1>5 DEF Accept, browser
<1>6. ASSUME NEW c \in calls, Refuse(c) \/ Tell(c)  PROVE AskedInv' /\ ChecksInv' /\ DialogsInv'
  BY <1>3, <1>6 DEF Refuse, Tell, browser
<1>7. ASSUME NEW c \in calls, HearOk(c) \/ Thrown(c)  PROVE AskedInv' /\ ChecksInv' /\ DialogsInv'
  BY <1>3, <1>7 DEF HearOk, Thrown
<1>8. ASSUME NEW c \in calls, HearFailed(c)  PROVE AskedInv' /\ ChecksInv' /\ DialogsInv'
  <2> DEFINE q == Question("gone", {}, "member", FALSE, FALSE)
  <2>1. UNCHANGED <<scene, db, ticked, found, mixed, refs>> /\ dialog' \in {dialog, [dialog EXCEPT ![c.by] = q]}
    BY <1>8 DEF HearFailed
  <2>2. q.op = "gone"
    BY DEF Question
  <2> HIDE DEF q
  <2>3. Quiet
    BY <1>0, <2>1, <2>2 DEF Quiet
  <2> QED BY <2>1, <2>3, QuietKeep
<1> QED BY <1>1, <1>2, <1>4, <1>5, <1>6, <1>7, <1>8

(* A change of the rows marks the open questions as raced.                 *)
LEMMA CommitKeeps ==
  ASSUME Inv, NEW c \in calls, Commit(c)
  PROVE  AskedInv' /\ ChecksInv' /\ DialogsInv'
<1>1. UNCHANGED <<scene, ticked, found, mixed, refs>> /\ db' = Applied(c)
  BY DEF Commit
<1>2. dialog \in [Actors -> Dialogs]
  BY DEF Inv, TypeInv, PageTypes
<1>3. ASSUME NEW a \in Actors
      PROVE  /\ dialog'[a].op = dialog[a].op /\ dialog'[a].rows = dialog[a].rows
             /\ dialog'[a].op # "none" /\ db' # db => dialog'[a].raced
             /\ db' = db => dialog'[a] = dialog[a]
  <2>1. dialog[a] \in Dialogs
    BY <1>2
  <2>2. dialog'[a] = IF Applied(c) = db THEN dialog[a] ELSE [dialog[a] EXCEPT !.raced = dialog[a].op # "none"]
    BY DEF Commit
  <2> QED BY <1>1, <2>1, <2>2 DEF Dialogs
<1>4. AskedInv'
  BY <1>1, <1>3 DEF Inv, AskedInv, Selected, page
<1>5. DialogsInv'
  <2>1. CASE db' = db
    BY <1>3, <2>1, QuietDialogs DEF Quiet
  <2>2. CASE db' # db
    BY <1>3, <2>2 DEF DialogsInv, Excused
  <2> QED BY <2>1, <2>2
<1> QED BY <1>1, <1>4, <1>5, SameChecks

LEMMA HearKeeps ==
  ASSUME Inv, NEW f \in fetches, Hear(f)
  PROVE  AskedInv' /\ ChecksInv' /\ DialogsInv'
<1> DEFINE a == f.by
<1>0. UNCHANGED <<scene, db, found>> /\ NoDialog.op = "none"
  BY NoDialogType DEF Hear, browser
<1>1. CASE UNCHANGED <<refs, ticked, mixed, dialog>>
  BY <1>0, <1>1, QuietKeep DEF Quiet
<1>2. CASE Mount(a, f.rows)
  <2>1. /\ ticked \in [Actors -> SUBSET Rows] /\ dialog \in [Actors -> Dialogs]
    BY DEF Inv, TypeInv, PageTypes
  <2>2. /\ ticked' = [ticked EXCEPT ![a] = {}] /\ refs' = [refs EXCEPT ![a] = f.rows]
        /\ mixed' = [mixed EXCEPT ![a] = FALSE] /\ dialog' = [dialog EXCEPT ![a] = NoDialog]
    BY <1>2 DEF Mount
  <2>3. \A b \in Actors : IF b = a THEN ticked'[b] = {} /\ dialog'[b] = NoDialog
                          ELSE ticked'[b] = ticked[b] /\ dialog'[b] = dialog[b]
    BY <2>1, <2>2
  <2>4. \A b \in Actors : b # a => refs'[b] = refs[b] /\ mixed'[b] = mixed[b]
    BY <2>2 DEF Inv, TypeInv, PageTypes
  <2>5. Quiet
    BY <1>0, <2>3 DEF Quiet
  <2>6. AskedInv'
    BY <1>0, <2>3 DEF Inv, AskedInv, Selected, page
  <2>7. ASSUME NEW b \in Actors, page = "organisation", ~mixed'[b]  PROVE Leave(refs'[b], ticked'[b])
    <3>1. CASE b = a
      BY <2>3, <3>1 DEF Leave
    <3>2. CASE b # a
      BY <2>3, <2>4, <2>7, <3>2 DEF Inv, ChecksInv
    <3> QED BY <3>1, <3>2
  <2>8. ChecksInv'
    BY <1>0, <2>7 DEF ChecksInv, Leave, Admins, page
  <2> QED BY <1>0, <2>5, <2>6, <2>8, QuietDialogs
<1> QED BY <1>1, <1>2 DEF Hear, browser

-----------------------------------------------------------------------------
(* What a page knows.                                                      *)
LEMMA Numbers ==
  ASSUME Inv
  PROVE  /\ version \in Nat /\ seen \in [Actors -> Nat] /\ blind \in [Actors -> BOOLEAN]
         /\ where \in [Actors -> {"page", "left", "crashed", "elsewhere"}] /\ dialog \in [Actors -> Dialogs]
         /\ \A f \in fetches : f.version \in Nat /\ f.by \in Actors /\ f.version <= version
         /\ \A a \in Actors : seen[a] <= version
BY DEF Inv, TypeInv, ServerTypes, PageTypes, Fetches, Numbered

LEMMA SameNumbers ==
  ASSUME Inv, UNCHANGED <<version, seen>>,
         \A f \in fetches' : f \in fetches \/ f.version = version
  PROVE  Numbered'
BY Numbers DEF Numbered

(* A step without a commit or a reading heard leaves who is informed so,   *)
(* when requests that were awaited are, or their answer is read for.       *)
Calmly == /\ UNCHANGED <<version, seen, blind>>
          /\ \A f \in fetches : f \in fetches'

LEMMA CalmNews ==
  ASSUME Inv, Calmly,
         \A a \in Actors : where'[a] = "page" =>
           /\ where[a] = "page"
           /\ \/ (dialog[a].op = "gone" => dialog'[a].op = "gone") /\ (a \in inbox => a \in inbox') /\ (Awaits(a) => Awaits(a)')
              \/ Fetching(a)' \/ dialog'[a].op = "gone"
  PROVE  NewsInv'
<1> SUFFICES ASSUME NEW a \in Actors, where'[a] = "page"  PROVE Informed(a)'
  BY DEF NewsInv
<1>1. Informed(a)
  BY DEF Inv, NewsInv
<1>2. CASE Fetching(a)' \/ dialog'[a].op = "gone"
  BY <1>2 DEF Informed
<1>3. CASE (dialog[a].op = "gone" => dialog'[a].op = "gone") /\ (a \in inbox => a \in inbox') /\ (Awaits(a) => Awaits(a)')
  <2>1. Fetching(a) => Fetching(a)'
    BY DEF Fetching, Calmly
  <2>2. blind'[a] = blind[a] /\ seen'[a] = seen[a] /\ version' = version
    BY DEF Calmly
  <2> QED BY <1>1, <1>3, <2>1, <2>2 DEF Informed
<1> QED BY <1>2, <1>3

LEMMA UserNews ==
  ASSUME Inv, NEW a \in Actors, Checks(a) \/ Asks(a) \/ Operates(a)
  PROVE  Numbered' /\ NewsInv'
<1>0. dialog \in [Actors -> Dialogs]
  BY Numbers
<1>1. UNCHANGED <<version, seen, blind, fetches, inbox, where>> /\ calls \subseteq calls'
  BY DEF Checks, ServerSame, Asks, Ask, Operates, Send
<1>2. \A b \in Actors : dialog[b].op = "gone" => dialog'[b].op = "gone"
  <2>1. CASE Checks(a)
    BY <2>1 DEF Checks
  <2>2. CASE Asks(a)
    BY <1>0, <2>2 DEF Asks, Ask
  <2>3. CASE Operates(a)
    <3>1. dialog[a].op # "gone" /\ dialog' \in {dialog, [dialog EXCEPT ![a] = NoDialog]}
      BY <2>3 DEF Operates
    <3> QED BY <1>0, <3>1
  <2> QED BY <2>1, <2>2, <2>3
<1>3. \A b \in Actors : Awaits(b) => Awaits(b)'
  BY <1>1 DEF Awaits
<1>4. Calmly
  BY <1>1 DEF Calmly
<1> QED BY <1>1, <1>2, <1>3, <1>4, SameNumbers, CalmNews

LEMMA ConfirmGoneNews ==
  ASSUME Inv, NEW a \in Actors, ConfirmGone(a)
  PROVE  Numbered' /\ NewsInv'
<1>0. dialog \in [Actors -> Dialogs]
  BY Numbers
<1>1. /\ UNCHANGED <<version, seen, blind, inbox, where, calls>> /\ dialog' = [dialog EXCEPT ![a] = NoDialog]
      /\ fetches' = fetches \union {Fetch(a, TRUE)}
  BY DEF ConfirmGone
<1>2. Fetch(a, TRUE).by = a /\ Fetch(a, TRUE).version = version
  BY FetchType DEF Inv
<1>3. Fetching(a)' /\ Calmly
  BY <1>1, <1>2 DEF Fetching, Calmly
<1>4. Numbered'
  BY <1>1, <1>2, SameNumbers
<1>5. \A b \in Actors : b # a => dialog'[b] = dialog[b]
  BY <1>0, <1>1
<1>6. \A b \in Actors : Awaits(b) => Awaits(b)'
  BY <1>1 DEF Awaits
<1>7. NewsInv'
  BY <1>1, <1>3, <1>5, <1>6, CalmNews
<1> QED BY <1>4, <1>7

LEMMA AcceptNews ==
  ASSUME Inv, NEW i \in Invites, Accept(i)
  PROVE  Numbered' /\ NewsInv'
<1>1. UNCHANGED <<version, fetches, inbox, seen, blind, where, dialog>> /\ calls \subseteq calls'
  BY DEF Accept, browser
<1>2. \A b \in Actors : Awaits(b) => Awaits(b)'
  BY <1>1 DEF Awaits
<1>3. Calmly
  BY <1>1 DEF Calmly
<1> QED BY <1>1, <1>2, <1>3, SameNumbers, CalmNews

(* Who waits for an answer still does when it is under way.                *)
LEMMA ServedAwaits ==
  ASSUME Inv, NEW c \in calls, c.phase \in {"sent", "told"}, NEW p \in {"told", "ok", "failed"}, NEW cs,
         Served(c, p) \subseteq cs, NEW a \in Actors, Awaits(a)
  PROVE  \E d \in cs : d.by = a /\ d.heard /\ d.phase # "thrown" /\ (d.op = "resend" => d.phase = "ok")
<1>1. PICK d \in calls : d.by = a /\ d.heard /\ d.phase # "thrown" /\ (d.op = "resend" => d.phase = "ok")
  BY DEF Awaits
<1>2. CASE d # c
  BY <1>1, <1>2 DEF Served
<1>3. CASE d = c
  <2>1. c \in Calls
    BY DEF Inv, TypeInv, ServerTypes
  <2>2. [c EXCEPT !.phase = p] \in cs
    BY DEF Served
  <2>3. /\ [c EXCEPT !.phase = p].by = a /\ [c EXCEPT !.phase = p].heard /\ [c EXCEPT !.phase = p].phase = p
        /\ [c EXCEPT !.phase = p].op = c.op
    BY <1>1, <1>3, <2>1 DEF Calls
  <2>4. c.op # "resend"
    BY <1>1, <1>3
  <2> QED BY <2>2, <2>3, <2>4
<1> QED BY <1>2, <1>3

LEMMA PhaseNews ==
  ASSUME Inv, NEW c \in calls, Refuse(c) \/ Tell(c)
  PROVE  Numbered' /\ NewsInv'
<1>1. UNCHANGED <<version, fetches, seen, blind, where, dialog>> /\ inbox \subseteq inbox' /\ c.phase = "sent"
  BY DEF Refuse, Tell, browser
<1>2. PICK p \in {"told", "failed"} : calls' = Served(c, p)
  BY DEF Refuse, Tell
<1>3. \A b \in Actors : Awaits(b) => Awaits(b)'
  BY <1>1, <1>2, ServedAwaits DEF Awaits
<1>4. Calmly
  BY <1>1 DEF Calmly
<1> QED BY <1>1, <1>3, <1>4, SameNumbers, CalmNews

LEMMA CommitNews ==
  ASSUME Inv, NEW c \in calls, CommitThenTell(c) \/ CommitTold(c)
  PROVE  Numbered' /\ NewsInv'
<1>1. /\ Commit(c) /\ c.phase \in {"sent", "told"} /\ inbox \subseteq inbox'
      /\ \A a \in Actors : /\ blind[a] => blind'[a]
                           /\ a = c.by /\ ~c.heard => blind'[a]
                           /\ a # c.by /\ where[a] = "page" => blind'[a] \/ a \in inbox'
  BY CommitsNews
<1>2. UNCHANGED <<fetches, seen, where>> /\ version' \in {version, version + 1}
  BY <1>1 DEF Commit
<1>3. Numbered'
  <2>1. version' \in Nat /\ version <= version'
    BY <1>2, Numbers
  <2>2. \A n \in Nat : n <= version => n <= version'
    BY <2>1, Numbers
  <2> QED BY <1>2, <2>2, Numbers DEF Numbered
<1>4. CASE Applied(c) = db
  <2>1. version' = version /\ calls' = Served(c, "ok") /\ \A a \in Actors : dialog'[a] = dialog[a]
    BY <1>1, <1>4 DEF Commit
  <2> SUFFICES ASSUME NEW a \in Actors, where'[a] = "page"  PROVE Informed(a)'
    BY <1>3 DEF NewsInv
  <2>2. Informed(a)
    BY <1>2 DEF Inv, NewsInv
  <2>3. Awaits(a) => Awaits(a)'
    BY <1>1, <2>1, ServedAwaits DEF Awaits
  <2>4. Fetching(a) => Fetching(a)'
    BY <1>2, <2>1 DEF Fetching
  <2>5. (blind[a] => blind'[a]) /\ (seen[a] = version => seen'[a] = version') /\ (a \in inbox => a \in inbox')
        /\ (dialog[a].op = "gone" => dialog'[a].op = "gone")
    BY <1>1, <1>2, <2>1
  <2> QED BY <2>2, <2>3, <2>4, <2>5 DEF Informed
<1>5. CASE Applied(c) # db
  <2> SUFFICES ASSUME NEW a \in Actors, where'[a] = "page"  PROVE Informed(a)'
    BY <1>3 DEF NewsInv
  <2>1. CASE a # c.by
    BY <1>1, <1>2, <2>1 DEF Informed
  <2>2. CASE a = c.by /\ ~c.heard
    BY <1>1, <2>2 DEF Informed
  <2>3. CASE a = c.by /\ c.heard
    <3>1. [c EXCEPT !.phase = "ok"] \in calls'
      BY <1>1, CommitCalls
    <3>2. /\ [c EXCEPT !.phase = "ok"].by = a /\ [c EXCEPT !.phase = "ok"].heard
          /\ [c EXCEPT !.phase = "ok"].phase = "ok"
      <4>1. c \in Calls
        BY DEF Inv, TypeInv, ServerTypes
      <4> QED BY <2>3, <4>1 DEF Calls
    <3>3. Awaits(a)'
      BY <3>1, <3>2 DEF Awaits
    <3> QED BY <3>3 DEF Informed
  <2> QED BY <2>1, <2>2, <2>3
<1> QED BY <1>3, <1>4, <1>5

LEMMA HearNews ==
  ASSUME Inv, NEW f \in fetches, Hear(f)
  PROVE  Numbered' /\ NewsInv'
<1> DEFINE a == f.by
<1>1. /\ a \in Actors /\ f.version \in Nat /\ f.version <= version
      /\ fetches' = fetches \ {f} /\ UNCHANGED <<version, calls, inbox>>
  BY Numbers DEF Hear
<1>2. \A b \in Actors : b # a /\ Fetching(b) => Fetching(b)'
  BY <1>1 DEF Fetching
<1>3. \A b \in Actors : Awaits(b) => Awaits(b)'
  BY <1>1 DEF Awaits
<1>4. CASE where[a] # "page" \/ f.rows = NoRows \/ RenderFails(a, f.rows)
  <2>1. /\ UNCHANGED <<seen, blind, dialog>> /\ where'[a] # "page"
        /\ \A b \in Actors : b # a => where'[b] = where[b]
    <3>1. CASE where[a] # "page"
      BY <3>1 DEF Hear, browser
    <3>2. CASE where[a] = "page"
      <4>1. /\ where' = [where EXCEPT ![a] = IF f.rows = NoRows THEN "left" ELSE "crashed"]
            /\ UNCHANGED <<seen, blind, dialog>>
        BY <1>4, <3>2 DEF Hear
      <4> QED BY <1>1, <4>1, Numbers
    <3> QED BY <3>1, <3>2
  <2>2. Numbered'
    BY <1>1, <2>1, SameNumbers
  <2>3. ASSUME NEW b \in Actors, where'[b] = "page"  PROVE Informed(b)'
    <3>1. b # a /\ Informed(b)
      BY <2>1, <2>3 DEF Inv, NewsInv
    <3> QED BY <1>1, <1>2, <1>3, <2>1, <3>1 DEF Informed
  <2> QED BY <2>2, <2>3 DEF NewsInv
<1>5. CASE ~(where[a] # "page" \/ f.rows = NoRows \/ RenderFails(a, f.rows))
  <2>1. /\ seen' = [seen EXCEPT ![a] = f.version] /\ UNCHANGED where
        /\ blind' = [blind EXCEPT ![a] = (@ \/ f.version < seen[a] \/ (dialog[a].op = "gone" /\ Remounts(f)))
                                         /\ f.version # version]
    BY <1>5 DEF Hear
  <2>2. /\ seen'[a] = f.version
        /\ blind'[a] <=> (blind[a] \/ f.version < seen[a] \/ (dialog[a].op = "gone" /\ Remounts(f))) /\ f.version # version
        /\ \A b \in Actors : b # a => seen'[b] = seen[b] /\ blind'[b] = blind[b]
    BY <1>1, <2>1, Numbers
  <2>3. /\ ~Remounts(f) => UNCHANGED dialog
        /\ \A b \in Actors : b # a => dialog'[b] = dialog[b]
    BY <1>5, Numbers DEF Hear, Mount
  <2>4. Numbered'
    BY <1>1, <2>2, Numbers DEF Numbered
  <2>5. ASSUME NEW b \in Actors, where'[b] = "page"  PROVE Informed(b)'
    <3>1. Informed(b)
      BY <2>1, <2>5 DEF Inv, NewsInv
    <3>2. CASE b # a
      BY <1>1, <1>2, <1>3, <2>2, <2>3, <3>1, <3>2 DEF Informed
    <3>3. CASE b = a /\ f.version = version
      BY <1>1, <2>2, <3>3 DEF Informed
    <3>4. CASE b = a /\ f.version # version
      <4>1. f.version < version
        BY <1>1, <3>4, Numbers
      <4>2. Fetching(a) => Fetching(a)'
        BY <1>1, <3>4 DEF Fetching
      <4>3. blind[a] \/ seen[a] = version => blind'[a]
        BY <2>2, <3>4, <4>1
      <4>4. dialog[a].op = "gone" => blind'[a] \/ dialog'[a].op = "gone"
        BY <2>2, <2>3, <3>4
      <4> QED BY <1>1, <1>3, <3>1, <3>4, <4>2, <4>3, <4>4 DEF Informed
    <3> QED BY <3>2, <3>3, <3>4
  <2> QED BY <2>4, <2>5 DEF NewsInv
<1> QED BY <1>4, <1>5

LEMMA HearSocketNews ==
  ASSUME Inv, NEW a \in Actors, HearSocket(a)
  PROVE  Numbered' /\ NewsInv'
<1>1. /\ inbox' = inbox \ {a} /\ UNCHANGED <<version, calls, seen, blind, where, dialog>>
      /\ fetches' = IF where[a] = "page" THEN fetches \union {Fetch(a, FALSE)} ELSE fetches
  BY DEF HearSocket, browser
<1>2. Fetch(a, FALSE).by = a /\ Fetch(a, FALSE).version = version
  BY FetchType DEF Inv
<1>3. where[a] = "page" => Fetching(a)'
  BY <1>1, <1>2 DEF Fetching
<1>4. Calmly
  BY <1>1 DEF Calmly
<1>5. Numbered'
  BY <1>1, <1>2, SameNumbers
<1>6. \A b \in Actors : Awaits(b) => Awaits(b)'
  BY <1>1 DEF Awaits
<1>7. NewsInv'
  BY <1>1, <1>3, <1>4, <1>6, CalmNews
<1> QED BY <1>5, <1>7

(* The answers: of several to one operation, the last is the one to read   *)
(* after, and nothing else counts as awaited.                              *)
LEMMA HearOkNews ==
  ASSUME Inv, NEW c \in calls, HearOk(c)
  PROVE  Numbered' /\ NewsInv'
<1> DEFINE b == c.by
<1>1. /\ c.phase = "ok" /\ calls' = calls \ {c} /\ UNCHANGED <<version, inbox, seen, blind, dialog>>
      /\ IF ~c.heard \/ where[b] # "page" \/ Rest(c) # {} THEN UNCHANGED <<fetches, where>>
         ELSE IF Leaves(c)
           THEN where' = [where EXCEPT ![b] = "left"] /\ UNCHANGED fetches
           ELSE fetches' = fetches \union {Fetch(b, TRUE)} /\ UNCHANGED where
  BY DEF HearOk
<1>2. c.heard => b \in Actors
  BY DEF Inv, TypeInv, ServerTypes, CallsInv, Calls, Fits
<1>3. b \in Actors => Fetch(b, TRUE).by = b /\ Fetch(b, TRUE).version = version
  BY FetchType DEF Inv
<1>4. Calmly
  BY <1>1 DEF Calmly
<1>5. Numbered'
  BY <1>1, <1>2, <1>3, SameNumbers
<1>6. ASSUME NEW a \in Actors, a # b, Awaits(a)  PROVE Awaits(a)'
  BY <1>1, <1>6 DEF Awaits
<1>7. CASE ~c.heard \/ where[b] # "page"
  <2>1. \A a \in Actors : where[a] = "page" /\ Awaits(a) => Awaits(a)'
    BY <1>1, <1>7 DEF Awaits
  <2> QED BY <1>1, <1>4, <1>5, <1>7, <2>1, CalmNews
<1>8. CASE c.heard /\ Rest(c) # {}
  <2>1. PICK d \in calls : d # c /\ SameJob(c, d)
    BY <1>8 DEF Rest, SameJob
  <2>2. Together(c, d) /\ Fits(d)
    BY <2>1 DEF Inv, CallsInv
  <2>3. d.op = "delete" /\ d.heard /\ d.silent
    BY <1>8, <2>1, <2>2 DEF Together, Fits
  <2>4. d.phase # "thrown" /\ d.by = b
    BY <2>1, <2>2, <2>3 DEF Fits, SameJob
  <2>5. Awaits(b)'
    BY <1>1, <2>1, <2>3, <2>4 DEF Awaits
  <2> QED BY <1>1, <1>4, <1>5, <1>6, <1>8, <2>5, CalmNews
<1>9. CASE c.heard /\ where[b] = "page" /\ Rest(c) = {} /\ Leaves(c)
  <2>1. where' = [where EXCEPT ![b] = "left"] /\ UNCHANGED fetches
    BY <1>1, <1>9
  <2>2. where'[b] = "left" /\ \A a \in Actors : a # b => where'[a] = where[a]
    BY <1>2, <1>9, <2>1, Numbers
  <2> QED BY <1>1, <1>4, <1>5, <1>6, <2>2, CalmNews
<1>10. CASE c.heard /\ where[b] = "page" /\ Rest(c) = {} /\ ~Leaves(c)
  <2>1. fetches' = fetches \union {Fetch(b, TRUE)} /\ UNCHANGED where
    BY <1>1, <1>10
  <2>2. Fetching(b)'
    BY <1>1, <1>2, <1>3, <1>10, <2>1 DEF Fetching
  <2> QED BY <1>1, <1>4, <1>5, <1>6, <2>1, <2>2, CalmNews
<1> QED BY <1>7, <1>8, <1>9, <1>10

LEMMA HearFailedNews ==
  ASSUME Inv, NEW c \in calls, HearFailed(c)
  PROVE  Numbered' /\ NewsInv'
<1> DEFINE b == c.by
           pop == c.heard /\ where[b] = "page" /\ (c.op = "resend" => page = "collaboration")
<1>1. /\ c.phase = "failed" /\ UNCHANGED <<version, fetches, inbox, seen, blind, where>>
      /\ calls \ ({c} \union Rest(c)) \subseteq calls'
      /\ dialog' = IF pop THEN [dialog EXCEPT ![b] = Question("gone", {}, "member", FALSE, FALSE)] ELSE dialog
  BY DEF HearFailed
<1>2. Calmly /\ Numbered'
  BY <1>1, SameNumbers DEF Calmly
<1>3. \A d \in Rest(c) : d \in calls /\ d # c /\ SameJob(c, d) /\ d.by = b
  BY DEF Rest, SameJob
<1>4. ASSUME NEW a \in Actors, a # b, Awaits(a)  PROVE Awaits(a)'
  <2>1. PICK d \in calls : d.by = a /\ d.heard /\ d.phase # "thrown" /\ (d.op = "resend" => d.phase = "ok")
    BY <1>4 DEF Awaits
  <2>2. d \in calls'
    BY <1>1, <1>3, <1>4, <2>1
  <2> QED BY <2>1, <2>2 DEF Awaits
<1>5. CASE pop
  <2>1. b \in Actors => dialog'[b].op = "gone"
    BY <1>1, <1>5, Numbers DEF Question
  <2>2. \A a \in Actors : a # b => dialog'[a] = dialog[a]
    BY <1>1, <1>5, Numbers
  <2> HIDE DEF pop
  <2> QED BY <1>1, <1>2, <1>4, <2>1, <2>2, CalmNews
<1>6. CASE ~pop
  <2>1. ASSUME NEW a \in Actors, where'[a] = "page", Awaits(a)  PROVE Awaits(a)'
    <3>1. CASE a # b
      BY <1>4, <2>1, <3>1
    <3>2. CASE a = b
      <4>1. PICK d \in calls : d.by = a /\ d.heard /\ d.phase # "thrown" /\ (d.op = "resend" => d.phase = "ok")
        BY <2>1 DEF Awaits
      <4>2. d # c
        BY <1>1, <1>6, <2>1, <3>2, <4>1
      <4>3. ASSUME d \in Rest(c)  PROVE FALSE
        <5>1. Together(c, d) /\ d # c
          BY <1>3, <4>3 DEF Inv, CallsInv
        <5>2. c.heard /\ c.op = "delete"
          BY <4>1, <5>1 DEF Together
        <5> QED BY <1>1, <1>6, <2>1, <3>2, <5>2
      <4>4. d \in calls'
        BY <1>1, <4>2, <4>3
      <4> QED BY <4>1, <4>4 DEF Awaits
    <3> QED BY <3>1, <3>2
  <2>2. dialog' = dialog
    BY <1>1, <1>6
  <2> HIDE DEF pop
  <2> QED BY <1>1, <1>2, <2>1, <2>2, CalmNews
<1> QED BY <1>5, <1>6

LEMMA ThrownNews ==
  ASSUME Inv, NEW c \in calls, Thrown(c)
  PROVE  Numbered' /\ NewsInv'
<1>1. /\ c.phase = "thrown" /\ calls' = calls \ {c} /\ UNCHANGED <<version, fetches, inbox, seen, blind, dialog>>
      /\ where' = [where EXCEPT ![c.by] = IF where[c.by] = "page" THEN "elsewhere" ELSE where[c.by]]
  BY DEF Thrown
<1>2. \A a \in Actors : Awaits(a) => Awaits(a)'
  BY <1>1 DEF Awaits
<1>3. \A a \in Actors : where'[a] = "page" => where[a] = "page"
  BY <1>1, Numbers
<1>4. Calmly
  BY <1>1 DEF Calmly
<1> QED BY <1>1, <1>2, <1>3, <1>4, SameNumbers, CalmNews

-----------------------------------------------------------------------------
(* The invariant.                                                          *)
LEMMA InitInv == Init => Inv
<1> SUFFICES ASSUME Init  PROVE Inv
  OBVIOUS
<1>1. TypeInv
  BY InitTypes
<1>2. CallsInv /\ SparesInv
  BY DEF Init, CallsInv, SparesInv
<1>3. AskedInv /\ DialogsInv
  BY NoDialogType DEF Init, AskedInv, DialogsInv
<1>4. ChecksInv
  BY DEF Init, ChecksInv, Leave
<1>5. Numbered /\ NewsInv
  BY DEF Init, Numbered, NewsInv, Informed
<1> QED BY <1>1, <1>2, <1>3, <1>4, <1>5 DEF Inv

LEMMA UserStepInv ==
  ASSUME Inv, NEW a \in Actors, UserStep(a)
  PROVE  Inv'
<1>1. CASE Checks(a)
  <2>1. UNCHANGED <<calls, jobs, db>>
    BY <1>1 DEF Checks, ServerSame
  <2>2. CallsInv' /\ SparesInv'
    BY <2>1, FewerAdvance, AdvancesKeepsCalls, AdvancesSpares
  <2> QED BY <1>1, <2>2, ChecksTypes, ChecksKeep, UserNews DEF Inv
<1>2. CASE Asks(a)
  <2>1. UNCHANGED <<calls, jobs, db>>
    BY <1>2 DEF Asks, Ask
  <2>2. CallsInv' /\ SparesInv'
    BY <2>1, FewerAdvance, AdvancesKeepsCalls, AdvancesSpares
  <2> QED BY <1>2, <2>2, AsksTypes, AsksKeep, UserNews DEF Inv
<1>3. CASE Operates(a)
  BY <1>3, OperatesTypes, OperatesCalls, QuietSteps, UserNews DEF Inv
<1>4. CASE ConfirmGone(a)
  <2>1. UNCHANGED <<calls, jobs, db>>
    BY <1>4 DEF ConfirmGone
  <2>2. CallsInv' /\ SparesInv'
    BY <2>1, FewerAdvance, AdvancesKeepsCalls, AdvancesSpares
  <2> QED BY <1>4, <2>2, ConfirmGoneTypes, QuietSteps, ConfirmGoneNews DEF Inv
<1> QED BY <1>1, <1>2, <1>3, <1>4, UserStepKinds

LEMMA ServerStepInv ==
  ASSUME Inv, NEW c \in calls, Refuse(c) \/ CommitThenTell(c) \/ Tell(c) \/ CommitTold(c)
  PROVE  Inv'
<1>1. CASE Refuse(c) \/ Tell(c)
  <2>1. UNCHANGED <<jobs, db>> /\ c.phase = "sent" /\ \E p \in {"told", "failed"} : calls' = Served(c, p)
    BY <1>1 DEF Refuse, Tell, browser
  <2>2. CallsInv' /\ SparesInv'
    BY <2>1, ServedAdvances, AdvancesKeepsCalls, AdvancesSpares
  <2> QED BY <1>1, <2>2, PhaseTypes, QuietSteps, PhaseNews DEF Inv
<1>2. CASE CommitThenTell(c) \/ CommitTold(c)
  <2>1. Commit(c) /\ c.phase \in {"sent", "told"} /\ inbox' \subseteq Actors /\ blind' \in [Actors -> BOOLEAN]
    BY <1>2, CommitsNews
  <2>2. TypeInv'
    BY <2>1, CommitTypes
  <2>3. CallsInv' /\ SparesInv'
    BY <2>1, CommitCalls, CommitSpares, AdvancesKeepsCalls
  <2> QED BY <1>2, <2>1, <2>2, <2>3, CommitKeeps, CommitNews DEF Inv
<1> QED BY <1>1, <1>2

LEMMA BrowserStepInv ==
  ASSUME Inv, BrowserStep
  PROVE  Inv'
<1>1. ASSUME NEW f \in fetches, Hear(f)  PROVE Inv'
  <2>1. UNCHANGED <<calls, db, jobs>>
    BY <1>1 DEF Hear, browser
  <2>2. CallsInv' /\ SparesInv'
    BY <2>1, FewerAdvance, AdvancesKeepsCalls, AdvancesSpares
  <2> QED BY <1>1, <2>2, HearTypes, HearKeeps, HearNews DEF Inv
<1>2. ASSUME NEW a \in Actors, HearSocket(a)  PROVE Inv'
  <2>1. UNCHANGED <<calls, db, jobs>>
    BY <1>2 DEF HearSocket, browser
  <2>2. CallsInv' /\ SparesInv'
    BY <2>1, FewerAdvance, AdvancesKeepsCalls, AdvancesSpares
  <2> QED BY <1>2, <2>2, HearSocketTypes, QuietSteps, HearSocketNews DEF Inv
<1>3. ASSUME NEW c \in calls, HearOk(c)  PROVE Inv'
  <2>1. UNCHANGED <<db, jobs>> /\ calls' \subseteq calls
    BY <1>3 DEF HearOk
  <2>2. CallsInv' /\ SparesInv'
    BY <2>1, FewerAdvance, AdvancesKeepsCalls, AdvancesSpares
  <2> QED BY <1>3, <2>2, HearOkTypes, QuietSteps, HearOkNews DEF Inv
<1>4. ASSUME NEW c \in calls, HearFailed(c)  PROVE Inv'
  <2>1. UNCHANGED <<db, jobs>>
    BY <1>4 DEF HearFailed
  <2>2. CallsInv' /\ SparesInv'
    BY <1>4, <2>1, HearFailedAdvances, AdvancesKeepsCalls, AdvancesSpares
  <2> QED BY <1>4, <2>2, HearFailedTypes, QuietSteps, HearFailedNews DEF Inv
<1>5. ASSUME NEW c \in calls, Thrown(c)  PROVE Inv'
  <2>1. UNCHANGED <<db, jobs>> /\ calls' \subseteq calls
    BY <1>5 DEF Thrown
  <2>2. CallsInv' /\ SparesInv'
    BY <2>1, FewerAdvance, AdvancesKeepsCalls, AdvancesSpares
  <2> QED BY <1>5, <2>2, ThrownTypes, QuietSteps, ThrownNews DEF Inv
<1> QED BY <1>1, <1>2, <1>3, <1>4, <1>5 DEF BrowserStep

LEMMA SameInv ==
  ASSUME Inv, UNCHANGED vars
  PROVE  Inv'
<1>1. /\ UNCHANGED <<scene, db, version, calls, fetches, inbox, browser>>
      /\ UNCHANGED <<jobs, ticked, found, mixed, refs, dialog, seen, blind, where>>
  BY DEF vars, browser
<1>2. TypeInv'
  BY <1>1, PagesSame DEF TypeInv, ServerTypes, Inv
<1>3. CallsInv' /\ SparesInv'
  BY <1>1, FewerAdvance, AdvancesKeepsCalls, AdvancesSpares
<1>4. AskedInv' /\ ChecksInv' /\ DialogsInv'
  BY <1>1, QuietKeep DEF Quiet
<1>5. \A a \in Actors : Awaits(a) => Awaits(a)'
  BY <1>1 DEF Awaits
<1>6. Calmly
  BY <1>1 DEF Calmly
<1>7. Numbered' /\ NewsInv'
  BY <1>1, <1>5, <1>6, SameNumbers, CalmNews
<1> QED BY <1>2, <1>3, <1>4, <1>7 DEF Inv

LEMMA NextInv ==
  ASSUME Inv, [Next]_vars
  PROVE  Inv'
<1>1. ASSUME NEW i \in Invites, Accept(i)  PROVE Inv'
  BY <1>1, AcceptTypes, AcceptCalls, QuietSteps, AcceptNews DEF Inv
<1> QED BY <1>1, UserStepInv, ServerStepInv, BrowserStepInv, SameInv DEF Next, ServerStep

LEMMA InvHolds == Spec => []Inv
<1>1. Init => Inv
  BY InitInv
<1>2. Inv /\ [Next]_vars => Inv'
  BY NextInv
<1> QED BY <1>1, <1>2, PTL DEF Spec

-----------------------------------------------------------------------------
(* The types of every variable, for any users, scenes and browsers.        *)
THEOREM TypeCorrect == Spec => []TypeInv
<1>1. Inv => TypeInv
  BY DEF Inv
<1> QED BY <1>1, InvHolds, PTL

(* A page at rest shows the rows of the server, except for the cases that  *)
(* RestingPageIsCurrent names (componentDidUpdate, the sockets, handle404).*)
THEOREM RestingPagesShowTheRows == Spec => []RestingPageIsCurrent
<1>1. Inv => RestingPageIsCurrent
  <2> SUFFICES ASSUME Inv, NEW a \in Actors, AtRest(a), dialog[a].op # "gone"
               PROVE  blind[a] \/ seen[a] = version
    BY DEF RestingPageIsCurrent
  <2>1. Informed(a)
    BY DEF Inv, NewsInv, AtRest
  <2> QED BY <2>1 DEF Informed, AtRest, Awaits, Fetching
<1> QED BY <1>1, InvHolds, PTL

(* The commits are the steps that change the rows.                         *)
LEMMA RowsChangeByCommit ==
  ASSUME Inv, Next, db' # db
  PROVE  \E c \in calls : Commit(c) /\ c.phase \in {"sent", "told"}
<1>1. ASSUME NEW a \in Actors, UserStep(a)  PROVE db' = db
  BY <1>1, UserStepKinds DEF Checks, ServerSame, Asks, Ask, Operates, Send, ConfirmGone
<1>2. ASSUME NEW i \in Invites, Accept(i)  PROVE db' = db
  BY <1>2 DEF Accept
<1>3. ASSUME BrowserStep  PROVE db' = db
  BY <1>3 DEF BrowserStep, Hear, HearSocket, HearOk, HearFailed, Thrown
<1>4. PICK c \in calls : Refuse(c) \/ CommitThenTell(c) \/ Tell(c) \/ CommitTold(c)
  BY <1>1, <1>2, <1>3 DEF Next, ServerStep
<1>5. ~Refuse(c) /\ ~Tell(c)
  BY DEF Refuse, Tell
<1> QED BY <1>4, <1>5, CommitsNews

(* No handler keeps the last administrator; what the pages warn of and the *)
(* buttons they leave out do, unless the rows changed in between.          *)
THEOREM LastAdminIsGuarded == Spec => LastAdminGoesWarnedOrRaced
<1>1. ASSUME Inv, [Next]_vars, Admins(db) # {}, Admins(db') = {}
      PROVE  \E c \in calls : c.phase \in {"sent", "told"} /\ (c.warned \/ c.raced)
                              /\ [c EXCEPT !.phase = "ok"] \in calls'
  <2>1. db' # db
    BY <1>1
  <2>2. PICK c \in calls : Commit(c) /\ c.phase \in {"sent", "told"}
    BY <1>1, <2>1, RowsChangeByCommit DEF vars
  <2>3. [c EXCEPT !.phase = "ok"] \in calls' /\ db' = Applied(c)
    BY <1>1, <2>2, CommitCalls DEF Commit
  <2>4. c.warned \/ c.raced
    BY <1>1, <2>2, <2>3, CommitLeaves
  <2> QED BY <2>2, <2>3, <2>4
<1> DEFINE Guarded ==
      Admins(db) # {} /\ Admins(db') = {} =>
        \E c \in calls : c.phase \in {"sent", "told"} /\ (c.warned \/ c.raced)
                         /\ [c EXCEPT !.phase = "ok"] \in calls'
<1>2. Inv /\ [Next]_vars => [Guarded]_vars
  BY <1>1
<1> QED BY <1>2, InvHolds, PTL DEF Spec, LastAdminGoesWarnedOrRaced

(* Who sends an operation with a question about a removal open, confirms.  *)
LEMMA RemovalIsConfirmed ==
  ASSUME Inv, Next, NEW a \in Actors, jobs'[a] # jobs[a], dialog[a].op \in {"removeSelected", "removeOne"}
  PROVE  ConfirmRemove(a)
<1>1. ASSUME NEW i \in Invites, Accept(i)  PROVE FALSE
  BY <1>1 DEF Accept, browser
<1>2. ~BrowserStep
  BY DEF BrowserStep, Hear, HearSocket, HearOk, HearFailed, Thrown, browser
<1>3. ~ServerStep
  BY DEF ServerStep, Refuse, Tell, CommitThenTell, CommitTold, Commit, browser
<1>4. PICK b \in Actors : UserStep(b)
  BY <1>1, <1>2, <1>3 DEF Next
<1>5. b = a
  <2>1. ~Checks(b) /\ ~Asks(b) /\ ~ConfirmGone(b)
    BY DEF Checks, Asks, Ask, ConfirmGone
  <2>2. Operates(b)
    BY <1>4, <2>1, UserStepKinds
  <2>3. jobs' = [jobs EXCEPT ![b] = @ + 1]
    BY <2>2 DEF Operates, Send
  <2> QED BY <2>3 DEF Inv, TypeInv, PageTypes
<1>6. \A use : ~AtTable(a, use)
  BY DEF AtTable
<1>7. ~Cancel(a) /\ ~ConfirmCloses(a) /\ ~ConfirmUpdate(a) /\ ~ConfirmResend(a) /\ ~ConfirmGone(a)
  BY DEF Cancel, ConfirmCloses, Ask, ConfirmUpdate, ConfirmResend, ConfirmGone
<1>8. /\ \A r \in Rows : ~OnCheck(a, r) /\ ~CollaborationRemoveOne(a, r) /\ ~OrganisationRemoveOne(a, r) /\ ~ServiceRemoveOne(a, r)
      /\ \A checked \in BOOLEAN : ~AllSelected(a, checked)
      /\ ~HideInvitees(a) /\ ~ShowGroup(a) /\ ~Search(a)
  BY <1>6 DEF OnCheck, CollaborationRemoveOne, OrganisationRemoveOne, ServiceRemoveOne, AllSelected,
              HideInvitees, ShowGroup, Filter, Search
<1>9. /\ ~CollaborationRemove(a) /\ ~OrganisationRemove(a) /\ ~ServiceRemove(a)
      /\ \A u \in Users, role \in {"admin", "member"} : ~CollaborationRole(a, u, role) /\ ~OrganisationRole(a, u, role)
      /\ \A u \in Users : ~CollaborationExpiry(a, u)
      /\ \A i \in Invites : ~ResendOne(a, i)
      /\ ~CollaborationResend(a) /\ ~OrganisationResend(a) /\ ~ServiceResend(a)
  BY <1>6 DEF CollaborationRemove, OrganisationRemove, ServiceRemove, CollaborationRole, OrganisationRole,
              CollaborationExpiry, ResendOne, CollaborationResend, OrganisationResend, ServiceResend
<1> QED BY <1>4, <1>5, <1>7, <1>8, <1>9 DEF UserStep

(* A confirmed removal sends what was asked about, whatever was read or    *)
(* searched behind the open question.                                      *)
THEOREM YesIsWhatWasAsked == Spec => YesMeansWhatWasAsked
<1>1. ASSUME Inv, [Next]_vars, NEW a \in Actors, jobs'[a] # jobs[a],
             dialog[a].op \in {"removeSelected", "removeOne"}
      PROVE  UNION {c.rows : c \in {d \in calls' : d.by = a /\ d.job = jobs[a]}} =
               (IF dialog[a].op = "removeOne" THEN dialog[a].rows \cap Here(view[a]) ELSE dialog[a].rows)
  <2> DEFINE call(r) == Call(a, "delete", {r}, "member", dialog[a].warned, dialog[a].raced, TRUE)
  <2>1. ConfirmRemove(a)
    BY <1>1, RemovalIsConfirmed DEF vars, browser
  <2>2. calls' = calls \union {call(r) : r \in Confirmed(a)}
    BY <2>1 DEF ConfirmRemove, Send
  <2>3. \A c \in calls : ~(c.by = a /\ c.job = jobs[a])
    <3>1. \A c \in calls : c.by = a => c.job < jobs[a] /\ c.job \in Nat
      BY <1>1 DEF Inv, CallsInv, Fits, TypeInv, ServerTypes, Calls
    <3>2. jobs[a] \in Nat
      BY <1>1 DEF Inv, TypeInv, PageTypes
    <3> QED BY <3>1, <3>2
  <2>4. \A r : call(r).by = a /\ call(r).job = jobs[a] /\ call(r).rows = {r}
    BY DEF Call
  <2> HIDE DEF call
  <2>5. {d \in calls' : d.by = a /\ d.job = jobs[a]} = {call(r) : r \in Confirmed(a)}
    BY <2>2, <2>3, <2>4
  <2>6. UNION {c.rows : c \in {call(r) : r \in Confirmed(a)}} = Confirmed(a)
    BY <2>4
  <2> QED BY <1>1, <2>5, <2>6, ConfirmedIsAsked
<1> DEFINE Meant ==
      \A a \in Actors : jobs'[a] # jobs[a] /\ dialog[a].op \in {"removeSelected", "removeOne"} =>
        UNION {c.rows : c \in {d \in calls' : d.by = a /\ d.job = jobs[a]}} =
          (IF dialog[a].op = "removeOne" THEN dialog[a].rows \cap Here(view[a]) ELSE dialog[a].rows)
<1>2. Inv /\ [Next]_vars => [Meant]_vars
  BY <1>1
<1> QED BY <1>2, InvHolds, PTL DEF Spec, YesMeansWhatWasAsked
===============================================================================
