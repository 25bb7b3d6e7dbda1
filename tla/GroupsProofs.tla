----------------------------- MODULE GroupsProofs ------------------------------
(***************************************************************************)
(* What holds of the groups of a collaboration for any number of           *)
(* administrators, groups, names and members: the types; that names stay   *)
(* apart unless they were given in haste; that a page shows the groups as  *)
(* they are once nothing is on its way to it; and that a group that has    *)
(* everyone has everyone, unless something is known to have overlapped.    *)
(***************************************************************************)
EXTENDS Groups, TLAPS

LEMMA RecordTypes ==
  Idle \in Jobs /\ NoDialog \in Dialogs
BY DEF Idle, Jobs, NoDialog, Dialogs, OrNone

(* What is sent by the form, and what becomes of a request or a check.     *)
LEMMA SubmitType ==
  ASSUME NEW p \in Pages, NEW op \in {"create", "update"}
  PROVE  [Idle EXCEPT !.op = op, !.id = p.id, !.name = p.name, !.short = p.short,
                        !.auto = p.auto, !.clean = p.sure] \in Jobs
<1>1. p.id \in OrNone(Ids) /\ p.name \in OrNone(Names) /\ p.short \in OrNone(Names) /\ p.auto \in BOOLEAN /\ p.sure \in BOOLEAN
  BY DEF Pages
<1> QED BY <1>1 DEF Jobs, Idle, OrNone
LEMMA PhaseType ==
  ASSUME NEW j \in Jobs, NEW phase \in {"idle", "sent", "held", "done", "reading", "lost"}
  PROVE  [j EXCEPT !.phase = phase] \in Jobs
BY DEF Jobs
LEMMA MarksType ==
  ASSUME NEW j \in Jobs, NEW clean \in BOOLEAN, NEW late \in BOOLEAN
  PROVE  [j EXCEPT !.clean = clean, !.late = late] \in Jobs
BY DEF Jobs
(* The work of a handler that has saved a group, and the row an edit saves.*)
Started(a, i, g) ==
  [job[a] EXCEPT !.id = i, !.missing = Missing(g), !.phase = IF g.auto THEN "fill" ELSE "done"]
Renamed(a) == [groups[job[a].id] EXCEPT !.name = job[a].name, !.short = job[a].short, !.auto = job[a].auto]
LEMMA StartedType ==
  ASSUME TypeOK, NEW a \in Admins, NEW i \in Ids, NEW g
  PROVE  /\ Started(a, i, g) \in Jobs /\ Started(a, i, g).op = job[a].op
         /\ Started(a, i, g).id = i /\ Started(a, i, g).missing = Missing(g)
         /\ Started(a, i, g).phase = IF g.auto THEN "fill" ELSE "done"
<1> DEFINE ms == Missing(g)
           phase == IF g.auto THEN "fill" ELSE "done"
           j == [job[a] EXCEPT !.id = i, !.missing = ms, !.phase = phase]
<1>1. job[a] \in Jobs /\ ms \in SUBSET Members
  BY DEF TypeOK, Missing
<1>2. phase \in {"fill", "done"} /\ Started(a, i, g) = j
  BY DEF Started
<1> HIDE DEF ms, phase
<1>3. j.op = job[a].op /\ j.id = i /\ j.missing = ms /\ j.phase = phase
  BY <1>1 DEF Jobs
<1>4. j \in Jobs
  BY <1>1, <1>2 DEF Jobs, OrNone
<1> HIDE DEF j
<1> QED BY <1>2, <1>3, <1>4 DEF ms, phase
LEMMA RenamedType ==
  ASSUME TypeOK, NEW a \in Admins, job[a].id \in Ids
  PROVE  /\ Renamed(a) \in Group /\ Renamed(a).at = groups[job[a].id].at
         /\ Renamed(a).rows = groups[job[a].id].rows
<1> DEFINE r == groups[job[a].id]
           n == job[a].name
           s == job[a].short
           auto == job[a].auto
<1>1. r \in Group /\ n \in Names \union {None} /\ s \in Names \union {None} /\ auto \in BOOLEAN
  BY DEF TypeOK, Jobs, OrNone
<1>2. Renamed(a) = [r EXCEPT !.name = n, !.short = s, !.auto = auto]
  BY DEF Renamed
<1> HIDE DEF r, n, s, auto
<1>3. Renamed(a) \in Group /\ Renamed(a).at = r.at /\ Renamed(a).rows = r.rows
  BY <1>1, <1>2 DEF Group
<1> QED BY <1>3 DEF r
LEMMA UncleanType == \A c \in Checks : [c EXCEPT !.clean = FALSE] \in Checks
BY DEF Checks

(* A reading of the page is a view.                                        *)
LEMMA ShownType == ASSUME TypeOK PROVE Shown \in Views
<1> DEFINE f == [i \in Here |-> [name |-> groups[i].name, short |-> groups[i].short,
                                 auto |-> groups[i].auto, service |-> groups[i].service,
                                 in |-> {m \in Members : groups[i].rows[m] > 0}]]
<1>1. \A i \in Ids : groups[i] \in Group
  BY DEF TypeOK
<1>2. Here \in SUBSET Ids
  BY DEF Here
<1>3. f \in [Here -> ViewGroup]
  <2> SUFFICES ASSUME NEW i \in Here PROVE f[i] \in ViewGroup
    OBVIOUS
  <2>1. groups[i] \in Group
    BY <1>1, <1>2
  <2> QED BY <2>1 DEF Group, ViewGroup, OrNone
<1>4. f \in UNION {[D -> ViewGroup] : D \in SUBSET Ids}
  BY <1>2, <1>3
<1>5. members \in SUBSET Members
  BY DEF TypeOK
<1>6. Shown = [members |-> members, groups |-> f]
  BY DEF Shown
<1> HIDE DEF f
<1> QED BY <1>4, <1>5, <1>6 DEF Views

(* The group an open side screen is about is one the page shows.           *)
LEMMA ShownGroupType ==
  ASSUME TypeOK, NEW a \in Admins, page[a].id \in DOMAIN page[a].view.groups
  PROVE  page[a].id \in Ids /\ ShownGroup(a) \in ViewGroup
<1>1. page[a].view \in Views
  BY DEF TypeOK, Pages
<1>2. page[a].view.groups \in UNION {[D -> ViewGroup] : D \in SUBSET Ids}
  BY <1>1 DEF Views
<1>3. PICK D \in SUBSET Ids : page[a].view.groups \in [D -> ViewGroup]
  BY <1>2
<1> QED BY <1>3 DEF ShownGroup

LEMMA AtType ==
  ASSUME TypeOK, NEW a \in Admins, NEW screens, NEW op, At(a, screens, op)
  PROVE  /\ page[a] \in Pages /\ page[a].left > 0 /\ ~Busy(a)
         /\ Screen(a) \in screens
         /\ page[a].mode \in {"group", "edit"} /\ "list" \notin screens =>
              /\ page[a].id \in DOMAIN page[a].view.groups
              /\ page[a].id \in Ids /\ ShownGroup(a) \in ViewGroup
<1>1. page[a] \in Pages
  BY DEF TypeOK
<1>2. page[a].left > 0 /\ ~Busy(a) /\ Screen(a) \in screens
  BY DEF At
<1>3. ASSUME page[a].mode \in {"group", "edit"}, "list" \notin screens
      PROVE page[a].id \in DOMAIN page[a].view.groups
  BY <1>2, <1>3 DEF Screen
<1> QED BY <1>1, <1>2, <1>3, ShownGroupType

-------------------------------------------------------------------------------
LEMMA LooksType ==
  ASSUME TypeOK, NEW a \in Admins, NEW p \in Pages, p.left > 0, Looks(a, p), checks' \in SUBSET Checks
  PROVE  TypeOK'
<1>1. [p EXCEPT !.left = @ - 1] \in Pages
  <2>1. p.left - 1 \in Nat
    BY DEF Pages
  <2> QED BY <2>1 DEF Pages
<1>2. page' \in [Admins -> Pages]
  BY <1>1 DEF Looks, TypeOK
<1> QED BY <1>2 DEF Looks, TypeOK, server, history

LEMMA SendsType ==
  ASSUME TypeOK, NEW a \in Admins, NEW j \in Jobs, page[a].left > 0, Sends(a, j)
  PROVE  TypeOK'
<1>1. [j EXCEPT !.phase = "sent"] \in Jobs
  BY DEF Jobs
<1>2. page[a] \in Pages
  BY DEF TypeOK
<1>3. page[a].left - 1 \in Nat
  BY <1>2 DEF Pages
<1>4. [page[a] EXCEPT !.left = @ - 1, !.dialog = NoDialog] \in Pages
  BY <1>2, <1>3, RecordTypes DEF Pages
<1>5. page' \in [Admins -> Pages] /\ job' \in [Admins -> Jobs]
  BY <1>1, <1>4 DEF Sends, TypeOK
<1> QED BY <1>5 DEF Sends, TypeOK, server, history

LEMMA BecomesType ==
  ASSUME TypeOK, NEW a \in Admins,
         NEW phase \in {"idle", "sent", "held", "done", "reading", "lost"}, Becomes(a, phase)
  PROVE  job' \in [Admins -> Jobs]
<1>1. [job[a] EXCEPT !.phase = phase] \in Jobs
  <2>1. job[a] \in Jobs
    BY DEF TypeOK
  <2> QED BY <2>1 DEF Jobs
<1> QED BY <1>1 DEF Becomes, TypeOK

LEMMA AsksType ==
  ASSUME TypeOK, NEW a \in Admins, NEW attr \in {"name", "short"}, NEW n \in Names,
         NEW existing \in OrNone(Names), Asks(a, attr, n, existing)
  PROVE  checks' \in SUBSET Checks
<1> DEFINE c == [by |-> a, id |-> page[a].id, attr |-> attr, name |-> n, phase |-> "sent", taken |-> FALSE,
                 clean |-> FALSE, existing |-> existing]
<1>1. page[a] \in Pages /\ checks \in SUBSET Checks
  BY DEF TypeOK
<1>2. c \in Checks
  BY <1>1 DEF Checks, Pages
<1>3. checks' = checks \union {c}
  BY DEF Asks
<1> HIDE DEF c
<1> QED BY <1>1, <1>2, <1>3

LEMMA LookType == ASSUME TypeOK, NEW a \in Admins, Look(a) PROVE TypeOK'
<1>0. page[a] \in Pages /\ checks \in SUBSET Checks
  BY DEF TypeOK
<1>1. CASE NewGroup(a)
  <2>1. page[a].left > 0
    BY <1>1, AtType DEF NewGroup
  <2> DEFINE p == [page[a] EXCEPT !.mode = "new", !.id = None, !.name = None, !.short = None,
                                  !.auto = FALSE, !.marked = {}, !.sure = FALSE]
  <2>2. p \in Pages /\ p.left = page[a].left
    BY <1>0 DEF Pages, OrNone
  <2>3. Looks(a, p) /\ checks' = checks
    BY <1>1 DEF NewGroup
  <2> HIDE DEF p
  <2> QED BY <1>0, <2>1, <2>2, <2>3, LooksType
<1>2. ASSUME NEW i \in Ids, GotoGroup(a, i) PROVE TypeOK'
  <2>1. page[a].left > 0
    BY <1>2, AtType DEF GotoGroup
  <2> DEFINE p == [page[a] EXCEPT !.mode = "group", !.id = i]
  <2>2. p \in Pages /\ p.left = page[a].left
    BY <1>0 DEF Pages, OrNone
  <2>3. Looks(a, p) /\ checks' = checks
    BY <1>2 DEF GotoGroup
  <2> HIDE DEF p
  <2> QED BY <1>0, <2>1, <2>2, <2>3, LooksType
<1>3. CASE Edit(a)
  <2>0. At(a, {"group"}, "edit")
    BY <1>3 DEF Edit
  <2>1. page[a].left > 0 /\ page[a].mode = "group" /\ ShownGroup(a) \in ViewGroup
    <3>1. Screen(a) = "group"
      BY <2>0, AtType
    <3>2. page[a].mode = "group"
      BY <3>1 DEF Screen
    <3> QED BY <2>0, <3>2, AtType
  <2> DEFINE p == [page[a] EXCEPT !.mode = "edit", !.name = ShownGroup(a).name, !.short = ShownGroup(a).short,
                                  !.auto = ShownGroup(a).auto, !.marked = {}, !.sure = FALSE]
  <2>2. p \in Pages /\ p.left = page[a].left
    BY <1>0, <2>1 DEF Pages, OrNone, ViewGroup
  <2>3. Looks(a, p) /\ checks' = checks
    BY <1>3 DEF Edit
  <2> HIDE DEF p
  <2> QED BY <1>0, <2>1, <2>2, <2>3, LooksType
<1>4. CASE CancelSideScreen(a)
  <2>1. page[a].left > 0
    BY <1>4, AtType DEF CancelSideScreen
  <2> DEFINE p == [page[a] EXCEPT !.mode = "list", !.id = None]
  <2>2. p \in Pages /\ p.left = page[a].left
    BY <1>0 DEF Pages, OrNone
  <2>3. Looks(a, p) /\ checks' = checks
    BY <1>4 DEF CancelSideScreen
  <2> HIDE DEF p
  <2> QED BY <1>0, <2>1, <2>2, <2>3, LooksType
<1>5. ASSUME NEW n \in Names, TypeName(a, n) PROVE TypeOK'
  <2>1. At(a, {"new", "edit"}, "name") /\ page[a].left > 0
    BY <1>5, AtType DEF TypeName
  <2>2. page[a].mode # "new" => page[a].mode = "edit" /\ ShownGroup(a) \in ViewGroup
    <3>1. Screen(a) \in {"new", "edit"}
      BY <2>1, AtType
    <3>2. page[a].mode \in {"new", "edit"}
      BY <3>1 DEF Screen
    <3> QED BY <2>1, <3>2, AtType
  <2> DEFINE p == [page[a] EXCEPT !.name = n, !.marked = @ \ {"name"}, !.sure = FALSE]
             ex == IF page[a].mode = "new" THEN None ELSE ShownGroup(a).name
  <2>3. p \in Pages /\ p.left = page[a].left
    BY <1>0 DEF Pages, OrNone
  <2>4. ex \in OrNone(Names)
    BY <2>2 DEF OrNone, ViewGroup
  <2>5. Looks(a, p) /\ Asks(a, "name", n, ex)
    BY <1>5 DEF TypeName
  <2> HIDE DEF p, ex
  <2>6. checks' \in SUBSET Checks
    BY <2>4, <2>5, AsksType
  <2> QED BY <2>1, <2>3, <2>5, <2>6, LooksType
<1>10. ASSUME NEW n \in Names, TypeShortName(a, n) PROVE TypeOK'
  <2>1. At(a, {"new", "edit"}, "short") /\ page[a].left > 0
    BY <1>10, AtType DEF TypeShortName
  <2>2. page[a].mode # "new" => page[a].mode = "edit" /\ ShownGroup(a) \in ViewGroup
    <3>1. Screen(a) \in {"new", "edit"}
      BY <2>1, AtType
    <3>2. page[a].mode \in {"new", "edit"}
      BY <3>1 DEF Screen
    <3> QED BY <2>1, <3>2, AtType
  <2> DEFINE p == [page[a] EXCEPT !.short = n, !.marked = @ \ {"short"}]
             ex == IF page[a].mode = "new" THEN None ELSE ShownGroup(a).short
  <2>3. p \in Pages /\ p.left = page[a].left
    BY <1>0 DEF Pages, OrNone
  <2>4. ex \in OrNone(Names)
    BY <2>2 DEF OrNone, ViewGroup
  <2>5. Looks(a, p) /\ Asks(a, "short", n, ex)
    BY <1>10 DEF TypeShortName
  <2> HIDE DEF p, ex
  <2>6. checks' \in SUBSET Checks
    BY <2>4, <2>5, AsksType
  <2> QED BY <2>1, <2>3, <2>5, <2>6, LooksType
<1>6. CASE ToggleAuto(a)
  <2>1. page[a].left > 0
    BY <1>6, AtType DEF ToggleAuto
  <2> DEFINE p == [page[a] EXCEPT !.auto = ~@]
  <2>2. p \in Pages /\ p.left = page[a].left
    BY <1>0 DEF Pages
  <2>3. Looks(a, p) /\ checks' = checks
    BY <1>6 DEF ToggleAuto
  <2> HIDE DEF p
  <2> QED BY <1>0, <2>1, <2>2, <2>3, LooksType
<1>7. CASE Delete(a)
  <2>1. page[a].left > 0
    BY <1>7, AtType DEF Delete
  <2> DEFINE p == [page[a] EXCEPT !.dialog = [NoDialog EXCEPT !.op = "delete", !.id = page[a].id]]
  <2>2. p \in Pages /\ p.left = page[a].left
    BY <1>0 DEF Pages, Dialogs, NoDialog, OrNone
  <2>3. Looks(a, p) /\ checks' = checks
    BY <1>7 DEF Delete
  <2> HIDE DEF p
  <2> QED BY <1>0, <2>1, <2>2, <2>3, LooksType
<1>8. ASSUME NEW m \in Members, RemoveMember(a, m) PROVE TypeOK'
  <2>1. At(a, {"group"}, "remove") /\ page[a].left > 0
    BY <1>8, AtType DEF RemoveMember
  <2>2. page[a].id \in Ids /\ ShownGroup(a) \in ViewGroup
    <3>1. Screen(a) = "group"
      BY <2>1, AtType
    <3>2. page[a].mode = "group"
      BY <3>1 DEF Screen
    <3> QED BY <2>1, <3>2, AtType
  <2>3. groups[page[a].id] \in Group
    BY <2>2 DEF TypeOK
  <2> DEFINE l == groups[page[a].id].auto /\ ~ShownGroup(a).auto
             p == [page[a] EXCEPT !.dialog = [op |-> "remove", id |-> page[a].id, m |-> m, late |-> l]]
  <2>4. l \in BOOLEAN
    BY <2>2, <2>3 DEF Group, ViewGroup
  <2>5. Looks(a, p) /\ checks' = checks
    BY <1>8 DEF RemoveMember
  <2> HIDE DEF l
  <2>6. p \in Pages /\ p.left = page[a].left
    BY <1>0, <2>4 DEF Pages, Dialogs, OrNone
  <2> HIDE DEF p
  <2> QED BY <1>0, <2>1, <2>5, <2>6, LooksType
<1>9. CASE CloseConfirmationDialog(a)
  <2> DEFINE p == [page[a] EXCEPT !.dialog = NoDialog]
  <2>1. p \in Pages /\ p.left = page[a].left
    BY <1>0, RecordTypes DEF Pages
  <2>2. Looks(a, p) /\ checks' = checks /\ page[a].left > 0
    BY <1>9 DEF CloseConfirmationDialog
  <2> HIDE DEF p
  <2> QED BY <1>0, <2>1, <2>2, LooksType
<1> QED BY <1>1, <1>2, <1>3, <1>4, <1>5, <1>6, <1>7, <1>8, <1>9, <1>10 DEF Look

LEMMA SendType == ASSUME TypeOK, NEW a \in Admins, Send(a) PROVE TypeOK'
<1>0. page[a] \in Pages
  BY DEF TypeOK
<1>1. CASE DoSubmit(a)
  <2>1. page[a].left > 0
    BY <1>1, AtType DEF DoSubmit
  <2> DEFINE p == page[a]
             op == IF p.mode = "new" THEN "create" ELSE "update"
             j == [Idle EXCEPT !.op = op, !.id = p.id, !.name = p.name, !.short = p.short,
                               !.auto = p.auto, !.clean = p.sure]
  <2>2. j \in Jobs
    <3>1. op \in {"create", "update"}
      OBVIOUS
    <3> HIDE DEF op
    <3> QED BY <1>0, <3>1, SubmitType
  <2>3. Sends(a, j)
    BY <1>1 DEF DoSubmit
  <2> HIDE DEF j
  <2> QED BY <2>1, <2>2, <2>3, SendsType
<1>2. ASSUME NEW m \in Members, AddMember(a, m) PROVE TypeOK'
  <2>1. page[a].left > 0
    BY <1>2, AtType DEF AddMember
  <2> DEFINE j == [Idle EXCEPT !.op = "add", !.id = page[a].id, !.m = m]
  <2>2. j \in Jobs
    BY <1>0 DEF Pages, Jobs, Idle, OrNone
  <2>3. Sends(a, j)
    BY <1>2 DEF AddMember
  <2> HIDE DEF j
  <2> QED BY <2>1, <2>2, <2>3, SendsType
<1>3. CASE Confirm(a)
  <2> DEFINE d == page[a].dialog
             j == [Idle EXCEPT !.op = d.op, !.id = d.id, !.m = d.m, !.late = d.late]
  <2>1. d \in Dialogs
    BY <1>0 DEF Pages
  <2>2. j \in Jobs
    <3> HIDE DEF d
    <3> QED BY <2>1 DEF Jobs, Idle, OrNone, Dialogs
  <2>3. Sends(a, j) /\ page[a].left > 0
    BY <1>3 DEF Confirm
  <2> HIDE DEF j
  <2> QED BY <2>2, <2>3, SendsType
<1> QED BY <1>1, <1>2, <1>3 DEF Send

(* What saving a group does to what others have under way.                 *)
LEMMA SavedType ==
  ASSUME TypeOK, NEW a \in Admins, NEW i \in Ids, NEW g \in Group, NEW j \in Jobs, Saved(a, i, g, j)
  PROVE  /\ groups' \in [Ids -> Group] /\ job' \in [Admins -> Jobs] /\ page' \in [Admins -> Pages]
         /\ checks' \in SUBSET Checks
         /\ joins' \in [Members -> [on : BOOLEAN, auto : SUBSET Ids, missed : SUBSET Ids]]
         /\ hasty' \in SUBSET Ids /\ members' \in SUBSET Members /\ doubt' \in [Admins -> BOOLEAN]
<1>1. groups' \in [Ids -> Group]
  BY DEF Saved, TypeOK
<1>2. job' \in [Admins -> Jobs]
  <2>1. job' = [b \in Admins |-> IF b = a THEN j ELSE JobAfter(b, i, g)]
    BY DEF Saved
  <2>2. ASSUME NEW b \in Admins PROVE JobAfter(b, i, g) \in Jobs
    <3> DEFINE clean == job[b].clean /\ ~Renames(i, g)
               late == job[b].late \/ (Begins(i, g) /\ job[b].op = "remove" /\ job[b].id = i)
    <3>1. job[b] \in Jobs
      BY DEF TypeOK
    <3>2. clean \in BOOLEAN /\ late \in BOOLEAN
      BY <3>1 DEF Jobs
    <3>3. JobAfter(b, i, g) = [job[b] EXCEPT !.clean = clean, !.late = late]
      BY DEF JobAfter
    <3> HIDE DEF clean, late
    <3> QED BY <3>1, <3>2, <3>3, MarksType
  <2> QED BY <2>1, <2>2
<1>3. page' \in [Admins -> Pages]
  <2>1. page' = [b \in Admins |-> PageAfter(b, i, g)]
    BY DEF Saved
  <2>2. ASSUME NEW b \in Admins PROVE PageAfter(b, i, g) \in Pages
    <3> DEFINE d == [page[b].dialog EXCEPT !.late = @ \/ (Begins(i, g) /\ page[b].dialog.id = i)]
    <3>1. page[b] \in Pages /\ page[b].dialog \in Dialogs
      BY DEF TypeOK, Pages
    <3>2. d \in Dialogs
      BY <3>1 DEF Dialogs
    <3>3. PageAfter(b, i, g) = [page[b] EXCEPT !.sure = page[b].sure /\ ~Renames(i, g), !.dialog = d]
      BY DEF PageAfter
    <3> HIDE DEF d
    <3> QED BY <3>1, <3>2, <3>3 DEF Pages
  <2> QED BY <2>1, <2>2
<1>4. checks' \in SUBSET Checks
  <2>1. \A c \in checks : [c EXCEPT !.clean = FALSE] \in Checks
    BY UncleanType DEF TypeOK
  <2>2. checks' = checks \/ checks' = {[c EXCEPT !.clean = FALSE] : c \in checks}
    BY DEF Saved
  <2>3. checks \in SUBSET Checks
    BY DEF TypeOK
  <2> QED BY <2>1, <2>2, <2>3
<1>5. joins' \in [Members -> [on : BOOLEAN, auto : SUBSET Ids, missed : SUBSET Ids]]
  <2> SUFFICES ASSUME NEW m \in Members
               PROVE  [joins[m] EXCEPT !.missed = IF Begins(i, g) /\ joins[m].on THEN @ \union {i} ELSE @]
                        \in [on : BOOLEAN, auto : SUBSET Ids, missed : SUBSET Ids]
    BY DEF Saved
  <2>1. joins[m] \in [on : BOOLEAN, auto : SUBSET Ids, missed : SUBSET Ids]
    BY DEF TypeOK
  <2> QED BY <2>1
<1>6. hasty' \in SUBSET Ids
  BY DEF Saved, TypeOK
<1>7. members' \in SUBSET Members /\ doubt' \in [Admins -> BOOLEAN]
  BY DEF Saved, TypeOK
<1> QED BY <1>1, <1>2, <1>3, <1>4, <1>5, <1>6, <1>7

LEMMA FilledType ==
  ASSUME NEW rows \in [Members -> 0 .. 2], NEW ms PROVE Filled(rows, ms) \in [Members -> 0 .. 2]
BY DEF Filled

LEMMA MissingType == ASSUME TypeOK, NEW g PROVE Missing(g) \in SUBSET Members
BY DEF Missing, TypeOK

LEMMA CommitsType ==
  ASSUME TypeOK, NEW a \in Admins, NEW i \in Ids, NEW g \in Group, Commits(a, i, g),
         UNCHANGED <<scene, answers>>
  PROVE  TypeOK'
<1> DEFINE missing == Missing(g)
           phase == IF g.auto THEN "fill" ELSE "done"
           j == [job[a] EXCEPT !.id = i, !.missing = missing, !.phase = phase]
<1>1. j \in Jobs
  <2>1. job[a] \in Jobs /\ missing \in SUBSET Members /\ phase \in {"fill", "done"}
    BY MissingType DEF TypeOK
  <2> HIDE DEF missing, phase
  <2> QED BY <2>1 DEF Jobs, OrNone
<1>2. Saved(a, i, g, j) /\ UNCHANGED disturbed
  BY DEF Commits
<1>3. inbox' \in SUBSET Admins
  BY DEF Commits, Tell, Others, TypeOK
<1> HIDE DEF j
<1> QED BY <1>1, <1>2, <1>3, SavedType DEF TypeOK

LEMMA OvertakenType == ASSUME TypeOK, NEW is PROVE Overtaken(is) \in [Admins -> Jobs]
<1>1. ASSUME NEW b \in Admins PROVE [job[b] EXCEPT !.late = TRUE] \in Jobs
  <2>1. job[b] \in Jobs
    BY DEF TypeOK
  <2> QED BY <2>1 DEF Jobs
<1> QED BY <1>1 DEF Overtaken, TypeOK

LEMMA HandleType == ASSUME TypeOK, NEW a \in Admins, Handle(a) PROVE TypeOK'
<1> USE DEF Handles
<1>0. job[a] \in Jobs
  BY DEF TypeOK
<1>r. ASSUME Refused(a) \/ Held(a), UNCHANGED <<scene, answers>> PROVE TypeOK'
  <2>1. job' \in [Admins -> Jobs]
    BY <1>r, BecomesType DEF Refused, Held
  <2> QED BY <1>r, <2>1 DEF Refused, Held, TypeOK, server, history
<1>g. ASSUME NEW i \in Ids PROVE groups[i] \in Group
  BY DEF TypeOK
<1>1. CASE CreateReads(a)
  <2>1. [job[a] EXCEPT !.phase = "held", !.clean = TRUE] \in Jobs
    BY <1>0 DEF Jobs
  <2>2. job' \in [Admins -> Jobs]
    BY <1>1, <2>1, BecomesType DEF CreateReads, TypeOK
  <2> QED BY <1>1, <2>2 DEF CreateReads, TypeOK, server, history
<1>2. CASE CreateSaves(a)
  <2> DEFINE g == [at |-> "here", name |-> job[a].name, short |-> job[a].short, auto |-> job[a].auto,
                   rows |-> [m \in Members |-> 0], service |-> FALSE]
  <2>1. g \in Group
    BY <1>0 DEF Group, Jobs, OrNone
  <2>2. CASE Refused(a)
    BY <1>2, <2>2, <1>r DEF CreateSaves
  <2>3. CASE ~Refused(a)
    <3>1. PICK i \in Ids : Commits(a, i, g)
      BY <1>2, <2>3 DEF CreateSaves
    <3>2. UNCHANGED <<scene, answers>>
      BY <1>2 DEF CreateSaves
    <3> HIDE DEF g
    <3> QED BY <2>1, <3>1, <3>2, CommitsType
  <2> QED BY <2>2, <2>3
<1>3. CASE UpdateSaves(a)
  <2>1. CASE Refused(a)
    BY <1>3, <2>1, <1>r DEF UpdateSaves
  <2>2. CASE ~Refused(a)
    <3> DEFINE g == [groups[job[a].id] EXCEPT !.name = job[a].name, !.short = job[a].short,
                                              !.auto = job[a].auto]
    <3>1. job[a].id \in Ids /\ Commits(a, job[a].id, g) /\ UNCHANGED <<scene, answers>>
      BY <1>3, <2>2 DEF UpdateSaves, Here
    <3>2. g \in Group
      <4>1. /\ groups[job[a].id] \in Group /\ job[a].auto \in BOOLEAN
            /\ job[a].name \in OrNone(Names) /\ job[a].short \in OrNone(Names)
        BY <1>0, <1>g, <3>1 DEF Jobs
      <4> QED BY <4>1 DEF Group, OrNone
    <3> HIDE DEF g
    <3> QED BY <3>1, <3>2, CommitsType
  <2> QED BY <2>1, <2>2
<1>4. CASE UpdateReads(a)
  <2>1. [job[a] EXCEPT !.phase = "held", !.late = FALSE,
                       !.missing = Missing([groups[job[a].id] EXCEPT !.auto = job[a].auto])] \in Jobs
    <3> DEFINE ms == Missing([groups[job[a].id] EXCEPT !.auto = job[a].auto])
    <3>1. ms \in SUBSET Members
      BY MissingType
    <3> HIDE DEF ms
    <3>2. [job[a] EXCEPT !.phase = "held", !.late = FALSE, !.missing = ms] \in Jobs
      BY <1>0, <3>1 DEF Jobs
    <3> QED BY <3>2 DEF ms
  <2>2. job' \in [Admins -> Jobs]
    BY <1>4, <2>1 DEF UpdateReads, TypeOK
  <2> QED BY <1>4, <2>2 DEF UpdateReads, TypeOK, Tell, Others, server, history
<1>5. CASE UpdateCommits(a)
  <2>1. CASE Refused(a)
    BY <1>5, <2>1, <1>r DEF UpdateCommits
  <2>2. CASE ~Refused(a)
    <3> DEFINE j == [job[a] EXCEPT !.phase = "done"]
               g == [groups[job[a].id] EXCEPT !.auto = job[a].auto, !.rows = Filled(@, job[a].missing)]
    <3>1. /\ job[a].id \in Ids /\ Saved(a, job[a].id, g, j)
          /\ inbox' \in SUBSET Admins /\ disturbed' \in SUBSET Ids /\ UNCHANGED <<scene, answers>>
      BY <1>5, <2>2 DEF UpdateCommits, Here, Tell, Others, TypeOK
    <3>2. j \in Jobs
      BY <1>0 DEF Jobs
    <3>3. groups[job[a].id] \in Group
      BY <1>g, <3>1
    <3>4. Filled(groups[job[a].id].rows, job[a].missing) \in [Members -> 0 .. 2]
      BY <3>3, FilledType DEF Group
    <3>5. g \in Group
      BY <1>0, <3>3, <3>4 DEF Group, Jobs
    <3> HIDE DEF j, g
    <3> QED BY <3>1, <3>2, <3>5, SavedType DEF TypeOK
  <2> QED BY <2>1, <2>2
<1>f. ASSUME NEW i \in Ids, NEW ms, groups' = [groups EXCEPT ![i].rows = Filled(@, ms)]
      PROVE groups' \in [Ids -> Group]
  <2>1. groups[i] \in Group /\ groups[i].rows \in [Members -> 0 .. 2]
    BY <1>g DEF Group
  <2>2. Filled(groups[i].rows, ms) \in [Members -> 0 .. 2]
    BY <2>1, FilledType
  <2>3. [groups[i] EXCEPT !.rows = Filled(@, ms)] \in Group
    BY <2>1, <2>2 DEF Group
  <2> QED BY <1>f, <2>3 DEF TypeOK
<1>6. CASE Fills(a)
  <2>0. job' \in [Admins -> Jobs]
    BY <1>6, BecomesType DEF Fills
  <2>1. groups' \in [Ids -> Group]
    BY <1>6, <1>f DEF Fills, Here, TypeOK
  <2>2. inbox' \in SUBSET Admins /\ doubt' \in [Admins -> BOOLEAN]
    BY <1>6 DEF Fills, Tell, Others, TypeOK
  <2>3. disturbed' \in SUBSET Ids
    <3>1. job[a].id \in Ids
      BY <1>6, <1>0 DEF Fills, Jobs
    <3> QED BY <1>6, <3>1 DEF Fills, TypeOK
  <2> QED BY <1>6, <2>0, <2>1, <2>2, <2>3 DEF Fills, TypeOK
<1>7. CASE DeleteTells(a)
  <2>1. job' \in [Admins -> Jobs]
    BY <1>7, BecomesType DEF DeleteTells, Refused
  <2> QED BY <1>7, <2>1 DEF DeleteTells, Refused, Tell, Others, TypeOK, server, history
<1>8. CASE DeleteCommits(a)
  <2>1. job' \in [Admins -> Jobs]
    BY <1>8, BecomesType DEF DeleteCommits
  <2>2. ASSUME job[a].id \in Here
        PROVE [groups EXCEPT ![job[a].id].at = "gone", ![job[a].id].rows = [m \in Members |-> 0]]
                \in [Ids -> Group]
    <3>1. job[a].id \in Ids /\ groups[job[a].id] \in Group
      BY <2>2, <1>g DEF Here
    <3>2. [groups[job[a].id] EXCEPT !.at = "gone", !.rows = [m \in Members |-> 0]] \in Group
      <4> DEFINE rows == [m \in Members |-> 0]
      <4>1. rows \in [Members -> 0 .. 2]
        OBVIOUS
      <4> HIDE DEF rows
      <4>2. [groups[job[a].id] EXCEPT !.at = "gone", !.rows = rows] \in Group
        BY <3>1, <4>1 DEF Group
      <4> QED BY <4>2 DEF rows
    <3> QED BY <3>1, <3>2 DEF TypeOK
  <2>3. groups' \in [Ids -> Group]
    BY <1>8, <2>2 DEF DeleteCommits, TypeOK
  <2> QED BY <1>8, <2>1, <2>3 DEF DeleteCommits, TypeOK, history
<1>9. CASE AddReads(a)
  <2>1. CASE Refused(a)
    BY <1>9, <2>1, <1>r DEF AddReads
  <2>2. CASE ~Refused(a)
    <3> DEFINE ms == IF groups[job[a].id].rows[job[a].m] = 0 THEN {job[a].m} ELSE {}
    <3>1. ms \in SUBSET Members
      BY <1>9, <2>2 DEF AddReads, TypeOK
    <3>2. job' = [job EXCEPT ![a].phase = "held", ![a].missing = ms]
      BY <1>9, <2>2 DEF AddReads
    <3> HIDE DEF ms
    <3>3. [job[a] EXCEPT !.phase = "held", !.missing = ms] \in Jobs
      BY <1>0, <3>1 DEF Jobs
    <3>4. job' \in [Admins -> Jobs]
      BY <3>2, <3>3 DEF TypeOK
    <3> QED BY <1>9, <2>2, <3>4 DEF AddReads, TypeOK, server, history
  <2> QED BY <2>1, <2>2
<1>10. CASE AddCommits(a)
  <2>1. CASE Refused(a)
    BY <1>10, <2>1, <1>r DEF AddCommits
  <2>2. CASE ~Refused(a)
    <3>1. job' \in [Admins -> Jobs]
      BY <1>10, <2>2, BecomesType DEF AddCommits
    <3>2. groups' \in [Ids -> Group]
      BY <1>10, <2>2, <1>f DEF AddCommits, Here
    <3> QED BY <1>10, <2>2, <3>1, <3>2 DEF AddCommits, Tell, Others, TypeOK, history
  <2> QED BY <2>1, <2>2
<1>11. CASE RemoveReads(a)
  BY <1>11, <1>r DEF RemoveReads
<1>12. CASE RemoveCommits(a)
  <2>1. CASE Refused(a)
    BY <1>12, <2>1, <1>r DEF RemoveCommits
  <2>2. CASE ~Refused(a)
    <3>1. job[a].id \in Ids
      BY <1>12, <2>2 DEF RemoveCommits, Here
    <3>2. Overtaken({job[a].id}) \in [Admins -> Jobs]
      BY OvertakenType
    <3>3. [Overtaken({job[a].id})[a] EXCEPT !.phase = "done"] \in Jobs
      BY <3>2, PhaseType
    <3>4. job' \in [Admins -> Jobs]
      BY <1>12, <2>2, <3>2, <3>3 DEF RemoveCommits
    <3>5. groups[job[a].id] \in Group
      BY <3>1, <1>g
    <3>6. [groups[job[a].id] EXCEPT !.rows[job[a].m] = 0] \in Group
      BY <3>5 DEF Group
    <3>7. groups' \in [Ids -> Group]
      BY <1>12, <2>2, <3>6 DEF RemoveCommits, TypeOK
    <3> QED BY <1>12, <2>2, <3>1, <3>4, <3>7 DEF RemoveCommits, Tell, TypeOK
  <2> QED BY <2>1, <2>2
<1> QED BY <1>1, <1>2, <1>3, <1>4, <1>5, <1>6, <1>7, <1>8, <1>9, <1>10, <1>11, <1>12 DEF Handle

LEMMA HearType == ASSUME TypeOK, NEW a \in Admins, Hear(a) PROVE TypeOK'
<1>r. ASSUME NEW own \in BOOLEAN, Reads(a, own) PROVE answers' \in [Admins -> SUBSET Answers]
  <2>1. \A r \in answers[a] : [r EXCEPT !.old = TRUE] \in Answers
    <3>1. answers[a] \in SUBSET Answers
      BY DEF TypeOK
    <3> QED BY <3>1 DEF Answers
  <2> DEFINE early == \E b \in Admins : /\ job[b].phase = "held"
                                        /\ (job[b].op = "delete" \/ (job[b].op = "update" /\ ~job[b].auto))
             new == [own |-> own, view |-> Shown, old |-> early]
             rs == {[r EXCEPT !.old = TRUE] : r \in answers[a]} \union {new}
  <2>2. early \in BOOLEAN
    OBVIOUS
  <2>3. new \in Answers
    <3> HIDE DEF early
    <3> QED BY <2>2, ShownType DEF Answers
  <2>4. answers' = [answers EXCEPT ![a] = rs]
    BY <1>r DEF Reads
  <2> HIDE DEF new
  <2>5. rs \in SUBSET Answers
    BY <2>1, <2>3
  <2> HIDE DEF rs
  <2> QED BY <2>4, <2>5 DEF TypeOK
<1>1. CASE HearAnswer(a)
  <2>1. job' \in [Admins -> Jobs]
    BY <1>1, BecomesType DEF HearAnswer
  <2> QED BY <1>1, <1>r, <2>1 DEF HearAnswer, Reads, TypeOK, server, history
<1>2. CASE HearSocket(a)
  BY <1>2, <1>r DEF HearSocket, Reads, TypeOK, server, history
<1>3. ASSUME NEW r \in answers[a], HearPage(a, r) PROVE TypeOK'
  <2>0. r \in Answers /\ page[a] \in Pages /\ job[a] \in Jobs
    BY DEF TypeOK
  <2> DEFINE p == [page[a] EXCEPT !.view = r.view]
  <2>1. p \in Pages
    BY <2>0 DEF Answers, Pages
  <2>2. Leads(a, p) \in Pages
    <3> HIDE DEF p
    <3>1. [p EXCEPT !.mode = "group", !.id = job[a].id] \in Pages
      BY <2>0, <2>1 DEF Pages, Jobs
    <3>2. [p EXCEPT !.mode = "group"] \in Pages
      BY <2>1 DEF Pages
    <3> QED BY <2>1, <3>1, <3>2 DEF Leads
  <2>3. page' \in [Admins -> Pages]
    <3>1. page' = [page EXCEPT ![a] = p] \/ page' = [page EXCEPT ![a] = Leads(a, p)]
      BY <1>3 DEF HearPage
    <3> HIDE DEF p
    <3> QED BY <2>1, <2>2, <3>1 DEF TypeOK
  <2>4. job' \in [Admins -> Jobs]
    BY <1>3, RecordTypes DEF HearPage, TypeOK
  <2>5. answers' \in [Admins -> SUBSET Answers] /\ doubt' \in [Admins -> BOOLEAN]
    BY <1>3, <2>0 DEF HearPage, TypeOK, Answers
  <2> QED BY <1>3, <2>3, <2>4, <2>5 DEF HearPage, TypeOK, server
<1> QED BY <1>1, <1>2, <1>3 DEF Hear

LEMMA VerdictType ==
  ASSUME TypeOK, NEW c \in checks, NameExists(c) \/ HearVerdict(c) PROVE TypeOK'
<1>0. c \in Checks /\ page[c.by] \in Pages
  BY DEF TypeOK, Checks
<1>1. CASE NameExists(c)
  <2> DEFINE taken == \E i \in Here : Called(i, c.attr) = c.name /\ c.name # c.existing
             clean == c.attr = "name" /\ c.id \in Here /\ groups[c.id].name = c.existing
             d == [c EXCEPT !.phase = "told", !.taken = taken, !.clean = clean]
  <2>1. taken \in BOOLEAN /\ clean \in BOOLEAN
    OBVIOUS
  <2>2. checks' = (checks \ {c}) \union {d}
    BY <1>1 DEF NameExists
  <2> HIDE DEF taken, clean
  <2>3. d \in Checks
    BY <1>0, <2>1 DEF Checks
  <2> HIDE DEF d
  <2> QED BY <1>1, <2>2, <2>3 DEF NameExists, TypeOK, server, history
<1>2. CASE HearVerdict(c)
  <2> DEFINE p == page[c.by]
             mine == c.attr = "name" /\ p.mode = "edit" /\ p.id = c.id /\ p.name = c.name
             sure == IF mine THEN c.clean /\ ~c.taken ELSE p.sure
             marked == IF c.taken THEN p.marked \union {c.attr} ELSE p.marked \ {c.attr}
             q == [p EXCEPT !.marked = marked, !.sure = sure]
  <2>1. sure \in BOOLEAN
    <3> HIDE DEF mine
    <3> QED BY <1>0 DEF Checks, Pages
  <2>m. marked \in SUBSET {"name", "short"}
    BY <1>0 DEF Checks, Pages
  <2>2. page' = [page EXCEPT ![c.by] = q] /\ checks' \subseteq checks
    BY <1>2 DEF HearVerdict
  <2> HIDE DEF sure, marked
  <2>3. q \in Pages
    BY <1>0, <2>1, <2>m DEF Checks, Pages
  <2> HIDE DEF q
  <2>4. c.by \in Admins /\ page' \in [Admins -> Pages] /\ checks' \in SUBSET Checks
    BY <1>0, <2>2, <2>3 DEF TypeOK, Checks
  <2> QED BY <1>2, <2>4 DEF HearVerdict, TypeOK, server, history
<1> QED BY <1>1, <1>2

LEMMA MemberType ==
  ASSUME TypeOK, NEW m \in Members, JoinReads(m) \/ JoinCommits(m) \/ Leave(m) PROVE TypeOK'
<1>0. NotJoining \in [on : BOOLEAN, auto : SUBSET Ids, missed : SUBSET Ids]
  BY DEF NotJoining
<1>g. ASSUME NEW i \in Ids, NEW n \in 0 .. 2 PROVE [groups[i] EXCEPT !.rows[m] = n] \in Group
  <2>1. groups[i] \in Group /\ groups[i].rows \in [Members -> 0 .. 2]
    BY DEF TypeOK, Group
  <2> DEFINE rows == [groups[i].rows EXCEPT ![m] = n]
  <2>2. rows \in [Members -> 0 .. 2]
    BY <2>1
  <2>3. [groups[i] EXCEPT !.rows[m] = n] = [groups[i] EXCEPT !.rows = rows]
    OBVIOUS
  <2> HIDE DEF rows
  <2> QED BY <2>1, <2>2, <2>3 DEF Group
<1>1. CASE JoinReads(m)
  <2>1. Provisioned \in SUBSET Ids
    <3>1. Here \subseteq Ids
      BY DEF Here
    <3>2. Provisioned \subseteq Here
      BY DEF Provisioned
    <3> QED BY <3>1, <3>2
  <2>2. joins' \in [Members -> [on : BOOLEAN, auto : SUBSET Ids, missed : SUBSET Ids]]
    BY <1>1, <2>1 DEF JoinReads, TypeOK
  <2> QED BY <1>1, <2>2 DEF JoinReads, TypeOK, browser, history
<1>2. CASE JoinCommits(m)
  <2>1. joins' \in [Members -> [on : BOOLEAN, auto : SUBSET Ids, missed : SUBSET Ids]]
    BY <1>2, <1>0 DEF JoinCommits, TypeOK
  <2>2. groups' \in [Ids -> Group]
    <3>1. \A i \in Ids : groups[i] \in Group /\ [groups[i] EXCEPT !.rows[m] = 1] \in Group
      <4>1. 1 \in 0 .. 2
        OBVIOUS
      <4> QED BY <4>1, <1>g DEF TypeOK
    <3>2. \/ groups' = groups
          \/ groups' = [i \in Ids |-> IF i \in joins[m].auto THEN [groups[i] EXCEPT !.rows[m] = 1]
                                      ELSE groups[i]]
      BY <1>2 DEF JoinCommits
    <3> QED BY <3>1, <3>2 DEF TypeOK
  <2>3. job' \in [Admins -> Jobs]
    BY <1>2, OvertakenType DEF JoinCommits, TypeOK
  <2>4. disturbed' \in SUBSET Ids /\ members' \in SUBSET Members /\ inbox' \in SUBSET Admins
    BY <1>2 DEF JoinCommits, Tell, TypeOK
  <2> QED BY <1>2, <2>1, <2>2, <2>3, <2>4 DEF JoinCommits, TypeOK
<1>3. CASE Leave(m)
  <2>1. groups' \in [Ids -> Group]
    <3>1. 0 \in 0 .. 2
      OBVIOUS
    <3>2. \A i \in Ids : [groups[i] EXCEPT !.rows[m] = 0] \in Group
      BY <3>1, <1>g
    <3> QED BY <1>3, <3>2 DEF Leave
  <2> QED BY <1>3, <2>1 DEF Leave, Tell, TypeOK, browser, history
<1> QED BY <1>1, <1>2, <1>3

(* Every variable keeps its type.                                          *)
THEOREM TypeCorrect == Spec => []TypeOK
<1>1. Init => TypeOK
  <2> SUFFICES ASSUME Init PROVE TypeOK
    OBVIOUS
  <2>1. /\ scene \in Scenes /\ groups \in [Ids -> Group] /\ members \in SUBSET Members
        /\ scene.opened \in [Admins -> Ids \union {None}] /\ scene.budget \in [Admins -> Nat]
        /\ scene.drafts \in [Admins -> Names \union {None}]
    BY SceneAssumption DEF Init
  <2>2. Shown \in Views
    <3> DEFINE D == {i \in Ids : groups[i].at = "here"}
               f == [i \in D |-> [name |-> groups[i].name, short |-> groups[i].short,
                                  auto |-> groups[i].auto, service |-> groups[i].service,
                                  in |-> {m \in Members : groups[i].rows[m] > 0}]]
    <3>1. f \in [D -> ViewGroup] /\ D \in SUBSET Ids
      <4>1. ASSUME NEW i \in D PROVE f[i] \in ViewGroup
        BY <2>1 DEF Group, ViewGroup, OrNone
      <4> QED BY <4>1
    <3>2. Shown = [members |-> members, groups |-> f]
      BY DEF Shown, Here
    <3> HIDE DEF f, D
    <3>3. f \in UNION {[E -> ViewGroup] : E \in SUBSET Ids}
      BY <3>1
    <3> QED BY <2>1, <3>2, <3>3 DEF Views
  <2>3. page \in [Admins -> Pages]
    <3> DEFINE mode(a) == IF scene.opened[a] # None THEN "group"
                          ELSE IF scene.drafts[a] # None THEN "new" ELSE "list"
               q(a) == [view |-> Shown, mode |-> mode(a),
                        id |-> scene.opened[a], name |-> None, short |-> scene.drafts[a], auto |-> FALSE,
                        marked |-> {}, sure |-> FALSE, dialog |-> NoDialog, left |-> scene.budget[a]]
    <3>1. ASSUME NEW a \in Admins PROVE q(a) \in Pages
      <4>1. mode(a) \in {"list", "group", "new", "edit"}
        OBVIOUS
      <4> HIDE DEF mode
      <4> QED BY <2>1, <2>2, <4>1, RecordTypes DEF Pages, OrNone
    <3>2. page = [a \in Admins |-> q(a)]
      BY DEF Init
    <3> HIDE DEF q
    <3> QED BY <3>1, <3>2
  <2>4. job \in [Admins -> Jobs]
    BY RecordTypes DEF Init
  <2>5. joins \in [Members -> [on : BOOLEAN, auto : SUBSET Ids, missed : SUBSET Ids]]
    BY DEF Init, NotJoining
  <2> QED BY <2>1, <2>3, <2>4, <2>5 DEF Init, TypeOK
<1>2. TypeOK /\ [Next]_vars => TypeOK'
  <2> SUFFICES ASSUME TypeOK, [Next]_vars PROVE TypeOK'
    OBVIOUS
  <2>1. CASE UNCHANGED vars
    BY <2>1 DEF vars, server, browser, history, TypeOK
  <2>2. CASE Next
    BY <2>2, LookType, SendType, HandleType, HearType, VerdictType, MemberType DEF Next
  <2> QED BY <2>1, <2>2
<1> QED BY <1>1, <1>2, PTL DEF Spec

-------------------------------------------------------------------------------
(* Names.  Short names are apart because of their index.  Group i may be   *)
(* called n: it is already, or no other one is.                            *)
ShortsApart == \A i, k \in Here : i # k => groups[i].short # groups[k].short
OwnApart ==
  \A i, k \in Here :
    i # k /\ ~groups[i].service /\ ~groups[k].service /\ groups[i].name = groups[k].name
      => i \in hasty \/ k \in hasty
Fits(i, n) ==
  i \in Here => groups[i].name = n \/ \A k \in Here : k # i => groups[k].name # n
(* What a clean verdict says stays true until a group is given a name: of  *)
(* the look of create_group, of an edit under way, of one that is typed,   *)
(* of a verdict on its way.                                                *)
CreatesFit ==
  \A a \in Admins : job[a].op = "create" /\ job[a].phase = "held" /\ job[a].clean =>
                      \A k \in Here : ~groups[k].service => groups[k].name # job[a].name
UpdatesFit ==
  \A a \in Admins : job[a].op = "update" /\ job[a].phase = "sent" /\ job[a].clean =>
                      Fits(job[a].id, job[a].name)
EditsFit ==
  \A a \in Admins : page[a].mode = "edit" /\ page[a].sure => Fits(page[a].id, page[a].name)
VerdictsFit ==
  \A c \in checks : c.phase = "told" /\ c.clean /\ ~c.taken => Fits(c.id, c.name)
NamesInv == ShortsApart /\ OwnApart /\ CreatesFit /\ UpdatesFit /\ EditsFit /\ VerdictsFit

OwnKept ==
  /\ Here' \subseteq Here
  /\ \A i \in Here' : groups'[i].name = groups[i].name /\ groups'[i].service = groups[i].service
NamesKept == OwnKept /\ \A i \in Here' : groups'[i].short = groups[i].short
LEMMA OwnFitsKept == ASSUME OwnKept PROVE \A i, n : Fits(i, n) => Fits(i, n)'
BY DEF OwnKept, Fits
LEMMA FitsKept == ASSUME NamesKept PROVE \A i, n : Fits(i, n) => Fits(i, n)'
BY OwnFitsKept DEF NamesKept

LEMMA SameGroups == ASSUME UNCHANGED groups PROVE NamesKept
BY DEF NamesKept, OwnKept, Here

LEMMA ApartKept ==
  ASSUME NamesKept, ShortsApart, OwnApart, UNCHANGED hasty PROVE ShortsApart' /\ OwnApart'
BY DEF NamesKept, OwnKept, ShortsApart, OwnApart
LEMMA CreatesKept ==
  ASSUME NamesKept, CreatesFit, UNCHANGED job PROVE CreatesFit'
BY DEF NamesKept, OwnKept, CreatesFit

(* A step that names no group keeps the names apart as long as what is said*)
(* to fit was said before.                                                 *)
JobsKept ==
  \A b \in Admins :
    /\ job'[b].op = "create" /\ job'[b].phase = "held" /\ job'[b].clean =>
         /\ job[b].op = "create" /\ job[b].phase = "held" /\ job[b].clean
         /\ job'[b].name = job[b].name
    /\ job'[b].op = "update" /\ job'[b].phase = "sent" /\ job'[b].clean =>
         /\ job[b].op = "update" /\ job[b].phase = "sent" /\ job[b].clean
         /\ job'[b].name = job[b].name /\ job'[b].id = job[b].id
PagesKept ==
  \A b \in Admins :
    page'[b].mode = "edit" /\ page'[b].sure =>
      /\ page[b].mode = "edit" /\ page[b].sure
      /\ page'[b].name = page[b].name /\ page'[b].id = page[b].id
ChecksKept == \A c \in checks' : c \in checks \/ ~c.clean

LEMMA OwnNamesStay ==
  ASSUME TypeOK, NamesInv, OwnKept, ShortsApart', JobsKept, PagesKept, ChecksKept, UNCHANGED hasty
  PROVE  NamesInv'
<1>1. OwnApart'
  BY DEF NamesInv, OwnKept, OwnApart
<1>2. CreatesFit'
  BY DEF NamesInv, CreatesFit, JobsKept, OwnKept
<1>3. UpdatesFit'
  <2> SUFFICES ASSUME NEW b \in Admins, job'[b].op = "update", job'[b].phase = "sent", job'[b].clean
               PROVE Fits(job[b].id, job[b].name)'
    BY DEF UpdatesFit
  <2>1. Fits(job[b].id, job[b].name) /\ job'[b].id = job[b].id /\ job'[b].name = job[b].name
    BY DEF NamesInv, UpdatesFit, JobsKept
  <2> QED BY <2>1, OwnFitsKept DEF Fits
<1>4. EditsFit'
  <2> SUFFICES ASSUME NEW b \in Admins, page'[b].mode = "edit", page'[b].sure
               PROVE Fits(page[b].id, page[b].name)'
    BY DEF EditsFit
  <2>1. Fits(page[b].id, page[b].name) /\ page'[b].id = page[b].id /\ page'[b].name = page[b].name
    BY DEF NamesInv, EditsFit, PagesKept
  <2> QED BY <2>1, OwnFitsKept DEF Fits
<1>5. VerdictsFit'
  BY OwnFitsKept DEF NamesInv, VerdictsFit, ChecksKept
<1> QED BY <1>1, <1>2, <1>3, <1>4, <1>5 DEF NamesInv

LEMMA NamesStay ==
  ASSUME TypeOK, NamesInv, NamesKept, JobsKept, PagesKept, ChecksKept, UNCHANGED hasty
  PROVE  NamesInv'
BY OwnNamesStay, ApartKept DEF NamesInv, NamesKept

LEMMA NothingNew ==
  /\ UNCHANGED job => JobsKept
  /\ UNCHANGED page => PagesKept
  /\ UNCHANGED checks => ChecksKept
BY DEF JobsKept, PagesKept, ChecksKept

LEMMA BecomesKept ==
  ASSUME TypeOK, NEW a \in Admins, NEW phase \in {"held", "done", "lost", "reading"}, Becomes(a, phase),
         job[a].op # "create" \/ phase # "held"
  PROVE  JobsKept
BY DEF TypeOK, Jobs, Becomes, JobsKept

LEMMA OvertakenKept ==
  ASSUME TypeOK, NEW is, job' = Overtaken(is) PROVE JobsKept
BY DEF TypeOK, Jobs, Overtaken, JobsKept

LEMMA LooksElse ==
  ASSUME TypeOK, NEW a \in Admins, NEW p, Looks(a, p)
  PROVE  /\ UNCHANGED <<groups, job, hasty>> /\ page'[a] = [p EXCEPT !.left = @ - 1]
         /\ \A b \in Admins : b # a => page'[b] = page[b]
BY DEF Looks, TypeOK, server, history

LEMMA AsksNothingClean ==
  ASSUME NEW a, NEW attr, NEW n, NEW existing, Asks(a, attr, n, existing) PROVE ChecksKept
BY DEF Asks, ChecksKept

LEMMA LookNames == ASSUME TypeOK, NamesInv, NEW a \in Admins, Look(a) PROVE NamesInv'
<1>0. page[a] \in Pages
  BY DEF TypeOK
<1>a. ASSUME UNCHANGED <<groups, job, hasty>>, ChecksKept,
             \A b \in Admins : b # a => page'[b] = page[b],
             \/ ~(page'[a].mode = "edit" /\ page'[a].sure)
             \/ /\ page'[a].mode = page[a].mode /\ page'[a].sure = page[a].sure
                /\ page'[a].id = page[a].id /\ page'[a].name = page[a].name
      PROVE NamesInv'
  <2>1. PagesKept
    BY <1>a DEF PagesKept
  <2> QED BY <1>a, <2>1, NothingNew, SameGroups, NamesStay
<1>1. CASE NewGroup(a)
  <2> DEFINE p == [page[a] EXCEPT !.mode = "new", !.id = None, !.name = None, !.short = None,
                          !.auto = FALSE, !.marked = {}, !.sure = FALSE]
  <2>1. Looks(a, p)
    BY <1>1 DEF NewGroup
  <2> HIDE DEF p
  <2>e. page'[a] = [p EXCEPT !.left = @ - 1]
    BY <2>1, LooksElse
  <2>2. page'[a].sure = FALSE
    BY <1>0, <2>e DEF p, Pages
  <2>3. ChecksKept
    BY <1>1 DEF NewGroup, ChecksKept
  <2> QED BY <1>a, <2>1, <2>2, <2>3, LooksElse
<1>2. ASSUME NEW i \in Ids, GotoGroup(a, i) PROVE NamesInv'
  <2> DEFINE p == [page[a] EXCEPT !.mode = "group", !.id = i]
  <2>1. Looks(a, p)
    BY <1>2 DEF GotoGroup
  <2> HIDE DEF p
  <2>e. page'[a] = [p EXCEPT !.left = @ - 1]
    BY <2>1, LooksElse
  <2>2. page'[a].mode = "group"
    BY <1>0, <2>e DEF p, Pages
  <2>3. ChecksKept
    BY <1>2 DEF GotoGroup, ChecksKept
  <2> QED BY <1>a, <2>1, <2>2, <2>3, LooksElse
<1>3. CASE Edit(a)
  <2> DEFINE p == [page[a] EXCEPT !.mode = "edit", !.name = ShownGroup(a).name, !.short = ShownGroup(a).short,
                          !.auto = ShownGroup(a).auto, !.marked = {}, !.sure = FALSE]
  <2>1. Looks(a, p)
    BY <1>3 DEF Edit
  <2> HIDE DEF p
  <2>e. page'[a] = [p EXCEPT !.left = @ - 1]
    BY <2>1, LooksElse
  <2>2. page'[a].sure = FALSE
    BY <1>0, <2>e DEF p, Pages
  <2>3. ChecksKept
    BY <1>3 DEF Edit, ChecksKept
  <2> QED BY <1>a, <2>1, <2>2, <2>3, LooksElse
<1>4. CASE CancelSideScreen(a)
  <2> DEFINE p == [page[a] EXCEPT !.mode = "list", !.id = None]
  <2>1. Looks(a, p)
    BY <1>4 DEF CancelSideScreen
  <2> HIDE DEF p
  <2>e. page'[a] = [p EXCEPT !.left = @ - 1]
    BY <2>1, LooksElse
  <2>2. page'[a].mode = "list"
    BY <1>0, <2>e DEF p, Pages
  <2>3. ChecksKept
    BY <1>4 DEF CancelSideScreen, ChecksKept
  <2> QED BY <1>a, <2>1, <2>2, <2>3, LooksElse
<1>5. ASSUME NEW n \in Names, TypeName(a, n) PROVE NamesInv'
  <2> DEFINE p == [page[a] EXCEPT !.name = n, !.marked = @ \ {"name"}, !.sure = FALSE]
  <2>1. Looks(a, p)
    BY <1>5 DEF TypeName
  <2> HIDE DEF p
  <2>e. page'[a] = [p EXCEPT !.left = @ - 1]
    BY <2>1, LooksElse
  <2>2. page'[a].sure = FALSE
    BY <1>0, <2>e DEF p, Pages
  <2>3. ChecksKept
    BY <1>5, AsksNothingClean DEF TypeName
  <2> QED BY <1>a, <2>1, <2>2, <2>3, LooksElse
<1>10. ASSUME NEW n \in Names, TypeShortName(a, n) PROVE NamesInv'
  <2> DEFINE p == [page[a] EXCEPT !.short = n, !.marked = @ \ {"short"}]
  <2>1. Looks(a, p)
    BY <1>10 DEF TypeShortName
  <2> HIDE DEF p
  <2>e. page'[a] = [p EXCEPT !.left = @ - 1]
    BY <2>1, LooksElse
  <2>2. /\ page'[a].mode = page[a].mode /\ page'[a].sure = page[a].sure
        /\ page'[a].id = page[a].id /\ page'[a].name = page[a].name
    BY <1>0, <2>e DEF p, Pages
  <2>3. ChecksKept
    BY <1>10, AsksNothingClean DEF TypeShortName
  <2> QED BY <1>a, <2>1, <2>2, <2>3, LooksElse
<1>6. CASE ToggleAuto(a)
  <2> DEFINE p == [page[a] EXCEPT !.auto = ~@]
  <2>1. Looks(a, p)
    BY <1>6 DEF ToggleAuto
  <2> HIDE DEF p
  <2>e. page'[a] = [p EXCEPT !.left = @ - 1]
    BY <2>1, LooksElse
  <2>2. /\ page'[a].mode = page[a].mode /\ page'[a].sure = page[a].sure
        /\ page'[a].id = page[a].id /\ page'[a].name = page[a].name
    BY <1>0, <2>e DEF p, Pages
  <2>3. ChecksKept
    BY <1>6 DEF ToggleAuto, ChecksKept
  <2> QED BY <1>a, <2>1, <2>2, <2>3, LooksElse
<1>7. CASE Delete(a)
  <2> DEFINE p == [page[a] EXCEPT !.dialog = [NoDialog EXCEPT !.op = "delete", !.id = page[a].id]]
  <2>1. Looks(a, p)
    BY <1>7 DEF Delete
  <2> HIDE DEF p
  <2>e. page'[a] = [p EXCEPT !.left = @ - 1]
    BY <2>1, LooksElse
  <2>2. /\ page'[a].mode = page[a].mode /\ page'[a].sure = page[a].sure
        /\ page'[a].id = page[a].id /\ page'[a].name = page[a].name
    BY <1>0, <2>e DEF p, Pages
  <2>3. ChecksKept
    BY <1>7 DEF Delete, ChecksKept
  <2> QED BY <1>a, <2>1, <2>2, <2>3, LooksElse
<1>8. ASSUME NEW m \in Members, RemoveMember(a, m) PROVE NamesInv'
  <2> DEFINE p == [page[a] EXCEPT !.dialog = [op |-> "remove", id |-> page[a].id, m |-> m,
                                       late |-> groups[page[a].id].auto /\ ~ShownGroup(a).auto]]
  <2>1. Looks(a, p)
    BY <1>8 DEF RemoveMember
  <2> HIDE DEF p
  <2>e. page'[a] = [p EXCEPT !.left = @ - 1]
    BY <2>1, LooksElse
  <2>2. /\ page'[a].mode = page[a].mode /\ page'[a].sure = page[a].sure
        /\ page'[a].id = page[a].id /\ page'[a].name = page[a].name
    BY <1>0, <2>e DEF p, Pages
  <2>3. ChecksKept
    BY <1>8 DEF RemoveMember, ChecksKept
  <2> QED BY <1>a, <2>1, <2>2, <2>3, LooksElse
<1>9. CASE CloseConfirmationDialog(a)
  <2> DEFINE p == [page[a] EXCEPT !.dialog = NoDialog]
  <2>1. Looks(a, p)
    BY <1>9 DEF CloseConfirmationDialog
  <2> HIDE DEF p
  <2>e. page'[a] = [p EXCEPT !.left = @ - 1]
    BY <2>1, LooksElse
  <2>2. /\ page'[a].mode = page[a].mode /\ page'[a].sure = page[a].sure
        /\ page'[a].id = page[a].id /\ page'[a].name = page[a].name
    BY <1>0, <2>e DEF p, Pages
  <2>3. ChecksKept
    BY <1>9 DEF CloseConfirmationDialog, ChecksKept
  <2> QED BY <1>a, <2>1, <2>2, <2>3, LooksElse
<1> QED BY <1>1, <1>2, <1>3, <1>4, <1>5, <1>6, <1>7, <1>8, <1>9, <1>10 DEF Look

LEMMA SendsElse ==
  ASSUME TypeOK, NEW a \in Admins, NEW j \in Jobs, Sends(a, j)
  PROVE  /\ UNCHANGED <<groups, hasty, checks>> /\ job'[a] = [j EXCEPT !.phase = "sent"]
         /\ \A b \in Admins : b # a => job'[b] = job[b]
         /\ PagesKept
<1>1. UNCHANGED <<groups, hasty, checks>> /\ job'[a] = [j EXCEPT !.phase = "sent"]
  BY DEF Sends, TypeOK, server, history
<1>2. \A b \in Admins : b # a => job'[b] = job[b] /\ page'[b] = page[b]
  BY DEF Sends, TypeOK
<1>3. /\ page'[a].mode = page[a].mode /\ page'[a].sure = page[a].sure
      /\ page'[a].name = page[a].name /\ page'[a].id = page[a].id
  BY DEF Sends, TypeOK, Pages
<1> QED BY <1>1, <1>2, <1>3 DEF PagesKept

LEMMA SendNames == ASSUME TypeOK, NamesInv, NEW a \in Admins, Send(a) PROVE NamesInv'
<1>0. page[a] \in Pages
  BY DEF TypeOK
<1>a. ASSUME NEW j \in Jobs, Sends(a, j), j.op \notin {"create", "update"} PROVE NamesInv'
  <2>e. job'[a] = [j EXCEPT !.phase = "sent"]
    BY <1>a, SendsElse
  <2>1. job'[a].op = j.op
    BY <2>e DEF Jobs
  <2>2. JobsKept
    BY <1>a, <2>1, SendsElse DEF JobsKept
  <2> QED BY <1>a, <2>2, SendsElse, SameGroups, NothingNew, NamesStay
<1>1. CASE DoSubmit(a)
  <2> DEFINE p == page[a]
             op == IF p.mode = "new" THEN "create" ELSE "update"
             j == [Idle EXCEPT !.op = op, !.id = p.id, !.name = p.name, !.short = p.short,
                               !.auto = p.auto, !.clean = p.sure]
  <2>1. j \in Jobs
    <3>1. op \in {"create", "update"}
      OBVIOUS
    <3> HIDE DEF op
    <3> QED BY <1>0, <3>1, SubmitType
  <2>2. Sends(a, j) /\ At(a, {"new", "edit"}, "save")
    BY <1>1 DEF DoSubmit
  <2>3. p.mode \in {"new", "edit"}
    <3>1. Screen(a) \in {"new", "edit"}
      BY <2>2, AtType
    <3> QED BY <3>1 DEF Screen
  <2>4. /\ j.op = "update" => p.mode = "edit"
        /\ j.id = p.id /\ j.name = p.name /\ j.clean = p.sure
    BY <2>3 DEF Idle
  <2> HIDE DEF j
  <2>e. job'[a] = [j EXCEPT !.phase = "sent"]
    BY <2>1, <2>2, SendsElse
  <2>5. /\ job'[a].op = j.op /\ job'[a].phase = "sent" /\ job'[a].id = p.id
        /\ job'[a].name = p.name /\ job'[a].clean = p.sure
    BY <2>1, <2>e, <2>4 DEF Jobs
  <2>7. NamesKept /\ ChecksKept /\ PagesKept
    BY <2>1, <2>2, SendsElse, SameGroups, NothingNew
  <2>8. CASE job'[a].op = "update" /\ job'[a].clean
    <3>1. Fits(p.id, p.name)
      BY <2>4, <2>5, <2>8 DEF NamesInv, EditsFit
    <3>2. Fits(job[a].id, job[a].name)'
      BY <2>5, <2>7, <3>1, FitsKept DEF Fits
    <3>3. UpdatesFit'
      <4> SUFFICES ASSUME NEW b \in Admins, job'[b].op = "update", job'[b].phase = "sent", job'[b].clean
                   PROVE Fits(job[b].id, job[b].name)'
        BY DEF UpdatesFit
      <4>1. CASE b = a
        BY <3>2, <4>1
      <4>2. CASE b # a
        <5>1. job'[b] = job[b]
          BY <2>1, <2>2, <4>2, SendsElse
        <5>2. Fits(job[b].id, job[b].name)
          BY <5>1 DEF NamesInv, UpdatesFit
        <5> QED BY <2>7, <5>1, <5>2, FitsKept DEF Fits
      <4> QED BY <4>1, <4>2
    <3>u. UNCHANGED <<groups, hasty, checks>> /\ \A b \in Admins : b # a => job'[b] = job[b]
      BY <2>1, <2>2, SendsElse
    <3>n. ShortsApart' /\ OwnApart'
      BY <3>u, <2>7, ApartKept DEF NamesInv
    <3>c. CreatesFit'
      <4> SUFFICES ASSUME NEW b \in Admins, job'[b].op = "create", job'[b].phase = "held",
                          job'[b].clean, NEW k \in Here', ~groups'[k].service
                   PROVE groups'[k].name # job'[b].name
        BY DEF CreatesFit
      <4>1. b # a
        BY <2>5
      <4>2. job'[b] = job[b] /\ k \in Here /\ groups' = groups
        BY <3>u, <4>1 DEF Here
      <4> QED BY <4>2 DEF NamesInv, CreatesFit
    <3>v. VerdictsFit'
      BY <3>u, <2>7, FitsKept DEF NamesInv, VerdictsFit
    <3>4. ShortsApart' /\ OwnApart' /\ CreatesFit' /\ VerdictsFit'
      BY <3>n, <3>c, <3>v
    <3>5. EditsFit'
      <4> SUFFICES ASSUME NEW b \in Admins, page'[b].mode = "edit", page'[b].sure
                   PROVE Fits(page[b].id, page[b].name)'
        BY DEF EditsFit
      <4>1. Fits(page[b].id, page[b].name) /\ page'[b].id = page[b].id /\ page'[b].name = page[b].name
        BY <2>7 DEF NamesInv, EditsFit, PagesKept
      <4> QED BY <2>7, <4>1, FitsKept DEF Fits
    <3> QED BY <3>3, <3>4, <3>5 DEF NamesInv
  <2>9. CASE ~(job'[a].op = "update" /\ job'[a].clean)
    <3>1. JobsKept
      BY <2>1, <2>2, <2>5, <2>9, SendsElse DEF JobsKept
    <3> QED BY <2>1, <2>2, <2>7, <3>1, SendsElse, NamesStay
  <2> QED BY <2>8, <2>9
<1>2. ASSUME NEW m \in Members, AddMember(a, m) PROVE NamesInv'
  <2> DEFINE j == [Idle EXCEPT !.op = "add", !.id = page[a].id, !.m = m]
  <2>1. j \in Jobs /\ j.op = "add"
    BY <1>0 DEF Pages, Jobs, Idle, OrNone
  <2>2. Sends(a, j)
    BY <1>2 DEF AddMember
  <2> HIDE DEF j
  <2> QED BY <2>1, <2>2, <1>a
<1>3. CASE Confirm(a)
  <2> DEFINE d == page[a].dialog
             j == [Idle EXCEPT !.op = d.op, !.id = d.id, !.m = d.m, !.late = d.late]
  <2>1. d \in Dialogs
    BY <1>0 DEF Pages
  <2>2. j \in Jobs /\ j.op = d.op
    <3> HIDE DEF d
    <3> QED BY <2>1 DEF Jobs, Idle, OrNone, Dialogs
  <2>3. Sends(a, j)
    BY <1>3 DEF Confirm
  <2>4. j.op \notin {"create", "update"}
    <3> HIDE DEF j
    <3> QED BY <2>1, <2>2 DEF Dialogs
  <2> HIDE DEF j
  <2> QED BY <2>2, <2>3, <2>4, <1>a
<1> QED BY <1>1, <1>2, <1>3 DEF Send

(* A group gets a row, or another name: only clean or not at all is it apart.*)
LEMMA SavedNames ==
  ASSUME TypeOK, NamesInv, NEW a \in Admins, NEW i \in Ids, NEW g \in Group, g.at = "here",
         NEW j \in Jobs, Saved(a, i, g, j), j.phase \notin {"held", "sent"},
         i \in Here => g.service = groups[i].service,
         \A k \in Here : k # i => groups[k].short # g.short,
         Renames(i, g) /\ job[a].clean =>
           \A k \in Here : k # i /\ ~groups[k].service => groups[k].name # g.name
  PROVE  NamesInv'
<1>1. groups' = [groups EXCEPT ![i] = g] /\ groups'[i] = g
  BY DEF Saved, TypeOK
<1>2. \A k \in Ids : k # i => groups'[k] = groups[k]
  BY <1>1 DEF TypeOK
<1>3. Here' = Here \union {i}
  BY <1>1, <1>2 DEF Here
<1>s. ShortsApart'
  <2> SUFFICES ASSUME NEW k \in Here', NEW l \in Here', k # l
               PROVE groups'[k].short # groups'[l].short
    BY DEF ShortsApart
  <2>1. k \in Ids /\ l \in Ids
    BY DEF Here
  <2>2. CASE k = i \/ l = i
    BY <1>1, <1>2, <1>3, <2>1, <2>2
  <2>3. CASE k # i /\ l # i
    BY <1>2, <1>3, <2>1, <2>3 DEF NamesInv, ShortsApart
  <2> QED BY <2>2, <2>3
<1>4. CASE Renames(i, g)
  <2>1. hasty' = IF job[a].clean THEN hasty \ {i} ELSE hasty \union {i}
    BY <1>4 DEF Saved
  <2>2. OwnApart'
    <3> SUFFICES ASSUME NEW k \in Here', NEW l \in Here', k # l, groups'[k].name = groups'[l].name,
                        ~groups'[k].service, ~groups'[l].service
                 PROVE k \in hasty' \/ l \in hasty'
      BY DEF OwnApart
    <3>1. k \in Ids /\ l \in Ids
      BY DEF Here
    <3>2. CASE k = i \/ l = i
      BY <1>1, <1>2, <1>3, <1>4, <2>1, <3>1, <3>2
    <3>3. CASE k # i /\ l # i
      <4>1. /\ k \in Here /\ l \in Here /\ groups[k].name = groups[l].name
            /\ ~groups[k].service /\ ~groups[l].service
        BY <1>2, <1>3, <3>1, <3>3
      <4>2. k \in hasty \/ l \in hasty
        BY <4>1 DEF NamesInv, OwnApart
      <4> QED BY <2>1, <3>3, <4>2
    <3> QED BY <3>2, <3>3
  <2>3. CreatesFit' /\ UpdatesFit'
    <3>1. \A b \in Admins : job'[b].phase \in {"held", "sent"} => ~job'[b].clean
      <4> SUFFICES ASSUME NEW b \in Admins, job'[b].phase \in {"held", "sent"} PROVE ~job'[b].clean
        OBVIOUS
      <4>1. b # a /\ job'[b] = JobAfter(b, i, g)
        BY DEF Saved
      <4>2. job[b] \in Jobs
        BY DEF TypeOK
      <4> QED BY <1>4, <4>1, <4>2 DEF JobAfter, Jobs
    <3> QED BY <3>1 DEF CreatesFit, UpdatesFit
  <2>4. EditsFit'
    <3>1. ASSUME NEW b \in Admins PROVE ~page'[b].sure
      <4>1. page'[b] = PageAfter(b, i, g)
        BY DEF Saved
      <4>2. page[b] \in Pages
        BY DEF TypeOK
      <4> QED BY <1>4, <4>1, <4>2 DEF PageAfter, Pages
    <3> QED BY <3>1 DEF EditsFit
  <2>5. VerdictsFit'
    <3>1. checks' = {[c EXCEPT !.clean = FALSE] : c \in checks} /\ checks \in SUBSET Checks
      BY <1>4 DEF Saved, TypeOK
    <3>2. \A c \in checks' : ~c.clean
      BY <3>1 DEF Checks
    <3> QED BY <3>2 DEF VerdictsFit
  <2> QED BY <1>s, <2>2, <2>3, <2>4, <2>5 DEF NamesInv
<1>5. CASE ~Renames(i, g)
  <2>1. i \in Here /\ g.name = groups[i].name /\ UNCHANGED <<hasty, checks>>
    BY <1>5 DEF Saved, Renames
  <2>2. OwnKept
    <3>1. \A k \in Here : k \in Ids
      BY DEF Here
    <3> QED BY <1>1, <1>2, <1>3, <2>1, <3>1 DEF OwnKept
  <2>3. JobsKept
    <3> SUFFICES ASSUME NEW b \in Admins, job'[b].phase \in {"held", "sent"}
                 PROVE /\ job'[b].op = job[b].op /\ job'[b].phase = job[b].phase
                       /\ job'[b].clean => job[b].clean
                       /\ job'[b].name = job[b].name /\ job'[b].id = job[b].id
      BY DEF JobsKept
    <3>1. b # a /\ job'[b] = JobAfter(b, i, g)
      BY DEF Saved
    <3>2. job[b] \in Jobs
      BY DEF TypeOK
    <3> QED BY <3>1, <3>2 DEF JobAfter, Jobs
  <2>4. PagesKept
    <3> SUFFICES ASSUME NEW b \in Admins
                 PROVE /\ page'[b].mode = page[b].mode
                       /\ page'[b].sure => page[b].sure
                       /\ page'[b].name = page[b].name /\ page'[b].id = page[b].id
      BY DEF PagesKept
    <3>1. page'[b] = PageAfter(b, i, g)
      BY DEF Saved
    <3>2. page[b] \in Pages
      BY DEF TypeOK
    <3> QED BY <3>1, <3>2 DEF PageAfter, Pages
  <2> QED BY <1>s, <2>1, <2>2, <2>3, <2>4, NothingNew, OwnNamesStay
<1> QED BY <1>4, <1>5

(* What a handler that saves no name leaves: the groups keep theirs, and   *)
(* its job is not one that waits with a name.                              *)
LEMMA HandlesOn ==
  ASSUME TypeOK, NamesInv, NEW a \in Admins, NamesKept, JobsKept,
         UNCHANGED <<checks, page, hasty>>
  PROVE  NamesInv'
BY NothingNew, NamesStay

LEMMA RefusedNames ==
  ASSUME TypeOK, NamesInv, NEW a \in Admins, Refused(a)
  PROVE  NamesInv'
<1>1. Becomes(a, "lost") /\ UNCHANGED <<groups, checks, page, hasty>>
  BY DEF Refused, server, history
<1> QED BY <1>1, BecomesKept, SameGroups, HandlesOn

LEMMA CreateReadsNames ==
  ASSUME TypeOK, NamesInv, NEW a \in Admins, CreateReads(a)
  PROVE  NamesInv'
<1>0. job[a].op = "create" /\ UNCHANGED <<groups, checks, page, hasty>> /\ NamesKept
  BY SameGroups DEF CreateReads, Handles, server, history
<1>1. CASE Becomes(a, "done")
  BY <1>0, <1>1, BecomesKept, HandlesOn
<1>2. CASE /\ ~IsDuplicate(job[a].name, job[a].short)
           /\ job' = [job EXCEPT ![a].phase = "held", ![a].clean = TRUE]
  <2>1. job[a] \in Jobs
    BY DEF TypeOK
  <2>2. job'[a] = [job[a] EXCEPT !.phase = "held", !.clean = TRUE]
    BY <1>2 DEF TypeOK
  <2>3. job'[a].op = "create" /\ job'[a].name = job[a].name
    BY <1>0, <2>1, <2>2 DEF Jobs
  <2>4. \A b \in Admins : b # a => job'[b] = job[b]
    BY <1>2 DEF TypeOK
  <2>5. ShortsApart' /\ OwnApart'
    BY <1>0, ApartKept DEF NamesInv
  <2>6. CreatesFit'
    <3> SUFFICES ASSUME NEW b \in Admins, job'[b].op = "create", job'[b].phase = "held",
                        job'[b].clean, NEW k \in Here', ~groups'[k].service
                 PROVE groups'[k].name # job'[b].name
      BY DEF CreatesFit
    <3>1. k \in Here /\ groups' = groups
      BY <1>0 DEF Here
    <3>2. CASE b = a
      BY <1>2, <2>3, <3>1, <3>2 DEF IsDuplicate
    <3>3. CASE b # a
      BY <2>4, <3>1, <3>3 DEF NamesInv, CreatesFit
    <3> QED BY <3>2, <3>3
  <2>7. UpdatesFit'
    <3> SUFFICES ASSUME NEW b \in Admins, job'[b].op = "update", job'[b].phase = "sent", job'[b].clean
                 PROVE Fits(job[b].id, job[b].name)'
      BY DEF UpdatesFit
    <3>1. job'[b] = job[b]
      BY <2>3, <2>4
    <3>2. Fits(job[b].id, job[b].name)
      BY <3>1 DEF NamesInv, UpdatesFit
    <3> QED BY <1>0, <3>1, <3>2, FitsKept DEF Fits
  <2>8. EditsFit'
    <3> SUFFICES ASSUME NEW b \in Admins, page'[b].mode = "edit", page'[b].sure
                 PROVE Fits(page[b].id, page[b].name)'
      BY DEF EditsFit
    <3>1. page' = page
      BY <1>0
    <3>2. Fits(page[b].id, page[b].name)
      BY <3>1 DEF NamesInv, EditsFit
    <3> QED BY <1>0, <3>1, <3>2, FitsKept DEF Fits
  <2>9. VerdictsFit'
    BY <1>0, FitsKept DEF NamesInv, VerdictsFit
  <2> QED BY <2>5, <2>6, <2>7, <2>8, <2>9 DEF NamesInv
<1> QED BY <1>1, <1>2 DEF CreateReads

(* The two commits that give a name: only what create_group looked at, or  *)
(* an edit sent with a verdict, is given without haste.                    *)
LEMMA CommitsNames ==
  ASSUME TypeOK, NamesInv, NEW a \in Admins, NEW i \in Ids, NEW g \in Group, g.at = "here",
         Commits(a, i, g),
         i \in Here => g.service = groups[i].service,
         \A k \in Here : k # i => groups[k].short # g.short,
         Renames(i, g) /\ job[a].clean =>
           \A k \in Here : k # i /\ ~groups[k].service => groups[k].name # g.name
  PROVE  NamesInv'
<1> DEFINE j == Started(a, i, g)
<1>1. Saved(a, i, g, j)
  BY DEF Commits, Started
<1>2. j \in Jobs /\ j.phase \notin {"held", "sent"}
  BY StartedType
<1> HIDE DEF j
<1> QED BY <1>1, <1>2, SavedNames

LEMMA CreateSavesNames ==
  ASSUME TypeOK, NamesInv, NEW a \in Admins, CreateSaves(a)
  PROVE  NamesInv'
<1> DEFINE g == [at |-> "here", name |-> job[a].name, short |-> job[a].short, auto |-> job[a].auto,
                 rows |-> [m \in Members |-> 0], service |-> FALSE]
<1>r. CASE Refused(a)
  BY <1>r, RefusedNames
<1>c. CASE ~IsShortNameOf(job[a].short, Here) /\ \E i \in {k \in Ids : groups[k].at = "none"} : Commits(a, i, g)
  <2>1. PICK i \in {k \in Ids : groups[k].at = "none"} : Commits(a, i, g)
    BY <1>c
  <2>2. g \in Group /\ g.at = "here"
    <3>1. job[a] \in Jobs
      BY DEF TypeOK
    <3>2. job[a].name \in Names \union {None} /\ job[a].short \in Names \union {None} /\ job[a].auto \in BOOLEAN
      BY <3>1 DEF Jobs, OrNone
    <3> QED BY <3>2 DEF Group
  <2>3. job[a].clean => \A k \in Here : ~groups[k].service => groups[k].name # g.name
    BY DEF CreateSaves, Handles, NamesInv, CreatesFit
  <2>4. \A k \in Here : groups[k].short # g.short
    BY <1>c DEF IsShortNameOf
  <2>5. i \in Ids /\ i \notin Here
    BY <2>1 DEF Here
  <2> HIDE DEF g
  <2> QED BY <2>1, <2>2, <2>3, <2>4, <2>5, CommitsNames
<1> QED BY <1>r, <1>c DEF CreateSaves

LEMMA UpdateSavesNames ==
  ASSUME TypeOK, NamesInv, NEW a \in Admins, UpdateSaves(a)
  PROVE  NamesInv'
<1> DEFINE i == job[a].id
           g == [groups[i] EXCEPT !.name = job[a].name, !.short = job[a].short, !.auto = job[a].auto]
<1>1. CASE Refused(a)
  BY <1>1, RefusedNames
<1>2. CASE i \in Here /\ ~IsShortNameOf(job[a].short, Here \ {i}) /\ Commits(a, i, g)
  <2>1. i \in Ids /\ groups[i] \in Group /\ groups[i].at = "here"
    BY <1>2 DEF Here, TypeOK
  <2>2. job[a].name \in Names \union {None} /\ job[a].short \in Names \union {None} /\ job[a].auto \in BOOLEAN
    <3>1. job[a] \in Jobs
      BY DEF TypeOK
    <3> QED BY <3>1 DEF Jobs, OrNone
  <2>3. /\ g \in Group /\ g.at = "here" /\ g.name = job[a].name /\ g.short = job[a].short
        /\ g.service = groups[i].service
    BY <2>1, <2>2 DEF Group
  <2>4. job[a].clean => Fits(i, job[a].name)
    BY DEF UpdateSaves, Handles, NamesInv, UpdatesFit
  <2> HIDE DEF g
  <2>5. Renames(i, g) /\ job[a].clean => \A k \in Here : k # i => groups[k].name # g.name
    BY <1>2, <2>3, <2>4 DEF Renames, Fits
  <2>6. \A k \in Here : k # i => groups[k].short # g.short
    BY <1>2, <2>3 DEF IsShortNameOf
  <2> QED BY <1>2, <2>1, <2>3, <2>5, <2>6, CommitsNames
<1> QED BY <1>1, <1>2 DEF UpdateSaves

(* The switch of a group of a service leaves its name.                     *)
LEMMA UpdateCommitsNames ==
  ASSUME TypeOK, NamesInv, NEW a \in Admins, UpdateCommits(a)
  PROVE  NamesInv'
<1> DEFINE i == job[a].id
           g == [groups[i] EXCEPT !.auto = job[a].auto, !.rows = Filled(@, job[a].missing)]
           j == [job[a] EXCEPT !.phase = "done"]
<1>1. CASE Refused(a)
  BY <1>1, RefusedNames
<1>2. CASE i \in Here /\ Saved(a, i, g, j)
  <2>0. job[a] \in Jobs
    BY DEF TypeOK
  <2>1. i \in Ids /\ groups[i] \in Group /\ groups[i].at = "here"
    BY <1>2 DEF Here, TypeOK
  <2>2. Filled(groups[i].rows, job[a].missing) \in [Members -> 0 .. 2]
    BY <2>1, FilledType DEF Group
  <2>3. /\ g \in Group /\ g.at = "here" /\ g.name = groups[i].name /\ g.short = groups[i].short
        /\ g.service = groups[i].service
    BY <2>0, <2>1, <2>2 DEF Group, Jobs
  <2>4. j \in Jobs /\ j.phase \notin {"held", "sent"}
    BY <2>0 DEF Jobs
  <2> HIDE DEF g, j
  <2>5. ~Renames(i, g)
    BY <1>2, <2>3 DEF Renames
  <2>6. \A k \in Here : k # i => groups[k].short # g.short
    BY <1>2, <2>3 DEF NamesInv, ShortsApart
  <2> QED BY <1>2, <2>1, <2>3, <2>4, <2>5, <2>6, SavedNames
<1> QED BY <1>1, <1>2 DEF UpdateCommits

(* The rows of a group change, or it goes.                                 *)
LEMMA RowsKeepNames ==
  ASSUME TypeOK,
         \A i \in Ids : /\ groups'[i].at = groups[i].at \/ groups'[i].at = "gone"
                        /\ groups'[i].name = groups[i].name /\ groups'[i].short = groups[i].short
                        /\ groups'[i].service = groups[i].service
  PROVE  NamesKept
BY DEF NamesKept, OwnKept, Here

LEMMA HandleNames ==
  ASSUME TypeOK, NamesInv, NEW a \in Admins, Handle(a)
  PROVE  NamesInv'
<1>0. job[a] \in Jobs /\ groups \in [Ids -> Group] /\ \A i \in Ids : groups[i] \in Group
  BY DEF TypeOK
<1>1. CASE CreateReads(a)
  BY <1>1, CreateReadsNames
<1>2. CASE CreateSaves(a)
  BY <1>2, CreateSavesNames
<1>3. CASE Fills(a)
  <2>1. JobsKept /\ UNCHANGED <<checks, page, hasty>>
    BY <1>3, BecomesKept DEF Fills
  <2>2. \/ UNCHANGED groups
        \/ groups' = [groups EXCEPT ![job[a].id].rows = Filled(@, job[a].missing)]
    BY <1>3 DEF Fills
  <2>3. NamesKept
    BY <1>0, <2>2, SameGroups, RowsKeepNames DEF Group
  <2> QED BY <2>1, <2>3, HandlesOn
<1>4. CASE UpdateSaves(a)
  BY <1>4, UpdateSavesNames
<1>5. CASE UpdateReads(a)
  <2>1. job[a].op = "update" /\ UNCHANGED <<groups, checks, page, hasty>>
    BY <1>5 DEF UpdateReads, Handles, server, history
  <2>2. JobsKept
    <3> DEFINE ms == Missing([groups[job[a].id] EXCEPT !.auto = job[a].auto])
    <3>1. job' = [job EXCEPT ![a].phase = "held", ![a].late = FALSE, ![a].missing = ms]
      BY <1>5 DEF UpdateReads
    <3> HIDE DEF ms
    <3>2. job'[a] = [job[a] EXCEPT !.phase = "held", !.late = FALSE, !.missing = ms]
      BY <3>1 DEF TypeOK
    <3>3. \A b \in Admins : b # a => job'[b] = job[b]
      BY <3>1 DEF TypeOK
    <3>4. job'[a].op = "update" /\ job'[a].phase = "held"
      BY <1>0, <2>1, <3>2 DEF Jobs
    <3> QED BY <3>3, <3>4 DEF JobsKept
  <2> QED BY <2>1, <2>2, SameGroups, HandlesOn
<1>6. CASE UpdateCommits(a)
  BY <1>6, UpdateCommitsNames
<1>7. CASE DeleteTells(a)
  <2>1. CASE Refused(a)
    BY <2>1, RefusedNames
  <2>2. CASE Becomes(a, "held") /\ UNCHANGED <<server, checks, page, history>>
    <3>1. job[a].op # "create" /\ UNCHANGED <<groups, checks, page, hasty>>
      BY <1>7, <2>2 DEF DeleteTells, Handles, server, history
    <3> QED BY <2>2, <3>1, BecomesKept, SameGroups, HandlesOn
  <2> QED BY <1>7, <2>1, <2>2 DEF DeleteTells
<1>8. CASE DeleteCommits(a)
  <2>1. JobsKept /\ UNCHANGED <<checks, page, hasty>>
    BY <1>8, BecomesKept DEF DeleteCommits, history
  <2>2. \/ UNCHANGED groups
        \/ groups' = [groups EXCEPT ![job[a].id].at = "gone",
                                    ![job[a].id].rows = [m \in Members |-> 0]]
    BY <1>8 DEF DeleteCommits
  <2>3. NamesKept
    BY <1>0, <2>2, SameGroups, RowsKeepNames DEF Group
  <2> QED BY <2>1, <2>3, HandlesOn
<1>9. CASE AddReads(a)
  <2>1. CASE Refused(a)
    BY <2>1, RefusedNames
  <2>2. CASE /\ job' = [job EXCEPT ![a].phase = "held",
                          ![a].missing = IF groups[job[a].id].rows[job[a].m] = 0 THEN {job[a].m} ELSE {}]
             /\ UNCHANGED <<server, checks, page, history>>
    <3>1. job[a].op = "add" /\ UNCHANGED <<groups, checks, page, hasty>>
      BY <1>9, <2>2 DEF AddReads, Handles, server, history
    <3> DEFINE ms == IF groups[job[a].id].rows[job[a].m] = 0 THEN {job[a].m} ELSE {}
    <3>2. job' = [job EXCEPT ![a].phase = "held", ![a].missing = ms]
      BY <2>2
    <3> HIDE DEF ms
    <3>3. job'[a] = [job[a] EXCEPT !.phase = "held", !.missing = ms]
      BY <3>2 DEF TypeOK
    <3>4. \A b \in Admins : b # a => job'[b] = job[b]
      BY <3>2 DEF TypeOK
    <3>5. job'[a].op = "add"
      BY <1>0, <3>1, <3>3 DEF Jobs
    <3>6. JobsKept
      BY <3>4, <3>5 DEF JobsKept
    <3> QED BY <3>1, <3>6, SameGroups, HandlesOn
  <2> QED BY <1>9, <2>1, <2>2 DEF AddReads
<1>10. CASE AddCommits(a)
  <2>1. CASE Refused(a)
    BY <2>1, RefusedNames
  <2>2. CASE /\ Becomes(a, "done")
             /\ groups' = [groups EXCEPT ![job[a].id].rows = Filled(@, job[a].missing)]
             /\ UNCHANGED <<checks, page, history>>
    <3>1. NamesKept
      BY <1>0, <2>2, RowsKeepNames DEF Group
    <3> QED BY <2>2, <3>1, BecomesKept, HandlesOn DEF history
  <2> QED BY <1>10, <2>1, <2>2 DEF AddCommits
<1>11. CASE RemoveReads(a)
  <2>1. CASE Refused(a)
    BY <2>1, RefusedNames
  <2>2. CASE Held(a)
    <3>1. /\ Becomes(a, "held") /\ job[a].op # "create"
          /\ UNCHANGED <<groups, checks, page, hasty>>
      BY <1>11, <2>2 DEF Held, RemoveReads, Handles, server, history
    <3> QED BY <3>1, BecomesKept, SameGroups, HandlesOn
  <2> QED BY <1>11, <2>1, <2>2 DEF RemoveReads
<1>12. CASE RemoveCommits(a)
  <2>1. CASE Refused(a)
    BY <2>1, RefusedNames
  <2>2. CASE /\ groups' = [groups EXCEPT ![job[a].id].rows[job[a].m] = 0]
             /\ job' = [Overtaken({job[a].id}) EXCEPT ![a].phase = "done"]
             /\ UNCHANGED <<checks, page, hasty>>
    <3>1. NamesKept
      BY <1>0, <2>2, RowsKeepNames DEF Group
    <3> DEFINE o == Overtaken({job[a].id})
    <3>2. o \in [Admins -> Jobs] /\ job' = [o EXCEPT ![a].phase = "done"]
      BY <2>2, OvertakenType
    <3>3. \A b \in Admins : /\ o[b].op = job[b].op /\ o[b].phase = job[b].phase
                            /\ o[b].clean = job[b].clean
                            /\ o[b].name = job[b].name /\ o[b].id = job[b].id
      BY DEF Overtaken, TypeOK, Jobs
    <3> HIDE DEF o
    <3>4. \A b \in Admins : b # a => job'[b] = o[b]
      BY <3>2
    <3>5. job'[a].phase = "done"
      <4>1. job'[a] = [o[a] EXCEPT !.phase = "done"] /\ o[a] \in Jobs
        BY <3>2
      <4> QED BY <4>1 DEF Jobs
    <3>6. JobsKept
      BY <3>3, <3>4, <3>5 DEF JobsKept
    <3> QED BY <2>2, <3>1, <3>6, HandlesOn
  <2> QED BY <1>12, <2>1, <2>2 DEF RemoveCommits
<1> QED
  BY <1>1, <1>2, <1>3, <1>4, <1>5, <1>6, <1>7, <1>8, <1>9, <1>10, <1>11, <1>12 DEF Handle

LEMMA HearNames ==
  ASSUME TypeOK, NamesInv, NEW a \in Admins, Hear(a)
  PROVE  NamesInv'
<1>0. page[a] \in Pages /\ job[a] \in Jobs
  BY DEF TypeOK
<1>1. CASE HearAnswer(a)
  <2>1. Becomes(a, "reading") /\ UNCHANGED <<groups, checks, page, hasty>>
    BY <1>1 DEF HearAnswer, Reads, server, history
  <2> QED BY <2>1, BecomesKept, SameGroups, HandlesOn
<1>2. CASE HearSocket(a)
  <2>1. UNCHANGED <<groups, job, checks, page, hasty>>
    BY <1>2 DEF HearSocket, Reads, server, history
  <2> QED BY <2>1, NothingNew, SameGroups, HandlesOn
<1>3. ASSUME NEW r \in answers[a], HearPage(a, r) PROVE NamesInv'
  <2> DEFINE p == [page[a] EXCEPT !.view = r.view]
  <2>1. NamesKept /\ ChecksKept /\ UNCHANGED hasty
    BY <1>3, SameGroups, NothingNew DEF HearPage, server
  <2>p. /\ p.mode = page[a].mode /\ p.sure = page[a].sure
        /\ p.name = page[a].name /\ p.id = page[a].id
    BY <1>0 DEF Pages
  <2>2. CASE page' = [page EXCEPT ![a] = p] /\ UNCHANGED job
    <3> HIDE DEF p
    <3>1. PagesKept
      BY <2>2, <2>p DEF PagesKept, TypeOK
    <3> QED BY <2>1, <2>2, <3>1, NothingNew, NamesStay
  <2>3. CASE page' = [page EXCEPT ![a] = Leads(a, p)] /\ job' = [job EXCEPT ![a] = Idle]
    <3>1. JobsKept
      BY <2>3 DEF JobsKept, TypeOK, Idle
    <3>2. \/ Leads(a, p).mode = "group"
          \/ Leads(a, p) = p
      BY <1>0 DEF Leads, Pages
    <3> DEFINE q == Leads(a, p)
    <3> HIDE DEF p
    <3>3. q.mode = "group" \/ /\ q.mode = page[a].mode /\ q.sure = page[a].sure
                              /\ q.name = page[a].name /\ q.id = page[a].id
      BY <2>p, <3>2
    <3>4. page' = [page EXCEPT ![a] = q]
      BY <2>3
    <3> HIDE DEF q
    <3>5. PagesKept
      BY <3>3, <3>4 DEF PagesKept, TypeOK
    <3> QED BY <2>1, <3>1, <3>5, NamesStay
  <2> QED BY <1>3, <2>2, <2>3 DEF HearPage
<1> QED BY <1>1, <1>2, <1>3 DEF Hear

LEMMA VerdictNames ==
  ASSUME TypeOK, NamesInv, NEW c \in checks, NameExists(c) \/ HearVerdict(c)
  PROVE  NamesInv'
<1>0. c \in Checks /\ checks \in SUBSET Checks
  BY DEF TypeOK
<1>1. UNCHANGED <<groups, job, hasty>> /\ NamesKept /\ JobsKept
  BY SameGroups, NothingNew DEF NameExists, HearVerdict, server, history
<1>2. CASE NameExists(c)
  <2> DEFINE d == [c EXCEPT !.phase = "told",
                            !.taken = \E i \in Here : Called(i, c.attr) = c.name /\ c.name # c.existing,
                            !.clean = c.attr = "name" /\ c.id \in Here /\ groups[c.id].name = c.existing]
  <2>1. checks' = (checks \ {c}) \union {d} /\ UNCHANGED page
    BY <1>2 DEF NameExists
  <2>2. /\ d.taken = (\E i \in Here : Called(i, c.attr) = c.name /\ c.name # c.existing)
        /\ d.clean = (c.attr = "name" /\ c.id \in Here /\ groups[c.id].name = c.existing)
        /\ d.id = c.id /\ d.name = c.name
    BY <1>0 DEF Checks
  <2> HIDE DEF d
  <2>3. d.clean /\ ~d.taken => Fits(d.id, d.name)
    BY <2>2 DEF Fits, Called
  <2>4. \A e \in checks' : e.phase = "told" /\ e.clean /\ ~e.taken => Fits(e.id, e.name)
    BY <2>1, <2>3 DEF NamesInv, VerdictsFit
  <2>5. VerdictsFit'
    BY <2>4, <1>1, FitsKept DEF VerdictsFit
  <2>6. ShortsApart' /\ OwnApart' /\ CreatesFit'
    BY <1>1, ApartKept, CreatesKept DEF NamesInv
  <2>7. UpdatesFit'
    BY <1>1, FitsKept DEF NamesInv, UpdatesFit, Fits
  <2>8. EditsFit'
    BY <1>1, <2>1, FitsKept DEF NamesInv, EditsFit, Fits
  <2> QED BY <2>5, <2>6, <2>7, <2>8 DEF NamesInv
<1>3. CASE HearVerdict(c)
  <2> DEFINE p == page[c.by]
             mine == c.attr = "name" /\ p.mode = "edit" /\ p.id = c.id /\ p.name = c.name
             q == [p EXCEPT !.marked = IF c.taken THEN @ \union {c.attr} ELSE @ \ {c.attr},
                            !.sure = IF mine THEN c.clean /\ ~c.taken ELSE @]
  <2>1. /\ c.phase = "told" /\ checks' = checks \ {c} /\ page' = [page EXCEPT ![c.by] = q]
        /\ c.by \in Admins /\ p \in Pages
    BY <1>0, <1>3 DEF HearVerdict, Checks, TypeOK
  <2>2. /\ q.mode = p.mode /\ q.id = p.id /\ q.name = p.name
        /\ q.sure = IF mine THEN c.clean /\ ~c.taken ELSE p.sure
    BY <2>1 DEF Pages
  <2>3. ChecksKept
    BY <2>1 DEF ChecksKept
  <2> HIDE DEF q
  <2>4. page'[c.by] = q /\ \A b \in Admins : b # c.by => page'[b] = page[b]
    BY <2>1 DEF TypeOK
  <2>5. CASE mine
    <3>1. q.sure => Fits(q.id, q.name)
      BY <2>1, <2>2, <2>5 DEF NamesInv, VerdictsFit
    <3>2. \A b \in Admins : page'[b].mode = "edit" /\ page'[b].sure
                              => Fits(page'[b].id, page'[b].name)
      BY <2>4, <3>1 DEF NamesInv, EditsFit
    <3>3. EditsFit'
      BY <1>1, <3>2, FitsKept DEF EditsFit, Fits
    <3>4. ShortsApart' /\ OwnApart' /\ CreatesFit'
      BY <1>1, ApartKept, CreatesKept DEF NamesInv
    <3>6. VerdictsFit'
      BY <1>1, <2>3, FitsKept DEF NamesInv, VerdictsFit, ChecksKept
    <3>5. UpdatesFit'
      BY <1>1, FitsKept DEF NamesInv, UpdatesFit, Fits
    <3> QED BY <3>3, <3>4, <3>5, <3>6 DEF NamesInv
  <2>6. CASE ~mine
    <3>1. PagesKept
      BY <2>2, <2>4, <2>6 DEF PagesKept
    <3> QED BY <1>1, <2>3, <3>1, NamesStay
  <2> QED BY <2>5, <2>6
<1> QED BY <1>2, <1>3

LEMMA MemberNames ==
  ASSUME TypeOK, NamesInv, NEW m \in Members, JoinReads(m) \/ JoinCommits(m) \/ Leave(m)
  PROVE  NamesInv'
<1>0. \A i \in Ids : groups[i] \in Group
  BY DEF TypeOK
<1>1. CASE JoinReads(m)
  BY <1>1, SameGroups, NothingNew, HandlesOn, NamesStay DEF JoinReads, browser, history
<1>2. CASE JoinCommits(m)
  <2>1. UNCHANGED <<checks, page, hasty>>
    BY <1>2 DEF JoinCommits
  <2>2. NamesKept
    <3>1. \/ UNCHANGED groups
          \/ groups' = [i \in Ids |-> IF i \in joins[m].auto THEN [groups[i] EXCEPT !.rows[m] = 1] ELSE groups[i]]
      BY <1>2 DEF JoinCommits
    <3> QED BY <1>0, <3>1, SameGroups, RowsKeepNames DEF Group
  <2>3. JobsKept
    BY <1>2, NothingNew, OvertakenKept DEF JoinCommits
  <2> QED BY <2>1, <2>2, <2>3, NothingNew, NamesStay
<1>3. CASE Leave(m)
  <2>1. groups' = [i \in Ids |-> [groups[i] EXCEPT !.rows[m] = 0]]
    BY <1>3 DEF Leave
  <2>2. NamesKept
    BY <1>0, <2>1, RowsKeepNames DEF Group
  <2> QED BY <1>3, <2>2, NothingNew, NamesStay DEF Leave, browser, history
<1> QED BY <1>1, <1>2, <1>3

(* No two groups have the same short name, and two groups no service made  *)
(* have the same name only if one of them got it hastily.                  *)
THEOREM NamesStayApart == Spec => []NamesApart
<1>1. Init => NamesInv
  <2> SUFFICES ASSUME Init PROVE NamesInv
    OBVIOUS
  <2>1. ShortsApart /\ OwnApart
    BY SceneAssumption DEF Init, ShortsApart, OwnApart, Here
  <2>2. CreatesFit /\ UpdatesFit /\ EditsFit /\ VerdictsFit
    BY DEF Init, Idle, CreatesFit, UpdatesFit, EditsFit, VerdictsFit
  <2> QED BY <2>1, <2>2 DEF NamesInv
<1>2. TypeOK /\ NamesInv /\ [Next]_vars => NamesInv'
  <2> SUFFICES ASSUME TypeOK, NamesInv, [Next]_vars PROVE NamesInv'
    OBVIOUS
  <2>1. CASE UNCHANGED vars
    BY <2>1, SameGroups, NothingNew, NamesStay DEF vars, server, browser, history
  <2>2. CASE Next
    BY <2>2, LookNames, SendNames, HandleNames, HearNames, VerdictNames, MemberNames DEF Next
  <2> QED BY <2>1, <2>2
<1>3. NamesInv => NamesApart
  BY DEF NamesInv, NamesApart, ShortsApart, OwnApart
<1> QED BY <1>1, <1>2, <1>3, TypeCorrect, PTL DEF Spec
-------------------------------------------------------------------------------
(* What the two proofs below share: what a look at the page and what an    *)
(* administrator sends leaves alone.                                       *)
Removes(j) == j.op = "remove" /\ j.id \in Provisioned => j.late

LEMMA LooksAlone ==
  ASSUME TypeOK, NEW a \in Admins, NEW p \in Pages, Looks(a, p),
         p.view = page[a].view, p.dialog = page[a].dialog \/ Removes(p.dialog)
  PROVE  /\ UNCHANGED <<scene, server, inbox, answers, job, history>>
         /\ \A b \in Admins : page'[b].view = page[b].view
         /\ \A b \in Admins : page'[b].dialog = page[b].dialog \/ Removes(page'[b].dialog)
<1>1. page'[a] = [p EXCEPT !.left = @ - 1] /\ \A b \in Admins : b # a => page'[b] = page[b]
  BY DEF Looks, TypeOK
<1>2. page'[a].view = p.view /\ page'[a].dialog = p.dialog
  BY <1>1 DEF Pages
<1> QED BY <1>1, <1>2 DEF Looks

LEMMA LookAlone ==
  ASSUME TypeOK, NEW a \in Admins, Look(a)
  PROVE  /\ UNCHANGED <<scene, server, inbox, answers, job, history>>
         /\ \A b \in Admins : page'[b].view = page[b].view
         /\ \A b \in Admins : page'[b].dialog = page[b].dialog \/ Removes(page'[b].dialog)
<1>0. page[a] \in Pages /\ page[a].dialog \in Dialogs
  BY DEF TypeOK, Pages
<1>1. CASE NewGroup(a)
  <2> DEFINE p == [page[a] EXCEPT !.mode = "new", !.id = None, !.name = None, !.short = None,
                                  !.auto = FALSE, !.marked = {}, !.sure = FALSE]
  <2>1. p \in Pages /\ p.view = page[a].view /\ p.dialog = page[a].dialog
    BY <1>0 DEF Pages, OrNone
  <2>2. Looks(a, p)
    BY <1>1 DEF NewGroup
  <2> HIDE DEF p
  <2> QED BY LooksAlone, <2>1, <2>2
<1>2. ASSUME NEW i \in Ids, GotoGroup(a, i) PROVE Looks(a, [page[a] EXCEPT !.mode = "group", !.id = i])
  BY <1>2 DEF GotoGroup
<1>3. ASSUME NEW i \in Ids
      PROVE /\ [page[a] EXCEPT !.mode = "group", !.id = i] \in Pages
            /\ [page[a] EXCEPT !.mode = "group", !.id = i].view = page[a].view
            /\ [page[a] EXCEPT !.mode = "group", !.id = i].dialog = page[a].dialog
  BY <1>0 DEF Pages, OrNone
<1>4. CASE Edit(a)
  <2>0. At(a, {"group"}, "edit")
    BY <1>4 DEF Edit
  <2>1. ShownGroup(a) \in ViewGroup
    <3>1. Screen(a) = "group"
      BY <2>0, AtType
    <3>2. page[a].mode = "group"
      BY <3>1 DEF Screen
    <3> QED BY <2>0, <3>2, AtType
  <2> DEFINE p == [page[a] EXCEPT !.mode = "edit", !.name = ShownGroup(a).name, !.short = ShownGroup(a).short,
                                  !.auto = ShownGroup(a).auto, !.marked = {}, !.sure = FALSE]
  <2>2. p \in Pages /\ p.view = page[a].view /\ p.dialog = page[a].dialog
    BY <1>0, <2>1 DEF Pages, OrNone, ViewGroup
  <2>3. Looks(a, p)
    BY <1>4 DEF Edit
  <2> HIDE DEF p
  <2> QED BY LooksAlone, <2>2, <2>3
<1>5. CASE CancelSideScreen(a)
  <2> DEFINE p == [page[a] EXCEPT !.mode = "list", !.id = None]
  <2>1. p \in Pages /\ p.view = page[a].view /\ p.dialog = page[a].dialog
    BY <1>0 DEF Pages, OrNone
  <2>2. Looks(a, p)
    BY <1>5 DEF CancelSideScreen
  <2> HIDE DEF p
  <2> QED BY LooksAlone, <2>1, <2>2
<1>6. ASSUME NEW n \in Names, TypeName(a, n)
      PROVE \E p \in Pages : Looks(a, p) /\ p.view = page[a].view /\ p.dialog = page[a].dialog
  <2> DEFINE p == [page[a] EXCEPT !.name = n, !.marked = @ \ {"name"}, !.sure = FALSE]
  <2>1. Looks(a, p)
    BY <1>6 DEF TypeName
  <2>2. p \in Pages /\ p.view = page[a].view /\ p.dialog = page[a].dialog
    BY <1>0 DEF Pages, OrNone
  <2> HIDE DEF p
  <2> QED BY <2>1, <2>2
<1>7. ASSUME NEW n \in Names, TypeShortName(a, n)
      PROVE \E p \in Pages : Looks(a, p) /\ p.view = page[a].view /\ p.dialog = page[a].dialog
  <2> DEFINE p == [page[a] EXCEPT !.short = n, !.marked = @ \ {"short"}]
  <2>1. Looks(a, p)
    BY <1>7 DEF TypeShortName
  <2>2. p \in Pages /\ p.view = page[a].view /\ p.dialog = page[a].dialog
    BY <1>0 DEF Pages, OrNone
  <2> HIDE DEF p
  <2> QED BY <2>1, <2>2
<1>8. CASE ToggleAuto(a)
  <2> DEFINE p == [page[a] EXCEPT !.auto = ~@]
  <2>1. p \in Pages /\ p.view = page[a].view /\ p.dialog = page[a].dialog
    BY <1>0 DEF Pages
  <2>2. Looks(a, p)
    BY <1>8 DEF ToggleAuto
  <2> HIDE DEF p
  <2> QED BY LooksAlone, <2>1, <2>2
<1>9. CASE Delete(a)
  <2> DEFINE d == [NoDialog EXCEPT !.op = "delete", !.id = page[a].id]
             p == [page[a] EXCEPT !.dialog = d]
  <2>1. d \in Dialogs /\ d.op = "delete"
    BY <1>0 DEF Pages, Dialogs, NoDialog, OrNone
  <2>3. Looks(a, p)
    BY <1>9 DEF Delete
  <2> HIDE DEF d
  <2>2. p \in Pages /\ p.view = page[a].view /\ p.dialog = d
    BY <1>0, <2>1 DEF Pages
  <2> HIDE DEF p
  <2> QED BY LooksAlone, <2>1, <2>2, <2>3 DEF Removes
<1>10. ASSUME NEW m \in Members, RemoveMember(a, m)
       PROVE \E p \in Pages : Looks(a, p) /\ p.view = page[a].view /\ Removes(p.dialog)
  <2>1. At(a, {"group"}, "remove") /\ ~ShownGroup(a).auto
    BY <1>10 DEF RemoveMember
  <2>2. page[a].id \in Ids
    <3>1. Screen(a) = "group"
      BY <2>1, AtType
    <3>2. page[a].mode = "group"
      BY <3>1 DEF Screen
    <3> QED BY <2>1, <3>2, AtType
  <2>3. groups[page[a].id] \in Group
    BY <2>2 DEF TypeOK
  <2> DEFINE l == groups[page[a].id].auto /\ ~ShownGroup(a).auto
             d == [op |-> "remove", id |-> page[a].id, m |-> m, late |-> l]
             p == [page[a] EXCEPT !.dialog = d]
  <2>4. l \in BOOLEAN /\ (page[a].id \in Provisioned => l)
    BY <2>1, <2>3 DEF Group, Provisioned
  <2>5. Looks(a, p)
    BY <1>10 DEF RemoveMember
  <2> HIDE DEF l
  <2>6. d \in Dialogs /\ Removes(d)
    BY <1>0, <2>4 DEF Pages, Dialogs, OrNone, Removes
  <2> HIDE DEF d
  <2>7. p \in Pages /\ p.view = page[a].view /\ p.dialog = d
    BY <1>0, <2>6 DEF Pages
  <2> HIDE DEF p
  <2> QED BY <2>5, <2>6, <2>7
<1>11. CASE CloseConfirmationDialog(a)
  <2> DEFINE p == [page[a] EXCEPT !.dialog = NoDialog]
  <2>1. p \in Pages /\ p.view = page[a].view /\ p.dialog = NoDialog
    BY <1>0, RecordTypes DEF Pages
  <2>2. Looks(a, p)
    BY <1>11 DEF CloseConfirmationDialog
  <2>3. Removes(NoDialog)
    BY DEF Removes, NoDialog
  <2> HIDE DEF p
  <2> QED BY LooksAlone, <2>1, <2>2, <2>3
<1>12. CASE \E i \in Ids : GotoGroup(a, i)
  <2> PICK i \in Ids : GotoGroup(a, i)
    BY <1>12
  <2> DEFINE p == [page[a] EXCEPT !.mode = "group", !.id = i]
  <2>1. p \in Pages /\ p.view = page[a].view /\ p.dialog = page[a].dialog /\ Looks(a, p)
    BY <1>2, <1>3
  <2> HIDE DEF p
  <2> QED BY LooksAlone, <2>1
<1>13. CASE \E n \in Names : TypeName(a, n) \/ TypeShortName(a, n)
  <2> PICK p \in Pages : Looks(a, p) /\ p.view = page[a].view /\ p.dialog = page[a].dialog
    BY <1>6, <1>7, <1>13
  <2> QED BY LooksAlone
<1>14. CASE \E m \in Members : RemoveMember(a, m)
  <2> PICK p \in Pages : Looks(a, p) /\ p.view = page[a].view /\ Removes(p.dialog)
    BY <1>10, <1>14
  <2> QED BY LooksAlone
<1> QED BY <1>1, <1>4, <1>5, <1>8, <1>9, <1>11, <1>12, <1>13, <1>14 DEF Look

(* What is sent was idle until then; a removal is the one that was asked.  *)
LEMMA SendAlone ==
  ASSUME TypeOK, NEW a \in Admins, Send(a)
  PROVE  /\ UNCHANGED <<scene, server, inbox, answers, history>>
         /\ \A b \in Admins : b # a => job'[b] = job[b] /\ page'[b] = page[b]
         /\ job[a].phase = "idle" /\ job'[a].phase = "sent"
         /\ job'[a].op = "remove" =>
              /\ page[a].dialog.op = "remove" /\ job'[a].id = page[a].dialog.id
              /\ job'[a].late = page[a].dialog.late
         /\ page'[a].view = page[a].view /\ page'[a].dialog = NoDialog
<1>0. page[a] \in Pages /\ page[a].dialog \in Dialogs
  BY DEF TypeOK, Pages
<1>1. /\ job[a].phase = "idle"
      /\ \E j \in Jobs : /\ Sends(a, j)
                         /\ j.op = "remove" => /\ page[a].dialog.op = "remove"
                                               /\ j.id = page[a].dialog.id /\ j.late = page[a].dialog.late
  <2>1. CASE DoSubmit(a)
    <3> DEFINE p == page[a]
               op == IF p.mode = "new" THEN "create" ELSE "update"
               j == [Idle EXCEPT !.op = op, !.id = p.id, !.name = p.name, !.short = p.short,
                               !.auto = p.auto, !.clean = p.sure]
    <3>1. op \in {"create", "update"}
      OBVIOUS
    <3>2. Sends(a, j) /\ job[a].phase = "idle"
      BY <2>1 DEF DoSubmit, At, Busy
    <3> HIDE DEF op
    <3>3. j \in Jobs
      BY <1>0, <3>1, SubmitType
    <3>4. j.op # "remove"
      BY <3>1 DEF Idle
    <3> HIDE DEF j
    <3> QED BY <3>2, <3>3, <3>4
  <2>2. ASSUME NEW m \in Members, AddMember(a, m)
        PROVE  job[a].phase = "idle" /\ \E j \in Jobs : Sends(a, j) /\ j.op # "remove"
    <3> DEFINE j == [Idle EXCEPT !.op = "add", !.id = page[a].id, !.m = m]
    <3>1. j \in Jobs /\ j.op # "remove"
      BY <1>0 DEF Pages, Jobs, Idle, OrNone
    <3>2. Sends(a, j) /\ job[a].phase = "idle"
      BY <2>2 DEF AddMember, At, Busy
    <3> HIDE DEF j
    <3> QED BY <3>1, <3>2
  <2>3. CASE Confirm(a)
    <3> DEFINE d == page[a].dialog
               j == [Idle EXCEPT !.op = d.op, !.id = d.id, !.m = d.m, !.late = d.late]
    <3>1. j \in Jobs /\ j.op = d.op /\ j.id = d.id /\ j.late = d.late
      <4> HIDE DEF d
      <4>1. d \in Dialogs
        BY <1>0 DEF d
      <4> QED BY <4>1 DEF Jobs, Idle, OrNone, Dialogs
    <3>2. Sends(a, j) /\ job[a].phase = "idle"
      BY <2>3 DEF Confirm, Busy
    <3> HIDE DEF j
    <3> QED BY <3>1, <3>2
  <2> QED BY <2>1, <2>2, <2>3 DEF Send
<1> PICK j \in Jobs : /\ Sends(a, j)
                      /\ j.op = "remove" => /\ page[a].dialog.op = "remove"
                                            /\ j.id = page[a].dialog.id /\ j.late = page[a].dialog.late
  BY <1>1
<1>2. job'[a] = [j EXCEPT !.phase = "sent"] /\ \A b \in Admins : b # a => job'[b] = job[b] /\ page'[b] = page[b]
  BY DEF Sends, TypeOK
<1>3. job'[a].phase = "sent" /\ job'[a].op = j.op /\ job'[a].id = j.id /\ job'[a].late = j.late
  BY <1>2 DEF Jobs
<1>4. page'[a].view = page[a].view /\ page'[a].dialog = NoDialog
  BY <1>0 DEF Sends, TypeOK, Pages
<1> QED BY <1>1, <1>2, <1>3, <1>4 DEF Sends

LEMMA VerdictAlone ==
  ASSUME TypeOK, NEW c \in checks, NameExists(c) \/ HearVerdict(c)
  PROVE  /\ UNCHANGED <<scene, server, inbox, answers, job, history>>
         /\ \A b \in Admins : page'[b].view = page[b].view /\ page'[b].dialog = page[b].dialog
<1>1. CASE NameExists(c)
  BY <1>1 DEF NameExists
<1>2. CASE HearVerdict(c)
  <2>1. page[c.by] \in Pages
    BY DEF TypeOK, Checks
  <2> DEFINE p == page[c.by]
             mine == c.attr = "name" /\ p.mode = "edit" /\ p.id = c.id /\ p.name = c.name
             q == [p EXCEPT !.marked = IF c.taken THEN @ \union {c.attr} ELSE @ \ {c.attr},
                            !.sure = IF mine THEN c.clean /\ ~c.taken ELSE @]
  <2>2. page' = [page EXCEPT ![c.by] = q] /\ UNCHANGED <<scene, server, inbox, answers, job, history>>
    BY <1>2 DEF HearVerdict
  <2>3. q.view = page[c.by].view /\ q.dialog = page[c.by].dialog
    BY <2>1 DEF Pages
  <2> HIDE DEF q
  <2> QED BY <2>2, <2>3 DEF TypeOK
<1> QED BY <1>1, <1>2

(* Saving a group, and what overtakes an update, only mark the requests and*)
(* the questions of others.                                                *)
SameWork(b) ==
  /\ job'[b].op = job[b].op /\ job'[b].phase = job[b].phase /\ job'[b].id = job[b].id
  /\ job'[b].auto = job[b].auto /\ job'[b].missing = job[b].missing
  /\ job[b].late => job'[b].late
LEMMA SavedJobs ==
  ASSUME TypeOK, NEW a \in Admins, NEW i \in Ids, NEW g \in Group, NEW j \in Jobs, Saved(a, i, g, j)
  PROVE  /\ job'[a] = j
         /\ \A b \in Admins : b # a =>
              /\ SameWork(b)
              /\ Begins(i, g) /\ job[b].op = "remove" /\ job[b].id = i => job'[b].late
<1>1. job'[a] = j /\ \A b \in Admins : b # a => job'[b] = JobAfter(b, i, g)
  BY DEF Saved
<1>2. ASSUME NEW b \in Admins
      PROVE  LET k == JobAfter(b, i, g)
             IN  /\ k.op = job[b].op /\ k.phase = job[b].phase /\ k.id = job[b].id
                 /\ k.auto = job[b].auto /\ k.missing = job[b].missing
                 /\ k.late = (job[b].late \/ (Begins(i, g) /\ job[b].op = "remove" /\ job[b].id = i))
  <2> DEFINE clean == job[b].clean /\ ~Renames(i, g)
             late == job[b].late \/ (Begins(i, g) /\ job[b].op = "remove" /\ job[b].id = i)
  <2>1. job[b] \in Jobs
    BY DEF TypeOK
  <2>2. JobAfter(b, i, g) = [job[b] EXCEPT !.clean = clean, !.late = late]
    BY DEF JobAfter
  <2> HIDE DEF clean, late
  <2>3. LET k == JobAfter(b, i, g)
        IN  /\ k.op = job[b].op /\ k.phase = job[b].phase /\ k.id = job[b].id
            /\ k.auto = job[b].auto /\ k.missing = job[b].missing /\ k.late = late
    BY <2>1, <2>2 DEF Jobs
  <2> QED BY <2>3 DEF late
<1>3. ASSUME NEW b \in Admins, b # a
      PROVE  /\ SameWork(b)
             /\ Begins(i, g) /\ job[b].op = "remove" /\ job[b].id = i => job'[b].late
  <2>1. job'[b] = JobAfter(b, i, g)
    BY <1>1, <1>3
  <2> QED BY <1>2, <2>1 DEF SameWork
<1> QED BY <1>1, <1>3

LEMMA SavedPages ==
  ASSUME TypeOK, NEW a \in Admins, NEW i \in Ids, NEW g \in Group, NEW j, Saved(a, i, g, j)
  PROVE  \A b \in Admins :
           /\ page'[b].view = page[b].view
           /\ page'[b].dialog.op = page[b].dialog.op /\ page'[b].dialog.id = page[b].dialog.id
           /\ page[b].dialog.late => page'[b].dialog.late
           /\ Begins(i, g) /\ page[b].dialog.id = i => page'[b].dialog.late
<1> SUFFICES ASSUME NEW b \in Admins
             PROVE  /\ page'[b].view = page[b].view
                    /\ page'[b].dialog.op = page[b].dialog.op /\ page'[b].dialog.id = page[b].dialog.id
                    /\ page[b].dialog.late => page'[b].dialog.late
                    /\ Begins(i, g) /\ page[b].dialog.id = i => page'[b].dialog.late
  OBVIOUS
<1> DEFINE late == page[b].dialog.late \/ (Begins(i, g) /\ page[b].dialog.id = i)
           d == [page[b].dialog EXCEPT !.late = late]
<1>1. page'[b] = [page[b] EXCEPT !.sure = page[b].sure /\ ~Renames(i, g), !.dialog = d]
  BY DEF Saved, PageAfter
<1>2. page[b] \in Pages /\ page[b].dialog \in Dialogs
  BY DEF TypeOK, Pages
<1>3. d.op = page[b].dialog.op /\ d.id = page[b].dialog.id /\ d.late = late
  <2> HIDE DEF late
  <2> QED BY <1>2 DEF Dialogs
<1>4. (page[b].dialog.late => d.late) /\ (Begins(i, g) /\ page[b].dialog.id = i => d.late)
  BY <1>3
<1> HIDE DEF d
<1>5. page'[b].view = page[b].view /\ page'[b].dialog = d
  BY <1>1, <1>2 DEF Pages
<1> QED BY <1>3, <1>4, <1>5

LEMMA OvertakenJobs ==
  ASSUME TypeOK, NEW is, NEW b \in Admins
  PROVE  LET o == Overtaken(is)[b]
         IN  /\ o \in Jobs
             /\ o.op = job[b].op /\ o.phase = job[b].phase /\ o.id = job[b].id
             /\ o.auto = job[b].auto /\ o.missing = job[b].missing
             /\ job[b].late => o.late
             /\ job[b].op = "update" /\ job[b].phase = "held" /\ job[b].id \in is => o.late
<1>1. job[b] \in Jobs
  BY DEF TypeOK
<1>2. Overtaken(is)[b] = IF job[b].op = "update" /\ job[b].phase = "held" /\ job[b].id \in is
                         THEN [job[b] EXCEPT !.late = TRUE] ELSE job[b]
  BY DEF Overtaken
<1>3. LET k == [job[b] EXCEPT !.late = TRUE]
      IN  /\ k \in Jobs /\ k.op = job[b].op /\ k.phase = job[b].phase /\ k.id = job[b].id
          /\ k.auto = job[b].auto /\ k.missing = job[b].missing /\ k.late
  BY <1>1 DEF Jobs
<1> QED BY <1>1, <1>2, <1>3

LEMMA BecomesAlone ==
  ASSUME TypeOK, NEW a \in Admins, NEW phase, Becomes(a, phase)
  PROVE  /\ \A b \in Admins : b # a => job'[b] = job[b]
         /\ job'[a].op = job[a].op /\ job'[a].phase = phase /\ job'[a].id = job[a].id
         /\ job'[a].auto = job[a].auto /\ job'[a].missing = job[a].missing /\ job'[a].late = job[a].late
<1>1. job[a] \in Jobs /\ job'[a] = [job[a] EXCEPT !.phase = phase]
  BY DEF Becomes, TypeOK
<1> QED BY <1>1 DEF Becomes, TypeOK, Jobs
-------------------------------------------------------------------------------
(* Pages catch up.  Who has a message or the answer of an operation to     *)
(* hear reads again; a group that was saved and can be filled is told of   *)
(* when it is.                                                             *)
Told(a) == a \in inbox \/ job[a].phase = "done"
Fillable(b) == job[b].phase = "fill" /\ job[b].id \in Here /\ job[b].missing \subseteq members
Pending(a) == Told(a) \/ \E b \in Admins : Fillable(b)
(* A handler that told of its commit before it, and will not tell again.   *)
Silent(b) == job[b].phase = "held" /\ (job[b].op = "delete" \/ (job[b].op = "update" /\ ~job[b].auto))
Behind(a) == (\A r \in answers[a] : r.old) /\ (answers[a] = {} => doubt[a])

ReadingsCurrent == \A a \in Admins : \A r \in answers[a] : r.old \/ r.view = Shown \/ Pending(a)
PagesCurrent ==
  \A a \in Admins : answers[a] = {} => doubt[a] \/ page[a].view = Shown \/ Pending(a)
SilenceKnown == \A a, b \in Admins : a # b /\ Silent(b) => Told(a) \/ Behind(a)
(* The reading of one's own operation is the one the page waits for.       *)
OwnIsAwaited ==
  \A a \in Admins : \A r \in answers[a] : r.own =>
    job[a].phase = "reading" /\ \A s \in answers[a] : s.own => s = r
CatchInv == ReadingsCurrent /\ PagesCurrent /\ SilenceKnown /\ OwnIsAwaited

(* A step that reads nothing.  It leaves what the pages show, and who is   *)
(* told or waits for a reading; it tells of what it changes, or only those *)
(* who are told or behind already do not hear; no commit becomes silent    *)
(* that was not told of.                                                   *)
PagesSame == \A a \in Admins : page'[a].view = page[a].view
StillTold ==
  \A a \in Admins : /\ Told(a) => Told(a)'
                    /\ job[a].phase = "reading" => job'[a].phase = "reading"
DoubtKept == \A a \in Admins : doubt[a] => doubt'[a]
Passes(a) ==
  \/ Told(a)' \/ Behind(a) \/ \E b \in Admins : Fillable(b)'
  \/ Shown' = Shown /\ \A b \in Admins : Fillable(b) => Fillable(b)'
TellsFirst == \A b \in Admins : Silent(b)' => Silent(b) \/ \A a \in Admins \ {b} : Told(a)'
Unread == UNCHANGED answers /\ PagesSame /\ StillTold /\ DoubtKept

LEMMA UnreadCatches ==
  ASSUME CatchInv, Unread, TellsFirst, \A a \in Admins : Passes(a)
  PROVE  CatchInv'
<1> USE DEF Unread
<1>1. ASSUME NEW a \in Admins PROVE Pending(a)' \/ Behind(a) \/ (Shown' = Shown /\ (Pending(a) => Pending(a)'))
  BY <1>1 DEF Passes, Pending, StillTold
<1>2. ReadingsCurrent'
  <2> SUFFICES ASSUME NEW a \in Admins, NEW r \in answers[a] PROVE r.old \/ r.view = Shown' \/ Pending(a)'
    BY DEF ReadingsCurrent
  <2> QED BY <1>1 DEF CatchInv, ReadingsCurrent, Behind
<1>3. PagesCurrent'
  <2> SUFFICES ASSUME NEW a \in Admins, answers[a] = {} PROVE doubt'[a] \/ page'[a].view = Shown' \/ Pending(a)'
    BY DEF PagesCurrent
  <2> QED BY <1>1 DEF CatchInv, PagesCurrent, Behind, DoubtKept, PagesSame
<1>4. SilenceKnown'
  <2> SUFFICES ASSUME NEW a \in Admins, NEW b \in Admins, a # b, Silent(b)' PROVE Told(a)' \/ Behind(a)'
    BY DEF SilenceKnown
  <2>1. Behind(a) => Behind(a)'
    BY DEF Behind, DoubtKept
  <2> QED BY <2>1 DEF CatchInv, SilenceKnown, TellsFirst, StillTold
<1>5. OwnIsAwaited'
  BY DEF CatchInv, OwnIsAwaited, StillTold
<1> QED BY <1>2, <1>3, <1>4, <1>5 DEF CatchInv

(* The request of one administrator moves on, which was not done or filling.*)
Moves(a) ==
  /\ \A b \in Admins : b # a => job'[b] = job[b]
  /\ job[a].phase \notin {"done", "fill", "reading"}
  /\ inbox \subseteq inbox'
LEMMA MovesOn ==
  ASSUME NEW a \in Admins, Moves(a)
  PROVE  StillTold
BY DEF Moves, StillTold, Told
LEMMA MovesFill ==
  ASSUME NEW a \in Admins, Moves(a), UNCHANGED <<groups, members>>
  PROVE  Shown' = Shown /\ \A b \in Admins : Fillable(b) => Fillable(b)'
BY DEF Moves, Fillable, Here, Shown

(* Nothing the pages show changes, and nobody becomes silent untold.       *)
LEMMA MovesQuietly ==
  ASSUME CatchInv, NEW a \in Admins, Moves(a), UNCHANGED <<groups, members, answers>>,
         PagesSame, DoubtKept,
         Silent(a)' => \A b \in Admins \ {a} : Told(b)'
  PROVE  CatchInv'
<1>1. StillTold
  BY MovesOn
<1>2. \A b \in Admins : Passes(b)
  BY MovesFill DEF Passes
<1>3. TellsFirst
  BY DEF TellsFirst, Moves, Silent
<1> QED BY <1>1, <1>2, <1>3, UnreadCatches DEF Unread

(* The work of one administrator ends, of which the others are told, or    *)
(* were when they could.                                                   *)
LEMMA WorkEnds ==
  ASSUME CatchInv, NEW a \in Admins, job'[a].phase = "done",
         \A b \in Admins : b # a => SameWork(b),
         job[a].phase # "reading", inbox \subseteq inbox', Silent(a) \/ Others(a) \subseteq inbox',
         UNCHANGED answers, PagesSame, DoubtKept
  PROVE  CatchInv'
<1>1. StillTold
  BY DEF StillTold, Told, SameWork
<1>2. ASSUME NEW b \in Admins PROVE Told(b)' \/ Behind(b)
  <2>1. CASE b = a
    BY <2>1 DEF Told
  <2>2. CASE b # a
    BY <1>1, <2>2 DEF CatchInv, SilenceKnown, StillTold, Told, Others
  <2> QED BY <2>1, <2>2
<1>3. ASSUME NEW b \in Admins, Silent(b)' PROVE Silent(b)
  <2>1. b # a
    BY <1>3 DEF Silent
  <2> QED BY <1>3, <2>1 DEF SameWork, Silent
<1> QED BY <1>1, <1>2, <1>3, UnreadCatches DEF Unread, Passes, TellsFirst

LEMMA ElseCatches ==
  ASSUME TypeOK, CatchInv, UNCHANGED <<groups, members, inbox, answers, job, doubt>>, PagesSame
  PROVE  CatchInv'
<1>1. StillTold /\ DoubtKept /\ TellsFirst
  BY DEF StillTold, Told, DoubtKept, TellsFirst, Silent
<1>2. Shown' = Shown /\ \A b \in Admins : Fillable(b) => Fillable(b)'
  BY DEF Shown, Here, Fillable
<1> QED BY <1>1, <1>2, UnreadCatches DEF Unread, Passes

LEMMA LookCatches == ASSUME TypeOK, CatchInv, NEW a \in Admins, Look(a) PROVE CatchInv'
BY LookAlone, ElseCatches DEF PagesSame, server, history

LEMMA SendCatches == ASSUME TypeOK, CatchInv, NEW a \in Admins, Send(a) PROVE CatchInv'
<1>1. /\ UNCHANGED <<groups, members, inbox, answers, doubt>>
      /\ \A b \in Admins : b # a => job'[b] = job[b] /\ page'[b] = page[b]
      /\ job[a].phase = "idle" /\ job'[a].phase = "sent" /\ page'[a].view = page[a].view
  BY SendAlone DEF server, history
<1>2. Moves(a) /\ PagesSame /\ DoubtKept /\ ~Silent(a)'
  BY <1>1 DEF Moves, PagesSame, DoubtKept, Silent
<1> QED BY <1>1, <1>2, MovesQuietly

(* A handler that only moves the request of its administrator on.          *)
LEMMA HandlerCatches ==
  ASSUME TypeOK, CatchInv, NEW a \in Admins, job[a].phase \in {"sent", "held"},
         \A b \in Admins : b # a => job'[b] = job[b],
         UNCHANGED <<answers, server, page, history>>, inbox \subseteq inbox',
         Silent(a)' => Others(a) \subseteq inbox'
  PROVE  CatchInv'
<1>1. Moves(a) /\ PagesSame /\ DoubtKept /\ UNCHANGED <<groups, members>>
  BY DEF Moves, PagesSame, DoubtKept, server, history
<1>2. Silent(a)' => \A b \in Admins \ {a} : Told(b)'
  BY DEF Told, Others
<1> QED BY <1>1, <1>2, MovesQuietly

LEMMA RefusedCatches ==
  ASSUME TypeOK, CatchInv, NEW a \in Admins, job[a].phase \in {"sent", "held"}, Refused(a), UNCHANGED answers
  PROVE  CatchInv'
<1>1. /\ \A b \in Admins : b # a => job'[b] = job[b]
      /\ job'[a].phase = "lost"
  BY BecomesAlone DEF Refused
<1>2. ~Silent(a)'
  BY <1>1 DEF Silent
<1> QED BY <1>1, <1>2, HandlerCatches DEF Refused

(* A saved group that has everyone can be filled; of another the others    *)
(* are told at once.                                                       *)
LEMMA CommitsCatches ==
  ASSUME TypeOK, CatchInv, NEW a \in Admins, NEW i \in Ids, NEW g \in Group, g.at = "here",
         job[a].phase \in {"sent", "held"}, Commits(a, i, g), UNCHANGED answers
  PROVE  CatchInv'
<1> DEFINE j == Started(a, i, g)
<1>1. Saved(a, i, g, j) /\ inbox' = inbox \union (IF g.auto THEN {} ELSE Others(a))
  BY DEF Commits, Tell, Started
<1>2. j \in Jobs /\ j.id = i /\ j.missing = Missing(g) /\ j.phase = IF g.auto THEN "fill" ELSE "done"
  BY StartedType
<1> HIDE DEF j
<1>3. job'[a] = j /\ \A b \in Admins : b # a => SameWork(b)
  BY <1>1, <1>2, SavedJobs
<1>s. Saved(a, i, g, j)
  BY <1>1
<1>p. PagesSame
  BY <1>s, SavedPages DEF PagesSame
<1>4. PagesSame /\ DoubtKept /\ inbox \subseteq inbox'
  BY <1>1, <1>p DEF DoubtKept, Saved
<1>5. CASE ~g.auto
  <2>1. job'[a].phase = "done" /\ Others(a) \subseteq inbox'
    BY <1>1, <1>2, <1>3, <1>5
  <2> QED BY <1>3, <1>4, <2>1, WorkEnds
<1>6. CASE g.auto
  <2>1. Fillable(a)'
    <3>1. groups'[i] = g /\ members' = members /\ job'[a].phase = "fill"
      BY <1>1, <1>2, <1>3, <1>6 DEF Saved, TypeOK
    <3>2. i \in Here'
      BY <3>1 DEF Here
    <3>3. job'[a].missing \subseteq members
      BY <1>2, <1>3 DEF Missing
    <3> QED BY <1>2, <1>3, <3>1, <3>2, <3>3 DEF Fillable
  <2>2. StillTold
    BY <1>3, <1>4 DEF StillTold, Told, SameWork
  <2>3. ASSUME NEW b \in Admins, Silent(b)' PROVE Silent(b)
    <3>1. b # a
      BY <1>2, <1>3, <1>6, <2>3 DEF Silent
    <3> QED BY <1>3, <2>3, <3>1 DEF SameWork, Silent
  <2> QED BY <1>4, <2>1, <2>2, <2>3, UnreadCatches DEF Unread, Passes, TellsFirst
<1> QED BY <1>5, <1>6

LEMMA HandleCatches == ASSUME TypeOK, CatchInv, NEW a \in Admins, Handle(a) PROVE CatchInv'
<1>0. job[a] \in Jobs /\ \A i \in Ids : groups[i] \in Group
  BY DEF TypeOK
<1>1. CASE CreateReads(a)
  <2>1. /\ job[a].phase = "sent" /\ job[a].op = "create"
        /\ UNCHANGED <<answers, server, inbox, page, history>>
    BY <1>1 DEF CreateReads, Handles
  <2>2. /\ \A b \in Admins : b # a => job'[b] = job[b]
        /\ job'[a].op = "create"
    <3>1. CASE Becomes(a, "done")
      BY <2>1, <3>1, BecomesAlone
    <3>2. CASE job' = [job EXCEPT ![a].phase = "held", ![a].clean = TRUE]
      BY <1>0, <2>1, <3>2 DEF TypeOK, Jobs
    <3> QED BY <1>1, <3>1, <3>2 DEF CreateReads
  <2>3. ~Silent(a)'
    BY <2>2 DEF Silent
  <2> QED BY <2>1, <2>2, <2>3, HandlerCatches
<1>2. CASE CreateSaves(a)
  <2> DEFINE g == [at |-> "here", name |-> job[a].name, short |-> job[a].short, auto |-> job[a].auto,
                   rows |-> [m \in Members |-> 0], service |-> FALSE]
  <2>1. job[a].phase \in {"sent", "held"} /\ job[a].op = "create" /\ UNCHANGED answers
    BY <1>2 DEF CreateSaves, Handles
  <2>2. CASE Refused(a)
    BY <2>1, <2>2, RefusedCatches
  <2>3. CASE \E i \in {k \in Ids : groups[k].at = "none"} : Commits(a, i, g)
    <3>1. PICK i \in {k \in Ids : groups[k].at = "none"} : Commits(a, i, g)
      BY <2>3
    <3>2. g \in Group /\ g.at = "here"
      BY <1>0 DEF Group, Jobs, OrNone
    <3> HIDE DEF g
    <3> QED BY <2>1, <3>1, <3>2, CommitsCatches
  <2> QED BY <1>2, <2>2, <2>3 DEF CreateSaves
<1>3. CASE Fills(a)
  <2>0. UNCHANGED <<answers, members, page>> /\ job[a].phase = "fill" /\ PagesSame
    BY <1>3 DEF Fills, Handles, PagesSame
  <2>1. CASE Becomes(a, "done") /\ Tell(Others(a)) /\ UNCHANGED doubt
    <3>1. /\ \A b \in Admins : b # a => SameWork(b)
          /\ job'[a].phase = "done" /\ Others(a) \subseteq inbox' /\ inbox \subseteq inbox'
      BY <2>1, BecomesAlone DEF SameWork, Tell
    <3> QED BY <2>0, <2>1, <3>1, WorkEnds DEF DoubtKept
  <2>2. CASE /\ ~(job[a].id \in Here /\ job[a].missing \subseteq members) /\ Becomes(a, "lost")
             /\ doubt' = [b \in Admins |-> TRUE] /\ UNCHANGED <<groups, inbox>>
    <3>1. /\ \A b \in Admins : b # a => job'[b] = job[b]
          /\ job'[a].phase = "lost"
      BY <2>2, BecomesAlone
    <3>2. StillTold /\ DoubtKept
      BY <2>0, <2>2, <3>1 DEF StillTold, Told, DoubtKept
    <3>3. ~Fillable(a) /\ \A b \in Admins : Fillable(b) => Fillable(b)'
      BY <2>0, <2>2, <3>1 DEF Fillable, Here
    <3>4. Shown' = Shown
      BY <2>0, <2>2 DEF Shown, Here
    <3>5. TellsFirst
      BY <3>1 DEF TellsFirst, Silent
    <3> QED BY <2>0, <3>2, <3>3, <3>4, <3>5, UnreadCatches DEF Unread, Passes
  <2> QED BY <1>3, <2>1, <2>2 DEF Fills
<1>4. CASE UpdateSaves(a)
  <2>1. job[a].phase = "sent" /\ UNCHANGED answers
    BY <1>4 DEF UpdateSaves, Handles
  <2>2. CASE Refused(a)
    BY <2>1, <2>2, RefusedCatches
  <2>3. CASE job[a].id \in Here /\ Commits(a, job[a].id, Renamed(a))
    <3>1. job[a].id \in Ids /\ groups[job[a].id].at = "here"
      BY <2>3 DEF Here
    <3> QED BY <2>1, <2>3, <3>1, RenamedType, CommitsCatches
  <2> QED BY <1>4, <2>2, <2>3 DEF UpdateSaves, Renamed
<1>5. CASE UpdateReads(a)
  <2> DEFINE ms == Missing([groups[job[a].id] EXCEPT !.auto = job[a].auto])
  <2>1. /\ job[a].phase = "sent" /\ job[a].op = "update"
        /\ UNCHANGED <<answers, server, page, history>>
        /\ inbox' = inbox \union (IF job[a].auto THEN {} ELSE Others(a))
        /\ job' = [job EXCEPT ![a].phase = "held", ![a].late = FALSE, ![a].missing = ms]
    BY <1>5 DEF UpdateReads, Handles, Tell
  <2> HIDE DEF ms
  <2>2. /\ \A b \in Admins : b # a => job'[b] = job[b]
        /\ job'[a].op = "update" /\ job'[a].auto = job[a].auto
    BY <1>0, <2>1 DEF TypeOK, Jobs
  <2>3. Silent(a)' => Others(a) \subseteq inbox'
    BY <2>1, <2>2 DEF Silent
  <2> QED BY <2>1, <2>2, <2>3, HandlerCatches
<1>6. CASE UpdateCommits(a)
  <2>1. job[a].phase = "held" /\ job[a].op = "update" /\ UNCHANGED answers
    BY <1>6 DEF UpdateCommits, Handles
  <2>2. CASE Refused(a)
    BY <2>1, <2>2, RefusedCatches
  <2> DEFINE i == job[a].id
             rows == Filled(groups[i].rows, job[a].missing)
             g == [groups[i] EXCEPT !.auto = job[a].auto, !.rows = rows]
             j == [job[a] EXCEPT !.phase = "done"]
  <2>3. CASE i \in Here /\ Saved(a, i, g, j) /\ Tell(IF job[a].auto THEN Others(a) ELSE {})
    <3>1. i \in Ids /\ j \in Jobs /\ j.phase = "done"
      BY <1>0, <2>3 DEF Here, Jobs
    <3>2. g \in Group
      <4>1. rows \in [Members -> 0 .. 2]
        BY <1>0, <3>1, FilledType DEF Group
      <4>2. groups[i] \in Group /\ job[a].auto \in BOOLEAN
        BY <1>0, <3>1 DEF Jobs
      <4> HIDE DEF rows, i
      <4> QED BY <4>1, <4>2 DEF Group
    <3>s. Saved(a, i, g, j)
      BY <2>3
    <3> HIDE DEF g, j
    <3>3. /\ job'[a].phase = "done" /\ \A b \in Admins : b # a => SameWork(b)
          /\ PagesSame
      BY <3>1, <3>2, <3>s, SavedJobs, SavedPages DEF PagesSame
    <3>4. inbox \subseteq inbox' /\ (Silent(a) \/ Others(a) \subseteq inbox') /\ DoubtKept
      BY <2>1, <2>3, <3>s DEF Silent, Tell, DoubtKept, Saved
    <3> QED BY <2>1, <3>3, <3>4, WorkEnds
  <2> QED BY <1>6, <2>2, <2>3 DEF UpdateCommits
<1>7. CASE DeleteTells(a)
  <2>1. job[a].phase = "sent" /\ job[a].op = "delete" /\ UNCHANGED answers
    BY <1>7 DEF DeleteTells, Handles
  <2>2. CASE Refused(a)
    BY <2>1, <2>2, RefusedCatches
  <2>3. CASE Becomes(a, "held") /\ Tell(Others(a)) /\ UNCHANGED <<server, page, history>>
    BY <2>1, <2>3, BecomesAlone, HandlerCatches DEF Tell
  <2> QED BY <1>7, <2>2, <2>3 DEF DeleteTells
<1>8. CASE DeleteCommits(a)
  <2>1. /\ job[a].phase = "held" /\ job[a].op = "delete"
        /\ UNCHANGED <<answers, members, joins, inbox, page, history>>
    BY <1>8 DEF DeleteCommits, Handles
  <2>2. CASE Becomes(a, "done")
    <3>1. job'[a].phase = "done" /\ \A b \in Admins : b # a => SameWork(b)
      BY <2>2, BecomesAlone DEF SameWork
    <3>2. PagesSame /\ DoubtKept /\ Silent(a)
      BY <2>1 DEF PagesSame, DoubtKept, Silent, history
    <3> QED BY <2>1, <3>1, <3>2, WorkEnds
  <2>3. CASE Becomes(a, "lost") /\ UNCHANGED groups
    <3>1. /\ \A b \in Admins : b # a => job'[b] = job[b]
          /\ ~Silent(a)'
      BY <2>3, BecomesAlone DEF Silent
    <3> QED BY <2>1, <2>3, <3>1, HandlerCatches DEF server
  <2> QED BY <1>8, <2>2, <2>3 DEF DeleteCommits
<1>9. CASE AddReads(a)
  <2>1. job[a].phase = "sent" /\ job[a].op = "add" /\ UNCHANGED answers
    BY <1>9 DEF AddReads, Handles
  <2>2. CASE Refused(a)
    BY <2>1, <2>2, RefusedCatches
  <2> DEFINE ms == IF groups[job[a].id].rows[job[a].m] = 0 THEN {job[a].m} ELSE {}
  <2>3. CASE /\ job' = [job EXCEPT ![a].phase = "held", ![a].missing = ms]
             /\ UNCHANGED <<server, inbox, page, history>>
    <3> HIDE DEF ms
    <3>1. /\ \A b \in Admins : b # a => job'[b] = job[b]
          /\ job'[a].op = "add"
      BY <1>0, <2>1, <2>3 DEF TypeOK, Jobs
    <3>2. ~Silent(a)'
      BY <3>1 DEF Silent
    <3> QED BY <2>1, <2>3, <3>1, <3>2, HandlerCatches
  <2> QED BY <1>9, <2>2, <2>3 DEF AddReads
<1>10. CASE AddCommits(a)
  <2>1. job[a].phase = "held" /\ UNCHANGED answers
    BY <1>10 DEF AddCommits, Handles
  <2>2. CASE Refused(a)
    BY <2>1, <2>2, RefusedCatches
  <2>3. CASE Becomes(a, "done") /\ Tell(Others(a)) /\ UNCHANGED <<page, history>>
    <3>1. job'[a].phase = "done" /\ \A b \in Admins : b # a => SameWork(b)
      BY <2>3, BecomesAlone DEF SameWork
    <3>2. PagesSame /\ DoubtKept /\ inbox \subseteq inbox' /\ Others(a) \subseteq inbox'
      BY <2>3 DEF PagesSame, DoubtKept, Tell, history
    <3> QED BY <2>1, <3>1, <3>2, WorkEnds
  <2> QED BY <1>10, <2>2, <2>3 DEF AddCommits
<1>11. CASE RemoveReads(a)
  <2>1. job[a].phase = "sent" /\ job[a].op = "remove" /\ UNCHANGED answers
    BY <1>11 DEF RemoveReads, Handles
  <2>2. CASE Refused(a)
    BY <2>1, <2>2, RefusedCatches
  <2>3. CASE Held(a)
    <3>1. /\ \A b \in Admins : b # a => job'[b] = job[b]
          /\ ~Silent(a)'
      BY <2>1, <2>3, BecomesAlone DEF Held, Silent
    <3> QED BY <2>1, <2>3, <3>1, HandlerCatches DEF Held
  <2> QED BY <1>11, <2>2, <2>3 DEF RemoveReads
<1>12. CASE RemoveCommits(a)
  <2>1. job[a].phase = "held" /\ UNCHANGED answers
    BY <1>12 DEF RemoveCommits, Handles
  <2>2. CASE Refused(a)
    BY <2>1, <2>2, RefusedCatches
  <2> DEFINE o == Overtaken({job[a].id})
  <2>3. CASE job' = [o EXCEPT ![a].phase = "done"] /\ Tell(Admins) /\ UNCHANGED <<page, doubt>>
    <3>1. \A b \in Admins : /\ o[b] \in Jobs
                            /\ o[b].op = job[b].op /\ o[b].phase = job[b].phase /\ o[b].id = job[b].id
                            /\ o[b].auto = job[b].auto /\ o[b].missing = job[b].missing
                            /\ job[b].late => o[b].late
      BY OvertakenJobs
    <3>2. o \in [Admins -> Jobs]
      BY OvertakenType
    <3> HIDE DEF o
    <3>3. job'[a] = [o[a] EXCEPT !.phase = "done"] /\ \A b \in Admins : b # a => job'[b] = o[b]
      BY <2>3, <3>2
    <3>4. job'[a].phase = "done" /\ \A b \in Admins : b # a => SameWork(b)
      BY <3>1, <3>3 DEF SameWork, Jobs
    <3>5. PagesSame /\ DoubtKept /\ inbox \subseteq inbox' /\ Others(a) \subseteq inbox'
      BY <2>3 DEF PagesSame, DoubtKept, Tell, Others
    <3> QED BY <2>1, <3>4, <3>5, WorkEnds
  <2> QED BY <1>12, <2>2, <2>3 DEF RemoveCommits
<1> QED
  BY <1>1, <1>2, <1>3, <1>4, <1>5, <1>6, <1>7, <1>8, <1>9, <1>10, <1>11, <1>12 DEF Handle

(* A reading of the page is current, unless a commit was told of too early;*)
(* those not heard yet are older than it.                                  *)
LEMMA ReadsCatches ==
  ASSUME TypeOK, CatchInv, NEW a \in Admins, NEW own \in BOOLEAN, Reads(a, own),
         \A b \in Admins : b # a => job'[b] = job[b] /\ (b \in inbox => b \in inbox'),
         job'[a] = job[a] \/ (job[a].phase = "done" /\ job'[a].phase = "reading"),
         own => job[a].phase = "done" /\ job'[a].phase = "reading"
  PROVE  CatchInv'
<1> DEFINE early == \E b \in Admins : Silent(b)
           olds == {[r EXCEPT !.old = TRUE] : r \in answers[a]}
           new == [own |-> own, view |-> Shown, old |-> early]
<1>1. /\ answers' = [answers EXCEPT ![a] = olds \union {new}]
      /\ UNCHANGED <<groups, members, page, doubt>>
  BY DEF Reads, Silent, server, history
<1>2. /\ \A b \in Admins : b # a => answers'[b] = answers[b]
      /\ answers'[a] = olds \union {new}
  BY <1>1 DEF TypeOK
<1>3. Shown' = Shown
  BY <1>1 DEF Shown, Here
<1>4. new.own = own /\ new.view = Shown /\ new.old = early
  OBVIOUS
<1>5. \A s \in olds : s.old /\ \E r \in answers[a] : s = [r EXCEPT !.old = TRUE] /\ s.own = r.own
  <2>1. answers[a] \in SUBSET Answers
    BY DEF TypeOK
  <2> QED BY <2>1 DEF Answers
<1>6. \A b \in Admins : /\ Fillable(b) => Fillable(b)'
                        /\ b # a => (Told(b) => Told(b)') /\ (Pending(b) => Pending(b)')
                        /\ Silent(b)' => Silent(b)
  <2>1. ASSUME NEW b \in Admins PROVE Fillable(b) => Fillable(b)'
    BY <1>1 DEF Fillable, Here
  <2>2. ASSUME NEW b \in Admins PROVE Silent(b)' => Silent(b)
    BY DEF Silent
  <2>3. ASSUME NEW b \in Admins, b # a, Told(b) PROVE Told(b)'
    BY <2>3 DEF Told
  <2> QED BY <2>1, <2>2, <2>3 DEF Pending
<1>e. Silent(a)' => early
  BY <1>6
<1> HIDE DEF olds, new
<1>7. ReadingsCurrent'
  <2> SUFFICES ASSUME NEW b \in Admins, NEW r \in answers'[b] PROVE r.old \/ r.view = Shown' \/ Pending(b)'
    BY DEF ReadingsCurrent
  <2>1. CASE b = a
    BY <1>2, <1>3, <1>4, <1>5, <2>1
  <2>2. CASE b # a
    BY <1>2, <1>3, <1>6, <2>2 DEF CatchInv, ReadingsCurrent
  <2> QED BY <2>1, <2>2
<1>8. PagesCurrent'
  <2> SUFFICES ASSUME NEW b \in Admins, answers'[b] = {} PROVE doubt'[b] \/ page'[b].view = Shown' \/ Pending(b)'
    BY DEF PagesCurrent
  <2>1. b # a
    BY <1>2
  <2> QED BY <1>1, <1>2, <1>3, <1>6, <2>1 DEF CatchInv, PagesCurrent
<1>9. SilenceKnown'
  <2> SUFFICES ASSUME NEW c \in Admins, NEW b \in Admins, c # b, Silent(b)' PROVE Told(c)' \/ Behind(c)'
    BY DEF SilenceKnown
  <2>1. Silent(b) /\ early
    BY <1>6
  <2>2. CASE c = a
    <3>1. \A r \in answers'[a] : r.old
      BY <1>2, <1>4, <1>5, <2>1
    <3>2. answers'[a] # {}
      BY <1>2
    <3> QED BY <2>2, <3>1, <3>2 DEF Behind
  <2>3. CASE c # a
    BY <1>1, <1>2, <1>6, <2>1, <2>3 DEF CatchInv, SilenceKnown, Behind
  <2> QED BY <2>2, <2>3
<1>10. OwnIsAwaited'
  <2> SUFFICES ASSUME NEW b \in Admins, NEW r \in answers'[b], r.own
               PROVE  job'[b].phase = "reading" /\ \A s \in answers'[b] : s.own => s = r
    BY DEF OwnIsAwaited
  <2>1. CASE b # a
    BY <1>2, <2>1 DEF CatchInv, OwnIsAwaited
  <2>2. CASE b = a /\ own
    <3>1. \A s \in answers[a] : ~s.own
      BY <2>2 DEF CatchInv, OwnIsAwaited
    <3>2. \A s \in olds : ~s.own
      BY <1>5, <3>1
    <3> QED BY <1>2, <2>2, <3>2
  <2>3. CASE b = a /\ ~own
    <3>1. r \in olds
      BY <1>2, <1>4, <2>3
    <3>2. PICK q \in answers[a] : r = [q EXCEPT !.old = TRUE] /\ q.own
      BY <1>5, <3>1
    <3>3. job[a].phase = "reading" /\ \A s \in answers[a] : s.own => s = q
      BY <3>2 DEF CatchInv, OwnIsAwaited
    <3>4. \A s \in olds : s.own => s = r
      BY <1>5, <3>2, <3>3
    <3>5. job'[a].phase = "reading"
      BY <3>3
    <3> QED BY <1>2, <1>4, <2>3, <3>4, <3>5
  <2> QED BY <2>1, <2>2, <2>3
<1> QED BY <1>7, <1>8, <1>9, <1>10 DEF CatchInv

(* The page shows what it hears; the reading of its own operation is the   *)
(* only one, so the spinner goes once.                                     *)
LEMMA PageCatches ==
  ASSUME TypeOK, CatchInv, NEW a \in Admins, NEW r \in answers[a], HearPage(a, r)
  PROVE  CatchInv'
<1>1. /\ answers' = [answers EXCEPT ![a] = @ \ {r}] /\ doubt' = [doubt EXCEPT ![a] = r.old]
      /\ UNCHANGED <<groups, members, inbox>>
  BY DEF HearPage, server
<1>2. /\ answers'[a] = answers[a] \ {r} /\ doubt'[a] = r.old
      /\ \A b \in Admins : b # a => answers'[b] = answers[b] /\ doubt'[b] = doubt[b]
  BY <1>1 DEF TypeOK
<1>3. page'[a].view = r.view /\ \A b \in Admins : b # a => page'[b] = page[b]
  <2> DEFINE p == [page[a] EXCEPT !.view = r.view]
  <2>0. page[a] \in Pages
    BY DEF TypeOK
  <2>1. p.view = r.view /\ Leads(a, p).view = r.view
    BY <2>0 DEF Pages, Leads
  <2>2. page' = [page EXCEPT ![a] = p] \/ page' = [page EXCEPT ![a] = Leads(a, p)]
    BY DEF HearPage
  <2> DEFINE q == Leads(a, p)
  <2> HIDE DEF p, q
  <2> QED BY <2>1, <2>2 DEF TypeOK
<1>4. \A b \in Admins : b # a => job'[b] = job[b]
  BY DEF HearPage, TypeOK
<1>5. job'[a] = job[a] \/ (r.own /\ job[a].phase = "reading" /\ job'[a].phase = "idle")
  BY DEF HearPage, TypeOK, Idle, CatchInv, OwnIsAwaited
<1>6. Shown' = Shown
  BY <1>1 DEF Shown, Here
<1>7. \A b \in Admins : /\ Fillable(b) => Fillable(b)'
                        /\ (Told(b) => Told(b)')
                        /\ Silent(b)' => Silent(b)
  <2>1. ASSUME NEW b \in Admins PROVE Fillable(b) => Fillable(b)'
    BY <1>1, <1>4, <1>5 DEF Fillable, Here
  <2>2. ASSUME NEW b \in Admins PROVE Silent(b)' => Silent(b)
    BY <1>4, <1>5 DEF Silent
  <2>3. ASSUME NEW b \in Admins, Told(b) PROVE Told(b)'
    BY <1>1, <1>4, <1>5, <2>3 DEF Told
  <2> QED BY <2>1, <2>2, <2>3
<1>8. \A b \in Admins : Pending(b) => Pending(b)'
  BY <1>7 DEF Pending
<1>9. ReadingsCurrent'
  BY <1>2, <1>6, <1>8 DEF CatchInv, ReadingsCurrent
<1>10. PagesCurrent'
  <2> SUFFICES ASSUME NEW b \in Admins, answers'[b] = {} PROVE doubt'[b] \/ page'[b].view = Shown' \/ Pending(b)'
    BY DEF PagesCurrent
  <2>1. CASE b = a
    BY <1>2, <1>3, <1>6, <1>8, <2>1 DEF CatchInv, ReadingsCurrent
  <2>2. CASE b # a
    BY <1>2, <1>3, <1>6, <1>8, <2>2 DEF CatchInv, PagesCurrent
  <2> QED BY <2>1, <2>2
<1>11. SilenceKnown'
  <2> SUFFICES ASSUME NEW c \in Admins, NEW b \in Admins, c # b, Silent(b)' PROVE Told(c)' \/ Behind(c)'
    BY DEF SilenceKnown
  <2>1. Told(c) \/ Behind(c)
    BY <1>7 DEF CatchInv, SilenceKnown
  <2>2. Behind(c) => Behind(c)'
    BY <1>2 DEF Behind
  <2> QED BY <1>7, <2>1, <2>2
<1>12. OwnIsAwaited'
  <2> SUFFICES ASSUME NEW b \in Admins, NEW q \in answers'[b], q.own
               PROVE  job'[b].phase = "reading" /\ \A s \in answers'[b] : s.own => s = q
    BY DEF OwnIsAwaited
  <2>1. job[b].phase = "reading" /\ \A s \in answers[b] : s.own => s = q
    BY <1>2 DEF CatchInv, OwnIsAwaited
  <2>2. CASE b = a /\ r.own
    BY <1>2, <2>1, <2>2
  <2>3. CASE b = a /\ ~r.own
    BY <1>2, <1>5, <2>1, <2>3
  <2>4. CASE b # a
    BY <1>2, <1>4, <2>1, <2>4
  <2> QED BY <2>2, <2>3, <2>4
<1> QED BY <1>9, <1>10, <1>11, <1>12 DEF CatchInv

LEMMA HearCatches == ASSUME TypeOK, CatchInv, NEW a \in Admins, Hear(a) PROVE CatchInv'
<1>1. CASE HearAnswer(a)
  <2>1. job[a].phase = "done" /\ Becomes(a, "reading") /\ Reads(a, TRUE) /\ UNCHANGED inbox
    BY <1>1 DEF HearAnswer
  <2> QED BY <2>1, BecomesAlone, ReadsCatches
<1>2. CASE HearSocket(a)
  <2>1. inbox' = inbox \ {a} /\ Reads(a, FALSE) /\ UNCHANGED job
    BY <1>2 DEF HearSocket
  <2> QED BY <2>1, ReadsCatches
<1> QED BY <1>1, <1>2, PageCatches DEF Hear

LEMMA VerdictCatches ==
  ASSUME TypeOK, CatchInv, NEW c \in checks, NameExists(c) \/ HearVerdict(c) PROVE CatchInv'
BY VerdictAlone, ElseCatches DEF PagesSame, server, history

LEMMA MemberCatches ==
  ASSUME TypeOK, CatchInv, NEW m \in Members, JoinReads(m) \/ JoinCommits(m) \/ Leave(m) PROVE CatchInv'
<1>a. ASSUME Tell(Admins), UNCHANGED <<answers, page, doubt>>,
             \A b \in Admins : SameWork(b)
      PROVE CatchInv'
  <2>1. \A b \in Admins : Told(b)'
    BY <1>a DEF Tell, Told
  <2>2. StillTold /\ DoubtKept /\ PagesSame
    BY <1>a, <2>1 DEF StillTold, DoubtKept, PagesSame, SameWork
  <2> QED BY <1>a, <2>1, <2>2, UnreadCatches DEF Unread, Passes, TellsFirst
<1>1. CASE JoinReads(m)
  BY <1>1, ElseCatches DEF JoinReads, browser, history, PagesSame
<1>2. CASE JoinCommits(m)
  <2>1. UNCHANGED <<answers, page, doubt>>
    BY <1>2 DEF JoinCommits
  <2>2. CASE UNCHANGED <<groups, members, inbox, job>>
    BY <2>1, <2>2, ElseCatches DEF PagesSame
  <2>3. CASE Tell(Admins) /\ job' = Overtaken(Ids)
    <3>1. \A b \in Admins : SameWork(b)
      BY <2>3, OvertakenJobs DEF SameWork
    <3> QED BY <1>a, <2>1, <2>3, <3>1
  <2> QED BY <1>2, <2>2, <2>3 DEF JoinCommits
<1>3. CASE Leave(m)
  <2>1. Tell(Admins) /\ UNCHANGED <<answers, page, doubt, job>>
    BY <1>3 DEF Leave, browser, history
  <2>2. \A b \in Admins : SameWork(b)
    BY <2>1 DEF SameWork
  <2> QED BY <1>a, <2>1, <2>2
<1> QED BY <1>1, <1>2, <1>3

LEMMA CatchInvariant == Spec => []CatchInv
<1>1. Init => CatchInv
  <2> SUFFICES ASSUME Init PROVE CatchInv
    OBVIOUS
  <2>1. \A a \in Admins : answers[a] = {} /\ page[a].view = Shown /\ job[a].phase = "idle"
    BY DEF Init, Idle
  <2> QED BY <2>1 DEF CatchInv, ReadingsCurrent, PagesCurrent, SilenceKnown, OwnIsAwaited, Silent
<1>2. TypeOK /\ CatchInv /\ [Next]_vars => CatchInv'
  <2> SUFFICES ASSUME TypeOK, CatchInv, [Next]_vars PROVE CatchInv'
    OBVIOUS
  <2>1. CASE UNCHANGED vars
    BY <2>1, ElseCatches DEF vars, server, browser, history, PagesSame
  <2>2. CASE Next
    BY <2>2, LookCatches, SendCatches, HandleCatches, HearCatches, VerdictCatches, MemberCatches DEF Next
  <2> QED BY <2>1, <2>2
<1> QED BY <1>1, <1>2, TypeCorrect, PTL DEF Spec

(* A tab nothing is on its way to shows the groups as they are, when no    *)
(* handler is at work and its last reading was not overtaken: every commit *)
(* is told of after it, or was before, which is remembered.                *)
THEOREM CaughtUp == Spec => []PagesCatchUp
<1>1. CatchInv => PagesCatchUp
  <2> SUFFICES ASSUME CatchInv, \A b \in Admins : job[b].phase \notin {"sent", "held", "fill"},
                      NEW a \in Admins, ~Waiting(a), a \notin inbox, answers[a] = {}, ~doubt[a]
               PROVE  page[a].view = Shown
    BY DEF PagesCatchUp
  <2>1. ~Pending(a)
    BY DEF Pending, Told, Fillable, Waiting
  <2> QED BY <2>1 DEF CatchInv, PagesCurrent
<1> QED BY <1>1, CatchInvariant, PTL

-------------------------------------------------------------------------------
(* Groups that have everyone.  Whom such a group lacks a filling under way *)
(* has read; whoever joins has read the group, or is known to have missed  *)
(* it; a removal from it is known to be late; the update of a group of a   *)
(* service that was not overtaken adds whom it lacks.                      *)
Filling(i, m) == \E a \in Admins : job[a].phase = "fill" /\ job[a].id = i /\ m \in job[a].missing
HoldsOrFills ==
  \A i \in Provisioned \ disturbed : \A m \in members : groups[i].rows[m] > 0 \/ Filling(i, m)
JoinersKnow ==
  \A m \in Members : joins[m].on => Provisioned \subseteq joins[m].auto \union joins[m].missed
RemovalsMarked == \A a \in Admins : Removes(job[a]) /\ Removes(page[a].dialog)
Covers(j) ==
  j.op = "update" /\ j.phase = "held" =>
    /\ j.id \in Ids /\ groups[j.id].at # "none"
    /\ j.id \in Here /\ j.auto /\ ~j.late => \A m \in members : groups[j.id].rows[m] > 0 \/ m \in j.missing
UpdatesCover == \A a \in Admins : Covers(job[a])
HoldInv == HoldsOrFills /\ JoinersKnow /\ RemovalsMarked /\ UpdatesCover

(* A step that changes no row and fills nothing.                           *)
LEMMA QuietHolds ==
  ASSUME HoldInv, UNCHANGED <<groups, members, joins, disturbed>>,
         \A b \in Admins : \/ job'[b] = job[b]
                           \/ job[b].phase # "fill" /\ Removes(job'[b]) /\ Covers(job'[b]),
         \A b \in Admins : page'[b].dialog = page[b].dialog \/ Removes(page'[b].dialog)
  PROVE  HoldInv'
<1>1. Here' = Here /\ Provisioned' = Provisioned
  BY DEF Here, Provisioned
<1>2. HoldsOrFills'
  <2> SUFFICES ASSUME NEW i \in Provisioned \ disturbed, NEW m \in members
               PROVE groups[i].rows[m] > 0 \/ Filling(i, m)'
    BY <1>1 DEF HoldsOrFills
  <2> QED BY DEF HoldInv, HoldsOrFills, Filling
<1>3. JoinersKnow'
  BY <1>1 DEF HoldInv, JoinersKnow
<1>4. RemovalsMarked'
  BY <1>1 DEF HoldInv, RemovalsMarked, Removes
<1>5. UpdatesCover'
  <2> SUFFICES ASSUME NEW b \in Admins PROVE Covers(job[b])'
    BY DEF UpdatesCover
  <2>1. Covers(job'[b])
    BY DEF HoldInv, UpdatesCover
  <2> QED BY <1>1, <2>1 DEF Covers
<1> QED BY <1>2, <1>3, <1>4, <1>5 DEF HoldInv

(* A step that changes rows, and begins no group that has everyone.  Who   *)
(* was in a group stays in it, or the group is known to be disturbed and   *)
(* the updates under way to be overtaken; a filling that ends has filled.  *)
KeepsRow(i, m) == groups'[i].rows[m] > 0 \/ (m \in members /\ ~(groups[i].rows[m] > 0))
BeginsNothing ==
  \A i \in Ids : /\ groups'[i].auto = groups[i].auto
                 /\ groups'[i].at = groups[i].at \/ (groups[i].at = "here" /\ groups'[i].at = "gone")
MovesOrEnds(b) ==
  /\ job'[b].op = job[b].op /\ job'[b].id = job[b].id /\ job'[b].auto = job[b].auto
  /\ job'[b].missing = job[b].missing /\ (job[b].late => job'[b].late)
  /\ job'[b].phase = job[b].phase \/ job'[b].phase \in {"done", "lost"}
EndsFilled(b) ==
  job[b].phase = "fill" /\ job'[b].phase # "fill" =>
    job[b].id \in disturbed' \/ \A m \in job[b].missing : groups'[job[b].id].rows[m] > 0

LEMMA RowsHold ==
  ASSUME TypeOK, HoldInv, BeginsNothing, UNCHANGED page, disturbed \subseteq disturbed',
         \A m \in Members : joins'[m] = joins[m] \/ ~joins'[m].on,
         \A b \in Admins : MovesOrEnds(b) /\ EndsFilled(b),
         \A i \in Provisioned' \ disturbed', m \in members' : KeepsRow(i, m),
         \A i \in Here', m \in members', b \in Admins :
           KeepsRow(i, m) \/ (job[b].op = "update" /\ job[b].phase = "held" /\ job[b].id = i => job'[b].late)
  PROVE  HoldInv'
<1>1. Here' \subseteq Here /\ Provisioned' \subseteq Provisioned
  BY DEF BeginsNothing, Here, Provisioned
<1>2. HoldsOrFills'
  <2> SUFFICES ASSUME NEW i \in Provisioned' \ disturbed', NEW m \in members', ~(groups'[i].rows[m] > 0)
               PROVE Filling(i, m)'
    BY DEF HoldsOrFills
  <2>1. m \in members /\ ~(groups[i].rows[m] > 0)
    BY DEF KeepsRow
  <2>2. PICK b \in Admins : job[b].phase = "fill" /\ job[b].id = i /\ m \in job[b].missing
    BY <1>1, <2>1 DEF HoldInv, HoldsOrFills, Filling
  <2>3. job'[b].phase = "fill"
    BY <2>2 DEF EndsFilled
  <2> QED BY <2>2, <2>3 DEF Filling, MovesOrEnds
<1>3. JoinersKnow'
  BY <1>1 DEF HoldInv, JoinersKnow
<1>4. RemovalsMarked'
  BY <1>1 DEF HoldInv, RemovalsMarked, Removes, MovesOrEnds
<1>5. UpdatesCover'
  <2> SUFFICES ASSUME NEW b \in Admins, job'[b].op = "update", job'[b].phase = "held"
               PROVE /\ job'[b].id \in Ids /\ groups'[job'[b].id].at # "none"
                     /\ job'[b].id \in Here' /\ job'[b].auto /\ ~job'[b].late =>
                          \A m \in members' : groups'[job'[b].id].rows[m] > 0 \/ m \in job'[b].missing
    BY DEF UpdatesCover, Covers
  <2>1. /\ job[b].op = "update" /\ job[b].phase = "held" /\ Covers(job[b])
        /\ job'[b].id = job[b].id /\ job'[b].auto = job[b].auto /\ job'[b].missing = job[b].missing
        /\ job[b].late => job'[b].late
    BY DEF MovesOrEnds, HoldInv, UpdatesCover
  <2>2. job[b].id \in Ids /\ groups[job[b].id].at # "none"
    BY <2>1 DEF Covers
  <2>3. groups'[job[b].id].at # "none"
    BY <2>2 DEF BeginsNothing
  <2>4. ASSUME job[b].id \in Here', job[b].auto, ~job'[b].late, NEW m \in members'
        PROVE groups'[job[b].id].rows[m] > 0 \/ m \in job[b].missing
    BY <1>1, <2>1, <2>4 DEF KeepsRow, Covers
  <2> QED BY <2>1, <2>2, <2>3, <2>4
<1> QED BY <1>2, <1>3, <1>4, <1>5 DEF HoldInv

(* A step that saves a group: who joins or asks for a removal is marked.   *)
LEMMA SavedHolds ==
  ASSUME TypeOK, HoldInv, NEW a \in Admins, NEW i \in Ids, NEW g \in Group, g.at = "here",
         NEW j \in Jobs, Saved(a, i, g, j), j.op # "remove", j.phase \in {"fill", "done"},
         job[a].phase # "fill", disturbed \subseteq disturbed',
         g.auto /\ i \notin disturbed' =>
           \A m \in members : g.rows[m] > 0 \/ (j.phase = "fill" /\ j.id = i /\ m \in j.missing),
         groups[i].at = "none" \/ (i \in Here /\ \A m \in Members : groups[i].rows[m] > 0 => g.rows[m] > 0)
  PROVE  HoldInv'
<1>1. /\ groups'[i] = g /\ members' = members
      /\ \A k \in Ids : k # i => groups'[k] = groups[k]
  BY DEF Saved, TypeOK
<1>2. /\ job'[a] = j
      /\ \A b \in Admins : b # a =>
           /\ SameWork(b)
           /\ Begins(i, g) /\ job[b].op = "remove" /\ job[b].id = i => job'[b].late
  BY SavedJobs
<1>3. \A k \in Provisioned' : k \in Provisioned \/ (k = i /\ Begins(i, g))
  BY <1>1 DEF Provisioned, Here, Begins
<1>4. HoldsOrFills'
  <2> SUFFICES ASSUME NEW k \in Provisioned' \ disturbed', NEW m \in members
               PROVE groups'[k].rows[m] > 0 \/ Filling(k, m)'
    BY <1>1 DEF HoldsOrFills
  <2>1. CASE k = i
    <3>1. g.auto
      BY <1>1, <2>1 DEF Provisioned
    <3> QED BY <1>1, <1>2, <2>1, <3>1 DEF Filling
  <2>2. CASE k # i
    <3>1. k \in Ids /\ groups'[k] = groups[k]
      BY <1>1, <2>2 DEF Provisioned, Here
    <3>2. groups[k].rows[m] > 0 \/ Filling(k, m)
      BY <1>3, <2>2 DEF HoldInv, HoldsOrFills
    <3>3. Filling(k, m) => Filling(k, m)'
      BY <1>2 DEF Filling, SameWork
    <3> QED BY <3>1, <3>2, <3>3
  <2> QED BY <2>1, <2>2
<1>5. JoinersKnow'
  <2> SUFFICES ASSUME NEW m \in Members, joins'[m].on, NEW k \in Provisioned'
               PROVE k \in joins'[m].auto \union joins'[m].missed
    BY DEF JoinersKnow
  <2> DEFINE missed == IF Begins(i, g) /\ joins[m].on THEN joins[m].missed \union {i} ELSE joins[m].missed
  <2>1. joins'[m] = [joins[m] EXCEPT !.missed = missed]
    BY DEF Saved
  <2>2. joins[m] \in [on : BOOLEAN, auto : SUBSET Ids, missed : SUBSET Ids]
    BY DEF TypeOK
  <2> HIDE DEF missed
  <2>3. joins'[m].on = joins[m].on /\ joins'[m].auto = joins[m].auto /\ joins'[m].missed = missed
    BY <2>1, <2>2
  <2>4. k \in joins[m].auto \/ k \in missed
    BY <1>3, <2>3 DEF HoldInv, JoinersKnow, missed
  <2> QED BY <2>3, <2>4
<1>6. RemovalsMarked'
  <2> SUFFICES ASSUME NEW b \in Admins PROVE Removes(job[b])' /\ Removes(page[b].dialog)'
    BY DEF RemovalsMarked
  <2>1. Removes(job[b]) /\ Removes(page[b].dialog)
    BY DEF HoldInv, RemovalsMarked
  <2>2. Removes(job[b])'
    <3>1. CASE b = a
      BY <1>2, <3>1 DEF Removes
    <3>2. CASE b # a
      BY <1>2, <1>3, <2>1, <3>2 DEF Removes, SameWork
    <3> QED BY <3>1, <3>2
  <2>3. Removes(page[b].dialog)'
    BY <1>3, <2>1, SavedPages DEF Removes
  <2> QED BY <2>2, <2>3
<1>7. UpdatesCover'
  <2> SUFFICES ASSUME NEW b \in Admins, job'[b].op = "update", job'[b].phase = "held"
               PROVE /\ job'[b].id \in Ids /\ groups'[job'[b].id].at # "none"
                     /\ job'[b].id \in Here' /\ job'[b].auto /\ ~job'[b].late =>
                          \A m \in members : groups'[job'[b].id].rows[m] > 0 \/ m \in job'[b].missing
    BY <1>1 DEF UpdatesCover, Covers
  <2>1. /\ job[b].op = "update" /\ job[b].phase = "held" /\ Covers(job[b])
        /\ job'[b].id = job[b].id /\ job'[b].auto = job[b].auto /\ job'[b].missing = job[b].missing
        /\ job[b].late => job'[b].late
    BY <1>2 DEF SameWork, HoldInv, UpdatesCover
  <2> DEFINE k == job[b].id
  <2>2. k \in Ids /\ groups[k].at # "none"
    BY <2>1 DEF Covers
  <2>3. CASE k = i
    <3>1. i \in Here /\ \A m \in Members : groups[i].rows[m] > 0 => g.rows[m] > 0
      BY <2>2, <2>3
    <3>2. members \subseteq Members
      BY DEF TypeOK
    <3> QED BY <1>1, <2>1, <2>2, <2>3, <3>1, <3>2 DEF Covers
  <2>4. CASE k # i
    <3>1. groups'[k] = groups[k] /\ (k \in Here' => k \in Here)
      BY <1>1, <2>2, <2>4 DEF Here
    <3> QED BY <2>1, <2>2, <3>1 DEF Covers
  <2> QED BY <2>3, <2>4
<1> QED BY <1>4, <1>5, <1>6, <1>7 DEF HoldInv

(* A request that moves on by one field.                                   *)
LEMMA MovesHolds ==
  ASSUME HoldInv, NEW a \in Admins, UNCHANGED <<groups, members, joins, disturbed, page>>,
         \A b \in Admins : b # a => job'[b] = job[b],
         job[a].phase # "fill", Removes(job'[a]), Covers(job'[a])
  PROVE  HoldInv'
BY QuietHolds

LEMMA RefusedHolds ==
  ASSUME TypeOK, HoldInv, NEW a \in Admins, job[a].phase # "fill", Refused(a)
  PROVE  HoldInv'
<1>1. /\ \A b \in Admins : b # a => job'[b] = job[b]
      /\ job'[a].op = job[a].op /\ job'[a].id = job[a].id /\ job'[a].late = job[a].late
      /\ job'[a].phase = "lost"
  BY BecomesAlone DEF Refused
<1>2. Removes(job'[a]) /\ Covers(job'[a])
  BY <1>1 DEF HoldInv, RemovalsMarked, Removes, Covers
<1> QED BY <1>1, <1>2, MovesHolds DEF Refused, server, history

(* Adding members to the rows of a group takes none out of it.             *)
LEMMA FilledKeeps ==
  ASSUME NEW rows \in [Members -> 0 .. 2], NEW ms
  PROVE  /\ \A m \in Members : rows[m] > 0 => Filled(rows, ms)[m] > 0
         /\ \A m \in Members \cap ms : Filled(rows, ms)[m] > 0
BY DEF Filled

LEMMA CommitsHolds ==
  ASSUME TypeOK, HoldInv, NEW a \in Admins, NEW i \in Ids, NEW g \in Group, g.at = "here",
         job[a].op # "remove", job[a].phase # "fill", Commits(a, i, g),
         groups[i].at = "none" \/ (i \in Here /\ g.rows = groups[i].rows)
  PROVE  HoldInv'
<1> DEFINE j == Started(a, i, g)
<1>1. Saved(a, i, g, j) /\ UNCHANGED disturbed
  BY DEF Commits, Started
<1>2. /\ j \in Jobs /\ j.id = i /\ j.missing = Missing(g) /\ j.op = job[a].op
      /\ j.phase = IF g.auto THEN "fill" ELSE "done"
  BY StartedType
<1> HIDE DEF j
<1>3. g.auto => \A m \in members : g.rows[m] > 0 \/ (j.phase = "fill" /\ j.id = i /\ m \in j.missing)
  <2> SUFFICES ASSUME g.auto, NEW m \in members, g.rows[m] # 0 PROVE g.rows[m] > 0
    BY <1>2 DEF Missing
  <2> QED BY DEF TypeOK, Group
<1> QED BY <1>1, <1>2, <1>3, SavedHolds

(* A step that adds members to the rows of one group.                      *)
LEMMA FillingHolds ==
  ASSUME TypeOK, HoldInv, NEW a \in Admins, NEW i \in Ids, NEW ms,
         groups' = [groups EXCEPT ![i].rows = Filled(@, ms)], Becomes(a, "done"),
         job[a].phase = "fill" => job[a].id = i /\ job[a].missing \subseteq ms,
         UNCHANGED <<members, joins, page, disturbed>>
  PROVE  HoldInv'
<1>0. \A k \in Ids : groups[k] \in Group
  BY DEF TypeOK
<1>1. /\ \A k \in Ids : groups'[k].at = groups[k].at /\ groups'[k].auto = groups[k].auto
      /\ groups'[i].rows = Filled(groups[i].rows, ms)
      /\ \A k \in Ids : k # i => groups'[k].rows = groups[k].rows
  BY <1>0 DEF TypeOK, Group
<1>2. \A m \in Members : /\ groups[i].rows[m] > 0 => groups'[i].rows[m] > 0
                         /\ m \in ms => groups'[i].rows[m] > 0
  BY <1>0, <1>1, FilledKeeps DEF Group
<1>3. BeginsNothing
  BY <1>1 DEF BeginsNothing
<1>4. ASSUME NEW b \in Admins PROVE MovesOrEnds(b) /\ EndsFilled(b)
  <2>1. MovesOrEnds(b)
    BY BecomesAlone DEF MovesOrEnds
  <2>2. EndsFilled(b)
    <3>1. job[a].missing \subseteq Members
      BY DEF TypeOK, Jobs
    <3> QED BY <1>2, <3>1, BecomesAlone DEF EndsFilled
  <2> QED BY <2>1, <2>2
<1>5. ASSUME NEW k \in Ids, NEW m \in members PROVE KeepsRow(k, m)
  <2>1. m \in Members
    BY DEF TypeOK
  <2> QED BY <1>1, <1>2, <2>1 DEF KeepsRow
<1>6. Here' \subseteq Ids /\ Provisioned' \subseteq Ids
  BY DEF Here, Provisioned
<1> QED BY <1>3, <1>4, <1>5, <1>6, RowsHold

LEMMA SendHolds == ASSUME TypeOK, HoldInv, NEW a \in Admins, Send(a) PROVE HoldInv'
<1>1. /\ UNCHANGED <<groups, members, joins, disturbed>>
      /\ \A b \in Admins : b # a => job'[b] = job[b] /\ page'[b] = page[b]
  BY SendAlone DEF server, history
<1>2. job[a].phase = "idle" /\ job'[a].phase = "sent" /\ page'[a].dialog = NoDialog
  BY SendAlone
<1>3. Removes(job'[a])
  BY SendAlone DEF HoldInv, RemovalsMarked, Removes
<1>4. Covers(job'[a]) /\ Removes(page'[a].dialog)
  BY <1>2 DEF Covers, Removes, NoDialog
<1> QED BY <1>1, <1>2, <1>3, <1>4, QuietHolds

LEMMA DeleteHolds == ASSUME TypeOK, HoldInv, NEW a \in Admins, DeleteCommits(a) PROVE HoldInv'
<1>0. \A i \in Ids : groups[i] \in Group
  BY DEF TypeOK
<1>1. /\ job[a].op = "delete" /\ job[a].phase = "held"
      /\ UNCHANGED <<members, joins, page, disturbed>>
  BY DEF DeleteCommits, Handles, history
<1>2. CASE job[a].id \in Here /\ Becomes(a, "done")
           /\ groups' = [groups EXCEPT ![job[a].id].at = "gone",
                                       ![job[a].id].rows = [m \in Members |-> 0]]
  <2> DEFINE i == job[a].id
  <2>1. /\ i \in Ids /\ groups[i].at = "here" /\ groups'[i].at = "gone" /\ groups'[i].auto = groups[i].auto
        /\ \A k \in Ids : k # i => groups'[k] = groups[k]
    BY <1>0, <1>2 DEF Here, TypeOK, Group
  <2>2. BeginsNothing
    BY <2>1 DEF BeginsNothing
  <2>3. \A b \in Admins : MovesOrEnds(b) /\ EndsFilled(b)
    BY <1>1, <1>2, BecomesAlone DEF MovesOrEnds, EndsFilled
  <2>4. ASSUME NEW k \in Here', NEW m \in members PROVE KeepsRow(k, m)
    <3>1. k \in Ids /\ k # i
      BY <2>1 DEF Here
    <3> QED BY <2>1, <3>1 DEF KeepsRow
  <2>5. Provisioned' \subseteq Here'
    BY DEF Provisioned
  <2> QED BY <1>1, <2>2, <2>3, <2>4, <2>5, RowsHold
<1>3. CASE (Becomes(a, "done") \/ Becomes(a, "lost")) /\ UNCHANGED groups
  <2>1. /\ \A b \in Admins : b # a => job'[b] = job[b]
        /\ job'[a].op = "delete"
    BY <1>1, <1>3, BecomesAlone
  <2>2. Removes(job'[a]) /\ Covers(job'[a])
    BY <2>1 DEF Removes, Covers
  <2> QED BY <1>1, <1>3, <2>1, <2>2, MovesHolds
<1> QED BY <1>2, <1>3 DEF DeleteCommits

(* A removal from a group that fills itself was marked, and disturbs it.   *)
LEMMA RemoveHolds == ASSUME TypeOK, HoldInv, NEW a \in Admins, RemoveCommits(a) PROVE HoldInv'
<1>0. \A i \in Ids : groups[i] \in Group
  BY DEF TypeOK
<1>1. job[a].op = "remove" /\ job[a].phase = "held"
  BY DEF RemoveCommits, Handles
<1>2. CASE Refused(a)
  BY <1>1, <1>2, RefusedHolds
<1> DEFINE i == job[a].id
           o == Overtaken({i})
           n == IF i \in Here THEN groups[i].rows[job[a].m] ELSE 0
<1>3. CASE /\ n > 0
           /\ groups' = [groups EXCEPT ![i].rows[job[a].m] = 0]
           /\ job' = [o EXCEPT ![a].phase = "done"]
           /\ disturbed' = (IF job[a].late THEN disturbed \union {i} ELSE disturbed)
           /\ UNCHANGED <<members, joins, page>>
  <2>1. i \in Ids
    BY <1>3 DEF Here
  <2>2. /\ \A k \in Ids : groups'[k].at = groups[k].at /\ groups'[k].auto = groups[k].auto
        /\ \A k \in Ids : k # i => groups'[k].rows = groups[k].rows
    <3> DEFINE g == [groups[i] EXCEPT !.rows[job[a].m] = 0]
    <3>1. g.at = groups[i].at /\ g.auto = groups[i].auto
      BY <1>0, <2>1 DEF Group
    <3>2. groups' = [groups EXCEPT ![i] = g]
      BY <1>3
    <3> HIDE DEF g
    <3> QED BY <3>1, <3>2 DEF TypeOK
  <2>3. \A b \in Admins : /\ o[b] \in Jobs
                          /\ o[b].op = job[b].op /\ o[b].phase = job[b].phase /\ o[b].id = job[b].id
                          /\ o[b].auto = job[b].auto /\ o[b].missing = job[b].missing
                          /\ job[b].late => o[b].late
                          /\ job[b].op = "update" /\ job[b].phase = "held" /\ job[b].id = i => o[b].late
    BY OvertakenJobs
  <2>4. o \in [Admins -> Jobs] /\ job' = [o EXCEPT ![a].phase = "done"]
    BY <1>3, OvertakenType
  <2> HIDE DEF o
  <2>5. job'[a] = [o[a] EXCEPT !.phase = "done"] /\ \A b \in Admins : b # a => job'[b] = o[b]
    BY <2>4
  <2>6. ASSUME NEW b \in Admins
        PROVE  /\ MovesOrEnds(b) /\ EndsFilled(b)
               /\ job[b].op = "update" /\ job[b].phase = "held" /\ job[b].id = i => job'[b].late
    <3>1. CASE b = a
      BY <1>1, <2>3, <2>5, <3>1 DEF MovesOrEnds, EndsFilled, Jobs
    <3>2. CASE b # a
      BY <2>3, <2>5, <3>2 DEF MovesOrEnds, EndsFilled
    <3> QED BY <3>1, <3>2
  <2>7. BeginsNothing
    BY <2>2 DEF BeginsNothing
  <2>8. Here' \subseteq Ids /\ Provisioned' \subseteq Ids /\ (i \in Provisioned' => i \in Provisioned)
    BY <2>2 DEF Here, Provisioned
  <2>9. i \in Provisioned' => i \in disturbed'
    BY <1>1, <1>3, <2>8 DEF HoldInv, RemovalsMarked, Removes
  <2>10. ASSUME NEW k \in Ids, k # i, NEW m \in members PROVE KeepsRow(k, m)
    BY <2>2, <2>10 DEF KeepsRow
  <2>11. disturbed \subseteq disturbed' /\ UNCHANGED <<members, joins, page>>
    BY <1>3
  <2> HIDE DEF i
  <2> QED BY <2>6, <2>7, <2>8, <2>9, <2>10, <2>11, RowsHold
<1> QED BY <1>2, <1>3 DEF RemoveCommits

LEMMA UpdateHolds == ASSUME TypeOK, HoldInv, NEW a \in Admins, UpdateCommits(a) PROVE HoldInv'
<1>0. job[a] \in Jobs /\ \A i \in Ids : groups[i] \in Group
  BY DEF TypeOK
<1>1. job[a].op = "update" /\ job[a].phase = "held"
  BY DEF UpdateCommits, Handles
<1>2. CASE Refused(a)
  BY <1>1, <1>2, RefusedHolds
<1> DEFINE i == job[a].id
           rows == Filled(groups[i].rows, job[a].missing)
           g == [groups[i] EXCEPT !.auto = job[a].auto, !.rows = rows]
           j == [job[a] EXCEPT !.phase = "done"]
<1>3. CASE /\ i \in Here /\ Saved(a, i, g, j)
           /\ disturbed' = (IF job[a].late THEN disturbed \union {i} ELSE disturbed)
  <2>1. i \in Ids /\ groups[i] \in Group /\ groups[i].at = "here" /\ job[a].auto \in BOOLEAN
        /\ groups[i].rows \in [Members -> 0 .. 2]
    BY <1>0, <1>3 DEF Here, Jobs, Group
  <2>2. j \in Jobs /\ j.phase = "done" /\ j.op = "update"
    BY <1>0, <1>1 DEF Jobs
  <2>3. /\ rows \in [Members -> 0 .. 2]
        /\ \A m \in Members : groups[i].rows[m] > 0 => rows[m] > 0
        /\ \A m \in Members \cap job[a].missing : rows[m] > 0
    BY <2>1, FilledType, FilledKeeps
  <2>4. g \in Group /\ g.at = "here" /\ g.auto = job[a].auto /\ g.rows = rows
    <3> HIDE DEF rows, i
    <3> QED BY <2>1, <2>3 DEF Group
  <2>5. Saved(a, i, g, j)
    BY <1>3
  <2>6. g.auto /\ i \notin disturbed' => \A m \in members : rows[m] > 0
    <3> SUFFICES ASSUME job[a].auto, ~job[a].late, NEW m \in members PROVE rows[m] > 0
      BY <1>3, <2>4
    <3>1. groups[i].rows[m] > 0 \/ m \in job[a].missing
      BY <1>1, <1>3 DEF HoldInv, UpdatesCover, Covers
    <3>2. m \in Members
      BY DEF TypeOK
    <3> QED BY <2>3, <3>1, <3>2
  <2>7. disturbed \subseteq disturbed' /\ i \in Here
    BY <1>3
  <2> HIDE DEF g, j, rows, i
  <2> QED BY <1>1, <2>1, <2>2, <2>3, <2>4, <2>5, <2>6, <2>7, SavedHolds
<1> QED BY <1>2, <1>3 DEF UpdateCommits

LEMMA HandleHolds == ASSUME TypeOK, HoldInv, NEW a \in Admins, Handle(a) PROVE HoldInv'
<1>0. job[a] \in Jobs /\ \A i \in Ids : groups[i] \in Group
  BY DEF TypeOK
<1>a. ASSUME NEW phase \in {"held", "done"}, Becomes(a, phase), job[a].phase = "sent", job[a].op # "update",
             UNCHANGED <<groups, members, joins, disturbed, page>>
      PROVE HoldInv'
  <2>1. /\ \A b \in Admins : b # a => job'[b] = job[b]
        /\ job'[a].op = job[a].op /\ job'[a].id = job[a].id /\ job'[a].late = job[a].late
    BY <1>a, BecomesAlone
  <2>2. Removes(job'[a]) /\ Covers(job'[a])
    BY <1>a, <2>1 DEF HoldInv, RemovalsMarked, Removes, Covers
  <2> QED BY <1>a, <2>1, <2>2, MovesHolds
<1>1. CASE CreateReads(a)
  <2>1. /\ job[a].phase = "sent" /\ job[a].op = "create"
        /\ UNCHANGED <<groups, members, joins, disturbed, page>>
    BY <1>1 DEF CreateReads, Handles, server, history
  <2>2. CASE Becomes(a, "done")
    BY <1>a, <2>1, <2>2
  <2>3. CASE job' = [job EXCEPT ![a].phase = "held", ![a].clean = TRUE]
    <3>1. /\ \A b \in Admins : b # a => job'[b] = job[b]
          /\ job'[a].op = "create"
      BY <1>0, <2>1, <2>3 DEF TypeOK, Jobs
    <3>2. Removes(job'[a]) /\ Covers(job'[a])
      BY <3>1 DEF Removes, Covers
    <3> QED BY <2>1, <3>1, <3>2, MovesHolds
  <2> QED BY <1>1, <2>2, <2>3 DEF CreateReads
<1>2. CASE CreateSaves(a)
  <2> DEFINE g == [at |-> "here", name |-> job[a].name, short |-> job[a].short, auto |-> job[a].auto,
                   rows |-> [m \in Members |-> 0], service |-> FALSE]
  <2>1. job[a].phase = "held" /\ job[a].op = "create"
    BY <1>2 DEF CreateSaves, Handles
  <2>2. CASE Refused(a)
    BY <2>1, <2>2, RefusedHolds
  <2>3. CASE \E i \in {k \in Ids : groups[k].at = "none"} : Commits(a, i, g)
    <3>1. PICK i \in {k \in Ids : groups[k].at = "none"} : Commits(a, i, g)
      BY <2>3
    <3>2. g \in Group /\ g.at = "here"
      BY <1>0 DEF Group, Jobs, OrNone
    <3> HIDE DEF g
    <3> QED BY <2>1, <3>1, <3>2, CommitsHolds
  <2> QED BY <1>2, <2>2, <2>3 DEF CreateSaves
<1>3. CASE Fills(a)
  <2>1. job[a].phase = "fill" /\ UNCHANGED <<members, joins, page>>
    BY <1>3 DEF Fills, Handles
  <2>2. CASE /\ job[a].id \in Here /\ Becomes(a, "done") /\ UNCHANGED disturbed
             /\ groups' = [groups EXCEPT ![job[a].id].rows = Filled(@, job[a].missing)]
    <3>1. job[a].id \in Ids
      BY <2>2 DEF Here
    <3> QED BY <2>1, <2>2, <3>1, FillingHolds
  <2>3. CASE Becomes(a, "lost") /\ disturbed' = disturbed \union {job[a].id} /\ UNCHANGED groups
    <3>1. BeginsNothing /\ \A i \in Ids, m \in members : KeepsRow(i, m)
      BY <2>3 DEF BeginsNothing, KeepsRow
    <3>2. \A b \in Admins : MovesOrEnds(b) /\ EndsFilled(b)
      BY <2>3, BecomesAlone DEF MovesOrEnds, EndsFilled
    <3>3. Here' \subseteq Ids /\ Provisioned' \subseteq Ids
      BY DEF Here, Provisioned
    <3> QED BY <2>1, <2>3, <3>1, <3>2, <3>3, RowsHold
  <2> QED BY <1>3, <2>2, <2>3 DEF Fills
<1>4. CASE UpdateSaves(a)
  <2>1. job[a].phase = "sent" /\ job[a].op = "update"
    BY <1>4 DEF UpdateSaves, Handles
  <2>2. CASE Refused(a)
    BY <2>1, <2>2, RefusedHolds
  <2>3. CASE job[a].id \in Here /\ Commits(a, job[a].id, Renamed(a))
    <3>1. job[a].id \in Ids /\ groups[job[a].id].at = "here"
      BY <2>3 DEF Here
    <3> QED BY <2>1, <2>3, <3>1, RenamedType, CommitsHolds
  <2> QED BY <1>4, <2>2, <2>3 DEF UpdateSaves, Renamed
<1>5. CASE UpdateReads(a)
  <2> DEFINE i == job[a].id
             g == [groups[i] EXCEPT !.auto = job[a].auto]
             ms == Missing(g)
  <2>1. /\ job[a].phase = "sent" /\ job[a].op = "update" /\ i \in Here
        /\ UNCHANGED <<groups, members, joins, disturbed, page>>
        /\ job' = [job EXCEPT ![a].phase = "held", ![a].late = FALSE, ![a].missing = ms]
    BY <1>5 DEF UpdateReads, Handles, server, history
  <2>2. i \in Ids /\ groups[i] \in Group /\ groups[i].at = "here"
    BY <1>0, <2>1 DEF Here
  <2>3. g.auto = job[a].auto /\ g.rows = groups[i].rows
    BY <1>0, <2>2 DEF Group
  <2>4. job[a].auto => \A m \in members : groups[i].rows[m] > 0 \/ m \in ms
    <3> SUFFICES ASSUME NEW m \in members, groups[i].rows[m] # 0 PROVE groups[i].rows[m] > 0
      BY <2>3 DEF Missing
    <3>1. m \in Members
      BY DEF TypeOK
    <3> HIDE DEF i
    <3> QED BY <2>2, <3>1 DEF Group
  <2> HIDE DEF ms, g
  <2>5. /\ \A b \in Admins : b # a => job'[b] = job[b]
        /\ job'[a].op = "update" /\ job'[a].id = i /\ job'[a].auto = job[a].auto /\ job'[a].missing = ms
    BY <1>0, <2>1 DEF TypeOK, Jobs
  <2>6. Covers(job'[a]) /\ Removes(job'[a])
    BY <2>2, <2>4, <2>5 DEF Covers, Removes
  <2> QED BY <2>1, <2>5, <2>6, MovesHolds
<1>6. CASE UpdateCommits(a)
  BY <1>6, UpdateHolds
<1>7. CASE DeleteTells(a)
  <2>1. job[a].phase = "sent" /\ job[a].op = "delete"
    BY <1>7 DEF DeleteTells, Handles
  <2>2. CASE Refused(a)
    BY <2>1, <2>2, RefusedHolds
  <2>3. CASE Becomes(a, "held") /\ UNCHANGED <<server, page, history>>
    BY <1>a, <2>1, <2>3 DEF server, history
  <2> QED BY <1>7, <2>2, <2>3 DEF DeleteTells
<1>8. CASE DeleteCommits(a)
  BY <1>8, DeleteHolds
<1>9. CASE AddReads(a)
  <2>1. job[a].phase = "sent" /\ job[a].op = "add"
    BY <1>9 DEF AddReads, Handles
  <2>2. CASE Refused(a)
    BY <2>1, <2>2, RefusedHolds
  <2> DEFINE ms == IF groups[job[a].id].rows[job[a].m] = 0 THEN {job[a].m} ELSE {}
  <2>3. CASE /\ job' = [job EXCEPT ![a].phase = "held", ![a].missing = ms]
             /\ UNCHANGED <<server, page, history>>
    <3> HIDE DEF ms
    <3>1. /\ \A b \in Admins : b # a => job'[b] = job[b]
          /\ job'[a].op = "add"
      BY <1>0, <2>1, <2>3 DEF TypeOK, Jobs
    <3>2. Removes(job'[a]) /\ Covers(job'[a])
      BY <3>1 DEF Removes, Covers
    <3> QED BY <2>1, <2>3, <3>1, <3>2, MovesHolds DEF server, history
  <2> QED BY <1>9, <2>2, <2>3 DEF AddReads
<1>10. CASE AddCommits(a)
  <2>1. job[a].phase = "held"
    BY <1>10 DEF AddCommits, Handles
  <2>2. CASE Refused(a)
    BY <2>1, <2>2, RefusedHolds
  <2>3. CASE /\ job[a].id \in Here /\ Becomes(a, "done")
             /\ groups' = [groups EXCEPT ![job[a].id].rows = Filled(@, job[a].missing)]
             /\ UNCHANGED <<members, joins, page, history>>
    <3>1. job[a].id \in Ids
      BY <2>3 DEF Here
    <3> QED BY <2>1, <2>3, <3>1, FillingHolds DEF history
  <2> QED BY <1>10, <2>2, <2>3 DEF AddCommits
<1>11. CASE RemoveReads(a)
  <2>1. job[a].phase = "sent" /\ job[a].op = "remove"
    BY <1>11 DEF RemoveReads, Handles
  <2>2. CASE Refused(a)
    BY <2>1, <2>2, RefusedHolds
  <2>3. CASE Held(a)
    BY <1>a, <2>1, <2>3 DEF Held, server, history
  <2> QED BY <1>11, <2>2, <2>3 DEF RemoveReads
<1>12. CASE RemoveCommits(a)
  BY <1>12, RemoveHolds
<1> QED
  BY <1>1, <1>2, <1>3, <1>4, <1>5, <1>6, <1>7, <1>8, <1>9, <1>10, <1>11, <1>12 DEF Handle

LEMMA HearHolds == ASSUME TypeOK, OwnIsAwaited, HoldInv, NEW a \in Admins, Hear(a) PROVE HoldInv'
<1>1. CASE HearAnswer(a)
  <2>1. /\ job[a].phase = "done" /\ Becomes(a, "reading")
        /\ UNCHANGED <<groups, members, joins, disturbed, page>>
    BY <1>1 DEF HearAnswer, Reads, server, history
  <2>2. /\ \A b \in Admins : b # a => job'[b] = job[b]
        /\ job'[a].op = job[a].op /\ job'[a].id = job[a].id /\ job'[a].late = job[a].late
        /\ job'[a].phase = "reading"
    BY <2>1, BecomesAlone
  <2>3. Removes(job'[a]) /\ Covers(job'[a])
    BY <2>2 DEF HoldInv, RemovalsMarked, Removes, Covers
  <2> QED BY <2>1, <2>2, <2>3, MovesHolds
<1>2. CASE HearSocket(a)
  BY <1>2, QuietHolds DEF HearSocket, Reads, server, history
<1>3. ASSUME NEW r \in answers[a], HearPage(a, r) PROVE HoldInv'
  <2> DEFINE p == [page[a] EXCEPT !.view = r.view]
  <2>0. page[a] \in Pages
    BY DEF TypeOK
  <2>1. p.dialog = page[a].dialog /\ Leads(a, p).dialog = page[a].dialog
    BY <2>0 DEF Pages, Leads
  <2>2. page' = [page EXCEPT ![a] = p] \/ page' = [page EXCEPT ![a] = Leads(a, p)]
    BY <1>3 DEF HearPage
  <2> DEFINE q == Leads(a, p)
  <2> HIDE DEF p, q
  <2>3. \A b \in Admins : page'[b].dialog = page[b].dialog
    BY <2>1, <2>2 DEF TypeOK
  <2>4. UNCHANGED job \/ (r.own /\ job' = [job EXCEPT ![a] = Idle])
    BY <1>3 DEF HearPage
  <2>5. Removes(Idle) /\ Covers(Idle)
    BY DEF Removes, Covers, Idle
  <2>6. UNCHANGED <<groups, members, joins, disturbed>>
    BY <1>3 DEF HearPage, server
  <2>7. \A b \in Admins : job'[b] = job[b] \/ (job[b].phase # "fill" /\ Removes(job'[b]) /\ Covers(job'[b]))
    BY <1>3, <2>4, <2>5 DEF TypeOK, OwnIsAwaited
  <2> QED BY <2>3, <2>6, <2>7, QuietHolds
<1> QED BY <1>1, <1>2, <1>3 DEF Hear

LEMMA MemberHolds ==
  ASSUME TypeOK, HoldInv, NEW m \in Members, JoinReads(m) \/ JoinCommits(m) \/ Leave(m) PROVE HoldInv'
<1>0. \A i \in Ids : groups[i] \in Group /\ groups[i].rows \in [Members -> 0 .. 2]
  BY DEF TypeOK, Group
<1>s. Here' \subseteq Ids /\ Provisioned' \subseteq Ids
  BY DEF Here, Provisioned
<1>1. CASE JoinReads(m)
  <2>1. /\ joins' = [joins EXCEPT ![m] = [on |-> TRUE, auto |-> Provisioned, missed |-> {}]]
        /\ UNCHANGED <<groups, members, disturbed, job, page>>
    BY <1>1 DEF JoinReads, browser, history
  <2>2. Here' = Here /\ Provisioned' = Provisioned
    BY <2>1 DEF Here, Provisioned
  <2>3. JoinersKnow'
    BY <2>1, <2>2 DEF HoldInv, JoinersKnow, TypeOK
  <2>4. HoldsOrFills'
    BY <2>1, <2>2 DEF HoldInv, HoldsOrFills, Filling
  <2>5. RemovalsMarked' /\ UpdatesCover'
    BY <2>1, <2>2 DEF HoldInv, RemovalsMarked, Removes, UpdatesCover, Covers
  <2> QED BY <2>3, <2>4, <2>5 DEF HoldInv
<1>2. CASE JoinCommits(m)
  <2>1. /\ joins[m].on /\ joins' = [joins EXCEPT ![m] = NotJoining] /\ UNCHANGED page
    BY <1>2 DEF JoinCommits
  <2>2. \A n \in Members : joins'[n] = joins[n] \/ ~joins'[n].on
    BY <2>1 DEF TypeOK, NotJoining
  <2>3. CASE UNCHANGED <<groups, members, job, disturbed>>
    <3>1. BeginsNothing /\ \A i \in Ids, n \in members : KeepsRow(i, n)
      BY <2>3 DEF BeginsNothing, KeepsRow
    <3>2. \A b \in Admins : MovesOrEnds(b) /\ EndsFilled(b)
      BY <2>3 DEF MovesOrEnds, EndsFilled
    <3> QED BY <1>s, <2>1, <2>2, <2>3, <3>1, <3>2, RowsHold
  <2>4. CASE /\ members' = members \union {m} /\ job' = Overtaken(Ids)
             /\ groups' = [i \in Ids |-> IF i \in joins[m].auto THEN [groups[i] EXCEPT !.rows[m] = 1] ELSE groups[i]]
             /\ disturbed' = disturbed \union joins[m].missed
    <3>1. ASSUME NEW i \in Ids
          PROVE  /\ groups'[i].at = groups[i].at /\ groups'[i].auto = groups[i].auto
                 /\ \A n \in Members : n # m => groups'[i].rows[n] = groups[i].rows[n]
                 /\ i \in joins[m].auto => groups'[i].rows[m] = 1
      <4> DEFINE r == [groups[i].rows EXCEPT ![m] = 1]
                 g == [groups[i] EXCEPT !.rows = r]
      <4>1. r[m] = 1 /\ \A n \in Members : n # m => r[n] = groups[i].rows[n]
        BY <1>0
      <4>2. groups'[i] = IF i \in joins[m].auto THEN g ELSE groups[i]
        BY <2>4
      <4> HIDE DEF r
      <4>3. g.at = groups[i].at /\ g.auto = groups[i].auto /\ g.rows = r
        BY <1>0 DEF Group
      <4> HIDE DEF g
      <4> QED BY <4>1, <4>2, <4>3
    <3>2. BeginsNothing /\ Provisioned' = Provisioned
      BY <3>1 DEF BeginsNothing, Provisioned, Here
    <3>3. ASSUME NEW b \in Admins
          PROVE  /\ MovesOrEnds(b) /\ EndsFilled(b)
                 /\ job[b].op = "update" /\ job[b].phase = "held" /\ job[b].id \in Ids => job'[b].late
      BY <2>4, OvertakenJobs DEF MovesOrEnds, EndsFilled
    <3>4. ASSUME NEW i \in Provisioned' \ disturbed', NEW n \in members' PROVE KeepsRow(i, n)
      <4>1. i \in Ids /\ i \in joins[m].auto
        BY <1>s, <2>1, <2>4, <3>2, <3>4 DEF HoldInv, JoinersKnow
      <4>2. n = m \/ (n \in members /\ n \in Members /\ n # m)
        BY <2>4 DEF TypeOK
      <4>3. CASE n = m
        BY <3>1, <4>1, <4>3 DEF KeepsRow
      <4>4. CASE n \in members /\ n \in Members /\ n # m
        BY <3>1, <4>1, <4>4 DEF KeepsRow
      <4> QED BY <4>2, <4>3, <4>4
    <3> QED BY <1>s, <2>1, <2>2, <2>4, <3>2, <3>3, <3>4, RowsHold
  <2> QED BY <1>2, <2>3, <2>4 DEF JoinCommits
<1>3. CASE Leave(m)
  <2>1. /\ members' = members \ {m} /\ groups' = [i \in Ids |-> [groups[i] EXCEPT !.rows[m] = 0]]
        /\ UNCHANGED <<joins, job, page, disturbed>>
    BY <1>3 DEF Leave, browser, history
  <2>2. ASSUME NEW i \in Ids
        PROVE  /\ groups'[i].at = groups[i].at /\ groups'[i].auto = groups[i].auto
               /\ \A n \in Members : n # m => groups'[i].rows[n] = groups[i].rows[n]
    <3> DEFINE r == [groups[i].rows EXCEPT ![m] = 0]
               g == [groups[i] EXCEPT !.rows = r]
    <3>1. \A n \in Members : n # m => r[n] = groups[i].rows[n]
      BY <1>0
    <3>2. groups'[i] = g
      BY <2>1
    <3> HIDE DEF r
    <3>3. g.at = groups[i].at /\ g.auto = groups[i].auto /\ g.rows = r
      BY <1>0 DEF Group
    <3> HIDE DEF g
    <3> QED BY <3>1, <3>2, <3>3
  <2>3. BeginsNothing
    BY <2>2 DEF BeginsNothing
  <2>4. ASSUME NEW b \in Admins PROVE MovesOrEnds(b) /\ EndsFilled(b)
    BY <2>1 DEF MovesOrEnds, EndsFilled
  <2>5. ASSUME NEW i \in Ids, NEW n \in members' PROVE KeepsRow(i, n)
    BY <2>1, <2>2 DEF KeepsRow, TypeOK
  <2> QED BY <1>s, <2>1, <2>3, <2>4, <2>5, RowsHold
<1> QED BY <1>1, <1>2, <1>3

(* When no handler works on it, a group that has all members has them all, *)
(* unless something is known to have overlapped its filling.               *)
THEOREM EveryoneIsIn == Spec => []AutoGroupsHoldEveryone
<1>1. Init => HoldInv
  <2> SUFFICES ASSUME Init PROVE HoldInv
    OBVIOUS
  <2>1. \A a \in Admins : job[a] = Idle /\ page[a].dialog = NoDialog
    BY DEF Init
  <2>2. RemovalsMarked /\ UpdatesCover
    BY <2>1 DEF RemovalsMarked, UpdatesCover, Removes, Covers, Idle, NoDialog
  <2>3. JoinersKnow
    BY DEF Init, JoinersKnow, NotJoining
  <2>4. HoldsOrFills
    BY SceneAssumption DEF Init, HoldsOrFills, Provisioned, Here
  <2> QED BY <2>2, <2>3, <2>4 DEF HoldInv
<1>2. TypeOK /\ CatchInv /\ HoldInv /\ [Next]_vars => HoldInv'
  <2> SUFFICES ASSUME TypeOK, CatchInv, HoldInv, [Next]_vars PROVE HoldInv'
    OBVIOUS
  <2>1. CASE UNCHANGED vars
    BY <2>1, QuietHolds DEF vars, server, browser, history
  <2>2. ASSUME NEW a \in Admins, Look(a) PROVE HoldInv'
    BY <2>2, LookAlone, QuietHolds DEF server, history
  <2>3. ASSUME NEW c \in checks, NameExists(c) \/ HearVerdict(c) PROVE HoldInv'
    BY <2>3, VerdictAlone, QuietHolds DEF server, history
  <2>4. OwnIsAwaited
    BY DEF CatchInv
  <2>5. CASE Next
    BY <2>2, <2>3, <2>4, <2>5, SendHolds, HandleHolds, HearHolds, MemberHolds DEF Next
  <2> QED BY <2>1, <2>5
<1>3. HoldInv => AutoGroupsHoldEveryone
  BY DEF HoldInv, HoldsOrFills, Filling, AutoGroupsHoldEveryone, Working
<1> QED BY <1>1, <1>2, <1>3, TypeCorrect, CatchInvariant, PTL DEF Spec
===============================================================================
