------------------------------ MODULE ScimRemote ------------------------------
(***************************************************************************)
(* The SCIM server of one service, as src/server calls it.  The repository *)
(* holds one such server, api/mock_scim.py: two collections, Users and     *)
(* Groups, keyed by an id that every POST draws anew (uuid4).  An id is    *)
(* never reused, so a slot goes from Unused to an object to Gone, and a    *)
(* group can name the id of a user that is Gone.  Nothing keeps two        *)
(* objects from carrying the same externalId.                              *)
(*                                                                         *)
(* Ids are naturals handed out in increasing order: the collections are    *)
(* Python dicts, which list their values in the order of insertion, so     *)
(* "the first" and "the last" object of a listing are those of the least   *)
(* and of the greatest id.                                                 *)
(***************************************************************************)
EXTENDS Naturals

CONSTANTS
  Users,    \* users of SBS, who are also the externalIds of remote users
  Groups,   \* collaborations and their groups: the externalIds of remote groups
  Ids,      \* ids the remote server can hand out
  Attrs,    \* values of what a template carries besides externalId and members
  Unused,   \* a slot no POST has filled yet
  Gone,     \* a slot whose object was deleted
  None      \* no id

(* A member of a remote group is the id of a remote user or, when the      *)
(* sweep found no remote object for the user, the user's own externalId.   *)
UserObject  == [ext : Users, attr : Attrs]
GroupObject == [ext : Groups, attr : Attrs, members : SUBSET (Ids \cup Users)]

(* The second conjunct is finiteness: a listing has a last object.         *)
ASSUME RemoteAssumption ==
  /\ Ids \subseteq Nat
  /\ \A S \in SUBSET Ids : S # {} => \E i \in S : \A j \in S : j <= i
  /\ Ids \cap Users = {}
  /\ Unused \notin UserObject \cup GroupObject
  /\ Gone \notin UserObject \cup GroupObject
  /\ Unused # Gone
  /\ None \notin Ids
  /\ Attrs # {}

RemoteUsers  == [Ids -> UserObject \cup {Unused, Gone}]
RemoteGroups == [Ids -> GroupObject \cup {Unused, Gone}]

Live(r) == {i \in Ids : r[i] \notin {Unused, Gone}}

(* The objects that carry externalId x.                                    *)
With(r, x) == {i \in Live(r) : r[i].ext = x}

(* POST: a new id and the object under it, whatever is there already.      *)
IsFresh(r, i) == r[i] = Unused /\ \A j \in Ids : r[j] = Unused => i <= j
Post(r, i, obj) == [r EXCEPT ![i] = obj]

(* PUT of an id that is not there is answered with 400 and changes nothing;*)
(* the templates carry every field, so the merge replaces the object.      *)
Put(r, i, obj) == IF i \in Live(r) THEN [r EXCEPT ![i] = obj] ELSE r

(* DELETE of an id that is not there is answered with 204.                 *)
Delete(r, i) == IF i \in Live(r) THEN [r EXCEPT ![i] = Gone] ELSE r

(* The users a set of member values stands for.                            *)
Resolve(r, members) == {r[i].ext : i \in members \cap Live(r)}

Unique(r) == \A i, j \in Live(r) : r[i].ext = r[j].ext => i = j
=============================================================================
