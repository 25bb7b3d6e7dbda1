------------------------------ MODULE LoginSteps ------------------------------
(***************************************************************************)
(* What the login promises, with neither requests nor cookies: a browser   *)
(* tab shows a page of the application only after its user has agreed to   *)
(* the acceptable use policy and has passed the second factor.             *)
(***************************************************************************)
CONSTANT Tabs
VARIABLES done,   \* the steps the user has taken
          inside  \* the tabs that show a page of the application

Steps == {"aup", "mfa"}

Init == done \in SUBSET Steps /\ inside = {}
Take(s) == done' = done \union {s} /\ UNCHANGED inside
(* A login that the identity provider has already secured, or that follows *)
(* a recent one, takes its step without the user.                          *)
Enter(t) == done = Steps /\ inside' = inside \union {t} /\ UNCHANGED done
Leave(t) == inside' = inside \ {t} /\ UNCHANGED done
Next == (\E s \in Steps : Take(s)) \/ \E t \in Tabs : Enter(t) \/ Leave(t)
Spec == Init /\ [][Next]_<<done, inside>>
===============================================================================
