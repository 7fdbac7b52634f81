--------------------------- MODULE AtomicUpgrade ---------------------------
(***************************************************************************)
(* What the migration engine promises a client of one app: the app is at   *)
(* one manifest, its rows are those that were inserted, and an upgrade     *)
(* moves both in one step, carrying every row of every entity that stays.  *)
(* There is no process, no file, no failure and no crash.                  *)
(***************************************************************************)
EXTENDS FiniteSets

CONSTANTS Manifests, Rows

VARIABLES
  app,    \* the manifest the app is at
  rows    \* entity -> the rows it holds

Init ==
  /\ app \in Manifests
  /\ rows = [e \in DOMAIN app |-> {}]

Insert(e, r) ==
  /\ rows' = [rows EXCEPT ![e] = @ \cup {r}]
  /\ UNCHANGED app

Upgrade(new) ==
  /\ app' = new
  /\ rows' = [e \in DOMAIN new |-> IF e \in DOMAIN app THEN rows[e] ELSE {}]

Next == \/ \E e \in DOMAIN app, r \in Rows : Insert(e, r)
        \/ \E new \in Manifests : Upgrade(new)

Spec == Init /\ [][Next]_<<app, rows>>
=============================================================================
