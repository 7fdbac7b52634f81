--------------------------- MODULE MCRowMigration ---------------------------
(***************************************************************************)
(* Manifests for RowMigration: a task with a field in many shapes, and a   *)
(* person tasks refer to, whose table is rebuilt too.                      *)
(***************************************************************************)
EXTENDS RowMigration, TLC

Field(name, type, required, unique) ==
  [name |-> name, type |-> type, required |-> required, unique |-> unique,
   default |-> {}, min |-> {}, max |-> {}, values |-> {}, ref |-> {}]

Whole(n) == Text(1, n, <<n>>)
Decimal(q) == Text(4, Truncate(q), <<q, 0>>)
Exponent == Text(5, 0, <<8>>)        \* 0.2e1
Word == Text(3, 0, <<9>>)
Mixed == Text(4, 1, <<9>>)           \* 1.5x

Wholes == {Whole(n) : n \in -2..2}
Decimals == {Decimal(q) : q \in -8..8}

TheNumerals == Wholes \cup Decimals \cup {Exponent}

TheLeading ==
  [t \in Decimals \cup {Exponent, Mixed} |->
     IF t = Exponent THEN 8 ELSE IF t = Mixed THEN 6 ELSE t[4][1]]

TheRendered ==
  [v \in {Integer(n) : n \in -2..2} \cup {Real(q) : q \in -8..8} \cup {Bool(TRUE), Bool(FALSE)} |->
     CASE v[1] = "integer" -> Whole(v[2])
       [] v[1] = "real" -> Decimal(v[2])
       [] OTHER -> Text(4, 0, IF v[2] THEN <<6>> ELSE <<7>>)]

p1 == Text(16, 0, <<11>>)
p2 == Text(16, 0, <<12>>)
TheIds == {p1, p2}

Shape == Field("f", "text", FALSE, FALSE)
Shapes ==
  {Shape,
   [Shape EXCEPT !.type = "integer"],
   [Shape EXCEPT !.type = "integer", !.unique = TRUE],
   [Shape EXCEPT !.type = "integer", !.required = TRUE, !.min = {0}],
   [Shape EXCEPT !.type = "real"],
   [Shape EXCEPT !.type = "boolean"],
   [Shape EXCEPT !.type = "enum", !.values = {Word, Whole(1)}],
   [Shape EXCEPT !.type = "enum", !.values = {Word}],
   [Shape EXCEPT !.type = "reference", !.ref = {[target |-> "person", onDelete |-> "set_null"]}]}

Owner == [Field("owner", "reference", FALSE, FALSE) EXCEPT
            !.ref = {[target |-> "person", onDelete |-> "cascade"]}]
Person(required) == [name |-> "Person", fields |-> [nick |-> Field("nick", "text", required, FALSE)]]

Task(fields) == [name |-> "Task", fields |-> fields]
Of(shape) == [task |-> Task([f1 |-> shape, owner |-> Owner]), person |-> Person(FALSE)]

TheManifests ==
  {Of(s) : s \in Shapes}
  \cup {[task |-> Task([owner |-> Owner]), person |-> Person(TRUE)],
        [task |-> Task([f1 |-> [Shape EXCEPT !.type = "boolean", !.required = TRUE,
                                              !.default = {Bool(TRUE)}], owner |-> Owner]),
         person |-> Person(TRUE)]}

\* What the theorems of EvolutionProofs assume of the manifests is so here.
ASSUME ManifestsAreTold ==
  \A m1, m2 \in TheManifests : BoundsAgree(m1, m2) /\ NothingTightened(m1, m2)

Coerce(mode) == [kind |-> "coerce", mode |-> mode, value |-> Null, remap |-> <<>>]
Backfill(v) == [kind |-> "backfill", mode |-> "none", value |-> v, remap |-> <<>>]
Remap(pairs) == [kind |-> "remap", mode |-> "none", value |-> Null, remap |-> pairs]

Toward == Whole(1) :> Word

TheWitnesses ==
  {[nick |-> Backfill(Word)]}
  \cup {[f1 |-> w, nick |-> Backfill(Word)] :
          w \in {Coerce("truncate"), Coerce("round"), Coerce("fail"),
                 Backfill(Word), Backfill(Real(6)), Remap(Toward)}}

TheValues ==
  {Word, Mixed, Exponent, Whole(1), Integer(0), Integer(1), Real(4), Real(3), Real(-3)}
=============================================================================
