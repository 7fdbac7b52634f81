----------------------------- MODULE BootProofs -----------------------------
(***************************************************************************)
(* What boots seed, for any catalog, any seed folders, any number of       *)
(* migrate processes, of boots and of deaths.                              *)
(*                                                                         *)
(* SeededOnce is not inductive: that the database of an app has not been   *)
(* seeded is known when Load looks for the file, and used when its results *)
(* are gone through.  BootInv says what carries it from there: a claim on  *)
(* an app, a result that is yet to be acted on and says that this boot     *)
(* created its database, is the only one, though directories may share an  *)
(* app; the database exists, which keeps a later look from making another; *)
(* and nothing has been seeded in it.                                      *)
(*                                                                         *)
(* SeedInv adds what is seeded, and who is served.  Every batch of rows in *)
(* a database is the whole of the list that RowsInOrder makes of a folder  *)
(* (Filled), and so is, up to where it has come, the one under way; a      *)
(* result the loop is done with is that of an app that has been seeded, or *)
(* has gone (Done); an app that has gone, or never was registered, has     *)
(* itself to blame (Accounted), and keeps the blame because versions only  *)
(* go up (Aged) and a migrate process edits a manifest to one of the same  *)
(* app only (Same).  That such a batch is the folder's rows, each file's   *)
(* in its order, is a matter of sequences: where the rows of one file lie  *)
(* among those of all (FlattenPlaces).                                     *)
(***************************************************************************)
EXTENDS Boot, FiniteSetTheorems, WellFoundedInduction, TLAPS

-----------------------------------------------------------------------------
(***************************************************************************)
(* Induction over numbers, without an operator: as a set they all are in.  *)
(***************************************************************************)
\* The least member of a set of numbers.
LEMMA LeastNat ==
  ASSUME NEW T, T \subseteq Nat, T # {}
  PROVE  \E x \in T : \A y \in T : x <= y
<1> DEFINE Below == {pair \in Nat \X Nat : pair[1] < pair[2]}
<1>1. IsWellFoundedOn(Below, Nat)
  BY NatLessThanWellFounded DEF OpToRel
<1> HIDE DEF Below
<1>2. PICK x \in T : \A y \in T : <<y, x>> \notin Below
  BY <1>1, WFMin
<1>3. \A a, b \in Nat : <<a, b>> \in Below <=> a < b
  BY DEF Below
<1>4. \A y \in T : x \in Nat /\ y \in Nat /\ ~(y < x)
  BY <1>2, <1>3
<1> QED
  BY <1>4

\* A set with 0 and every successor has every number.
LEMMA Induction ==
  ASSUME NEW S, 0 \in S, \A n \in Nat : n \in S => n + 1 \in S
  PROVE  \A n \in Nat : n \in S
<1> SUFFICES ASSUME NEW z \in Nat, z \notin S
             PROVE  FALSE
  OBVIOUS
<1> DEFINE Missing == {n \in Nat : n \notin S}
<1>1. PICK x \in Missing : \A y \in Missing : x <= y
  <2>1. Missing \subseteq Nat /\ z \in Missing
    OBVIOUS
  <2> QED
    BY <2>1, LeastNat
<1>2. x # 0 /\ x - 1 \in Nat /\ x - 1 + 1 = x
  OBVIOUS
<1>3. x - 1 \in S
  BY <1>1, <1>2
<1> QED
  BY <1>2, <1>3

\* What FlattenSeq makes of the first sequences is one after the other.
LEMMA FlattenIsRecursive ==
  ASSUME NEW s, Len(s) \in Nat \ {0}
  PROVE  \E f : /\ f[1] = s[1] /\ \A n \in 1..(Len(s) - 1) : f[n + 1] = f[n] \o s[n + 1]
                /\ FlattenSeq(s) = f[Len(s)]
<1> DEFINE flatten[i \in 1..Len(s)] == IF i = 1 THEN s[i] ELSE flatten[i - 1] \o s[i]
           Fits(n, f) == f = [i \in 1..n |-> IF i = 1 THEN s[i] ELSE f[i - 1] \o s[i]]
           S == {n \in Nat : \E f : Fits(n, f)}
<1>1. FlattenSeq(s) = flatten[Len(s)]
  BY DEF FlattenSeq
<1>2. 0 \in S
  <2>1. Fits(0, <<>>)
    OBVIOUS
  <2> QED
    BY <2>1
<1>3. ASSUME NEW n \in Nat, n \in S
      PROVE  n + 1 \in S
  <2>1. PICK f : Fits(n, f)
    BY <1>3
  <2> DEFINE g == [i \in 1..(n + 1) |-> IF i = n + 1 THEN (IF i = 1 THEN s[i] ELSE f[n] \o s[i])
                                        ELSE f[i]]
  <2>2. Fits(n + 1, g)
    <3> SUFFICES ASSUME NEW i \in 1..(n + 1)
                 PROVE  g[i] = IF i = 1 THEN s[i] ELSE g[i - 1] \o s[i]
      OBVIOUS
    <3>1. CASE i = n + 1
      BY <3>1
    <3>2. CASE i # n + 1
      <4>1. i \in 1..n /\ g[i] = f[i] /\ (i # 1 => g[i - 1] = f[i - 1])
        BY <3>2
      <4>2. f[i] = IF i = 1 THEN s[i] ELSE f[i - 1] \o s[i]
        BY <2>1, <4>1
      <4> QED
        BY <4>1, <4>2
    <3> QED
      BY <3>1, <3>2
  <2>3. n + 1 \in Nat
    OBVIOUS
  <2> HIDE DEF Fits, g
  <2> QED
    BY <2>2, <2>3
<1>4. Len(s) \in S
  <2> HIDE DEF S
  <2> QED
    BY <1>2, <1>3, Induction
<1>5. flatten = CHOOSE f : Fits(Len(s), f)
  OBVIOUS
<1>6. Fits(Len(s), flatten)
  <2> HIDE DEF Fits, flatten
  <2> QED
    BY <1>4, <1>5
<1>7. flatten[1] = s[1]
  <2> HIDE DEF flatten
  <2> QED
    BY <1>6
<1>8. ASSUME NEW n \in 1..(Len(s) - 1)
      PROVE  flatten[n + 1] = flatten[n] \o s[n + 1]
  <2>1. n + 1 \in 1..Len(s) /\ n + 1 # 1 /\ (n + 1) - 1 = n
    OBVIOUS
  <2>2. \A i \in 1..Len(s) : i # 1 => flatten[i] = flatten[i - 1] \o s[i]
    <3> HIDE DEF flatten
    <3> QED
      BY <1>6
  <2>3. flatten[n + 1] = flatten[(n + 1) - 1] \o s[n + 1]
    <3> HIDE DEF flatten
    <3> QED
      BY <2>1, <2>2
  <2> HIDE DEF flatten
  <2> QED
    BY <2>1, <2>3
<1> HIDE DEF flatten
<1> QED
  BY <1>1, <1>7, <1>8

\* Flattening sequences over a set gives one over that set.
LEMMA FlattenIsSeq ==
  ASSUME NEW T, NEW s \in Seq(Seq(T))
  PROVE  FlattenSeq(s) \in Seq(T)
<1>1. CASE Len(s) = 0
  <2>1. FlattenSeq(s) = s /\ s = <<>>
    BY <1>1 DEF FlattenSeq
  <2>2. <<>> \in Seq(T)
    OBVIOUS
  <2> QED
    BY <2>1, <2>2
<1>2. CASE Len(s) # 0
  <2>1. PICK f : /\ f[1] = s[1] /\ \A n \in 1..(Len(s) - 1) : f[n + 1] = f[n] \o s[n + 1]
                 /\ FlattenSeq(s) = f[Len(s)]
    <3>1. Len(s) \in Nat \ {0}
      BY <1>2
    <3> QED
      BY <3>1, FlattenIsRecursive
  <2> DEFINE S == {n \in Nat : n \in 1..Len(s) => f[n] \in Seq(T)}
  <2>2. 0 \in S
    OBVIOUS
  <2>3. ASSUME NEW n \in Nat, n \in S
        PROVE  n + 1 \in S
    <3>0. n + 1 \in Nat /\ (n \in 1..Len(s) => f[n] \in Seq(T))
      BY <2>3
    <3>1. CASE n + 1 \in 1..Len(s)
      <4>1. s[n + 1] \in Seq(T)
        BY <3>1
      <4>2. CASE n = 0
        BY <2>1, <3>1, <4>1, <4>2
      <4>3. CASE n # 0
        <5>1. n \in 1..Len(s) /\ n \in 1..(Len(s) - 1)
          BY <3>1, <4>3
        <5>2. f[n + 1] = f[n] \o s[n + 1]
          BY <2>1, <5>1
        <5>3. f[n] \in Seq(T)
          BY <3>0, <5>1
        <5>4. f[n] \o s[n + 1] \in Seq(T)
          BY <4>1, <5>3
        <5>5. f[n + 1] \in Seq(T)
          BY <5>2, <5>4
        <5> QED
          BY <3>0, <5>5
      <4> QED
        BY <4>2, <4>3
    <3> QED
      BY <3>0, <3>1
  <2>4. Len(s) \in S
    <3> HIDE DEF S
    <3> QED
      BY <2>2, <2>3, Induction
  <2> QED
    BY <1>2, <2>1, <2>4
<1> QED
  BY <1>1, <1>2

\* In r the members of P are those of t, side by side from off on.
LiesAt(r, off, t, P) ==
  /\ off + Len(t) <= Len(r)
  /\ \A n \in 1..Len(r) : r[n] \in P <=> n \in (off + 1)..(off + Len(t))
  /\ \A i \in 1..Len(t) : r[off + i] = t[i]

NoneOf(r, P) == \A i \in 1..Len(r) : r[i] \notin P

\* What concatenation does.
LEMMA Concatenation ==
  ASSUME NEW T, NEW r \in Seq(T), NEW u \in Seq(T)
  PROVE  /\ r \o u \in Seq(T) /\ Len(r) \in Nat /\ Len(u) \in Nat
         /\ Len(r \o u) = Len(r) + Len(u)
         /\ \A i \in 1..Len(r) : (r \o u)[i] = r[i]
         /\ \A i \in 1..Len(u) : (r \o u)[Len(r) + i] = u[i]
         /\ \A n \in 1..Len(r \o u) :
              \/ n \in 1..Len(r)
              \/ n - Len(r) \in 1..Len(u) /\ (r \o u)[n] = u[n - Len(r)]
OBVIOUS

LEMMA LiesStill ==
  ASSUME NEW T, NEW r \in Seq(T), NEW u \in Seq(T), NEW t \in Seq(T), NEW P, NEW off \in Nat,
         LiesAt(r, off, t, P), NoneOf(u, P)
  PROVE  LiesAt(r \o u, off, t, P)
BY Concatenation DEF LiesAt, NoneOf

LEMMA LiesLast ==
  ASSUME NEW T, NEW r \in Seq(T), NEW u \in Seq(T), NEW P,
         NoneOf(r, P), \A i \in 1..Len(u) : u[i] \in P
  PROVE  LiesAt(r \o u, Len(r), u, P)
BY Concatenation DEF LiesAt, NoneOf

LEMMA NoneStill ==
  ASSUME NEW T, NEW r \in Seq(T), NEW u \in Seq(T), NEW P, NoneOf(r, P), NoneOf(u, P)
  PROVE  NoneOf(r \o u, P)
BY Concatenation DEF NoneOf

\* The members of one of the sequences, if no other has any of them, lie side by side.
LEMMA FlattenPlaces ==
  ASSUME NEW T, NEW s \in Seq(Seq(T)), NEW j \in 1..Len(s), NEW P,
         \A k \in 1..Len(s) : k # j => NoneOf(s[k], P),
         \A i \in 1..Len(s[j]) : s[j][i] \in P
  PROVE  \E off \in Nat : LiesAt(FlattenSeq(s), off, s[j], P)
<1>0. Len(s) \in Nat \ {0} /\ j \in Nat /\ s[j] \in Seq(T)
  OBVIOUS
<1>1. PICK f : /\ f[1] = s[1] /\ \A n \in 1..(Len(s) - 1) : f[n + 1] = f[n] \o s[n + 1]
               /\ FlattenSeq(s) = f[Len(s)]
  BY <1>0, FlattenIsRecursive
<1> DEFINE Right(n) == /\ f[n] \in Seq(T)
                       /\ n < j => NoneOf(f[n], P)
                       /\ n >= j => \E off \in Nat : LiesAt(f[n], off, s[j], P)
           S == {n \in Nat : n \in 1..Len(s) => Right(n)}
<1>2. 0 \in S
  OBVIOUS
<1>3. ASSUME NEW n \in Nat, n \in S
      PROVE  n + 1 \in S
  <2>0. n + 1 \in Nat
    OBVIOUS
  <2>1. ASSUME n + 1 \in 1..Len(s)
        PROVE  Right(n + 1)
    <3>0. s[n + 1] \in Seq(T)
      BY <2>1
    <3>1. CASE n = 0
      <4>1. f[n + 1] = s[n + 1]
        BY <1>1, <2>1, <3>1
      <4>2. n + 1 = j => LiesAt(f[n + 1], 0, s[j], P)
        BY <3>0, <4>1 DEF LiesAt
      <4>3. n + 1 >= j <=> n + 1 = j
        BY <1>0, <3>1
      <4> QED
        BY <1>0, <3>0, <3>1, <4>1, <4>2, <4>3
    <3>2. CASE n # 0
      <4>0. n \in 1..Len(s) /\ n \in 1..(Len(s) - 1)
        BY <2>1, <3>2
      <4>1. n \in 1..Len(s) /\ f[n + 1] = f[n] \o s[n + 1]
        BY <1>1, <2>1, <4>0
      <4>2. Right(n)
        <5> HIDE DEF Right
        <5> QED
          BY <1>3, <4>1
      <4>3. f[n + 1] \in Seq(T)
        BY <3>0, <4>1, <4>2
      <4>4. ASSUME n + 1 < j
            PROVE  NoneOf(f[n + 1], P)
        <5>1. NoneOf(f[n], P) /\ NoneOf(s[n + 1], P)
          BY <1>0, <2>1, <4>2, <4>4
        <5> QED
          BY <3>0, <4>1, <4>2, <5>1, NoneStill
      <4>5. n + 1 = j => LiesAt(f[n + 1], Len(f[n]), s[j], P) /\ Len(f[n]) \in Nat
        BY <1>0, <3>0, <4>1, <4>2, LiesLast
      <4>6. ASSUME n >= j
            PROVE  \E off \in Nat : LiesAt(f[n + 1], off, s[j], P)
        <5>1. PICK off \in Nat : LiesAt(f[n], off, s[j], P)
          BY <4>2, <4>6
        <5>2. NoneOf(s[n + 1], P)
          BY <1>0, <2>1, <4>6
        <5>3. LiesAt(f[n + 1], off, s[j], P)
          BY <1>0, <3>0, <4>1, <4>2, <5>1, <5>2, LiesStill
        <5> QED
          BY <5>3
      <4>7. n + 1 >= j <=> n + 1 = j \/ n >= j
        BY <1>0
      <4> QED
        BY <4>3, <4>4, <4>5, <4>6, <4>7
    <3> QED
      BY <3>1, <3>2
  <2> HIDE DEF Right
  <2> QED
    BY <2>0, <2>1
<1>4. Len(s) \in S
  <2> HIDE DEF S
  <2> QED
    BY <1>0, <1>2, <1>3, Induction
<1>5. Right(Len(s)) /\ Len(s) >= j
  <2> HIDE DEF Right
  <2> QED
    BY <1>0, <1>4
<1> QED
  BY <1>1, <1>5

-----------------------------------------------------------------------------
(***************************************************************************)
(* Whose turn it is to be seeded: the invariant of SeededOnce.             *)
(***************************************************************************)
Results == [manifest : Manifests \cup {NoManifest}, ok : BOOLEAN, fresh : BOOLEAN]

Shapes ==
  /\ catalog \in [1..Len(Dirs) -> Entry]
  /\ DOMAIN data = Apps /\ \A a \in Apps : DOMAIN data[a] = {"exists", "ver", "seeded"}
  /\ DOMAIN pc = Procs /\ DOMAIN results = Procs /\ DOMAIN opening = Procs /\ DOMAIN reg = Procs
  /\ results[Server] \in Seq(Results)
  /\ opening[Server].fresh \in BOOLEAN
  /\ turn \in Nat \ {0}

\* Load looks for every app before any is seeded, and starts with nothing.
Phases ==
  /\ pc[Server] = "open" => opening[Server].manifest \in Manifests
  /\ pc[Server] \in {"down", "load", "open"} => turn = 1
  /\ pc[Server] = "down" => results[Server] = <<>>
  /\ tx # NoTx => /\ pc[Server] = "seed" /\ turn <= Len(results[Server])
                  /\ Turn.ok /\ Turn.fresh

\* A result yet to be acted on, that this boot created the app's database.
Claim(n, a) ==
  /\ n \in turn..Len(results[Server])
  /\ results[Server][n].ok /\ results[Server][n].fresh /\ results[Server][n].manifest.id = a

\* Load has not found the app's database, and is about to open it.
Looking(a) == pc[Server] = "open" /\ opening[Server].fresh /\ opening[Server].manifest.id = a

Unseeded(a) == data[a].seeded = <<>>

Seeds(a) ==
  /\ Unseeded(a) \/ (Len(data[a].seeded) = 1 /\ data[a].exists)
  /\ Looking(a) => Unseeded(a)
  /\ \A n \in Nat : Claim(n, a) => Unseeded(a) /\ data[a].exists /\ ~Looking(a)
  /\ \A n, m \in Nat : Claim(n, a) /\ Claim(m, a) => n = m

BootInv == Shapes /\ Phases /\ \A a \in Apps : Seeds(a)

-----------------------------------------------------------------------------
\* Initially nothing runs and nothing is there.
LEMMA InitBootInv == Init => BootInv
<1> SUFFICES ASSUME Init
             PROVE  BootInv
  OBVIOUS
<1>0. Server \in Procs
  BY DEF Procs
<1>1. Shapes
  <2>1. catalog \in [1..Len(Dirs) -> Entry]
    BY CatalogsAreEntries DEF Init
  <2>2. DOMAIN data = Apps /\ \A a \in Apps : DOMAIN data[a] = {"exists", "ver", "seeded"}
    BY DEF Init, NoData
  <2>3. DOMAIN pc = Procs /\ DOMAIN results = Procs /\ DOMAIN opening = Procs /\ DOMAIN reg = Procs
    BY DEF Init
  <2>4. results[Server] = <<>> /\ opening[Server].fresh = FALSE /\ turn = 1
    BY <1>0 DEF Init, NoOpening
  <2>5. results[Server] \in Seq(Results)
    <3>1. <<>> \in Seq(Results)
      OBVIOUS
    <3> QED
      BY <2>4, <3>1
  <2>6. opening[Server].fresh \in BOOLEAN
    BY <2>4
  <2>7. turn \in Nat \ {0}
    BY <2>4
  <2> QED
    BY <2>1, <2>2, <2>3, <2>5, <2>6, <2>7, Zenon DEF Shapes
<1>2. Phases
  BY <1>0 DEF Init, Phases
<1>3. ASSUME NEW a \in Apps
      PROVE  Seeds(a)
  <2>1. data[a].seeded = <<>> /\ results[Server] = <<>> /\ pc[Server] = "down" /\ turn = 1
    BY <1>0 DEF Init, NoData
  <2>2. \A n \in Nat : ~Claim(n, a)
    BY <2>1 DEF Claim
  <2> QED
    BY <2>1, <2>2 DEF Seeds, Unseeded, Looking
<1> QED
  BY <1>1, <1>2, <1>3 DEF BootInv

\* Steps that touch neither the serving process nor what is seeded, and create files at most.
LEMMA OtherStep ==
  ASSUME BootInv, catalog' \in [1..Len(Dirs) -> Entry],
         /\ DOMAIN data' = Apps /\ DOMAIN pc' = Procs /\ DOMAIN results' = Procs
         /\ DOMAIN opening' = Procs /\ DOMAIN reg' = Procs,
         \A a \in Apps : /\ DOMAIN data'[a] = {"exists", "ver", "seeded"}
                         /\ data'[a].seeded = data[a].seeded
                         /\ data[a].exists => data'[a].exists,
         /\ pc'[Server] = pc[Server] /\ results'[Server] = results[Server]
         /\ opening'[Server] = opening[Server] /\ turn' = turn /\ tx' = tx
  PROVE  BootInv'
<1>1. Shapes'
  BY DEF BootInv, Shapes
<1>2. Phases'
  BY DEF BootInv, Phases, Turn
<1>3. ASSUME NEW a \in Apps
      PROVE  Seeds(a)'
  <2>1. Seeds(a)
    BY <1>3 DEF BootInv
  <2>2. \A n \in Nat : Claim(n, a)' <=> Claim(n, a)
    BY DEF Claim
  <2>3. (Looking(a)' <=> Looking(a)) /\ (Unseeded(a)' <=> Unseeded(a))
    BY DEF Looking, Unseeded
  <2> QED
    BY <2>1, <2>2, <2>3 DEF Seeds
<1> QED
  BY <1>1, <1>2, <1>3 DEF BootInv

\* The serving process is gone, and nothing more is seeded.
LEMMA DownStep ==
  ASSUME BootInv, catalog' \in [1..Len(Dirs) -> Entry],
         /\ DOMAIN data' = Apps /\ DOMAIN pc' = Procs /\ DOMAIN results' = Procs
         /\ DOMAIN opening' = Procs /\ DOMAIN reg' = Procs,
         \A a \in Apps : /\ DOMAIN data'[a] = {"exists", "ver", "seeded"}
                         /\ \/ data'[a].seeded = <<>>
                            \/ data'[a].seeded = data[a].seeded /\ (data[a].exists => data'[a].exists),
         /\ pc'[Server] = "down" /\ results'[Server] = <<>> /\ opening'[Server].fresh \in BOOLEAN
         /\ turn' = 1 /\ tx' = NoTx
  PROVE  BootInv'
<1>1. Shapes'
  BY DEF BootInv, Shapes
<1>2. Phases'
  BY DEF Phases
<1>3. ASSUME NEW a \in Apps
      PROVE  Seeds(a)'
  <2>1. Seeds(a)
    BY <1>3 DEF BootInv
  <2>2. \A n \in Nat : ~Claim(n, a)'
    BY DEF Claim
  <2>3. ~Looking(a)'
    BY DEF Looking
  <2>4. (Unseeded(a) \/ (Len(data[a].seeded) = 1 /\ data[a].exists))'
    BY <2>1 DEF Seeds, Unseeded
  <2> QED
    BY <2>2, <2>3, <2>4 DEF Seeds
<1> QED
  BY <1>1, <1>2, <1>3 DEF BootInv

-----------------------------------------------------------------------------
(***************************************************************************)
(* Load in the serving process.                                            *)
(***************************************************************************)
\* A directory's result is recorded.  A claim takes the place of the look it comes from.
LEMMA RecordStep ==
  ASSUME BootInv, NEW STATE res, res \in Results, pc[Server] \in {"load", "open"},
         results'[Server] = Append(results[Server], res),
         /\ DOMAIN data' = Apps /\ DOMAIN pc' = Procs /\ DOMAIN results' = Procs
         /\ DOMAIN opening' = Procs /\ DOMAIN reg' = Procs,
         \A a \in Apps : /\ DOMAIN data'[a] = {"exists", "ver", "seeded"}
                         /\ data'[a].seeded = data[a].seeded
                         /\ data[a].exists => data'[a].exists,
         /\ pc'[Server] = "load" /\ opening'[Server].fresh \in BOOLEAN
         /\ turn' = turn /\ tx' = tx /\ catalog' = catalog,
         res.ok /\ res.fresh =>
           \A a \in Apps : a = res.manifest.id => Looking(a) /\ data'[a].exists
  PROVE  BootInv'
<1>0. /\ results[Server] \in Seq(Results) /\ turn = 1 /\ tx = NoTx
      /\ Len(results'[Server]) = Len(results[Server]) + 1 /\ Len(results[Server]) \in Nat
      /\ results'[Server][Len(results[Server]) + 1] = res
      /\ \A n \in 1..Len(results[Server]) : results'[Server][n] = results[Server][n]
  BY DEF BootInv, Shapes, Phases
<1>1. Shapes'
  BY <1>0 DEF BootInv, Shapes
<1>2. Phases'
  BY <1>0 DEF BootInv, Phases
<1>3. ASSUME NEW a \in Apps
      PROVE  Seeds(a)'
  <2>1. Seeds(a)
    BY <1>3 DEF BootInv
  <2>2. ASSUME NEW n \in Nat, Claim(n, a)', ~Claim(n, a)
        PROVE  n = Len(results[Server]) + 1 /\ Looking(a) /\ data'[a].exists
    BY <1>0, <2>2 DEF Claim
  <2>3. ~Looking(a)' /\ (Unseeded(a)' <=> Unseeded(a))
    BY DEF Looking, Unseeded
  <2>4. \A n \in Nat : Claim(n, a)' => Unseeded(a)' /\ data'[a].exists
    BY <2>1, <2>2, <2>3 DEF Seeds
  <2>5. \A n, m \in Nat : Claim(n, a)' /\ Claim(m, a)' => n = m
    BY <2>1, <2>2 DEF Seeds
  <2>6. (Unseeded(a) \/ (Len(data[a].seeded) = 1 /\ data[a].exists))'
    BY <2>1 DEF Seeds, Unseeded
  <2> QED
    BY <2>3, <2>4, <2>5, <2>6 DEF Seeds
<1> QED
  BY <1>1, <1>2, <1>3 DEF BootInv

\* A result is done with, its app seeded or not.
LEMMA TurnStep ==
  ASSUME BootInv, Seeding, turn' = turn + 1, tx' = NoTx, DOMAIN reg' = Procs,
         UNCHANGED <<catalog, pc, results, opening>>,
         \/ data' = data
         \/ /\ Turn.ok /\ Turn.fresh
            /\ \E batch : data' = [data EXCEPT ![Turn.manifest.id].seeded = Append(@, batch)]
  PROVE  BootInv'
<1>0. /\ pc[Server] = "seed" /\ turn \in Nat \ {0} /\ Len(results[Server]) \in Nat
      /\ turn \in 1..Len(results[Server])
  BY DEF Seeding, BootInv, Shapes
<1>1. Shapes'
  <2>1. DOMAIN data' = Apps /\ \A a \in Apps : DOMAIN data'[a] = {"exists", "ver", "seeded"}
    BY DEF BootInv, Shapes
  <2> QED
    BY <1>0, <2>1 DEF BootInv, Shapes
<1>2. Phases'
  BY <1>0 DEF BootInv, Phases
<1>3. ASSUME NEW a \in Apps
      PROVE  Seeds(a)'
  <2>1. Seeds(a)
    BY <1>3 DEF BootInv
  <2>2. \A n \in Nat : Claim(n, a)' => Claim(n, a) /\ n # turn
    BY <1>0 DEF Claim
  <2>3. ~Looking(a)'
    BY <1>0 DEF Looking
  <2>4. CASE data'[a] = data[a]
    BY <2>1, <2>2, <2>3, <2>4 DEF Seeds, Unseeded
  <2>5. CASE data'[a] # data[a]
    <3>1. PICK batch : data' = [data EXCEPT ![Turn.manifest.id].seeded = Append(@, batch)]
      BY <2>5
    <3>2. a = Turn.manifest.id /\ Turn.ok /\ Turn.fresh
      BY <2>5, <3>1 DEF BootInv, Shapes
    <3>3. Claim(turn, a)
      <4>1. turn \in turn..Len(results[Server])
        BY <1>0
      <4> QED
        BY <3>2, <4>1, Zenon DEF Claim, Turn
    <3>4. data[a].seeded = <<>> /\ data[a].exists
      BY <1>0, <2>1, <3>3 DEF Seeds, Unseeded
    <3>5. data'[a].seeded = Append(<<>>, batch) /\ data'[a].exists
      BY <3>1, <3>2, <3>4 DEF BootInv, Shapes
    <3>6. Len(data'[a].seeded) = 1
      <4>1. <<>> \in Seq({batch}) /\ batch \in {batch}
        OBVIOUS
      <4> QED
        BY <3>5, <4>1
    <3>7. \A n \in Nat : ~Claim(n, a)'
      BY <1>0, <2>1, <2>2, <3>3 DEF Seeds
    <3> QED
      BY <2>3, <3>5, <3>6, <3>7 DEF Seeds
  <2> QED
    BY <2>4, <2>5
<1> QED
  BY <1>1, <1>2, <1>3 DEF BootInv

\* The serving process goes on to another phase, or its transaction does.
LEMMA PhaseStep ==
  ASSUME BootInv, UNCHANGED <<catalog, data, results, opening, reg, turn>>,
         DOMAIN pc' = Procs,
         pc'[Server] \notin {"open", "down"}, pc'[Server] = "load" => turn = 1,
         tx' # NoTx => /\ pc'[Server] = "seed" /\ turn <= Len(results[Server])
                       /\ Turn.ok /\ Turn.fresh
  PROVE  BootInv'
<1>1. Shapes'
  BY DEF BootInv, Shapes
<1>2. Phases'
  BY DEF Phases, Turn
<1>3. ASSUME NEW a \in Apps
      PROVE  Seeds(a)'
  BY <1>3 DEF BootInv, Seeds, Claim, Looking, Unseeded
<1> QED
  BY <1>1, <1>2, <1>3 DEF BootInv

\* A database that is not there has not been seeded, and nobody claims to have made it.
LEMMA StatKeeps ==
  ASSUME BootInv, Stat(Server)
  PROVE  BootInv'
<1> DEFINE m == catalog[Dir(Server)].manifest
<1>0. /\ Server \in Procs /\ pc[Server] = "load" /\ turn = 1 /\ tx = NoTx
      /\ DOMAIN pc = Procs /\ DOMAIN opening = Procs
      /\ UNCHANGED <<catalog, data, results, reg, turn, tx>>
      /\ m # NoManifest /\ Dir(Server) \in 1..Len(Dirs)
  BY DEF Procs, BootInv, Shapes, Phases, Stat, Dir
<1>1. pc' = [pc EXCEPT ![Server] = "open"]
  BY DEF Stat, Goto
<1>2. opening' = [opening EXCEPT ![Server] = [manifest |-> m, fresh |-> ~data[m.id].exists]]
  BY DEF Stat
<1>3. m \in Manifests
  BY <1>0 DEF BootInv, Shapes, Entry
<1> HIDE DEF m
<1>4. /\ opening'[Server].manifest = m /\ (opening'[Server].fresh <=> ~data[m.id].exists)
      /\ opening'[Server].fresh \in BOOLEAN /\ DOMAIN opening' = Procs
      /\ pc'[Server] = "open" /\ DOMAIN pc' = Procs
  BY <1>0, <1>1, <1>2
<1>5. Shapes'
  BY <1>0, <1>4 DEF BootInv, Shapes
<1>6. Phases'
  BY <1>0, <1>3, <1>4 DEF Phases
<1>7. ASSUME NEW a \in Apps
      PROVE  Seeds(a)'
  <2>1. Seeds(a)
    BY <1>7 DEF BootInv
  <2>2. Looking(a)' => ~data[a].exists
    BY <1>4 DEF Looking
  <2>3. \A n \in Nat : Claim(n, a)' <=> Claim(n, a)
    BY <1>0 DEF Claim
  <2>4. Unseeded(a)' <=> Unseeded(a)
    BY <1>0 DEF Unseeded
  <2> QED
    BY <1>0, <2>1, <2>2, <2>3, <2>4 DEF Seeds
<1> QED
  BY <1>5, <1>6, <1>7 DEF BootInv

\* A directory that is skipped is no claim.
LEMMA SkipKeeps ==
  ASSUME BootInv, SkipDir(Server)
  PROVE  BootInv'
<1> DEFINE res == Result(NoManifest, FALSE, FALSE)
<1>0. Server \in Procs
  BY DEF Procs
<1>1. res \in Results /\ ~res.ok
  BY DEF Result, Results
<1>2. results' = [results EXCEPT ![Server] = Append(results[Server], res)]
  BY DEF SkipDir, Record
<1> HIDE DEF res
<1>3. /\ pc[Server] = "load" /\ UNCHANGED <<catalog, data, pc, opening, reg, turn, tx>>
      /\ results'[Server] = Append(results[Server], res) /\ DOMAIN results' = Procs
  BY <1>0, <1>2 DEF SkipDir, BootInv, Shapes
<1>4. /\ DOMAIN data' = Apps /\ DOMAIN pc' = Procs /\ DOMAIN opening' = Procs /\ DOMAIN reg' = Procs
      /\ \A a \in Apps : DOMAIN data'[a] = {"exists", "ver", "seeded"}
      /\ opening'[Server].fresh \in BOOLEAN
  BY <1>3 DEF BootInv, Shapes
<1> QED
  BY <1>1, <1>3, <1>4, RecordStep

\* Opening a database that Load has not found makes the claim; failing to makes none.
LEMMA OpenKeeps ==
  ASSUME BootInv, OpenApp(Server) \/ OpenFails(Server)
  PROVE  BootInv'
<1> DEFINE m == opening[Server].manifest
<1>0. /\ Server \in Procs /\ pc[Server] = "open" /\ m \in Manifests
      /\ DOMAIN pc = Procs /\ DOMAIN opening = Procs /\ DOMAIN results = Procs /\ DOMAIN data = Apps
      /\ DOMAIN reg = Procs
      /\ opening[Server].fresh \in BOOLEAN
      /\ \A a \in Apps : DOMAIN data[a] = {"exists", "ver", "seeded"}
  BY DEF Procs, BootInv, Shapes, Phases, OpenApp, OpenFails
<1>1. m.id \in Apps
  BY <1>0 DEF Apps
<1>2. /\ pc' = [pc EXCEPT ![Server] = "load"] /\ opening' = [opening EXCEPT ![Server] = NoOpening]
      /\ UNCHANGED <<catalog, turn, tx>>
  BY DEF OpenApp, OpenFails, Goto
<1>3. /\ pc'[Server] = "load" /\ DOMAIN pc' = Procs /\ DOMAIN opening' = Procs
      /\ opening'[Server].fresh \in BOOLEAN
  BY <1>0, <1>2 DEF NoOpening
<1>4. \E ok \in BOOLEAN :
        /\ results' = [results EXCEPT ![Server] = Append(@, Result(m, ok, opening[Server].fresh))]
        /\ ok => data'[m.id].exists
  <2>1. CASE OpenApp(Server)
    <3>1. data'[m.id].exists
      BY <1>0, <1>1, <2>1 DEF OpenApp
    <3> DEFINE ok == Accepts(data[m.id], m)
    <3>2. ok \in BOOLEAN
      BY DEF Accepts
    <3>3. results' = [results EXCEPT ![Server] = Append(@, Result(m, ok, opening[Server].fresh))]
      BY <2>1 DEF OpenApp, Record, Fresh
    <3> HIDE DEF ok
    <3> QED
      BY <3>1, <3>2, <3>3
  <2>2. CASE OpenFails(Server)
    BY <2>2 DEF OpenFails, Record, Fresh
  <2> QED
    BY <2>1, <2>2
<1>5. \A a \in Apps : /\ DOMAIN data'[a] = {"exists", "ver", "seeded"}
                      /\ data'[a].seeded = data[a].seeded
                      /\ data[a].exists => data'[a].exists
  <2>1. CASE OpenApp(Server)
    BY <1>0, <1>1, <2>1 DEF OpenApp
  <2>2. CASE OpenFails(Server)
    <3>1. PICK created \in {TRUE, data[m.id].exists} :
            data' = [data EXCEPT ![m.id].exists = created]
      BY <2>2 DEF OpenFails
    <3>2. CASE created = TRUE
      BY <1>0, <1>1, <3>1, <3>2
    <3>3. CASE created = data[m.id].exists
      <4>1. data'[m.id].exists = data[m.id].exists
        BY <1>0, <1>1, <3>1, <3>3
      <4> QED
        BY <1>0, <1>1, <3>1, <4>1
    <3> QED
      BY <3>1, <3>2, <3>3
  <2> QED
    BY <2>1, <2>2
<1>6. DOMAIN data' = Apps /\ DOMAIN reg' = Procs
  BY <1>0 DEF OpenApp, OpenFails
<1>7. PICK ok \in BOOLEAN :
        /\ results' = [results EXCEPT ![Server] = Append(@, Result(m, ok, opening[Server].fresh))]
        /\ ok => data'[m.id].exists
  BY <1>4
<1> DEFINE res == Result(m, ok, opening[Server].fresh)
<1>8. /\ res \in Results /\ res.manifest = m /\ (res.ok <=> ok)
      /\ (res.fresh <=> opening[Server].fresh)
  BY <1>0 DEF Result, Results
<1>9. results'[Server] = Append(results[Server], res) /\ DOMAIN results' = Procs
  BY <1>0, <1>7
<1> HIDE DEF res, m
<1>10. res.ok /\ res.fresh =>
          \A a \in Apps : a = res.manifest.id => Looking(a) /\ data'[a].exists
  <2>1. ASSUME res.ok, res.fresh
        PROVE  pc[Server] = "open" /\ opening[Server].fresh /\ data'[m.id].exists
    BY <1>0, <1>7, <1>8, <2>1
  <2>2. res.manifest.id = opening[Server].manifest.id /\ res.manifest.id = m.id
    BY <1>8 DEF m
  <2> QED
    BY <2>1, <2>2 DEF Looking
<1> QED
  BY <1>0, <1>2, <1>3, <1>5, <1>6, <1>8, <1>9, <1>10, RecordStep

-----------------------------------------------------------------------------
(***************************************************************************)
(* Seeding, the other processes, and the whole.                            *)
(***************************************************************************)
\* Every step of the loop over the results is done with one, or is of its transaction.
LEMMA SeedKeeps ==
  ASSUME BootInv, SeedStep
  PROVE  BootInv'
<1>0. Server \in Procs /\ DOMAIN reg = Procs /\ DOMAIN pc = Procs
  BY DEF Procs, BootInv, Shapes
<1>1. CASE SeedPass \/ SeedNothing
  BY <1>0, <1>1, TurnStep DEF SeedPass, SeedNothing
<1>2. CASE SeedRefused \/ SeedFails
  BY <1>0, <1>2, TurnStep DEF SeedRefused, SeedFails, Unregister
<1>3. CASE SeedRollback
  BY <1>0, <1>3, TurnStep DEF SeedRollback, InTx, Unregister
<1>4. CASE SeedCommit
  <2>1. Turn.ok /\ Turn.fresh
    BY <1>4 DEF SeedCommit, InTx, BootInv, Phases
  <2> QED
    BY <1>0, <1>4, <2>1, TurnStep DEF SeedCommit, InTx
<1>5. CASE SeedBegin
  BY <1>0, <1>5, PhaseStep DEF SeedBegin, Seeding, ToSeed
<1>6. CASE SeedRow
  BY <1>0, <1>6, PhaseStep DEF SeedRow, InTx, Seeding, BootInv, Phases
<1>7. CASE Listen
  <2>1. /\ pc' = [pc EXCEPT ![Server] = "serve"]
        /\ UNCHANGED <<catalog, data, results, opening, reg, turn, tx>>
        /\ ~(turn <= Len(results[Server]))
    BY <1>7 DEF Listen, Goto, BootInv, Shapes
  <2>2. tx' = NoTx
    BY <2>1 DEF BootInv, Phases
  <2> QED
    BY <1>0, <2>1, <2>2, PhaseStep
<1> QED
  BY <1>1, <1>2, <1>3, <1>4, <1>5, <1>6, <1>7 DEF SeedStep

\* The serving process starts, and comes to the loop.
LEMMA StartKeeps ==
  ASSUME BootInv, Start(Server) \/ Loaded(Server)
  PROVE  BootInv'
<1>0. Server \in Procs /\ DOMAIN pc = Procs /\ tx = NoTx /\ turn = 1
  BY DEF Procs, BootInv, Shapes, Phases, Start, Loaded
<1>1. CASE Start(Server)
  BY <1>0, <1>1, PhaseStep DEF Start, Goto
<1>2. CASE Loaded(Server)
  BY <1>0, <1>2, PhaseStep DEF Loaded, Goto
<1> QED
  BY <1>1, <1>2

\* Whoever is gone keeps nothing.
LEMMA GoneKeeps ==
  ASSUME BootInv, NEW p \in Procs, Gone(p), catalog' \in [1..Len(Dirs) -> Entry],
         DOMAIN data' = Apps,
         \A a \in Apps : /\ DOMAIN data'[a] = {"exists", "ver", "seeded"}
                         /\ data'[a].seeded = data[a].seeded
                         /\ data'[a].exists = data[a].exists
  PROVE  BootInv'
<1>1. /\ DOMAIN pc' = Procs /\ DOMAIN results' = Procs /\ DOMAIN opening' = Procs
      /\ DOMAIN reg' = Procs
  BY DEF Gone, Goto, BootInv, Shapes
<1>2. CASE p = Server
  <2>1. /\ pc'[Server] = "down" /\ results'[Server] = <<>> /\ opening'[Server] = NoOpening
        /\ turn' = 1 /\ tx' = NoTx
    BY <1>2 DEF Gone, Goto, BootInv, Shapes
  <2>2. opening'[Server].fresh \in BOOLEAN
    BY <2>1 DEF NoOpening
  <2> QED
    BY <1>1, <2>1, <2>2, DownStep
<1>3. CASE p # Server
  <2>1. /\ pc'[Server] = pc[Server] /\ results'[Server] = results[Server]
        /\ opening'[Server] = opening[Server] /\ turn' = turn /\ tx' = tx
    BY <1>3 DEF Gone, Goto, Procs, BootInv, Shapes
  <2> QED
    BY <1>1, <2>1, OtherStep
<1> QED
  BY <1>2, <1>3

\* A process dies, is stopped, or has migrated or failed to.
LEMMA EndKeeps ==
  ASSUME BootInv, NEW p \in Procs, Migrate(p) \/ MigrateFails(p) \/ Crash(p) \/ Stop
  PROVE  BootInv'
<1>0. /\ DOMAIN data = Apps /\ \A a \in Apps : DOMAIN data[a] = {"exists", "ver", "seeded"}
      /\ catalog \in [1..Len(Dirs) -> Entry] /\ Server \in Procs
  BY DEF Procs, BootInv, Shapes
<1>1. CASE MigrateFails(p) \/ Crash(p) \/ Stop
  BY <1>0, <1>1, GoneKeeps DEF MigrateFails, Crash, Stop
<1>2. CASE Migrate(p)
  <2>1. PICK a \in DOMAIN reg[p] \ Locked, new \in Manifests :
          /\ data' = [data EXCEPT ![a].ver = new.ver]
          /\ catalog' = [catalog EXCEPT ![reg[p][a].dir].manifest = new]
    BY <1>2 DEF Migrate
  <2>2. /\ DOMAIN data' = Apps
        /\ \A b \in Apps : /\ DOMAIN data'[b] = {"exists", "ver", "seeded"}
                           /\ data'[b].seeded = data[b].seeded
                           /\ data'[b].exists = data[b].exists
    BY <1>0, <2>1
  <2>3. catalog' \in [1..Len(Dirs) -> Entry]
    BY <1>0, <2>1 DEF Entry
  <2>4. Gone(p)
    BY <1>2 DEF Migrate
  <2> QED
    BY <2>2, <2>3, <2>4, GoneKeeps
<1> QED
  BY <1>1, <1>2

\* A migrate process that loads may create the file of an app, and that is all.
LEMMA MigratorKeeps ==
  ASSUME BootInv, NEW p \in Migrators, Start(p) \/ Load(p)
  PROVE  BootInv'
<1>0. /\ p \in Procs /\ Server \in Procs /\ p # Server
      /\ DOMAIN pc = Procs /\ DOMAIN results = Procs /\ DOMAIN opening = Procs /\ DOMAIN reg = Procs
      /\ DOMAIN data = Apps /\ \A a \in Apps : DOMAIN data[a] = {"exists", "ver", "seeded"}
      /\ catalog \in [1..Len(Dirs) -> Entry]
  BY ServerIsNoMigrator DEF Procs, BootInv, Shapes
<1>1. catalog' = catalog /\ turn' = turn /\ tx' = tx
  BY DEF Start, Load, SkipDir, Stat, OpenApp, OpenFails, Loaded
<1>2. DOMAIN pc' = Procs /\ pc'[Server] = pc[Server]
  BY <1>0 DEF Start, Load, SkipDir, Stat, OpenApp, OpenFails, Loaded, Goto
<1>3. DOMAIN results' = Procs /\ results'[Server] = results[Server]
  BY <1>0 DEF Start, Load, SkipDir, Stat, OpenApp, OpenFails, Loaded, Record
<1>4. DOMAIN opening' = Procs /\ opening'[Server] = opening[Server]
  BY <1>0 DEF Start, Load, SkipDir, Stat, OpenApp, OpenFails, Loaded
<1>5. DOMAIN reg' = Procs
  BY <1>0 DEF Start, Load, SkipDir, Stat, OpenApp, OpenFails, Loaded
<1>6. /\ DOMAIN data' = Apps
      /\ \A a \in Apps : /\ DOMAIN data'[a] = {"exists", "ver", "seeded"}
                         /\ data'[a].seeded = data[a].seeded
                         /\ data[a].exists => data'[a].exists
  <2> DEFINE id == opening[p].manifest.id
  <2>1. CASE OpenApp(p)
    <3>1. PICK v : data' = [data EXCEPT ![id].exists = TRUE, ![id].ver = v]
      BY <2>1 DEF OpenApp
    <3> HIDE DEF id
    <3> QED
      BY <1>0, <3>1
  <2>2. CASE OpenFails(p)
    <3>1. PICK created \in {TRUE, data[id].exists} : data' = [data EXCEPT ![id].exists = created]
      BY <2>2 DEF OpenFails
    <3> HIDE DEF id
    <3>2. CASE created = TRUE
      BY <1>0, <3>1, <3>2
    <3>3. CASE created = data[id].exists
      <4>1. id \in Apps => data'[id].exists = data[id].exists
        BY <1>0, <3>1, <3>3
      <4> QED
        BY <1>0, <3>1, <4>1
    <3> QED
      BY <3>1, <3>2, <3>3
  <2>3. CASE data' = data
    BY <1>0, <2>3
  <2> QED
    BY <2>1, <2>2, <2>3 DEF Start, Load, SkipDir, Stat, Loaded
<1>7. catalog' \in [1..Len(Dirs) -> Entry]
  BY <1>0, <1>1
<1> QED
  BY <1>1, <1>2, <1>3, <1>4, <1>5, <1>6, <1>7, OtherStep

\* The operator edits or deletes while nothing runs.
LEMMA OperatorKeeps ==
  ASSUME BootInv, EditCatalog \/ DeleteData
  PROVE  BootInv'
<1>0. /\ pc[Server] = "down" /\ results[Server] = <<>> /\ turn = 1 /\ tx = NoTx
      /\ DOMAIN data = Apps /\ \A a \in Apps : DOMAIN data[a] = {"exists", "ver", "seeded"}
      /\ catalog \in [1..Len(Dirs) -> Entry] /\ opening[Server].fresh \in BOOLEAN
      /\ DOMAIN pc = Procs /\ DOMAIN results = Procs /\ DOMAIN opening = Procs /\ DOMAIN reg = Procs
  BY DEF Procs, BootInv, Shapes, Phases, EditCatalog, DeleteData, Quiet
<1>1. UNCHANGED <<pc, results, opening, reg, turn, tx>>
  BY DEF EditCatalog, DeleteData
<1>2. catalog' \in [1..Len(Dirs) -> Entry]
  BY <1>0, CatalogsAreEntries DEF EditCatalog, DeleteData
<1>3. DOMAIN data' = Apps /\ \A a \in Apps :
        /\ DOMAIN data'[a] = {"exists", "ver", "seeded"}
        /\ \/ data'[a].seeded = <<>>
           \/ data'[a].seeded = data[a].seeded /\ (data[a].exists => data'[a].exists)
  BY <1>0 DEF EditCatalog, DeleteData, NoData
<1> QED
  BY <1>0, <1>1, <1>2, <1>3, DownStep

\* The invariant is inductive.
LEMMA BootInvInductive == BootInv /\ [Next]_vars => BootInv'
<1> SUFFICES ASSUME BootInv, [Next]_vars
             PROVE  BootInv'
  OBVIOUS
<1>1. CASE UNCHANGED vars
  BY <1>1, OtherStep DEF vars, BootInv, Shapes
<1>2. CASE Stop \/ EditCatalog \/ DeleteData
  BY <1>2, EndKeeps, OperatorKeeps DEF Procs
<1>3. ASSUME NEW p \in Procs, Start(p) \/ Load(p)
      PROVE  BootInv'
  <2>1. CASE p = Server
    BY <1>3, <2>1, StartKeeps, SkipKeeps, StatKeeps, OpenKeeps DEF Load
  <2>2. CASE p \in Migrators
    BY <1>3, <2>2, MigratorKeeps
  <2> QED
    BY <2>1, <2>2 DEF Procs
<1>4. CASE SeedStep
  BY <1>4, SeedKeeps
<1>5. ASSUME NEW p \in Procs, Migrate(p) \/ MigrateFails(p) \/ Crash(p)
      PROVE  BootInv'
  BY <1>5, EndKeeps
<1> QED
  BY <1>1, <1>2, <1>3, <1>4, <1>5 DEF Next, Work

\* However many boots there are, whatever directories share an app, and whichever
\* process creates the database: it is seeded at most once (boot.go:22-24, 103-105;
\* main.go:100-118).
THEOREM SeedingHappensOnce == Spec => []SeededOnce
<1>1. BootInv => SeededOnce
  <2>1. ASSUME BootInv, NEW a \in Apps
        PROVE  Len(data[a].seeded) <= 1
    <3>1. data[a].seeded = <<>> \/ Len(data[a].seeded) = 1
      BY <2>1 DEF BootInv, Seeds, Unseeded
    <3>2. Len(<<>>) = 0
      OBVIOUS
    <3>3. CASE data[a].seeded = <<>>
      BY <3>2, <3>3
    <3>4. CASE Len(data[a].seeded) = 1
      BY <3>4
    <3> QED
      BY <3>1, <3>3, <3>4
  <2> QED
    BY <2>1 DEF SeededOnce
<1> QED
  BY <1>1, InitBootInv, BootInvInductive, PTL DEF Spec

-----------------------------------------------------------------------------
(***************************************************************************)
(* Files and rows.                                                         *)
(***************************************************************************)
SeedItems == [ent : STRING, row : SeedRows]
DbRows == [ent : STRING, label : SUBSET STRING, refs : SUBSET Nat]

\* The rows of the files, entity by entity.
FilesInOrder(folder, m) ==
  [n \in 1..Len(m.entities) |->
    LET e == m.entities[n]
    IN IF e \in DOMAIN folder
       THEN [i \in 1..Len(folder[e]) |-> [ent |-> e, row |-> folder[e][i]]] ELSE <<>>]

LEMMA OrderedFiles ==
  ASSUME NEW folder \in Folders, NEW m \in Manifests
  PROVE  /\ RowsInOrder(folder, m) = FlattenSeq(FilesInOrder(folder, m))
         /\ FilesInOrder(folder, m) \in Seq(Seq(SeedItems))
         /\ Len(FilesInOrder(folder, m)) = Len(m.entities)
         /\ RowsInOrder(folder, m) \in Seq(SeedItems)
<1>1. RowsInOrder(folder, m) = FlattenSeq(FilesInOrder(folder, m))
  BY DEF RowsInOrder, FilesInOrder
<1>2. m.entities \in Seq(STRING) /\ Len(m.entities) \in Nat
  BY EntitiesAreListed
<1>3. ASSUME NEW n \in 1..Len(m.entities)
      PROVE  FilesInOrder(folder, m)[n] \in Seq(SeedItems)
  <2> DEFINE e == m.entities[n]
  <2>1. e \in STRING
    BY <1>2
  <2>2. CASE e \in DOMAIN folder
    <3>1. folder[e] \in Seq(SeedRows) /\ Len(folder[e]) \in Nat
      BY <2>2, FoldersAreOfRows
    <3>2. \A i \in 1..Len(folder[e]) : [ent |-> e, row |-> folder[e][i]] \in SeedItems
      BY <2>1, <3>1 DEF SeedItems
    <3>3. FilesInOrder(folder, m)[n] = [i \in 1..Len(folder[e]) |-> [ent |-> e, row |-> folder[e][i]]]
      BY <2>2 DEF FilesInOrder
    <3> HIDE DEF e
    <3> QED
      BY <3>1, <3>2, <3>3
  <2>3. CASE e \notin DOMAIN folder
    <3>1. FilesInOrder(folder, m)[n] = <<>>
      BY <2>3 DEF FilesInOrder
    <3> QED
      BY <3>1
  <2> QED
    BY <2>2, <2>3
<1>4. FilesInOrder(folder, m) \in Seq(Seq(SeedItems)) /\ Len(FilesInOrder(folder, m)) = Len(m.entities)
  <2> DEFINE files == FilesInOrder(folder, m)
             L == Len(m.entities)
  <2>1. files = [n \in 1..L |-> files[n]]
    BY DEF FilesInOrder
  <2>2. L \in Nat /\ \A n \in 1..L : files[n] \in Seq(SeedItems)
    BY <1>2, <1>3
  <2> HIDE DEF files, L
  <2>3. files \in Seq(Seq(SeedItems)) /\ Len(files) = L
    BY <2>1, <2>2
  <2> QED
    BY <2>3 DEF files, L
<1> QED
  BY <1>1, <1>4, FlattenIsSeq

\* The rows of one file, among those of all: side by side and in their order.
FileAt(todo, off, e, file) ==
  /\ off + Len(file) <= Len(todo)
  /\ \A n \in 1..Len(todo) : todo[n].ent = e <=> n \in (off + 1)..(off + Len(file))
  /\ \A i \in 1..Len(file) : todo[off + i].row = file[i]

LEMMA FileLies ==
  ASSUME NEW folder \in Folders, NEW m \in Manifests, DOMAIN folder \subseteq m.creates,
         NEW e \in DOMAIN folder
  PROVE  \E off \in Nat : FileAt(RowsInOrder(folder, m), off, e, folder[e])
<1> DEFINE files == FilesInOrder(folder, m)
           todo == RowsInOrder(folder, m)
           P == {item \in SeedItems : item.ent = e}
<1>0. /\ todo = FlattenSeq(files) /\ files \in Seq(Seq(SeedItems))
      /\ Len(files) = Len(m.entities) /\ todo \in Seq(SeedItems)
  BY OrderedFiles
<1>1. m.entities \in Seq(STRING) /\ Len(m.entities) \in Nat /\ DOMAIN m.entities = 1..Len(m.entities)
  BY EntitiesAreListed
<1>2. PICK j \in 1..Len(files) : m.entities[j] = e
  <2>1. e \in m.creates
    OBVIOUS
  <2>2. \E i \in DOMAIN m.entities : m.entities[i] = e
    BY <2>1, EntitiesAreListed
  <2> QED
    BY <1>0, <1>1, <2>2
<1>3. files[j] = [i \in 1..Len(folder[e]) |-> [ent |-> e, row |-> folder[e][i]]]
  BY <1>0, <1>2 DEF FilesInOrder
<1>4. Len(folder[e]) \in Nat /\ Len(files[j]) = Len(folder[e])
  BY <1>3, FoldersAreOfRows
<1>5. ASSUME NEW k \in 1..Len(files), k # j
      PROVE  NoneOf(files[k], P)
  <2> DEFINE d == m.entities[k]
  <2>1. d # e
    BY <1>0, <1>1, <1>2, <1>5, EntitiesAreListed
  <2>2. CASE d \in DOMAIN folder
    <3>1. files[k] = [i \in 1..Len(folder[d]) |-> [ent |-> d, row |-> folder[d][i]]]
      BY <1>0, <2>2 DEF FilesInOrder
    <3>2. Len(folder[d]) \in Nat
      BY <2>2, FoldersAreOfRows
    <3> HIDE DEF d, files
    <3> QED
      BY <2>1, <3>1, <3>2 DEF NoneOf
  <2>3. CASE d \notin DOMAIN folder
    <3>1. files[k] = <<>>
      BY <1>0, <2>3 DEF FilesInOrder
    <3> HIDE DEF files
    <3> QED
      BY <3>1 DEF NoneOf
  <2> QED
    BY <2>2, <2>3
<1>6. files[j] \in Seq(SeedItems)
  BY <1>0, <1>2
<1>7. ASSUME NEW i \in 1..Len(files[j])
      PROVE  files[j][i] \in P /\ files[j][i].row = folder[e][i]
  <2>1. files[j][i] \in SeedItems
    BY <1>6
  <2>2. files[j][i] = [ent |-> e, row |-> folder[e][i]]
    BY <1>3, <1>4
  <2> HIDE DEF files
  <2> QED
    BY <2>1, <2>2
<1> HIDE DEF files, todo, P
<1>8. PICK off \in Nat : LiesAt(todo, off, files[j], P)
  BY <1>0, <1>2, <1>5, <1>7, FlattenPlaces
<1>9. \A n \in 1..Len(todo) : todo[n].ent = e <=> n \in (off + 1)..(off + Len(folder[e]))
  <2>1. \A n \in 1..Len(todo) : todo[n] \in P <=> todo[n].ent = e
    BY <1>0 DEF P
  <2> QED
    BY <1>4, <1>8, <2>1 DEF LiesAt
<1>10. \A i \in 1..Len(folder[e]) : todo[off + i].row = folder[e][i]
  BY <1>4, <1>7, <1>8 DEF LiesAt
<1>11. off + Len(folder[e]) <= Len(todo)
  BY <1>4, <1>8 DEF LiesAt
<1>12. FileAt(todo, off, e, folder[e])
  BY <1>9, <1>10, <1>11 DEF FileAt
<1> QED
  BY <1>12 DEF todo

\* Rows inserted in the order of a list, each with its references.
Inserted(rows, todo) ==
  /\ rows \in Seq(DbRows) /\ Len(rows) <= Len(todo)
  /\ \A n \in 1..Len(rows) :
       /\ rows[n].ent = todo[n].ent /\ rows[n].label = todo[n].row.label
       /\ \A ref \in todo[n].row.refs :
            \E m \in rows[n].refs :
              m \in 1..(n - 1) /\ rows[m].ent = ref.target /\ rows[m].label = {ref.key}

Complete(seeded) ==
  /\ seeded.folder \in Folders
  /\ \E m \in Manifests :
       LET todo == RowsInOrder(seeded.folder, m)
       IN /\ DOMAIN seeded.folder \subseteq m.creates
          /\ Inserted(seeded.rows, todo) /\ Len(seeded.rows) = Len(todo)

\* Rows inserted to the end of the list are the seed as a whole.
LEMMA CompleteIsWhole ==
  ASSUME NEW seeded, Complete(seeded)
  PROVE  IsWhole(seeded.folder, seeded.rows)
<1> DEFINE folder == seeded.folder
           rows == seeded.rows
<1>1. PICK m \in Manifests :
        LET todo == RowsInOrder(folder, m)
        IN /\ DOMAIN folder \subseteq m.creates
           /\ Inserted(rows, todo) /\ Len(rows) = Len(todo)
  BY DEF Complete
<1>2. folder \in Folders
  BY DEF Complete
<1> HIDE DEF folder, rows
<1> DEFINE todo == RowsInOrder(folder, m)
<1> SUFFICES ASSUME NEW e \in DOMAIN folder
             PROVE  LET placed == {n \in 1..Len(rows) : rows[n].ent = e}
                        source(n) == folder[e][Cardinality({k \in placed : k <= n})]
                    IN /\ Cardinality(placed) = Len(folder[e])
                       /\ \A n \in placed : \A ref \in source(n).refs :
                            \E k \in rows[n].refs :
                              k < n /\ rows[k].ent = ref.target /\ rows[k].label = {ref.key}
  BY DEF IsWhole, folder, rows
<1>3. PICK off \in Nat : FileAt(todo, off, e, folder[e])
  <2>1. DOMAIN folder \subseteq m.creates
    BY <1>1
  <2> QED
    BY <1>2, <2>1, FileLies
<1>4. /\ Len(folder[e]) \in Nat /\ Len(rows) \in Nat /\ Len(rows) = Len(todo)
      /\ Inserted(rows, todo)
  <2>1. Len(folder[e]) \in Nat
    BY <1>2, FoldersAreOfRows
  <2>2. Inserted(rows, todo) /\ Len(rows) = Len(todo)
    BY <1>1
  <2>3. Len(rows) \in Nat
    BY <2>2 DEF Inserted
  <2> QED
    BY <2>1, <2>2, <2>3
<1> DEFINE placed == {n \in 1..Len(rows) : rows[n].ent = e}
<1> HIDE DEF todo
<1>5. placed = (off + 1)..(off + Len(folder[e]))
  <2>1. \A n \in 1..Len(rows) : rows[n].ent = e <=> n \in (off + 1)..(off + Len(folder[e]))
    BY <1>3, <1>4 DEF Inserted, FileAt
  <2>2. \A n \in (off + 1)..(off + Len(folder[e])) : n \in 1..Len(rows)
    BY <1>3, <1>4 DEF FileAt
  <2> QED
    BY <2>1, <2>2
<1>6. Cardinality(placed) = Len(folder[e])
  <2>1. off + 1 \in Int /\ off + Len(folder[e]) \in Int
    BY <1>4
  <2> DEFINE a == off + 1
             b == off + Len(folder[e])
  <2>2. Cardinality(a..b) = IF a > b THEN 0 ELSE b - a + 1
    BY <2>1, FS_Interval
  <2>3. (IF a > b THEN 0 ELSE b - a + 1) = Len(folder[e])
    BY <1>4
  <2> QED
    BY <1>5, <2>2, <2>3
<1>7. ASSUME NEW n \in placed
      PROVE  /\ Cardinality({k \in placed : k <= n}) = n - off
             /\ n \in 1..Len(rows) /\ n - off \in 1..Len(folder[e])
             /\ todo[n].row = folder[e][n - off]
  <2>1. {k \in placed : k <= n} = (off + 1)..n /\ n \in Nat /\ n > off
    BY <1>4, <1>5
  <2>2. Cardinality((off + 1)..n) = n - off
    BY <2>1, FS_Interval
  <2>3. n - off \in 1..Len(folder[e]) /\ off + (n - off) = n
    BY <1>4, <1>5, <2>1
  <2>4. todo[n].row = folder[e][n - off]
    BY <1>3, <2>3 DEF FileAt
  <2> QED
    BY <2>1, <2>2, <2>3, <2>4
<1>8. ASSUME NEW n \in placed,
             NEW ref \in folder[e][Cardinality({k \in placed : k <= n})].refs
      PROVE  \E k \in rows[n].refs :
               k < n /\ rows[k].ent = ref.target /\ rows[k].label = {ref.key}
  <2>1. ref \in todo[n].row.refs /\ n \in 1..Len(rows)
    BY <1>7, <1>8
  <2>2. PICK k \in rows[n].refs :
          k \in 1..(n - 1) /\ rows[k].ent = ref.target /\ rows[k].label = {ref.key}
    BY <1>4, <2>1 DEF Inserted
  <2> QED
    BY <2>1, <2>2
<1> QED
  BY <1>6, <1>8

-----------------------------------------------------------------------------
(***************************************************************************)
(* What a boot leaves behind: SeededWhole, SeededBeforeServed, OthersServed.*)
(***************************************************************************)
DbRecord == [exists : BOOLEAN, ver : Versions \cup {0},
             seeded : Seq([folder : Folders, rows : Seq(DbRows)])]

\* What has been seeded has been seeded whole.
Filled ==
  /\ data \in [Apps -> DbRecord]
  /\ \A a \in Apps : \A n \in 1..Len(data[a].seeded) : Complete(data[a].seeded[n])

\* A directory's manifest is edited by migrations only, to one of the same app.
Same(m1, m2) == IF m1 = NoManifest THEN m2 = NoManifest ELSE m2 # NoManifest /\ m1.id = m2.id

Scanned(p) ==
  /\ results[p] \in Seq(Results) /\ Len(results[p]) <= Len(Dirs)
  /\ pc[p] \in {"down", "load", "open", "seed", "serve", "apply"}
  /\ opening[p].fresh \in BOOLEAN
  /\ pc[p] = "down" => results[p] = <<>> /\ reg[p] = Nothing
  /\ pc[p] = "open" => /\ Len(results[p]) < Len(Dirs)
                       /\ opening[p].manifest \in Manifests
                       /\ Same(opening[p].manifest, catalog[Dir(p)].manifest)
  /\ pc[p] \in {"seed", "serve", "apply"} => Len(results[p]) = Len(Dirs)
  /\ \A d \in 1..Len(results[p]) : Same(results[p][d].manifest, catalog[d].manifest)

\* An app is registered with the manifest a directory was accepted with.
RegisteredFrom(p, a, d) ==
  /\ d \in 1..Len(results[p])
  /\ results[p][d].ok /\ results[p][d].manifest = reg[p][a].manifest
  /\ reg[p][a].manifest \in Manifests /\ reg[p][a].manifest.id = a

Registers(p) == \A a \in DOMAIN reg[p] : RegisteredFrom(p, a, reg[p][a].dir)

Own(p) == Scanned(p) /\ Registers(p)

\* A database that was accepted is at its manifest's version or a later one.
Aged ==
  \A d \in 1..Len(results[Server]) :
    LET m == results[Server][d].manifest
    IN results[Server][d].ok => m \in Manifests /\ m.ver <= data[m.id].ver

Underway ==
  tx # NoTx =>
    /\ DOMAIN tx = {"app", "folder", "todo", "rows"}
    /\ Turn.manifest.id \in DOMAIN reg[Server]
    /\ tx.folder = Folder /\ tx.todo = RowsInOrder(Folder, Registered.manifest)
    /\ DOMAIN Folder \subseteq Registered.manifest.creates
    /\ Inserted(tx.rows, tx.todo)

\* A result the loop is done with: its app has been seeded, if it is still registered.
DoneWith(res) ==
  res.ok /\ res.fresh /\ res.manifest.id \in DOMAIN reg[Server] =>
    LET folder == catalog[reg[Server][res.manifest.id].dir].seed
    IN folder # Nothing => \E k \in 1..Len(data[res.manifest.id].seeded) :
                             data[res.manifest.id].seeded[k].folder = folder

Done == \A n \in 1..Len(results[Server]) : n < turn => DoneWith(results[Server][n])

\* An app that is not registered any more, or never was, has itself to blame.
Blamed(a) == a \in FaultyApps \/ \E e \in 1..Len(results[Server]) : Excused(a, e)

Accounted ==
  \A a \in Apps :
    /\ a \notin DOMAIN reg[Server]
    /\ \E d \in 1..Len(results[Server]) :
         results[Server][d].manifest # NoManifest /\ results[Server][d].manifest.id = a
    => Blamed(a)

Loop == pc[Server] = "serve" => turn > Len(results[Server])

ServerInv == Aged /\ Underway /\ Done /\ Accounted /\ Loop

SeedInv == Filled /\ (\A p \in Procs : Own(p)) /\ ServerInv

-----------------------------------------------------------------------------
(***************************************************************************)
(* What every step but the operator's leaves of the catalog and the data.  *)
(***************************************************************************)
Moves ==
  /\ catalog' \in [1..Len(Dirs) -> Entry]
  /\ \A d \in 1..Len(Dirs) : /\ catalog'[d].seed = catalog[d].seed
                             /\ Same(catalog[d].manifest, catalog'[d].manifest)
  /\ \A a \in Apps : data[a].ver <= data'[a].ver

LEMMA InitSeedInv == Init => SeedInv
<1> SUFFICES ASSUME Init
             PROVE  SeedInv
  OBVIOUS
<1>0. Server \in Procs
  BY DEF Procs
<1>1. Filled
  <2>1. NoData \in DbRecord /\ NoData.seeded = <<>>
    <3>1. <<>> \in Seq([folder : Folders, rows : Seq(DbRows)])
      OBVIOUS
    <3> QED
      BY <3>1 DEF NoData, DbRecord
  <2> QED
    BY <2>1 DEF Init, Filled
<1>2. ASSUME NEW p \in Procs
      PROVE  Own(p)
  <2>1. pc[p] = "down" /\ results[p] = <<>> /\ reg[p] = Nothing /\ DOMAIN reg[p] = {}
    BY DEF Init, Nothing
  <2>3. opening[p].fresh \in BOOLEAN
    BY DEF Init, NoOpening
  <2>2. <<>> \in Seq(Results) /\ Len(<<>>) = 0
    OBVIOUS
  <2> QED
    BY <2>1, <2>2, <2>3, DirsAreListed DEF Own, Scanned, Registers
<1>3. ServerInv
  <2>1. pc[Server] = "down" /\ results[Server] = <<>> /\ tx = NoTx /\ Len(<<>>) = 0
    BY <1>0 DEF Init
  <2> QED
    BY <2>1 DEF ServerInv, Aged, Underway, Done, Accounted, Loop
<1> QED
  BY <1>1, <1>2, <1>3 DEF SeedInv

\* The same app, twice over.
LEMMA SameIsTransitive ==
  ASSUME NEW m1, NEW m2, NEW m3, Same(m1, m2), Same(m2, m3)
  PROVE  Same(m1, m3)
BY DEF Same

\* What a process has read stays true while others move.
LEMMA OwnStays ==
  ASSUME NEW p, Own(p), Moves,
         /\ pc'[p] = pc[p] /\ results'[p] = results[p] /\ opening'[p] = opening[p]
         /\ reg'[p] = reg[p]
  PROVE  Own(p)'
<1>1. ASSUME NEW d \in 1..Len(Dirs), NEW m, Same(m, catalog[d].manifest)
      PROVE  Same(m, catalog'[d].manifest)
  BY <1>1, SameIsTransitive DEF Moves
<1>2. Scanned(p)'
  <2>1. Scanned(p) /\ Len(results[p]) \in Nat /\ Dir(p)' = Dir(p)
    BY DEF Own, Scanned, Dir
  <2>2. pc[p] = "open" => Dir(p) \in 1..Len(Dirs)
    BY <2>1, DirsAreListed DEF Scanned, Dir
  <2>3. (pc[p] = "open" => Same(opening[p].manifest, catalog[Dir(p)].manifest))'
    BY <1>1, <2>1, <2>2 DEF Scanned
  <2>4. (\A d \in 1..Len(results[p]) : Same(results[p][d].manifest, catalog[d].manifest))'
    BY <1>1, <2>1, DirsAreListed DEF Scanned
  <2> QED
    BY <2>1, <2>3, <2>4 DEF Scanned
<1>3. Registers(p)'
  BY DEF Own, Registers, RegisteredFrom
<1> QED
  BY <1>2, <1>3 DEF Own

\* A process that is gone has read nothing.
LEMMA OwnGone ==
  ASSUME NEW p, pc'[p] = "down", results'[p] = <<>>, reg'[p] = Nothing,
         opening'[p].fresh \in BOOLEAN
  PROVE  Own(p)'
<1>1. <<>> \in Seq(Results) /\ Len(<<>>) = 0 /\ DOMAIN reg'[p] = {}
  BY DEF Nothing
<1> QED
  BY <1>1, DirsAreListed DEF Own, Scanned, Registers

\* What a registered app of the server is.
LEMMA ServersApps ==
  ASSUME BootInv, SeedInv
  PROVE  /\ Server \in Procs /\ results[Server] \in Seq(Results) /\ Len(results[Server]) \in Nat
         /\ Len(results[Server]) <= Len(Dirs) /\ Len(Dirs) \in Nat
         /\ \A d \in 1..Len(results[Server]) : d \in 1..Len(Dirs)
         /\ \A a \in DOMAIN reg[Server] : /\ a \in Apps /\ reg[Server][a].dir \in 1..Len(Dirs)
                                          /\ RegisteredFrom(Server, a, reg[Server][a].dir)
<1>1. Server \in Procs
  BY DEF Procs
<1>2. Own(Server) /\ Len(Dirs) \in Nat
  BY <1>1, DirsAreListed DEF SeedInv
<1>3. results[Server] \in Seq(Results) /\ Len(results[Server]) \in Nat /\ Len(results[Server]) <= Len(Dirs)
  BY <1>2 DEF Own, Scanned
<1>4. ASSUME NEW a \in DOMAIN reg[Server]
      PROVE  /\ a \in Apps /\ reg[Server][a].dir \in 1..Len(Dirs)
             /\ RegisteredFrom(Server, a, reg[Server][a].dir)
  BY <1>2, <1>3 DEF Own, Registers, RegisteredFrom, Apps
<1> QED
  BY <1>1, <1>2, <1>3, <1>4

\* Versions are numbers.
LEMMA VersionsAreNat ==
  /\ Filled => \A a \in Apps : data[a] \in DbRecord /\ data[a].ver \in Nat
  /\ Filled' => \A a \in Apps : data'[a] \in DbRecord /\ data'[a].ver \in Nat
<1>1. \A v \in Versions \cup {0} : v \in Nat
  BY VersionsAreNumbered
<1>2. \A r \in DbRecord : r.ver \in Nat
  BY <1>1 DEF DbRecord
<1> QED
  BY <1>2 DEF Filled

\* Blame stays: what was refused stays refused, a version that has moved on does not
\* come back, and a seed is edited between boots only.
LEMMA BlameStays ==
  ASSUME BootInv, SeedInv, Filled', Moves, NEW a \in Apps, Blamed(a),
         Len(results'[Server]) \in Nat, Len(results[Server]) <= Len(results'[Server]),
         \A d \in 1..Len(results[Server]) : results'[Server][d] = results[Server][d]
  PROVE  Blamed(a)'
<1>1. CASE a \in FaultyApps
  BY <1>1 DEF Blamed
<1>2. CASE a \notin FaultyApps
  <2>1. PICK e \in 1..Len(results[Server]) : Excused(a, e)
    BY <1>2 DEF Blamed
  <2>2. /\ e \in 1..Len(results'[Server]) /\ results'[Server][e] = results[Server][e]
        /\ e \in 1..Len(Dirs) /\ catalog'[e].seed = catalog[e].seed
    BY ServersApps DEF Moves
  <2>3. results[Server][e].manifest # NoManifest /\ results[Server][e].manifest.id = a
    BY <2>1 DEF Excused
  <2>4. results[Server][e].ok => results[Server][e].manifest.ver <= data[a].ver
                                 /\ results[Server][e].manifest.ver \in Nat
    BY <2>3, VersionsAreNumbered DEF SeedInv, ServerInv, Aged, Versions
  <2>5. data[a].ver \in Nat /\ data'[a].ver \in Nat /\ data[a].ver <= data'[a].ver
    BY VersionsAreNat DEF SeedInv, Moves
  <2>6. Excused(a, e)'
    <3>1. CASE ~results[Server][e].ok
      BY <2>2, <2>3, <3>1 DEF Excused
    <3>2. CASE results[Server][e].ok /\ data[a].ver # results[Server][e].manifest.ver
      <4>1. data'[a].ver # results[Server][e].manifest.ver
        BY <2>4, <2>5, <3>2
      <4> QED
        BY <2>2, <2>3, <4>1 DEF Excused
    <3>3. CASE ~Seedable(catalog[e].seed, results[Server][e].manifest)
      BY <2>2, <2>3, <3>3 DEF Excused
    <3> QED
      BY <2>1, <3>1, <3>2, <3>3 DEF Excused
  <2> QED
    BY <2>2, <2>6 DEF Blamed
<1> QED
  BY <1>1, <1>2

-----------------------------------------------------------------------------
(***************************************************************************)
(* The serving process.                                                    *)
(***************************************************************************)
\* A result names an app.
LEMMA ResultsName ==
  ASSUME BootInv, SeedInv, NEW d \in 1..Len(results[Server]),
         results[Server][d].manifest # NoManifest
  PROVE  results[Server][d].manifest \in Manifests /\ results[Server][d].manifest.id \in Apps
<1>1. results[Server][d] \in Results
  BY ServersApps
<1>2. results[Server][d].manifest \in Manifests
  BY <1>1 DEF Results
<1> QED
  BY <1>2 DEF Apps

\* Age only grows.
LEMMA AgeStays ==
  ASSUME BootInv, SeedInv, Filled', Moves, NEW d \in 1..Len(results[Server]), results[Server][d].ok
  PROVE  /\ results[Server][d].manifest \in Manifests
         /\ results[Server][d].manifest.ver <= data'[results[Server][d].manifest.id].ver
<1> DEFINE m == results[Server][d].manifest
<1>1. m \in Manifests /\ m.ver <= data[m.id].ver
  BY DEF SeedInv, ServerInv, Aged
<1> HIDE DEF m
<1>2. m.id \in Apps /\ m.ver \in Nat
  BY <1>1, VersionsAreNumbered DEF Apps, Versions
<1>3. data[m.id].ver \in Nat /\ data'[m.id].ver \in Nat /\ data[m.id].ver <= data'[m.id].ver
  BY <1>2, VersionsAreNat DEF SeedInv, Moves
<1>4. m.ver <= data'[m.id].ver
  BY <1>1, <1>2, <1>3
<1> QED
  BY <1>1, <1>4 DEF m

\* What the loop is done with stays so, as apps go and seeds come.
LEMMA DoneStays ==
  ASSUME BootInv, SeedInv, NEW n \in 1..Len(results[Server]), DoneWith(results[Server][n]),
         results'[Server] = results[Server],
         \A a \in DOMAIN reg'[Server] : a \in DOMAIN reg[Server] /\ reg'[Server][a] = reg[Server][a],
         \A d \in 1..Len(Dirs) : catalog'[d].seed = catalog[d].seed,
         \A a \in Apps : \A k \in 1..Len(data[a].seeded) :
           k \in 1..Len(data'[a].seeded) /\ data'[a].seeded[k] = data[a].seeded[k]
  PROVE  DoneWith(results[Server][n])'
<1> DEFINE res == results[Server][n]
           a == res.manifest.id
           folder == catalog[reg[Server][a].dir].seed
<1> SUFFICES ASSUME res.ok, res.fresh, a \in DOMAIN reg'[Server],
                    catalog'[reg'[Server][a].dir].seed # Nothing
             PROVE  \E k \in 1..Len(data'[a].seeded) :
                      data'[a].seeded[k].folder = catalog'[reg'[Server][a].dir].seed
  BY DEF DoneWith
<1>1. a \in DOMAIN reg[Server] /\ reg'[Server][a] = reg[Server][a]
  OBVIOUS
<1>2. a \in Apps /\ reg[Server][a].dir \in 1..Len(Dirs)
  BY <1>1, ServersApps
<1>3. catalog'[reg'[Server][a].dir].seed = folder /\ folder # Nothing
  BY <1>1, <1>2
<1>4. PICK k \in 1..Len(data[a].seeded) : data[a].seeded[k].folder = folder
  BY <1>1, <1>3 DEF DoneWith
<1> HIDE DEF folder, a
<1> QED
  BY <1>2, <1>3, <1>4

\* Others do no harm to a transaction it has open.
LEMMA UnderwayStays ==
  ASSUME BootInv, SeedInv, Moves,
         /\ results'[Server] = results[Server] /\ reg'[Server] = reg[Server]
         /\ turn' = turn /\ tx' = tx
  PROVE  Underway'
<1>1. Turn' = Turn
  BY DEF Turn
<1>2. ASSUME Turn.manifest.id \in DOMAIN reg[Server]
      PROVE  Folder' = Folder /\ Registered' = Registered
  BY <1>1, <1>2, ServersApps DEF Folder, Registered, Moves
<1> QED
  BY <1>1, <1>2 DEF SeedInv, ServerInv, Underway

\* While its results and its registry rest, others do it no harm.
LEMMA ServerStays ==
  ASSUME BootInv, SeedInv, Filled', Moves, Underway',
         \A a \in Apps : data'[a].seeded = data[a].seeded,
         /\ results'[Server] = results[Server] /\ reg'[Server] = reg[Server] /\ turn' = turn,
         pc'[Server] = "serve" => turn > Len(results[Server])
  PROVE  ServerInv'
<1>1. Aged'
  <2> SUFFICES ASSUME NEW d \in 1..Len(results[Server]), results[Server][d].ok
               PROVE  /\ results[Server][d].manifest \in Manifests
                      /\ results[Server][d].manifest.ver <= data'[results[Server][d].manifest.id].ver
    BY DEF Aged
  <2> QED
    BY AgeStays
<1>2. Done'
  <2> SUFFICES ASSUME NEW n \in 1..Len(results[Server]), n < turn
               PROVE  DoneWith(results[Server][n])'
    BY DEF Done
  <2>1. DoneWith(results[Server][n])
    BY DEF SeedInv, ServerInv, Done
  <2> QED
    BY <2>1, DoneStays DEF Moves
<1>3. Accounted'
  <2> SUFFICES ASSUME NEW a \in Apps, a \notin DOMAIN reg[Server],
                      \E d \in 1..Len(results[Server]) :
                        results[Server][d].manifest # NoManifest /\ results[Server][d].manifest.id = a
               PROVE  Blamed(a)'
    BY DEF Accounted
  <2>1. Blamed(a)
    BY DEF SeedInv, ServerInv, Accounted
  <2> QED
    BY <2>1, ServersApps, BlameStays
<1>4. Loop'
  BY DEF Loop
<1> QED
  BY <1>1, <1>2, <1>3, <1>4 DEF ServerInv

\* When it is down there is nothing to say of it.
LEMMA ServerDown ==
  ASSUME pc'[Server] = "down", results'[Server] = <<>>, tx' = NoTx
  PROVE  ServerInv'
<1>1. Len(<<>>) = 0
  OBVIOUS
<1> QED
  BY <1>1 DEF ServerInv, Aged, Underway, Done, Accounted, Loop

\* A result is recorded, before any is acted on.  Whatever is not registered is to
\* blame: not accepted, or replaced by another directory of its app.
LEMMA ServerRecords ==
  ASSUME BootInv, SeedInv, Filled', Moves, NEW STATE res, res \in Results,
         pc[Server] \in {"load", "open"}, pc'[Server] = "load",
         results'[Server] = Append(results[Server], res), turn' = turn, tx' = tx,
         DOMAIN reg[Server] \subseteq DOMAIN reg'[Server],
         res.ok => /\ res.manifest \in Manifests /\ res.manifest.id \in DOMAIN reg'[Server]
                   /\ res.manifest.ver <= data'[res.manifest.id].ver
  PROVE  ServerInv'
<1> DEFINE last == Len(results[Server]) + 1
<1>0. /\ turn = 1 /\ tx = NoTx /\ Len(results[Server]) \in Nat
      /\ Len(results'[Server]) = last /\ results'[Server][last] = res
      /\ \A d \in 1..Len(results[Server]) : results'[Server][d] = results[Server][d]
      /\ \A d \in 1..last : d # last => d \in 1..Len(results[Server])
  BY ServersApps DEF BootInv, Phases
<1> HIDE DEF last
<1>1. Aged'
  <2> SUFFICES ASSUME NEW d \in 1..last, results'[Server][d].ok
               PROVE  /\ results'[Server][d].manifest \in Manifests
                      /\ results'[Server][d].manifest.ver <= data'[results'[Server][d].manifest.id].ver
    BY <1>0 DEF Aged
  <2>1. CASE d = last
    BY <1>0, <2>1
  <2>2. CASE d # last
    <3>1. results'[Server][d] = results[Server][d] /\ d \in 1..Len(results[Server])
      BY <1>0, <2>2
    <3> QED
      BY <3>1, AgeStays
  <2> QED
    BY <2>1, <2>2
<1>2. Underway' /\ Loop' /\ Done'
  BY <1>0 DEF Underway, Loop, Done
<1>3. Accounted'
  <2> SUFFICES ASSUME NEW a \in Apps, a \notin DOMAIN reg'[Server], NEW d \in 1..last,
                      results'[Server][d].manifest # NoManifest, results'[Server][d].manifest.id = a
               PROVE  Blamed(a)'
    BY <1>0 DEF Accounted
  <2>1. CASE d = last
    <3>1. ~res.ok /\ results'[Server][d] = res /\ d \in 1..Len(results'[Server])
      BY <1>0, <2>1
    <3>2. Excused(a, d)'
      BY <3>1 DEF Excused
    <3> QED
      BY <3>1, <3>2 DEF Blamed
  <2>2. CASE d # last
    <3>0. results'[Server][d] = results[Server][d] /\ d \in 1..Len(results[Server])
      BY <1>0, <2>2
    <3>1. Blamed(a)
      BY <3>0 DEF SeedInv, ServerInv, Accounted
    <3>2. Len(results'[Server]) \in Nat /\ Len(results[Server]) <= Len(results'[Server])
      BY <1>0 DEF last
    <3> QED
      BY <1>0, <3>1, <3>2, BlameStays
  <2> QED
    BY <2>1, <2>2
<1> QED
  BY <1>1, <1>2, <1>3 DEF ServerInv

\* It is done with a result: the app is seeded, goes, or was never its to seed.
LEMMA ServerTurns ==
  ASSUME BootInv, SeedInv, Filled', Moves, Seeding, turn' = turn + 1, tx' = NoTx,
         /\ pc'[Server] = pc[Server] /\ results'[Server] = results[Server]
         /\ catalog' = catalog,
         \A a \in Apps : \A k \in 1..Len(data[a].seeded) :
           k \in 1..Len(data'[a].seeded) /\ data'[a].seeded[k] = data[a].seeded[k],
         NEW STATE gone, DOMAIN reg'[Server] = DOMAIN reg[Server] \ gone,
         \A a \in DOMAIN reg'[Server] : reg'[Server][a] = reg[Server][a],
         \A a \in gone : Blamed(a),
         NEW t, t = turn, DoneWith(results[Server][t])'
  PROVE  ServerInv'
<1>0. /\ pc[Server] = "seed" /\ turn \in Nat \ {0} /\ Len(results[Server]) \in Nat
      /\ turn \in 1..Len(results[Server])
  BY ServersApps DEF Seeding, BootInv, Shapes
<1>1. Aged'
  <2> SUFFICES ASSUME NEW d \in 1..Len(results[Server]), results[Server][d].ok
               PROVE  /\ results[Server][d].manifest \in Manifests
                      /\ results[Server][d].manifest.ver <= data'[results[Server][d].manifest.id].ver
    BY DEF Aged
  <2> QED
    BY AgeStays
<1>2. Underway' /\ Loop'
  BY <1>0 DEF Underway, Loop
<1>3. Done'
  <2> SUFFICES ASSUME NEW n \in 1..Len(results[Server]), n < turn + 1
               PROVE  DoneWith(results[Server][n])'
    BY DEF Done
  <2>1. CASE n = t
    BY <2>1
  <2>2. CASE n # t
    <3>1. DoneWith(results[Server][n])
      BY <1>0, <2>2 DEF SeedInv, ServerInv, Done
    <3> QED
      BY <3>1, DoneStays DEF Moves
  <2> QED
    BY <2>1, <2>2
<1>4. Accounted'
  <2> SUFFICES ASSUME NEW a \in Apps, a \notin DOMAIN reg'[Server],
                      \E d \in 1..Len(results[Server]) :
                        results[Server][d].manifest # NoManifest /\ results[Server][d].manifest.id = a
               PROVE  Blamed(a)'
    BY DEF Accounted
  <2>1. Blamed(a)
    BY DEF SeedInv, ServerInv, Accounted
  <2> QED
    BY <1>0, <2>1, BlameStays
<1> QED
  BY <1>1, <1>2, <1>3, <1>4 DEF ServerInv

-----------------------------------------------------------------------------
(***************************************************************************)
(* Load, in any process.                                                   *)
(***************************************************************************)
\* A database gets older, and keeps what has been seeded.
LEMMA DataAges ==
  ASSUME Filled, NEW id \in Apps, NEW r \in DbRecord, data' = [data EXCEPT ![id] = r],
         r.seeded = data[id].seeded, data[id].ver <= r.ver
  PROVE  /\ Filled'
         /\ \A a \in Apps : data[a].ver <= data'[a].ver /\ data'[a].seeded = data[a].seeded
<1>1. data \in [Apps -> DbRecord]
  BY DEF Filled
<1>2. data' \in [Apps -> DbRecord]
  BY <1>1
<1>3. \A a \in Apps : data'[a].seeded = data[a].seeded
  BY <1>1
<1>4. \A a \in Apps : data[a].ver <= data'[a].ver
  BY <1>1, VersionsAreNat
<1>5. \A a \in Apps : \A n \in 1..Len(data'[a].seeded) : Complete(data'[a].seeded[n])
  BY <1>3 DEF Filled
<1>6. Filled'
  <2>1. (\A a \in Apps : \A n \in 1..Len(data[a].seeded) : Complete(data[a].seeded[n]))'
    BY <1>5 DEF Complete
  <2> QED
    BY <1>2, <2>1 DEF Filled
<1> QED
  BY <1>3, <1>4, <1>6

\* The catalog rests.
LEMMA CatalogRests ==
  ASSUME BootInv, catalog' = catalog, \A a \in Apps : data[a].ver <= data'[a].ver
  PROVE  Moves
<1>1. catalog \in [1..Len(Dirs) -> Entry]
  BY DEF BootInv, Shapes
<1> QED
  BY <1>1 DEF Moves, Same

\* Nothing of the data changes.
LEMMA DataRests ==
  ASSUME Filled, data' = data
  PROVE  /\ Filled'
         /\ \A a \in Apps : data[a].ver <= data'[a].ver /\ data'[a].seeded = data[a].seeded
<1>1. Filled'
  BY DEF Filled, Complete
<1> QED
  BY <1>1, VersionsAreNat

\* The manifest of an app that is being opened.
LEMMA OpenManifest ==
  ASSUME SeedInv, NEW p \in Procs, pc[p] = "open"
  PROVE  opening[p].manifest \in Manifests /\ opening[p].manifest.id \in Apps
         /\ opening[p].manifest # NoManifest /\ opening[p].manifest.ver \in Versions
BY NoManifestIsNone DEF SeedInv, Own, Scanned, Apps, Versions

\* Load creates files and adopts versions, and seeds nothing.
LEMMA LoadMoves ==
  ASSUME BootInv, SeedInv, NEW p \in Procs, Start(p) \/ Load(p)
  PROVE  /\ Filled' /\ Moves /\ \A a \in Apps : data'[a].seeded = data[a].seeded
<1> DEFINE m == opening[p].manifest
<1>0. Filled /\ catalog' = catalog
  BY DEF SeedInv, Start, Load, SkipDir, Stat, OpenApp, OpenFails, Loaded
<1>1. CASE data' = data
  BY <1>0, <1>1, DataRests, CatalogRests
<1>2. ASSUME pc[p] = "open", NEW r \in DbRecord, data' = [data EXCEPT ![m.id] = r],
             r.seeded = data[m.id].seeded, data[m.id].ver <= r.ver
      PROVE  /\ Filled' /\ Moves /\ \A a \in Apps : data'[a].seeded = data[a].seeded
  <2>1. m.id \in Apps
    BY <1>2, OpenManifest
  <2> HIDE DEF m
  <2> QED
    BY <1>0, <1>2, <2>1, DataAges, CatalogRests
<1>3. CASE OpenApp(p)
  <2> DEFINE v == IF Accepts(data[m.id], m) THEN m.ver ELSE data[m.id].ver
             r == [data[m.id] EXCEPT !.exists = TRUE, !.ver = v]
  <2>1. /\ pc[p] = "open" /\ data' = [data EXCEPT ![m.id] = r]
    BY <1>3 DEF OpenApp
  <2>2. m.id \in Apps /\ m.ver \in Versions /\ m.ver \in Nat
    BY <2>1, OpenManifest, VersionsAreNumbered
  <2>3. data[m.id] \in DbRecord /\ data[m.id].ver \in Nat
    BY <1>0, <2>2, VersionsAreNat
  <2>4. v \in Versions \cup {0} /\ data[m.id].ver <= v
    BY <2>2, <2>3 DEF Accepts, DbRecord
  <2> HIDE DEF v, m
  <2>5. r \in DbRecord /\ r.seeded = data[m.id].seeded /\ r.ver = v
    BY <2>3, <2>4 DEF DbRecord
  <2> HIDE DEF r
  <2> QED
    BY <1>2, <2>1, <2>4, <2>5
<1>4. CASE OpenFails(p)
  <2>1. PICK created \in {TRUE, data[m.id].exists} : data' = [data EXCEPT ![m.id].exists = created]
    BY <1>4 DEF OpenFails
  <2> DEFINE r == [data[m.id] EXCEPT !.exists = created]
  <2>2. pc[p] = "open" /\ m.id \in Apps
    BY <1>4, OpenManifest DEF OpenFails
  <2>3. data[m.id] \in DbRecord /\ data[m.id].ver \in Nat
    BY <1>0, <2>2, VersionsAreNat
  <2> HIDE DEF m
  <2>4. r \in DbRecord /\ r.seeded = data[m.id].seeded /\ r.ver = data[m.id].ver
    BY <2>1, <2>3 DEF DbRecord
  <2>5. data' = [data EXCEPT ![m.id] = r]
    BY <2>1
  <2>6. data[m.id].ver <= r.ver
    BY <2>3, <2>4
  <2> HIDE DEF r
  <2> QED
    BY <1>2, <2>2, <2>4, <2>5, <2>6 DEF m
<1> QED
  BY <1>1, <1>3, <1>4 DEF Start, Load, SkipDir, Stat, Loaded

\* A process records the result of a directory, and registers the app it accepted.
LEMMA OwnRecords ==
  ASSUME NEW p, Own(p), Moves, NEW res \in Results, Len(results[p]) < Len(Dirs),
         pc'[p] = "load", results'[p] = Append(results[p], res),
         opening'[p].fresh \in BOOLEAN,
         Same(res.manifest, catalog[Dir(p)].manifest),
         \A a \in DOMAIN reg'[p] :
           \/ a \in DOMAIN reg[p] /\ reg'[p][a] = reg[p][a]
           \/ /\ reg'[p][a].dir = Dir(p) /\ res.ok /\ res.manifest = reg'[p][a].manifest
              /\ res.manifest \in Manifests /\ res.manifest.id = a
  PROVE  Own(p)'
<1> DEFINE last == Len(results[p]) + 1
<1>0. /\ Len(results[p]) \in Nat /\ Len(results'[p]) = last /\ results'[p][last] = res
      /\ results'[p] \in Seq(Results) /\ last \in 1..Len(Dirs) /\ Dir(p) = last
      /\ \A d \in 1..Len(results[p]) : results'[p][d] = results[p][d]
      /\ \A d \in 1..last : d = last \/ d \in 1..Len(results[p])
  BY DirsAreListed DEF Own, Scanned, Dir
<1> HIDE DEF last
<1>1. ASSUME NEW d \in 1..last
      PROVE  Same(results'[p][d].manifest, catalog'[d].manifest)
  <2>1. d \in 1..Len(Dirs)
    BY <1>0, DirsAreListed
  <2>2. Same(results'[p][d].manifest, catalog[d].manifest)
    BY <1>0 DEF Own, Scanned
  <2>3. Same(catalog[d].manifest, catalog'[d].manifest)
    BY <2>1 DEF Moves
  <2> QED
    BY <2>2, <2>3, SameIsTransitive
<1>2. Scanned(p)'
  <2>1. Len(results'[p]) <= Len(Dirs)
    BY <1>0, DirsAreListed
  <2> QED
    BY <1>0, <1>1, <2>1 DEF Scanned
<1>3. Registers(p)'
  <2> SUFFICES ASSUME NEW a \in DOMAIN reg'[p]
               PROVE  RegisteredFrom(p, a, reg[p][a].dir)'
    BY DEF Registers
  <2>1. CASE a \in DOMAIN reg[p] /\ reg'[p][a] = reg[p][a]
    <3>1. RegisteredFrom(p, a, reg[p][a].dir)
      BY <2>1 DEF Own, Registers
    <3>2. reg[p][a].dir \in 1..Len(results'[p])
      BY <1>0, <3>1 DEF RegisteredFrom, last
    <3> QED
      BY <1>0, <2>1, <3>1, <3>2 DEF RegisteredFrom
  <2>2. CASE /\ reg'[p][a].dir = Dir(p) /\ res.ok /\ res.manifest = reg'[p][a].manifest
             /\ res.manifest \in Manifests /\ res.manifest.id = a
    <3>1. last \in 1..last
      BY <1>0 DEF last
    <3> QED
      BY <1>0, <2>2, <3>1 DEF RegisteredFrom
  <2> QED
    BY <2>1, <2>2
<1> QED
  BY <1>2, <1>3 DEF Own

\* A process goes on to another phase, and apps go.
LEMMA OwnShrinks ==
  ASSUME NEW p, Own(p), Moves, results'[p] = results[p], opening'[p] = opening[p],
         pc'[p] \in {"load", "seed", "serve", "apply"},
         pc'[p] # "load" => Len(results[p]) = Len(Dirs),
         \A a \in DOMAIN reg'[p] : a \in DOMAIN reg[p] /\ reg'[p][a] = reg[p][a]
  PROVE  Own(p)'
<1>1. Scanned(p)'
  <2>1. Scanned(p) /\ Len(results[p]) \in Nat /\ Len(results[p]) <= Len(Dirs)
    BY DEF Own, Scanned
  <2>2. ASSUME NEW d \in 1..Len(results[p])
        PROVE  Same(results[p][d].manifest, catalog'[d].manifest)
    <3>1. d \in 1..Len(Dirs)
      BY <2>1, DirsAreListed
    <3> QED
      BY <2>1, <3>1, SameIsTransitive DEF Scanned, Moves
  <2> QED
    BY <2>1, <2>2 DEF Scanned
<1>2. Registers(p)'
  BY DEF Own, Registers, RegisteredFrom
<1> QED
  BY <1>1, <1>2 DEF Own

\* Load keeps what a process knows true of itself.
LEMMA LoadOwn ==
  ASSUME BootInv, SeedInv, NEW p \in Procs, Start(p) \/ Load(p)
  PROVE  Own(p)'
<1>0. /\ Own(p) /\ Moves /\ catalog' = catalog
      /\ DOMAIN pc = Procs /\ DOMAIN results = Procs /\ DOMAIN opening = Procs /\ DOMAIN reg = Procs
  BY LoadMoves DEF SeedInv, BootInv, Shapes, Start, Load, SkipDir, Stat, OpenApp, OpenFails, Loaded
<1>1. Len(results[p]) \in Nat /\ Len(results[p]) <= Len(Dirs) /\ Len(Dirs) \in Nat
  BY <1>0, DirsAreListed DEF Own, Scanned
<1>2. CASE Start(p)
  <2>1. pc'[p] = "load" /\ results' = results /\ reg' = reg /\ opening' = opening
    BY <1>0, <1>2 DEF Start, Goto
  <2> QED
    BY <1>0, <2>1, OwnShrinks
<1>3. CASE Loaded(p)
  <2>1. /\ pc'[p] \in {"seed", "apply"} /\ results' = results /\ reg' = reg
        /\ opening' = opening /\ Len(results[p]) = Len(Dirs)
    BY <1>0, <1>1, <1>3 DEF Loaded, Goto, Dir
  <2> QED
    BY <1>0, <2>1, OwnShrinks
<1>4. CASE SkipDir(p)
  <2> DEFINE res == Result(NoManifest, FALSE, FALSE)
  <2>0. results' = [results EXCEPT ![p] = Append(results[p], res)]
    BY <1>4 DEF SkipDir, Record
  <2>2. res \in Results /\ res.manifest = NoManifest
    BY DEF Result, Results
  <2> HIDE DEF res
  <2>1. /\ pc'[p] = "load" /\ results'[p] = Append(results[p], res) /\ reg' = reg
        /\ opening' = opening
        /\ Len(results[p]) < Len(Dirs) /\ catalog[Dir(p)].manifest = NoManifest
    BY <1>0, <1>1, <1>4, <2>0 DEF SkipDir, Dir, Own, Scanned
  <2>3. Same(res.manifest, catalog[Dir(p)].manifest) /\ opening'[p].fresh \in BOOLEAN
    BY <1>0, <2>1, <2>2 DEF Same, Own, Scanned
  <2> QED
    BY <1>0, <2>1, <2>2, <2>3, OwnRecords
<1>5. CASE Stat(p)
  <2> DEFINE m == catalog[Dir(p)].manifest
  <2>1. /\ pc'[p] = "open" /\ results' = results /\ reg' = reg /\ Dir(p) \in 1..Len(Dirs)
        /\ m # NoManifest /\ opening'[p] = [manifest |-> m, fresh |-> ~data[m.id].exists] /\ Len(results[p]) < Len(Dirs)
    BY <1>0, <1>1, <1>5 DEF Stat, Goto, Dir
  <2>2. m \in Manifests
    BY <2>1 DEF BootInv, Shapes, Entry
  <2>3. Same(m, m) /\ Dir(p)' = Dir(p)
    BY <2>1 DEF Same, Dir
  <2>4. Scanned(p)'
    BY <1>0, <2>1, <2>2, <2>3 DEF Own, Scanned
  <2>5. Registers(p)'
    BY <1>0, <2>1 DEF Own, Registers, RegisteredFrom
  <2> QED
    BY <2>4, <2>5 DEF Own
<1>6. CASE OpenApp(p) \/ OpenFails(p)
  <2> DEFINE m == opening[p].manifest
             ok == OpenApp(p) /\ Accepts(data[m.id], m)
  <2>1. /\ pc[p] = "open" /\ pc'[p] = "load" /\ Len(results[p]) < Len(Dirs)
        /\ Same(m, catalog[Dir(p)].manifest) /\ m \in Manifests
    BY <1>0, <1>6 DEF OpenApp, OpenFails, Goto, Own, Scanned
  <2>2. PICK good \in BOOLEAN :
          /\ results'[p] = Append(results[p], Result(m, good, opening[p].fresh))
          /\ \A a \in DOMAIN reg'[p] :
               \/ a \in DOMAIN reg[p] /\ reg'[p][a] = reg[p][a]
               \/ reg'[p][a] = [dir |-> Dir(p), manifest |-> m] /\ a = m.id /\ good
    <3>1. CASE OpenFails(p)
      <4>1. results'[p] = Append(results[p], Result(m, FALSE, opening[p].fresh)) /\ reg' = reg
        BY <1>0, <3>1 DEF OpenFails, Record, Fresh
      <4> QED
        BY <4>1
    <3>2. CASE OpenApp(p)
      <4> DEFINE good == Accepts(data[m.id], m)
      <4>0. results' = [results EXCEPT ![p] = Append(@, Result(m, good, opening[p].fresh))]
        BY <3>2 DEF OpenApp, Record, Fresh
      <4>1. results'[p] = Append(results[p], Result(m, good, opening[p].fresh)) /\ good \in BOOLEAN
        <5> HIDE DEF m
        <5>1. good \in BOOLEAN
          BY DEF Accepts
        <5> HIDE DEF good
        <5> QED
          BY <1>0, <4>0, <5>1
      <4>2. \A a \in DOMAIN reg'[p] :
               \/ a \in DOMAIN reg[p] /\ reg'[p][a] = reg[p][a]
               \/ reg'[p][a] = [dir |-> Dir(p), manifest |-> m] /\ a = m.id /\ good
        <5>1. CASE good
          <6> DEFINE entry == [dir |-> Dir(p), manifest |-> m]
          <6>1. reg'[p] = [a \in DOMAIN reg[p] \cup {m.id} |-> IF a = m.id THEN entry ELSE reg[p][a]]
            BY <1>0, <3>2, <5>1 DEF OpenApp
          <6> HIDE DEF entry, good, m
          <6> QED
            BY <5>1, <6>1 DEF entry
        <5>2. CASE ~good
          <6>1. reg' = reg
            BY <3>2, <5>2 DEF OpenApp
          <6> QED
            BY <6>1
        <5> QED
          BY <5>1, <5>2
      <4> HIDE DEF good
      <4> QED
        BY <4>1, <4>2
    <3> QED
      BY <1>6, <3>1, <3>2
  <2>3. opening'[p].fresh \in BOOLEAN
    <3>1. opening' = [opening EXCEPT ![p] = NoOpening]
      BY <1>6 DEF OpenApp, OpenFails
    <3> QED
      BY <1>0, <3>1 DEF NoOpening
  <2> DEFINE res == Result(m, good, opening[p].fresh)
  <2>4. res \in Results /\ res.manifest = m /\ res.ok = good
    BY <1>0, <2>1 DEF Result, Results, Own, Scanned
  <2> HIDE DEF res, m
  <2> QED
    BY <1>0, <2>1, <2>2, <2>3, <2>4, OwnRecords DEF res
<1> QED
  BY <1>2, <1>3, <1>4, <1>5, <1>6 DEF Load

\* Load in the serving process: what is not registered is accounted for.
LEMMA LoadServes ==
  ASSUME BootInv, SeedInv, Start(Server) \/ Load(Server)
  PROVE  ServerInv'
<1> DEFINE p == Server
<1>0. /\ Filled' /\ Moves /\ \A a \in Apps : data'[a].seeded = data[a].seeded
      /\ p \in Procs /\ Own(p) /\ catalog' = catalog /\ turn' = turn /\ tx' = tx
      /\ DOMAIN pc = Procs /\ DOMAIN results = Procs /\ DOMAIN opening = Procs /\ DOMAIN reg = Procs
  BY ServersApps, LoadMoves DEF SeedInv, BootInv, Shapes, Start, Load, SkipDir, Stat, OpenApp, OpenFails, Loaded
<1>1. CASE Start(p) \/ Stat(p) \/ Loaded(p)
  <2>1. results' = results /\ reg' = reg /\ pc'[p] # "serve"
    BY <1>0, <1>1 DEF Start, Stat, Loaded, Goto
  <2> QED
    BY <1>0, <2>1, UnderwayStays, ServerStays
<1>2. CASE SkipDir(p)
  <2> DEFINE res == Result(NoManifest, FALSE, FALSE)
  <2>1. results' = [results EXCEPT ![p] = Append(results[p], res)]
    BY <1>2 DEF SkipDir, Record
  <2>2. res \in Results /\ ~res.ok
    BY DEF Result, Results
  <2> HIDE DEF res
  <2>3. /\ pc[p] = "load" /\ pc'[p] = "load" /\ reg' = reg
        /\ results'[p] = Append(results[p], res)
    BY <1>0, <1>2, <2>1 DEF SkipDir
  <2> QED
    BY <1>0, <2>2, <2>3, ServerRecords
<1>3. CASE OpenApp(p) \/ OpenFails(p)
  <2> DEFINE m == opening[p].manifest
  <2>1. /\ pc[p] = "open" /\ pc'[p] = "load" /\ m \in Manifests /\ m.id \in Apps /\ m.ver \in Nat
        /\ opening[p].fresh \in BOOLEAN
    BY <1>0, <1>3, OpenManifest, VersionsAreNumbered DEF OpenApp, OpenFails, Goto, Own, Scanned
  <2>2. PICK good \in BOOLEAN :
          /\ results'[p] = Append(results[p], Result(m, good, opening[p].fresh))
          /\ DOMAIN reg[p] \subseteq DOMAIN reg'[p]
          /\ good => m.id \in DOMAIN reg'[p] /\ data'[m.id].ver = m.ver
    <3>1. CASE OpenFails(p)
      <4>1. results'[p] = Append(results[p], Result(m, FALSE, opening[p].fresh)) /\ reg' = reg
        BY <1>0, <3>1 DEF OpenFails, Record, Fresh
      <4> QED
        BY <4>1
    <3>2. CASE OpenApp(p)
      <4> DEFINE good == Accepts(data[m.id], m)
      <4>0. results' = [results EXCEPT ![p] = Append(@, Result(m, good, opening[p].fresh))]
        BY <3>2 DEF OpenApp, Record, Fresh
      <4>1. results'[p] = Append(results[p], Result(m, good, opening[p].fresh)) /\ good \in BOOLEAN
        <5> HIDE DEF m
        <5>1. good \in BOOLEAN
          BY DEF Accepts
        <5> HIDE DEF good
        <5> QED
          BY <1>0, <4>0, <5>1
      <4>2. CASE good
        <5> DEFINE entry == [dir |-> Dir(p), manifest |-> m]
        <5>1. reg'[p] = [a \in DOMAIN reg[p] \cup {m.id} |-> IF a = m.id THEN entry ELSE reg[p][a]]
          BY <1>0, <3>2, <4>2 DEF OpenApp
        <5>2. data'[m.id].ver = m.ver
          <6>1. data' = [data EXCEPT ![m.id].exists = TRUE, ![m.id].ver = m.ver]
            BY <3>2, <4>2 DEF OpenApp
          <6>2. DOMAIN data = Apps /\ "ver" \in DOMAIN data[m.id]
            BY <2>1 DEF BootInv, Shapes
          <6> HIDE DEF m
          <6> QED
            BY <2>1, <6>1, <6>2
        <5>3. DOMAIN reg[p] \subseteq DOMAIN reg'[p] /\ m.id \in DOMAIN reg'[p]
          BY <5>1
        <5> HIDE DEF good
        <5> QED
          BY <4>1, <4>2, <5>2, <5>3
      <4>3. CASE ~good
        <5>1. reg' = reg
          BY <3>2, <4>3 DEF OpenApp
        <5> HIDE DEF good
        <5> QED
          BY <4>1, <4>3, <5>1
      <4> QED
        BY <4>2, <4>3
    <3> QED
      BY <1>3, <3>1, <3>2
  <2> DEFINE res == Result(m, good, opening[p].fresh)
  <2>3. res \in Results /\ res.manifest = m /\ res.ok = good
    BY <2>1 DEF Result, Results
  <2> HIDE DEF res, m
  <2> QED
    BY <1>0, <2>1, <2>2, <2>3, ServerRecords DEF res
<1> QED
  BY <1>1, <1>2, <1>3 DEF Load

-----------------------------------------------------------------------------
(***************************************************************************)
(* The loop over the results.                                              *)
(***************************************************************************)
\* The result it looks at, when that is of an app to seed.
LEMMA TurnsApp ==
  ASSUME BootInv, SeedInv, Seeding, ToSeed
  PROVE  /\ turn \in 1..Len(results[Server]) /\ Turn.manifest.id \in Apps
         /\ Registered.dir \in 1..Len(Dirs) /\ Registered.dir \in 1..Len(results[Server])
         /\ Registered.manifest \in Manifests /\ Registered.manifest # NoManifest
         /\ results[Server][Registered.dir].manifest = Registered.manifest
         /\ Registered.manifest.id = Turn.manifest.id
         /\ Folder = catalog[Registered.dir].seed /\ Folder \in Folders
<1>1. turn \in 1..Len(results[Server])
  BY ServersApps DEF Seeding, BootInv, Shapes
<1>2. Turn.manifest.id \in DOMAIN reg[Server]
  BY DEF ToSeed
<1>3. /\ Turn.manifest.id \in Apps /\ Registered.dir \in 1..Len(Dirs)
      /\ RegisteredFrom(Server, Turn.manifest.id, Registered.dir)
      /\ Registered = reg[Server][Turn.manifest.id]
  BY <1>2, ServersApps DEF Registered
<1>4. /\ Registered.dir \in 1..Len(results[Server]) /\ Registered.manifest \in Manifests
      /\ results[Server][Registered.dir].manifest = Registered.manifest
      /\ Registered.manifest.id = Turn.manifest.id
  BY <1>3 DEF RegisteredFrom
<1>5. Folder = catalog[Registered.dir].seed /\ Folder \in Folders
  BY <1>3 DEF Folder, BootInv, Shapes, Entry
<1>6. Registered.manifest # NoManifest
  BY <1>4, NoManifestIsNone
<1> QED
  BY <1>1, <1>3, <1>4, <1>5, <1>6

\* An app whose database has moved on, or whose seed cannot be inserted, is to blame.
LEMMA TurnBlamed ==
  ASSUME BootInv, SeedInv, Seeding, ToSeed,
         \/ Turn.manifest.id \in FaultyApps
         \/ data[Turn.manifest.id].ver # Registered.manifest.ver
         \/ ~Seedable(Folder, Registered.manifest)
  PROVE  Blamed(Turn.manifest.id)
<1>1. CASE Turn.manifest.id \in FaultyApps
  BY <1>1 DEF Blamed
<1>2. CASE \/ data[Turn.manifest.id].ver # Registered.manifest.ver
           \/ ~Seedable(Folder, Registered.manifest)
  <2>1. Excused(Turn.manifest.id, Registered.dir)
    BY <1>2, TurnsApp DEF Excused
  <2> QED
    BY <2>1, TurnsApp DEF Blamed
<1> QED
  BY <1>1, <1>2

\* A row is refused only if the seed is no good: what a placeholder names must have come
\* before, and what has come before is there.
LEMMA RowRefused ==
  ASSUME BootInv, SeedInv, InTx, ToSeed, Len(tx.rows) < Len(tx.todo), ~NextSeedOk
  PROVE  ~Seedable(Folder, Registered.manifest)
<1> DEFINE todo == RowsInOrder(Folder, Registered.manifest)
           n == Len(tx.rows) + 1
<1>1. tx.todo = todo /\ Inserted(tx.rows, todo)
  BY DEF InTx, SeedInv, ServerInv, Underway
<1>2. todo \in Seq(SeedItems) /\ Len(todo) \in Nat
  BY TurnsApp, OrderedFiles DEF InTx
<1>3. Len(tx.rows) \in Nat /\ n \in 1..Len(todo)
  BY <1>1, <1>2 DEF Inserted
<1> SUFFICES ASSUME Seedable(Folder, Registered.manifest)
             PROVE  NextSeedOk
  OBVIOUS
<1>4. /\ todo[n].row.valid
      /\ \A ref \in todo[n].row.refs :
           /\ ref.ent = ref.target
           /\ \E i \in 1..(n - 1) : todo[i].ent = ref.ent /\ todo[i].row.label = {ref.key}
  BY <1>3 DEF Seedable
<1> HIDE DEF todo
<1>5. ASSUME NEW ref \in todo[n].row.refs
      PROVE  Resolvable(ref, tx.rows)
  <2>1. PICK i \in 1..(n - 1) : todo[i].ent = ref.ent /\ todo[i].row.label = {ref.key}
    BY <1>4
  <2>2. i \in 1..Len(tx.rows) /\ tx.rows[i].ent = ref.ent /\ tx.rows[i].label = {ref.key}
    BY <1>1, <1>3, <2>1 DEF Inserted
  <2>3. i \in Labelled(ref, tx.rows)
    BY <2>2 DEF Labelled
  <2> QED
    BY <1>4, <2>3 DEF Resolvable
<1> QED
  BY <1>1, <1>4, <1>5 DEF NextSeedOk

\* The last of the rows a placeholder can mean.
LEMMA ResolvedIsLast ==
  ASSUME NEW ref, NEW rows \in Seq(DbRows), Labelled(ref, rows) # {}
  PROVE  Resolved(ref, rows) \in Labelled(ref, rows)
<1> DEFINE L == Labelled(ref, rows)
           T == {Len(rows) - n : n \in L}
<1>1. L \subseteq 1..Len(rows) /\ Len(rows) \in Nat
  BY DEF Labelled
<1> HIDE DEF L
<1>2. T \subseteq Nat /\ T # {}
  BY <1>1 DEF L
<1>3. PICK x \in T : \A y \in T : x <= y
  <2> HIDE DEF T
  <2> QED
    BY <1>2, LeastNat
<1>4. PICK n \in L : x = Len(rows) - n
  BY <1>3
<1>5. \A m \in L : m <= n
  <2> TAKE m \in L
  <2>1. Len(rows) - m \in T
    OBVIOUS
  <2>2. Len(rows) - n <= Len(rows) - m
    BY <1>3, <1>4, <2>1
  <2> QED
    BY <1>1, <1>4, <2>2
<1> QED
  BY <1>4, <1>5 DEF Resolved, L

\* A row goes in after those it names.
LEMMA RowGoesIn ==
  ASSUME BootInv, SeedInv, SeedRow
  PROVE  Inserted(tx'.rows, tx.todo) /\ DOMAIN tx' = DOMAIN tx
         /\ tx'.folder = tx.folder /\ tx'.todo = tx.todo
<1> DEFINE todo == tx.todo
           rows == tx.rows
           n == Len(rows) + 1
           item == todo[n]
           new == [ent |-> item.ent, label |-> item.row.label,
                   refs |-> {Resolved(ref, rows) : ref \in item.row.refs}]
<1>1. /\ DOMAIN tx = {"app", "folder", "todo", "rows"} /\ Inserted(rows, todo)
      /\ Turn.manifest.id \in DOMAIN reg[Server] /\ todo = RowsInOrder(Folder, Registered.manifest)
      /\ Turn.ok /\ Turn.fresh
  BY DEF SeedRow, InTx, SeedInv, ServerInv, Underway, BootInv, Phases
<1>2. todo \in Seq(SeedItems) /\ Len(todo) \in Nat
  BY <1>1, TurnsApp, OrderedFiles DEF SeedRow, InTx, ToSeed
<1>3. /\ tx' = [tx EXCEPT !.rows = Append(rows, new)]
      /\ Len(rows) < Len(todo)
      /\ \A ref \in item.row.refs : Resolvable(ref, rows)
  BY DEF SeedRow, InsertSeed, NextSeedOk
<1> HIDE DEF todo, rows
<1>4. rows \in Seq(DbRows) /\ Len(rows) \in Nat /\ n \in 1..Len(todo)
  BY <1>1, <1>2, <1>3 DEF Inserted
<1>5. item \in SeedItems /\ item.row \in SeedRows /\ item.ent \in STRING /\ item.row.label \in SUBSET STRING
  <2>1. item \in SeedItems
    BY <1>2, <1>4
  <2> HIDE DEF item
  <2> QED
    BY <2>1 DEF SeedItems, SeedRows
<1>6. ASSUME NEW ref \in item.row.refs
      PROVE  /\ Resolved(ref, rows) \in 1..(n - 1)
             /\ rows[Resolved(ref, rows)].ent = ref.target
             /\ rows[Resolved(ref, rows)].label = {ref.key}
  <2>1. Labelled(ref, rows) # {} /\ ref.ent = ref.target
    BY <1>3 DEF Resolvable
  <2>2. Resolved(ref, rows) \in Labelled(ref, rows)
    BY <1>4, <2>1, ResolvedIsLast
  <2> QED
    BY <1>4, <2>1, <2>2 DEF Labelled
<1> HIDE DEF item
<1>7. new \in DbRows
  <2>1. {Resolved(ref, rows) : ref \in item.row.refs} \subseteq Nat
    BY <1>4, <1>6
  <2> QED
    BY <1>5, <2>1 DEF DbRows
<1>8. /\ new.ent = item.ent /\ new.label = item.row.label
      /\ \A ref \in item.row.refs :
           \E m \in new.refs : m \in 1..(n - 1) /\ rows[m].ent = ref.target /\ rows[m].label = {ref.key}
  BY <1>6
<1> HIDE DEF new
<1> DEFINE longer == Append(rows, new)
<1>9. /\ longer \in Seq(DbRows) /\ Len(longer) = n /\ longer[n] = new
      /\ \A m \in 1..Len(rows) : longer[m] = rows[m]
      /\ \A m \in 1..n : m = n \/ m \in 1..Len(rows)
  BY <1>4, <1>7
<1>10. tx'.rows = longer /\ DOMAIN tx' = DOMAIN tx /\ tx'.folder = tx.folder /\ tx'.todo = todo
  BY <1>1, <1>3 DEF todo
<1> HIDE DEF longer
<1>11. ASSUME NEW i \in 1..n
       PROVE  /\ longer[i].ent = todo[i].ent /\ longer[i].label = todo[i].row.label
              /\ \A ref \in todo[i].row.refs :
                   \E m \in longer[i].refs :
                     m \in 1..(i - 1) /\ longer[m].ent = ref.target /\ longer[m].label = {ref.key}
  <2>1. CASE i = n
    <3>1. longer[i] = new /\ todo[i] = item
      BY <1>9, <2>1 DEF item
    <3>2. \A m \in 1..(n - 1) : longer[m] = rows[m]
      BY <1>4, <1>9
    <3>3. ASSUME NEW ref \in todo[i].row.refs
          PROVE  \E m \in longer[i].refs :
                   m \in 1..(i - 1) /\ longer[m].ent = ref.target /\ longer[m].label = {ref.key}
      <4>1. PICK m \in new.refs : m \in 1..(n - 1) /\ rows[m].ent = ref.target /\ rows[m].label = {ref.key}
        BY <1>8, <3>1
      <4>2. longer[m] = rows[m] /\ m \in longer[i].refs /\ m \in 1..(i - 1)
        BY <2>1, <3>1, <3>2, <4>1
      <4> QED
        BY <4>1, <4>2
    <3>4. longer[i].ent = todo[i].ent /\ longer[i].label = todo[i].row.label
      BY <1>8, <3>1
    <3> QED
      BY <3>3, <3>4
  <2>2. CASE i # n
    <3>1. i \in 1..Len(rows) /\ longer[i] = rows[i]
      BY <1>9, <2>2
    <3>2. \A m \in 1..(i - 1) : longer[m] = rows[m]
      BY <1>4, <1>9, <3>1
    <3>3. ASSUME NEW ref \in todo[i].row.refs
          PROVE  \E m \in longer[i].refs :
                   m \in 1..(i - 1) /\ longer[m].ent = ref.target /\ longer[m].label = {ref.key}
      <4>1. PICK m \in rows[i].refs : m \in 1..(i - 1) /\ rows[m].ent = ref.target /\ rows[m].label = {ref.key}
        BY <1>1, <3>1 DEF Inserted
      <4>2. longer[m] = rows[m] /\ m \in longer[i].refs
        BY <3>1, <3>2, <4>1
      <4> QED
        BY <4>1, <4>2
    <3>4. longer[i].ent = todo[i].ent /\ longer[i].label = todo[i].row.label
      BY <1>1, <3>1 DEF Inserted
    <3> QED
      BY <3>3, <3>4
  <2> QED
    BY <2>1, <2>2
<1>12. Inserted(longer, todo)
  <2>1. Len(longer) <= Len(todo)
    BY <1>2, <1>4, <1>9
  <2> QED
    BY <1>9, <1>11, <2>1 DEF Inserted
<1> QED
  BY <1>10, <1>12 DEF todo

\* The rows are committed: a seed as a whole is added.
LEMMA CommitFills ==
  ASSUME BootInv, SeedInv, SeedCommit
  PROVE  /\ Filled' /\ ToSeed
         /\ \A a \in Apps : data'[a].ver = data[a].ver
         /\ \A a \in Apps : \A k \in 1..Len(data[a].seeded) :
              k \in 1..Len(data'[a].seeded) /\ data'[a].seeded[k] = data[a].seeded[k]
         /\ \E k \in 1..Len(data'[Turn.manifest.id].seeded) :
              data'[Turn.manifest.id].seeded[k].folder = Folder
<1> DEFINE id == Turn.manifest.id
           batch == [folder |-> tx.folder, rows |-> tx.rows]
<1>1. /\ id \in DOMAIN reg[Server] /\ Turn.ok /\ Turn.fresh
      /\ tx.folder = Folder /\ tx.todo = RowsInOrder(Folder, Registered.manifest)
      /\ DOMAIN Folder \subseteq Registered.manifest.creates /\ Inserted(tx.rows, tx.todo)
      /\ Len(tx.rows) = Len(tx.todo) /\ Seeding
  BY DEF SeedCommit, InTx, SeedInv, ServerInv, Underway, BootInv, Phases
<1>2. ToSeed
  BY <1>1 DEF ToSeed
<1>3. id \in Apps /\ Folder \in Folders /\ Registered.manifest \in Manifests
  BY <1>1, <1>2, TurnsApp
<1>4. batch \in [folder : Folders, rows : Seq(DbRows)] /\ batch.folder = Folder
  BY <1>1, <1>3 DEF Inserted
<1>5. Complete(batch)
  <2>1. batch.folder = Folder /\ batch.rows = tx.rows
    BY <1>1
  <2> HIDE DEF batch
  <2> QED
    BY <1>1, <1>3, <2>1 DEF Complete
<1>6. data' = [data EXCEPT ![id].seeded = Append(data[id].seeded, batch)]
  BY DEF SeedCommit
<1> HIDE DEF id, batch
<1>7. data \in [Apps -> DbRecord] /\ data[id] \in DbRecord
  BY <1>3 DEF SeedInv, Filled
<1> DEFINE seeded == data[id].seeded
           longer == Append(seeded, batch)
<1>8. /\ seeded \in Seq([folder : Folders, rows : Seq(DbRows)]) /\ Len(seeded) \in Nat
      /\ longer \in Seq([folder : Folders, rows : Seq(DbRows)])
      /\ Len(longer) = Len(seeded) + 1 /\ longer[Len(seeded) + 1] = batch
      /\ \A k \in 1..Len(seeded) : longer[k] = seeded[k]
      /\ \A k \in 1..(Len(seeded) + 1) : k = Len(seeded) + 1 \/ k \in 1..Len(seeded)
      /\ \A k \in 1..Len(seeded) : k \in 1..(Len(seeded) + 1)
      /\ Len(seeded) + 1 \in 1..(Len(seeded) + 1)
  <2>1. seeded \in Seq([folder : Folders, rows : Seq(DbRows)])
    BY <1>7 DEF DbRecord
  <2> HIDE DEF seeded
  <2> QED
    BY <1>4, <2>1
<1> HIDE DEF longer
<1>9. data'[id].seeded = longer /\ data'[id].ver = data[id].ver
  BY <1>3, <1>6, <1>7 DEF longer, DbRecord
<1>10. \A a \in Apps : a # id => data'[a] = data[a]
  BY <1>6, <1>7
<1>11. data' \in [Apps -> DbRecord]
  <2> DEFINE r == [data[id] EXCEPT !.seeded = longer]
  <2>1. r \in DbRecord
    BY <1>7, <1>8 DEF DbRecord
  <2>2. data' = [data EXCEPT ![id] = r]
    BY <1>6 DEF longer
  <2> HIDE DEF r
  <2> QED
    BY <1>7, <2>1, <2>2
<1>12. \A a \in Apps : \A k \in 1..Len(data'[a].seeded) : Complete(data'[a].seeded[k])
  <2> TAKE a \in Apps
  <2>1. CASE a = id
    <3>1. \A k \in 1..Len(seeded) : Complete(seeded[k])
      BY <1>3 DEF SeedInv, Filled
    <3> HIDE DEF seeded
    <3> QED
      BY <1>5, <1>8, <1>9, <2>1, <3>1
  <2>2. CASE a # id
    BY <1>10, <2>2 DEF SeedInv, Filled
  <2> QED
    BY <2>1, <2>2
<1>13. Filled'
  <2>1. (\A a \in Apps : \A n \in 1..Len(data[a].seeded) : Complete(data[a].seeded[n]))'
    BY <1>12 DEF Complete
  <2> QED
    BY <1>11, <2>1 DEF Filled
<1>14. \A a \in Apps : data'[a].ver = data[a].ver
  BY <1>9, <1>10
<1>15. \A a \in Apps : \A k \in 1..Len(data[a].seeded) :
         k \in 1..Len(data'[a].seeded) /\ data'[a].seeded[k] = data[a].seeded[k]
  BY <1>8, <1>9, <1>10
<1>16. \E k \in 1..Len(data'[id].seeded) : data'[id].seeded[k].folder = Folder
  <2>1. Len(seeded) + 1 \in 1..Len(data'[id].seeded) /\ data'[id].seeded[Len(seeded) + 1] = batch
    BY <1>8, <1>9
  <2> HIDE DEF seeded
  <2> QED
    BY <1>4, <2>1
<1> QED
  BY <1>2, <1>13, <1>14, <1>15, <1>16 DEF id

\* A step of the loop, or of a transaction, but for the commit.
LEMMA SeedsInOrder ==
  ASSUME BootInv, SeedInv, SeedStep
  PROVE  SeedInv'
<1> DEFINE id == Turn.manifest.id
<1>0. /\ Server \in Procs /\ Own(Server) /\ pc[Server] = "seed" /\ Filled /\ catalog' = catalog
      /\ results' = results /\ opening' = opening /\ (turn \in 1..Len(results[Server]) \/ Listen)
      /\ DOMAIN pc = Procs /\ DOMAIN reg = Procs /\ Len(results[Server]) = Len(Dirs)
      /\ Server \in DOMAIN reg
  <2>1. Server \in Procs /\ Own(Server) /\ Filled
    BY ServersApps DEF SeedInv
  <2>2. /\ pc[Server] = "seed" /\ catalog' = catalog /\ results' = results /\ opening' = opening
    BY DEF SeedStep, SeedPass, SeedNothing, SeedRefused, SeedBegin, SeedRow, SeedRollback,
           SeedCommit, SeedFails, Listen, Seeding, InTx
  <2>3. turn \in 1..Len(results[Server]) \/ Listen
    BY ServersApps DEF SeedStep, SeedPass, SeedNothing, SeedRefused, SeedBegin, SeedRow, SeedRollback,
           SeedCommit, SeedFails, Seeding, InTx, BootInv, Shapes
  <2>4. DOMAIN pc = Procs /\ DOMAIN reg = Procs /\ Len(results[Server]) = Len(Dirs)
    BY <2>1, <2>2 DEF BootInv, Shapes, Own, Scanned
  <2> QED
    BY <2>1, <2>2, <2>3, <2>4
<1>1. /\ Filled' /\ \A a \in Apps : data[a].ver <= data'[a].ver
      /\ \A a \in Apps : \A k \in 1..Len(data[a].seeded) :
           k \in 1..Len(data'[a].seeded) /\ data'[a].seeded[k] = data[a].seeded[k]
  <2>1. CASE SeedCommit
    BY <1>0, <2>1, CommitFills, VersionsAreNat
  <2>2. CASE data' = data
    BY <1>0, <2>2, DataRests
  <2> QED
    BY <2>1, <2>2 DEF SeedStep, SeedPass, SeedNothing, SeedRefused, SeedBegin, SeedRow, SeedRollback,
           SeedFails, Listen
<1>2. Moves
  BY <1>0, <1>1, CatalogRests
<1>3. PICK gone : /\ DOMAIN reg' = Procs /\ DOMAIN reg'[Server] = DOMAIN reg[Server] \ gone
                  /\ \A a \in DOMAIN reg'[Server] : reg'[Server][a] = reg[Server][a]
                  /\ \A p \in Procs : p # Server => reg'[p] = reg[p]
                  /\ gone = IF SeedRefused \/ SeedRollback \/ SeedFails THEN {id} ELSE {}
  <2>1. CASE reg' = reg /\ ~(SeedRefused \/ SeedRollback \/ SeedFails)
    BY <1>0, <2>1
  <2>2. CASE SeedRefused \/ SeedRollback \/ SeedFails
    <3>1. reg' = [reg EXCEPT ![Server] = [b \in DOMAIN reg[Server] \ {id} |-> reg[Server][b]]]
      BY <2>2 DEF SeedRefused, SeedRollback, SeedFails, Unregister
    <3> HIDE DEF id
    <3>2. DOMAIN reg' = Procs /\ reg'[Server] = [b \in DOMAIN reg[Server] \ {id} |-> reg[Server][b]]
      BY <1>0, <3>1
    <3>3. \A p \in Procs : p # Server => reg'[p] = reg[p]
      BY <1>0, <3>1
    <3>4. DOMAIN reg'[Server] = DOMAIN reg[Server] \ {id}
      BY <3>2
    <3> QED
      BY <2>2, <3>2, <3>3, <3>4
  <2> QED
    BY <2>1, <2>2 DEF SeedStep, SeedPass, SeedNothing, SeedBegin, SeedRow, SeedCommit, Listen
<1>4. /\ pc'[Server] \in {"seed", "serve"} /\ \A p \in Procs : p # Server => pc'[p] = pc[p]
      /\ pc'[Server] = "serve" => Listen
      /\ ~Listen => pc' = pc
  BY <1>0 DEF SeedStep, SeedPass, SeedNothing, SeedRefused, SeedBegin, SeedRow, SeedRollback,
           SeedCommit, SeedFails, Listen, Goto
<1>5. ASSUME NEW p \in Procs
      PROVE  Own(p)'
  <2>1. CASE p = Server
    BY <1>0, <1>2, <1>3, <1>4, <2>1, OwnShrinks
  <2>2. CASE p # Server
    <3>1. Own(p)
      BY DEF SeedInv
    <3> QED
      BY <1>0, <1>2, <1>3, <1>4, <2>2, <3>1, OwnStays
  <2> QED
    BY <2>1, <2>2
<1>6. CASE Listen
  <2>1. /\ data' = data /\ reg' = reg /\ turn' = turn /\ tx' = tx /\ turn > Len(results[Server])
    BY <1>6 DEF Listen
  <2>2. ServerInv'
    BY <1>0, <1>1, <1>2, <2>1, UnderwayStays, ServerStays
  <2> QED
    BY <1>1, <1>5, <2>2 DEF SeedInv
<1>7. CASE SeedBegin
  <2>1. /\ data' = data /\ reg' = reg /\ turn' = turn /\ Seeding /\ ToSeed /\ pc' = pc
        /\ tx' = [app |-> {id}, folder |-> Folder,
                  todo |-> RowsInOrder(Folder, Registered.manifest), rows |-> <<>>]
        /\ DOMAIN Folder \subseteq Registered.manifest.creates /\ id \in DOMAIN reg[Server]
    BY <1>7 DEF SeedBegin, ToSeed
  <2>2. Inserted(<<>>, RowsInOrder(Folder, Registered.manifest))
    <3>1. RowsInOrder(Folder, Registered.manifest) \in Seq(SeedItems)
      BY <2>1, TurnsApp, OrderedFiles
    <3>2. <<>> \in Seq(DbRows) /\ Len(<<>>) = 0
      OBVIOUS
    <3> QED
      BY <3>1, <3>2 DEF Inserted
  <2>3. Turn' = Turn /\ Folder' = Folder /\ Registered' = Registered
    BY <1>0, <2>1 DEF Turn, Folder, Registered
  <2>4. Underway'
    BY <2>1, <2>2, <2>3 DEF Underway
  <2>5. ServerInv'
    BY <1>0, <1>1, <1>2, <1>4, <2>1, <2>4, ServerStays
  <2> QED
    BY <1>1, <1>5, <2>5 DEF SeedInv
<1>8. CASE SeedRow
  <2>1. /\ data' = data /\ reg' = reg /\ turn' = turn /\ tx # NoTx /\ pc' = pc
    BY <1>8 DEF SeedRow, InTx
  <2>2. /\ Inserted(tx'.rows, tx.todo) /\ DOMAIN tx' = DOMAIN tx
        /\ tx'.folder = tx.folder /\ tx'.todo = tx.todo
    BY <1>8, RowGoesIn
  <2>3. Turn' = Turn /\ Folder' = Folder /\ Registered' = Registered
    BY <1>0, <2>1 DEF Turn, Folder, Registered
  <2>4. Underway'
    BY <2>1, <2>2, <2>3 DEF SeedInv, ServerInv, Underway
  <2>5. ServerInv'
    BY <1>0, <1>1, <1>2, <1>4, <2>1, <2>4, ServerStays
  <2> QED
    BY <1>1, <1>5, <2>5 DEF SeedInv
<1>9. CASE \/ SeedPass \/ SeedNothing \/ SeedRefused \/ SeedRollback \/ SeedCommit \/ SeedFails
  <2>1. Seeding /\ turn' = turn + 1 /\ tx' = NoTx /\ pc' = pc
    BY <1>9 DEF SeedPass, SeedNothing, SeedRefused, SeedRollback, SeedCommit, SeedFails, InTx
  <2>2. ToSeed \/ SeedPass
    BY <1>9, CommitFills DEF SeedNothing, SeedRefused, SeedFails, SeedRollback, InTx, SeedInv,
                            ServerInv, Underway, BootInv, Phases, ToSeed
  <2>3. \A a \in gone : Blamed(a)
    <3> SUFFICES ASSUME NEW a \in gone, SeedRefused \/ SeedRollback \/ SeedFails
                 PROVE  Blamed(id)
      BY <1>3
    <3>1. ToSeed
      BY <2>2 DEF SeedPass, SeedRefused, SeedRollback, SeedFails, InTx
    <3>2. \/ id \in FaultyApps
          \/ data[id].ver # Registered.manifest.ver
          \/ ~Seedable(Folder, Registered.manifest)
      <4>1. CASE SeedRefused
        BY <4>1 DEF SeedRefused, Seedable
      <4>2. CASE SeedRollback
        BY <3>1, <4>2, RowRefused DEF SeedRollback
      <4>3. CASE SeedFails
        BY <4>3 DEF SeedFails
      <4> QED
        BY <4>1, <4>2, <4>3
    <3> QED
      BY <2>1, <3>1, <3>2, TurnBlamed
  <2>4. PICK t : t = turn
    OBVIOUS
  <2>5. results[Server][t] = Turn /\ results'[Server][t] = Turn
    BY <1>0, <2>4 DEF Turn
  <2>6. DoneWith(results[Server][t])'
    <3> SUFFICES ASSUME Turn.ok, Turn.fresh, id \in DOMAIN reg'[Server],
                        catalog'[reg'[Server][id].dir].seed # Nothing
                 PROVE  \E k \in 1..Len(data'[id].seeded) :
                          data'[id].seeded[k].folder = catalog'[reg'[Server][id].dir].seed
      BY <2>5 DEF DoneWith
    <3>1. id \in DOMAIN reg[Server] /\ ToSeed /\ gone # {id}
      BY <1>3 DEF ToSeed
    <3>2. catalog'[reg'[Server][id].dir].seed = Folder
      BY <1>0, <1>3 DEF Folder, Registered
    <3>3. CASE SeedCommit
      BY <3>2, <3>3, CommitFills
    <3>4. CASE SeedNothing
      <4>1. Folder \in Folders /\ DOMAIN Folder = {}
        BY <2>1, <3>1, <3>4, TurnsApp DEF SeedNothing
      <4>2. Folder = [e \in DOMAIN Folder |-> Folder[e]]
        BY <4>1, FoldersAreOfRows
      <4>3. Folder = Nothing
        BY <4>1, <4>2 DEF Nothing
      <4> QED
        BY <3>2, <4>3
    <3>5. ~SeedPass
      BY <3>1 DEF SeedPass
    <3> QED
      BY <1>3, <1>9, <3>1, <3>3, <3>4, <3>5
  <2>7. ServerInv'
    BY <1>0, <1>1, <1>2, <1>3, <2>1, <2>3, <2>4, <2>6, ServerTurns
  <2> QED
    BY <1>1, <1>5, <2>7 DEF SeedInv
<1> QED
  BY <1>6, <1>7, <1>8, <1>9 DEF SeedStep

-----------------------------------------------------------------------------
(***************************************************************************)
(* Ends, the operator, and the invariant.                                  *)
(***************************************************************************)
\* A process that is gone leaves the others as they are.
LEMMA GoneSeeds ==
  ASSUME BootInv, SeedInv, NEW p \in Procs, Gone(p), Filled', Moves,
         \A a \in Apps : data'[a].seeded = data[a].seeded
  PROVE  SeedInv'
<1>0. /\ DOMAIN pc = Procs /\ DOMAIN results = Procs /\ DOMAIN opening = Procs /\ DOMAIN reg = Procs
      /\ Server \in Procs
  BY ServersApps DEF BootInv, Shapes
<1>1. /\ pc'[p] = "down" /\ results'[p] = <<>> /\ reg'[p] = Nothing /\ opening'[p] = NoOpening
      /\ \A q \in Procs : q # p => /\ pc'[q] = pc[q] /\ results'[q] = results[q]
                                   /\ reg'[q] = reg[q] /\ opening'[q] = opening[q]
  BY <1>0 DEF Gone, Goto
<1>2. ASSUME NEW q \in Procs
      PROVE  Own(q)'
  <2>1. CASE q = p
    <3>1. opening'[p].fresh \in BOOLEAN
      BY <1>1 DEF NoOpening
    <3> QED
      BY <1>1, <2>1, <3>1, OwnGone
  <2>2. CASE q # p
    <3>1. Own(q)
      BY DEF SeedInv
    <3> QED
      BY <1>1, <2>2, <3>1, OwnStays
  <2> QED
    BY <2>1, <2>2
<1>3. ServerInv'
  <2>1. CASE p = Server
    BY <1>1, <2>1, ServerDown DEF Gone
  <2>2. CASE p # Server
    <3>1. /\ turn' = turn /\ tx' = tx /\ pc'[Server] = pc[Server] /\ results'[Server] = results[Server]
          /\ reg'[Server] = reg[Server]
      BY <1>0, <1>1, <2>2 DEF Gone
    <3>2. pc'[Server] = "serve" => turn > Len(results[Server])
      BY <3>1 DEF SeedInv, ServerInv, Loop
    <3> QED
      BY <3>1, <3>2, UnderwayStays, ServerStays
  <2> QED
    BY <2>1, <2>2
<1> QED
  BY <1>2, <1>3 DEF SeedInv

\* A migration moves an app and its manifest on, and touches no seed.
LEMMA MigrationSeeds ==
  ASSUME BootInv, SeedInv, NEW p \in Procs, Migrate(p)
  PROVE  SeedInv'
<1>1. PICK a \in DOMAIN reg[p], new \in Manifests :
        /\ new.id = a /\ data[a].ver = reg[p][a].manifest.ver /\ new.ver > data[a].ver
        /\ data' = [data EXCEPT ![a].ver = new.ver]
        /\ catalog' = [catalog EXCEPT ![reg[p][a].dir].manifest = new]
  BY DEF Migrate
<1> DEFINE d == reg[p][a].dir
           m == reg[p][a].manifest
           r == [data[a] EXCEPT !.ver = new.ver]
<1>2. /\ Filled /\ Own(p) /\ catalog \in [1..Len(Dirs) -> Entry]
  BY DEF SeedInv, BootInv, Shapes
<1>3. /\ RegisteredFrom(p, a, d) /\ Len(results[p]) \in Nat /\ Len(results[p]) <= Len(Dirs)
  BY <1>2 DEF Own, Registers, Scanned
<1>4. d \in 1..Len(results[p]) /\ results[p][d].manifest = m /\ m \in Manifests /\ m.id = a
  BY <1>3 DEF RegisteredFrom
<1>5. d \in 1..Len(Dirs) /\ Same(m, catalog[d].manifest)
  BY <1>2, <1>3, <1>4, DirsAreListed DEF Own, Scanned
<1>6. m # NoManifest /\ new # NoManifest /\ new \in Manifests /\ new.id = a
  BY <1>1, <1>4, NoManifestIsNone
<1>7. a \in Apps /\ new.ver \in Versions /\ new.ver \in Nat
  BY <1>6, VersionsAreNumbered DEF Apps, Versions
<1>8. data[a] \in DbRecord /\ data[a].ver \in Nat
  BY <1>2, <1>7, VersionsAreNat
<1> HIDE DEF d, m
<1>9. r \in DbRecord /\ r.seeded = data[a].seeded /\ data[a].ver <= r.ver
  <2>1. new.ver >= data[a].ver
    BY <1>1, <1>7, <1>8
  <2> DEFINE v == new.ver
  <2>2. v \in Versions /\ data[a].ver <= v
    BY <1>7, <1>8, <2>1
  <2> HIDE DEF v
  <2>3. LET s == [data[a] EXCEPT !.ver = v]
        IN s \in DbRecord /\ s.seeded = data[a].seeded /\ s.ver = v
    BY <1>8, <2>2 DEF DbRecord
  <2> QED
    BY <2>2, <2>3 DEF v
<1>10. data' = [data EXCEPT ![a] = r]
  BY <1>1
<1>11. /\ Filled'
       /\ \A b \in Apps : data[b].ver <= data'[b].ver /\ data'[b].seeded = data[b].seeded
  <2> HIDE DEF r
  <2> QED
    BY <1>2, <1>7, <1>9, <1>10, DataAges
<1>12. Moves
  <2>1. catalog' = [catalog EXCEPT ![d].manifest = new]
    BY <1>1 DEF d
  <2>2. catalog' \in [1..Len(Dirs) -> Entry]
    BY <1>2, <1>5, <1>6, <2>1 DEF Entry
  <2>3. Same(catalog[d].manifest, new)
    BY <1>4, <1>5, <1>6 DEF Same
  <2>4. ASSUME NEW e \in 1..Len(Dirs)
        PROVE  catalog'[e].seed = catalog[e].seed /\ Same(catalog[e].manifest, catalog'[e].manifest)
    <3>1. CASE e = d
      <4>1. "manifest" \in DOMAIN catalog[d] /\ "seed" \in DOMAIN catalog[d]
        BY <1>2, <1>5 DEF Entry
      <4>2. catalog'[d].manifest = new /\ catalog'[d].seed = catalog[d].seed
        BY <1>2, <1>5, <2>1, <4>1
      <4> QED
        BY <2>3, <3>1, <4>2
    <3>2. CASE e # d
      <4>1. catalog'[e] = catalog[e]
        BY <1>2, <2>1, <3>2
      <4> QED
        BY <4>1 DEF Same
    <3> QED
      BY <3>1, <3>2
  <2> QED
    BY <1>11, <2>2, <2>4 DEF Moves
<1>13. Gone(p)
  BY DEF Migrate
<1> QED
  BY <1>11, <1>12, <1>13, GoneSeeds

\* The operator edits or deletes while nothing runs.
LEMMA OperatorSeeds ==
  ASSUME BootInv, SeedInv, EditCatalog \/ DeleteData
  PROVE  SeedInv'
<1>1. /\ UNCHANGED <<pc, results, opening, reg, turn, tx>> /\ \A p \in Procs : pc[p] = "down"
  BY DEF EditCatalog, DeleteData, Quiet
<1>2. ASSUME NEW p \in Procs
      PROVE  Own(p)'
  <2>1. Own(p) /\ pc'[p] = "down" /\ results'[p] = results[p] /\ reg'[p] = reg[p]
        /\ opening'[p] = opening[p]
    BY <1>1 DEF SeedInv
  <2>2. results[p] = <<>> /\ reg[p] = Nothing /\ opening[p].fresh \in BOOLEAN
    BY <1>1, <2>1 DEF Own, Scanned
  <2> QED
    BY <2>1, <2>2, OwnGone
<1>3. ServerInv'
  <2>1. pc[Server] = "down" /\ results[Server] = <<>> /\ tx = NoTx
    BY <1>1, ServersApps DEF BootInv, Phases
  <2> QED
    BY <1>1, <2>1, ServerDown
<1>4. Filled'
  <2>1. CASE data' = data
    BY <2>1, DataRests DEF SeedInv
  <2>2. CASE DeleteData
    <3>1. PICK a \in Apps : data' = [data EXCEPT ![a] = NoData]
      BY <2>2 DEF DeleteData
    <3>2. NoData \in DbRecord /\ NoData.seeded = <<>> /\ Len(<<>>) = 0
      <4>1. <<>> \in Seq([folder : Folders, rows : Seq(DbRows)]) /\ Len(<<>>) = 0
        OBVIOUS
      <4> QED
        BY <4>1 DEF NoData, DbRecord
    <3>3. data \in [Apps -> DbRecord]
      BY DEF SeedInv, Filled
    <3>4. data' \in [Apps -> DbRecord]
      BY <3>1, <3>2, <3>3
    <3>5. \A b \in Apps : data'[b].seeded = <<>> \/ data'[b] = data[b]
      BY <3>1, <3>2, <3>3
    <3>6. \A b \in Apps : \A n \in 1..Len(data'[b].seeded) : Complete(data'[b].seeded[n])
      <4> TAKE b \in Apps
      <4>1. CASE data'[b].seeded = <<>>
        BY <3>2, <4>1
      <4>2. CASE data'[b] = data[b]
        BY <4>2 DEF SeedInv, Filled
      <4> QED
        BY <3>5, <4>1, <4>2
    <3>7. (\A b \in Apps : \A n \in 1..Len(data[b].seeded) : Complete(data[b].seeded[n]))'
      BY <3>6 DEF Complete
    <3> QED
      BY <3>4, <3>7 DEF Filled
  <2> QED
    BY <2>1, <2>2 DEF EditCatalog
<1> QED
  BY <1>2, <1>3, <1>4 DEF SeedInv

\* Together with BootInv the invariant is inductive.
LEMMA SeedInvInductive == BootInv /\ SeedInv /\ [Next]_vars => SeedInv'
<1> SUFFICES ASSUME BootInv, SeedInv, [Next]_vars
             PROVE  SeedInv'
  OBVIOUS
<1>0. Filled
  BY DEF SeedInv
<1>1. CASE UNCHANGED vars
  <2>1. /\ Filled' /\ Moves /\ \A a \in Apps : data'[a].seeded = data[a].seeded
    BY <1>0, <1>1, DataRests, CatalogRests DEF vars
  <2>2. ASSUME NEW p \in Procs
        PROVE  Own(p)'
    <3>1. Own(p)
      BY DEF SeedInv
    <3> QED
      BY <1>1, <2>1, <3>1, OwnStays DEF vars
  <2>3. pc'[Server] = "serve" => turn > Len(results[Server])
    BY <1>1 DEF SeedInv, ServerInv, Loop, vars
  <2>4. ServerInv'
    BY <1>1, <2>1, <2>3, UnderwayStays, ServerStays DEF vars
  <2> QED
    BY <2>1, <2>2, <2>4 DEF SeedInv
<1>2. ASSUME NEW p \in Procs, MigrateFails(p) \/ Crash(p) \/ Stop
      PROVE  SeedInv'
  <2>1. /\ Filled' /\ Moves /\ \A a \in Apps : data'[a].seeded = data[a].seeded
    BY <1>0, <1>2, DataRests, CatalogRests DEF MigrateFails, Crash, Stop
  <2> QED
    BY <1>2, <2>1, GoneSeeds, ServersApps DEF MigrateFails, Crash, Stop
<1>3. ASSUME NEW p \in Procs, Start(p) \/ Load(p)
      PROVE  SeedInv'
  <2>1. /\ Filled' /\ Moves /\ \A a \in Apps : data'[a].seeded = data[a].seeded
    BY <1>3, LoadMoves
  <2>2. \A q \in Procs : q # p => /\ pc'[q] = pc[q] /\ results'[q] = results[q]
                                  /\ reg'[q] = reg[q] /\ opening'[q] = opening[q]
    <3>1. DOMAIN pc = Procs /\ DOMAIN results = Procs /\ DOMAIN opening = Procs /\ DOMAIN reg = Procs
      BY DEF BootInv, Shapes
    <3>2. CASE Start(p) \/ SkipDir(p) \/ Stat(p) \/ Loaded(p)
      BY <3>1, <3>2 DEF Start, SkipDir, Stat, Loaded, Goto, Record
    <3>3. CASE OpenFails(p)
      BY <3>1, <3>3 DEF OpenFails, Goto, Record
    <3>4. CASE OpenApp(p)
      BY <3>1, <3>4 DEF OpenApp, Goto, Record
    <3> QED
      BY <1>3, <3>2, <3>3, <3>4 DEF Load
  <2>3. ASSUME NEW q \in Procs
        PROVE  Own(q)'
    <3>1. CASE q = p
      BY <1>3, <3>1, LoadOwn
    <3>2. CASE q # p
      <4>1. Own(q)
        BY DEF SeedInv
      <4> QED
        BY <2>1, <2>2, <3>2, <4>1, OwnStays
    <3> QED
      BY <3>1, <3>2
  <2>4. ServerInv'
    <3>1. CASE p = Server
      BY <1>3, <3>1, LoadServes
    <3>2. CASE p # Server
      <4>1. /\ pc'[Server] = pc[Server] /\ results'[Server] = results[Server]
            /\ reg'[Server] = reg[Server]
        BY <2>2, <3>2, ServersApps
      <4>2. turn' = turn /\ tx' = tx
        BY <1>3 DEF Start, Load, SkipDir, Stat, OpenApp, OpenFails, Loaded
      <4>3. pc'[Server] = "serve" => turn > Len(results[Server])
        BY <4>1 DEF SeedInv, ServerInv, Loop
      <4> QED
        BY <2>1, <4>1, <4>2, <4>3, UnderwayStays, ServerStays
    <3> QED
      BY <3>1, <3>2
  <2> QED
    BY <2>1, <2>3, <2>4 DEF SeedInv
<1>4. ASSUME NEW p \in Procs, Migrate(p)
      PROVE  SeedInv'
  BY <1>4, MigrationSeeds
<1>5. CASE SeedStep
  BY <1>5, SeedsInOrder
<1>6. CASE EditCatalog \/ DeleteData
  BY <1>6, OperatorSeeds
<1> QED
  BY <1>1, <1>2, <1>3, <1>4, <1>5, <1>6, ServersApps DEF Next, Work

LEMMA SeedInvHolds == Spec => [](BootInv /\ SeedInv)
<1>1. BootInv /\ SeedInv /\ [Next]_vars => (BootInv /\ SeedInv)'
  BY BootInvInductive, SeedInvInductive
<1>2. Init => BootInv /\ SeedInv
  BY InitBootInv, InitSeedInv
<1> QED
  BY <1>1, <1>2, PTL DEF Spec

-----------------------------------------------------------------------------
Phased == pc \in [Procs -> {"down", "load", "open", "seed", "serve", "apply"}]

\* Whatever processes run, a registry holds apps of the catalog, and a boot has at most
\* one result per directory (registry.go, Load).
THEOREM BootsAreTyped == Spec => []TypeOK
<1>1. BootInv /\ SeedInv /\ Phased => TypeOK
  <2> SUFFICES ASSUME BootInv, SeedInv, Phased
               PROVE  TypeOK
    OBVIOUS
  <2>1. catalog \in [1..Len(Dirs) -> Entry] /\ DOMAIN pc = Procs
    BY DEF BootInv, Shapes
  <2>2. data \in [Apps -> DbRecord]
    BY DEF SeedInv, Filled
  <2>3. ASSUME NEW p \in Procs
        PROVE  DOMAIN reg[p] \subseteq Apps /\ Len(results[p]) <= Len(Dirs)
    BY DEF SeedInv, Own, Scanned, Registers, RegisteredFrom, Apps
  <2> QED
    BY <2>1, <2>2, <2>3 DEF TypeOK, Phased, DbRecord, DbRows
<1>2. Init => Phased
  BY DEF Init, Phased
<1>3. Phased /\ [Next]_vars => Phased'
  <2> SUFFICES ASSUME Phased, [Next]_vars
               PROVE  Phased'
    OBVIOUS
  <2>1. CASE pc' = pc
    BY <2>1 DEF Phased
  <2>2. ASSUME NEW p \in Procs, NEW step \in {"down", "load", "open", "seed", "serve", "apply"},
               Goto(p, step)
        PROVE  Phased'
    BY <2>2 DEF Phased, Goto
  <2>3. Server \in Procs
    BY DEF Procs
  <2>4. CASE \E p \in Procs : Start(p) \/ Stat(p) \/ OpenApp(p) \/ OpenFails(p) \/ Loaded(p)
    BY <2>2, <2>4 DEF Start, Stat, OpenApp, OpenFails, Loaded
  <2>5. CASE Stop \/ Listen \/ \E p \in Procs : Migrate(p) \/ MigrateFails(p) \/ Crash(p)
    BY <2>2, <2>3, <2>5 DEF Stop, Listen, Migrate, MigrateFails, Crash, Gone
  <2> QED
    BY <2>1, <2>4, <2>5 DEF Next, Work, Load, SeedStep, SkipDir, SeedPass, SeedNothing, SeedRefused,
      SeedBegin, SeedRow, SeedRollback, SeedCommit, SeedFails, EditCatalog, DeleteData, vars
<1> QED
  BY <1>1, <1>2, <1>3, SeedInvHolds, PTL DEF Spec

\* Whatever the files of a data/ folder hold and however their rows refer to each other,
\* what a boot commits is every row of every file in its order, each reference pointing at
\* a row inserted before it: an app seeds completely or not at all (seed.go:18-21).
THEOREM SeedsAreWhole == Spec => []SeededWhole
<1>1. BootInv /\ SeedInv => SeededWhole
  BY CompleteIsWhole DEF SeedInv, Filled, SeededWhole
<1> QED
  BY <1>1, SeedInvHolds, PTL

\* However many directories share an app and whatever migrates meanwhile, an app that is
\* served by the boot that created its database has been seeded from the directory it is
\* registered with (seed.go:3-5, main.go:96-118).
THEOREM SeedingComesFirst == Spec => []SeededBeforeServed
<1>1. BootInv /\ SeedInv => SeededBeforeServed
  <2> SUFFICES ASSUME BootInv, SeedInv, pc[Server] = "serve", NEW d \in 1..Len(Dirs)
               PROVE  LET res == results[Server][d]
                      IN res.ok /\ res.fresh /\ res.manifest.id \in DOMAIN reg[Server] =>
                           LET folder == catalog[reg[Server][res.manifest.id].dir].seed
                           IN folder # Nothing => \E n \in 1..Len(data[res.manifest.id].seeded) :
                                                    data[res.manifest.id].seeded[n].folder = folder
    BY DEF SeededBeforeServed
  <2>1. Len(results[Server]) = Len(Dirs) /\ Len(results[Server]) \in Nat
    BY ServersApps DEF SeedInv, Own, Scanned
  <2>2. turn > Len(results[Server]) /\ turn \in Nat
    BY DEF SeedInv, ServerInv, Loop, BootInv, Shapes
  <2>3. DoneWith(results[Server][d])
    BY <2>1, <2>2 DEF SeedInv, ServerInv, Done
  <2> QED
    BY <2>3 DEF DoneWith
<1> QED
  BY <1>1, SeedInvHolds, PTL

\* Whatever is wrong with other apps, an app of the catalog is served unless one of its own
\* directories was not accepted, has been migrated since, or has a seed that cannot be
\* inserted (boot.go:35-36, main.go:96-118).
THEOREM OthersAreServed == Spec => []OthersServed
<1>1. BootInv /\ SeedInv => OthersServed
  <2> SUFFICES ASSUME BootInv, SeedInv
               PROVE  OthersServed
    OBVIOUS
  <2>0. pc[Server] = "serve" => Len(results[Server]) = Len(Dirs)
    BY ServersApps DEF SeedInv, Own, Scanned
  <2> SUFFICES ASSUME pc[Server] = "serve", NEW d \in 1..Len(Dirs),
                      catalog[d].manifest # NoManifest,
                      catalog[d].manifest.id \notin DOMAIN reg[Server]
               PROVE  Blamed(catalog[d].manifest.id)
    BY <2>0 DEF OthersServed, Blamed
  <2>1. /\ d \in 1..Len(results[Server])
        /\ Same(results[Server][d].manifest, catalog[d].manifest)
    BY ServersApps DEF SeedInv, Own, Scanned
  <2>2. /\ results[Server][d].manifest # NoManifest
        /\ results[Server][d].manifest.id = catalog[d].manifest.id
    BY <2>1 DEF Same
  <2>3. catalog[d].manifest.id \in Apps
    BY <2>1, <2>2, ResultsName
  <2> QED
    BY <2>1, <2>2, <2>3 DEF SeedInv, ServerInv, Accounted
<1> QED
  BY <1>1, SeedInvHolds, PTL
=============================================================================
