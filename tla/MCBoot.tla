------------------------------- MODULE MCBoot -------------------------------
(***************************************************************************)
(* A catalog of three directories for Boot: a library whose books refer to *)
(* its authors, a copy of the library under another name, and a journal.   *)
(***************************************************************************)
EXTENDS Boot, TLC

Library(ver) == [id |-> "library", ver |-> ver, entities |-> <<"author", "book">>,
                 creates |-> {"author", "book"}]
Journal == [id |-> "journal", ver |-> 1, entities |-> <<"page", "log">>, creates |-> {"page"}]

TheDirs == <<"books", "books copy", "journal">>
TheManifests == {Library(1), Library(2), Journal}

Ref(ent, key) == [ent |-> ent, key |-> key, target |-> "author"]
SeedRowOf(label, refs) == [label |-> label, refs |-> refs, valid |-> TRUE]

Authors == <<SeedRowOf({"x"}, {}), SeedRowOf({"x"}, {})>>
Whole == "author" :> Authors @@ "book" :> <<SeedRowOf({"b"}, {Ref("author", "x")})>>
Dangling == "author" :> <<SeedRowOf({"x"}, {})>> @@ "book" :> <<SeedRowOf({}, {Ref("author", "y")})>>
Logs == "log" :> <<SeedRowOf({}, {})>>

TheFolders == {Nothing, Whole, Dangling, Logs}

At(manifest, seed) == [manifest |-> manifest, seed |-> seed]

TheCatalogs ==
  {<<At(Library(1), Whole), At(Library(1), Dangling), At(Journal, Nothing)>>,
   <<At(Library(1), Dangling), At(NoManifest, Nothing), At(Journal, Logs)>>}

TheEdits == {At(Library(1), Whole)}

OneLibrary == {<<At(Library(1), Whole), At(NoManifest, Nothing), At(Journal, Nothing)>>}
=============================================================================
