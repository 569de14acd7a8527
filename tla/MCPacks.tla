------------------------------- MODULE MCPacks -------------------------------
(***************************************************************************)
(* Five small repositories, and the limits they are read under.            *)
(***************************************************************************)
EXTENDS PackReader, TLC

CONSTANTS Repositories, LimitsMet

Blob(path, hash) == [path |-> path, type |-> "file", size |-> 1, hash |-> hash]

Kinds ==
    ("SKILLCDN.md" :> "manifest") @@ ("SKILL.md" :> "skill") @@ ("README.md" :> "markdown")
        @@ ("README.markdown" :> "markdown") @@ ("a.md" :> "markdown") @@ ("b.md" :> "markdown") @@ ("c.md" :> "markdown")
        @@ ("e.json" :> "json") @@ ("x.py" :> "other") @@ ("LICENSE" :> "other")

Overview == ("README.md" :> 0) @@ ("README.markdown" :> 1)
LicenseNames == "LICENSE" :> 0

Silence ==
    [text |-> TRUE, ok |-> TRUE, name |-> "none", exclude |-> {}, documents |-> {}, include |-> <<>>,
     refs |-> <<>>, license |-> "silent"]

Bodies ==
    ("root" :> [Silence EXCEPT !.documents = {<<"docs">>}, !.exclude = {<<"private">>}])
        @@ ("to b" :> [Silence EXCEPT !.refs = <<<<"extra", "b.md">>, <<"private", "c.md">>>>])
        @@ ("to a" :> [Silence EXCEPT !.refs = <<<<".hid", "a.md">>, <<"private", "c.md">>>>])
        @@ ("to c" :> [Silence EXCEPT !.refs = <<<<"extra", "c.md">>>>])
        @@ ("page" :> Silence) @@ ("other page" :> Silence)
        @@ ("code" :> [Silence EXCEPT !.text = FALSE])
        @@ ("open" :> [Silence EXCEPT !.license = "permissive"])
        @@ ("closed" :> [Silence EXCEPT !.license = "restrictive"])
        @@ ("one" :> [Silence EXCEPT !.name = "one", !.include = <<<<"one", ".x", "e.json">>, <<"docs", "a.md">>>>])
        @@ ("in" :> [Silence EXCEPT !.name = "in"])
        @@ ("area" :> [Silence EXCEPT !.documents = {<<"p">>}, !.exclude = {<<"q">>}, !.license = "restrictive"])
        @@ ("again" :> [Silence EXCEPT !.documents = {<<"p">>}, !.license = "permissive"])
        @@ ("itself" :> [Silence EXCEPT !.documents = {<<"p">>}, !.exclude = {<<"SKILLCDN.md">>}])
        @@ ("no skill" :> [Silence EXCEPT !.ok = FALSE])
        @@ ("takes" :> [Silence EXCEPT !.exclude = {<<"one", "a.md">>}])
        @@ ("includes" :> [Silence EXCEPT !.name = "one", !.include = <<<<"one", "a.md">>>>])

\* Documents, what they link to edge by edge, and a directory that is withheld, with a manifest of its own.
Linked(last) ==
    <<Blob(<<".hid", "a.md">>, last), Blob(<<"README.md">>, "to b"), Blob(<<"SKILLCDN.md">>, "root"),
      Blob(<<"docs", "a.md">>, "page"), Blob(<<"extra", "b.md">>, "to a"), Blob(<<"extra", "c.md">>, "other page"),
      Blob(<<"private", "SKILLCDN.md">>, "again"), Blob(<<"private", "c.md">>, "page")>>

\* A skill in a skill, each with its license; one includes a hidden file and a shared page.
Nested ==
    <<Blob(<<"LICENSE">>, "open"), Blob(<<"docs", "a.md">>, "page"), Blob(<<"one", ".x", "e.json">>, "other page"),
      [Blob(<<"one", "SKILL.md">>, "one") EXCEPT !.size = 2], Blob(<<"one", "in", "LICENSE">>, "closed"),
      Blob(<<"one", "in", "SKILL.md">>, "in"), Blob(<<"one", "in", "a.md">>, "to c"), Blob(<<"one", "x.py">>, "code")>>

\* Manifests below the root: one restricts and withholds, one would open that again, one is a link, one
\* excludes itself, below an overview; and a SKILL.md that is none.
Governed ==
    <<Blob(<<"area", "SKILLCDN.md">>, "area"), Blob(<<"area", "p", "a.md">>, "page"),
      Blob(<<"area", "q", "SKILLCDN.md">>, "again"), Blob(<<"area", "q", "p", "b.md">>, "other page"),
      Blob(<<"area", "r", "SKILL.md">>, "no skill"), Blob(<<"area", "r", "a.md">>, "to c"),
      [Blob(<<"link", "SKILLCDN.md">>, "root") EXCEPT !.type = "symlink"], Blob(<<"link", "docs", "a.md">>, "to b"),
      Blob(<<"self", "README.md">>, "page"), Blob(<<"self", "in", "SKILLCDN.md">>, "itself"),
      Blob(<<"self", "in", "p", "c.md">>, "to a")>>

\* A copy under a hidden directory, a skill that includes what a manifest takes away, and two overviews.
Copied ==
    <<Blob(<<".agent", "in", "SKILL.md">>, "in"), Blob(<<"README.markdown">>, "page"),
      Blob(<<"README.md">>, "page"), Blob(<<"SKILLCDN.md">>, "takes"), Blob(<<"in", "SKILL.md">>, "in"),
      Blob(<<"in", "x.py">>, "code"), Blob(<<"one", "SKILL.md">>, "includes"), Blob(<<"one", "a.md">>, "page")>>

Known == ("links" :> Linked("page")) @@ ("more links" :> Linked("to c")) @@ ("nested" :> Nested)
            @@ ("governed" :> Governed) @@ ("copied" :> Copied)
Repos == {Known[r] : r \in Repositories}

Wide == [tree |-> 20, count |-> 20, bytes |-> 20, file |-> 2, read |-> 2, license |-> 2, listed |-> 9,
         listedBytes |-> 9]
Bounds ==
    ("none" :> Wide) @@ ("tree" :> [Wide EXCEPT !.tree = 5]) @@ ("count" :> [Wide EXCEPT !.count = 4])
        @@ ("file" :> [Wide EXCEPT !.file = 1, !.read = 1]) @@ ("bytes" :> [Wide EXCEPT !.bytes = 6])
        @@ ("listed" :> [Wide EXCEPT !.listed = 2])
Limited == {Bounds[l] : l \in LimitsMet}
================================================================================
