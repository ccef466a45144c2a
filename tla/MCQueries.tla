----------------------------- MODULE MCQueries ------------------------------
EXTENDS Queries

File(dir, stem) == [dir |-> dir, stem |-> stem]
At(prefix, fs) == {File(prefix \o f.dir, f.stem) : f \in fs}
Project(files, root, excludes) == [files |-> files, root |-> root, excludes |-> excludes]

(* Two packages, one with a package in it.                                 *)
P0 == File(<<"p">>, "__init__")
PA == File(<<"p">>, "a")
PB == File(<<"p", "b">>, "__init__")
PBC == File(<<"p", "b">>, "c")
Q0 == File(<<"q">>, "__init__")
Flat == {P0, PA, PB, PBC, Q0}

(* The import statements that each module may have, by its name.           *)
StatementsIn ==
  [ p |-> {ImportFrom(1, <<>>, {"a"}), ImportFrom(1, <<"b">>, {"c", "x"})},
    a |-> {ImportFrom(1, <<"b">>, {"x"}), ImportFrom(1, <<>>, {"b", "x"}), Import(<<"q">>),
           Import(<<"os">>)},
    b |-> {ImportFrom(1, <<>>, {"c"}), ImportFrom(2, <<>>, {"a"}), ImportStar(2, <<>>)},
    c |-> {ImportFrom(2, <<>>, {"b"}), ImportFrom(1, <<>>, {"x"}), Import(<<"p", "a">>)},
    q |-> {ImportFrom(0, <<"p", "b">>, {"c"}), ImportStar(0, <<"p">>),
           Import(<<"q">>)} ]

MCStatementsOf ==
  LET name(f) == IF f.stem # "__init__" THEN f.stem
                 ELSE IF f.dir = <<>> THEN "" ELSE Last(f.dir)
      all == UNION {p.files : p \in Projects}
  IN  [f \in all |-> IF name(f) \in DOMAIN StatementsIn THEN StatementsIn[name(f)] ELSE {}]

MCProjects ==
  { \* packages beside the tests, with an environment that is not looked at
    Project(Flat \cup {File(<<"venv", "p">>, "a"), File(<<>>, "setup")}, <<>>, {}),
    \* the same below src, analysed from src and from the project root
    Project(At(<<"src">>, {P0, PA, PBC, PB}) \cup {Q0}, <<>>, {}),
    Project(At(<<"src">>, Flat), <<"src">>, {}),
    \* a monorepo, with a package that has no __init__.py
    Project(At(<<"x", "src">>, {P0, PA, PBC}) \cup At(<<"y", "src">>, {Q0}), <<>>, {}),
    \* a package that is excluded, in two ways
    Project(Flat, <<>>, {Exclude(<<"b">>, FALSE, TRUE)}),
    Project(At(<<"src">>, Flat), <<>>, {Exclude(<<"src", "p", "b">>, TRUE, FALSE),
                                       Exclude(<<"q">>, TRUE, FALSE)}),
    \* excluded files with the names of modules that are read
    Project({PA, File(<<>>, "q"), Q0}, <<>>, {Exclude(<<"q">>, FALSE, TRUE)}),
    Project(At(<<"x", "src">>, {PA, Q0}) \cup At(<<"y", "src">>, {PA}), <<>>,
            {Exclude(<<"x", "src", "p">>, TRUE, TRUE)}) }

AnySegment == Glob({"p", "q", "a", "b", "c", "src", "x", "y", "setup"})
Lit(names) == [i \in DOMAIN names |-> Literal(names[i])]

MCPatterns ==
  { Lit(<<"p">>), Lit(<<"q">>), Lit(<<"p", "a">>), Lit(<<"p", "b">>), <<GlobStar>>,
    <<Literal("p"), AnySegment>>, <<Literal("p"), GlobStar, Literal("c")>>,
    <<GlobStar, Glob({"a", "b"})>>, Lit(<<"none">>) }

(* Layers that have all modules, that overlap, and that miss some.         *)
MCLayerLists ==
  LET p == Lit(<<"p">>)  q == Lit(<<"q">>)  a == Lit(<<"p", "a">>)  b == Lit(<<"p", "b">>)
      top == <<AnySegment>>  inP == <<Literal("p"), AnySegment>>  all == <<GlobStar>>
  IN  { <<q, p>>, <<p, q>>, <<q, a, b>>, <<b, a, top>>, <<top, a, b>>, <<a, p>>,
        <<p, a, all>>, <<all, b>>, <<inP, b>>, <<inP, top, Lit(<<"none">>)>> }

(* All patterns and names of up to three segments.                         *)
MCNamePatterns ==
  LET segments == {Literal("a"), Literal("b"), Glob({"a"}), Glob({"a", "b"}), Glob({"b", "c"}),
                   GlobStar}
  IN  UNION {[1 .. n -> segments] : n \in 1 .. 3}
MCNames == UNION {[1 .. n -> {"a", "b"}] : n \in 1 .. 4}
=============================================================================
