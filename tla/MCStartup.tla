------------------------------ MODULE MCStartup ------------------------------
(* Situations for model checking Startup: a project /p with a directory /p/s *)
(* and, in it, another s; a store /x outside it; a link /l to /p/s.          *)
EXTENDS Startup

Top == <<>>
P   == <<"p">>
S   == <<"p", "s">>
SS  == <<"p", "s", "s">>
X   == <<"x">>
L   == <<"l">>

MCDirs  == {Top, P, S, SS, X}
MCLinks == [p \in {L} |-> S]
NoNested == MCDirs \ {SS}

Plain == [start |-> S, given |-> {}, files |-> {<<P, "conformist.toml">>}, broken |-> {},
          git |-> None, jujutsu |-> None, prj |-> None, printed |-> None, paths |-> {}]

C1 == "conformist.toml"
C2 == ".conformist.toml"
C3 == "treelint.toml"

InDir(d, n) == [dir |-> d, name |-> n]
PathArg(d, f) == [dir |-> d, file |-> f]

\* Where configs may be found and what bars the way.
Discovery ==
  {[Plain EXCEPT !.start = s, !.files = fs, !.broken = b,
                 !.given = IF c = <<>> THEN {} ELSE {<<layer, "ceilings", c>>}] :
     s \in {S, SS, L},
     fs \in SUBSET {<<Top, C1>>, <<P, C3>>, <<P, C2>>, <<S, C1>>, <<SS, C3>>},
     b \in {{}, {<<P, C2>>}},
     layer \in {"env", "legacy"},
     c \in {<<>>, <<Absolute(P)>>, <<Absolute(Top)>>, <<Absolute(S)>>, <<Relative(P), Absolute(L)>>,
            <<Empty, Absolute(P)>>, <<Empty>>}}

\* Who says where the config and the root are, in which repository.
Roots ==
  {[Plain EXCEPT !.start = s, !.given = g \cup w, !.prj = p, !.git = v[1], !.jujutsu = v[2],
                 !.printed = Absolute(X),
                 !.files = {<<P, C1>>, <<X, C1>>, <<Top, "flake.nix">>, <<S, "a.go">>},
                 !.paths = ps] :
     s \in {S, L, Top},
     g \in {{}, {<<"flag", "config", InDir(Absolute(X), C1)>>},
            {<<"env", "config", InDir(Absolute(P), C1)>>},
            {<<"flag", "config", InDir(Relative(<<>>), C1)>>},
            {<<"flag", "treeRoot", Absolute(P)>>},
            {<<"legacy", "treeRootFile", "flake.nix">>},
            {<<"file", "treeRootCmd", "pwd">>},
            {<<"env", "treeRoot", Relative(<<>>)>>, <<"file", "treeRootCmd", "pwd">>},
            {<<"flag", "workingDir", Absolute(S)>>, <<"env", "workingDir", Absolute(X)>>},
            {<<"legacy", "workingDir", Absolute(L)>>, <<"file", "workingDir", Absolute(X)>>},
            {<<"env", "stdin", TRUE>>, <<"file", "stdin", TRUE>>, <<"env", "ci", TRUE>>},
            {<<"flag", "stdin", TRUE>>}},
     w \in {{}} \cup {{<<"file", "walk", k>>} : k \in {"git", "jujutsu", "filesystem"}}
            \cup {{<<"legacy", "walk", "filesystem">>, <<"env", "walk", "git">>}},
     p \in {None, Absolute(X), Absolute(S)},
     v \in {<<None, None>>, <<P, None>>, <<S, P>>, <<None, S>>},
     ps \in {{}, {PathArg(Relative(<<>>), None)}, {PathArg(Absolute(S), "a.go")},
             {PathArg(Absolute(L), "a.go"), PathArg(Absolute(P), None)},
             {PathArg(Absolute(X), C1)}}}

\* What leads nowhere.
Broken ==
  {[Plain EXCEPT !.given = g, !.paths = ps] :
     g \in {{<<"env", "workingDir", Absolute(<<"gone">>)>>}, {<<"flag", "treeRootCmd", "false">>},
            {<<"file", "treeRootFile", "flake.nix">>}, {<<"env", "config", InDir(Absolute(S), C1)>>},
            {<<"flag", "treeRoot", Absolute(<<"gone">>)>>}},
     ps \in {{}, {PathArg(Relative(<<"gone">>), None)}}}

MCWorlds == Discovery \cup Roots \cup Broken

\* `conformist -C s` in the repository /p, whose directory s has its own config.
RelativeDir ==
  {[Plain EXCEPT !.start = P, !.git = v, !.files = fs,
                 !.given = {<<layer, "workingDir", Relative(<<"s">>)>>}] :
     v \in {None, P}, fs \in {{<<P, C1>>}, {<<S, C1>>}}, layer \in {"flag", "env"}}

\* The situations of MCWorlds are such that the theorems of StartupProofs apply.
ASSUME SituationsAssumption == NamedAbsolutely(MCWorlds) /\ RealCeilings
=============================================================================
