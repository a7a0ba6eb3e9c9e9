------------------------------- MODULE Startup -------------------------------
(***************************************************************************)
(* How one conformist process finds out what to work on: the environment,  *)
(* the working directory and the config file (cmd/root.go), the options    *)
(* merged from flags, environment and config file and the tree root        *)
(* (config/config.go), and the readers for the paths it was given          *)
(* (walk/walk.go).  Directories are sequences of names from the root of    *)
(* the file system; a path is absolute or relative to a directory.         *)
(***************************************************************************)
EXTENDS Naturals, FiniteSets, Sequences, SequencesExt

CONSTANTS
  Dirs,    \* the directories there are
  Links,   \* Links[p]: the directory the symbolic link p leads to
  None,    \* nothing: no directory, no value, no file name
  Empty,   \* an empty entry of a list of ceilings
  Worlds,  \* the situations a process may be started in
  Slow     \* the tree root probes that may take more than two seconds

VARIABLES
  world,   \* what the process finds; it changes none of it
  env,     \* its own CONFORMIST_ variables: pairs of a key and a value
  at,      \* where it is
  cwd,     \* its current directory
  here,    \* the directory an upward search is in
  config,  \* the config file in use
  opts,    \* the merged options
  wd,      \* cfg.WorkingDirectory
  root,    \* cfg.TreeRoot
  readers, \* one for the root or one per path: its kind and its directory
  hiccup   \* history: a probe was killed

vars == <<world, env, at, cwd, here, config, opts, wd, root, readers, hiccup>>

\* A world: the current directory and PWD at the start; what is set, as triples
\* of a layer, a key and a value; the files; the top directories of a git and a
\* jujutsu repository; PRJ_ROOT; what tree-root-cmd prints; the path arguments.
WorldFields == {"start", "given", "files", "broken", "git", "jujutsu", "prj", "printed", "paths"}

\* A path as it is written: absolute, or relative to some directory.
PathNames == [abs : BOOLEAN, path : Seq(STRING)]
ConfigFiles == [dir : PathNames, name : STRING]

\* The layers of settings, and the values of a setting.
Layers == {"flag", "env", "legacy", "file"}
Values(k) ==
  CASE k = "walk" -> {"auto", "git", "jujutsu", "filesystem", "stdin"}
    [] k \in {"ci", "stdin", "noCache", "failOnChange"} -> BOOLEAN
    [] k \in {"workingDir", "treeRoot"} -> PathNames
    [] k \in {"treeRootFile", "treeRootCmd"} -> STRING
    [] k = "ceilings" -> Seq(PathNames \cup {Empty})
    [] k = "config" -> ConfigFiles

ASSUME NoneAssumption == None \notin Seq(STRING) \cup PathNames \cup ConfigFiles \cup STRING

\* Directories are those of a tree, by their real names: what is above one is one,
\* and a link is none.
ASSUME DirsAssumption ==
  /\ Dirs \subseteq Seq(STRING)
  /\ \A d \in Dirs : \A n \in 0 .. Len(d) : SubSeq(d, 1, n) \in Dirs
  /\ DOMAIN Links \subseteq Seq(STRING)
  /\ \A l \in DOMAIN Links : Links[l] \in Dirs /\ \A d \in Dirs : ~IsPrefix(l, d)

\* A setting has one value in a layer; git and jujutsu print real names.
ASSUME WorldsAssumption ==
  \A w \in Worlds :
    /\ DOMAIN w = WorldFields /\ w.start \in Seq(STRING)
    /\ \A s \in w.given : s[1] \in Layers /\ s[3] \in Values(s[2])
    /\ \A s, t \in w.given : s[1] = t[1] /\ s[2] = t[2] => s = t
    /\ {w.git, w.jujutsu} \subseteq Dirs \cup {None}
    /\ {w.prj, w.printed} \subseteq PathNames \cup {None}
    /\ \A p \in w.paths : p.dir \in PathNames

\* In the worlds W the working directory is asked for by an absolute name, or not at
\* all.  A relative one is followed twice (config.go:286).
NamedAbsolutely(W) ==
  \A w \in W : \A s \in w.given : s[2] = "workingDir" => s[3].abs \/ s[3].path = <<>>

-----------------------------------------------------------------------------
(* Paths.                                                                  *)

Absolute(p) == [abs |-> TRUE, path |-> p]
Relative(p) == [abs |-> FALSE, path |-> p]

\* filepath.Abs.
AbsFrom(dir, p) == IF p.abs THEN p.path ELSE dir \o p.path

\* filepath.EvalSymlinks.
Resolve(p) ==
  IF \E l \in DOMAIN Links : IsPrefix(l, p)
  THEN LET l == CHOOSE l \in DOMAIN Links : IsPrefix(l, p)
       IN  Links[l] \o SubSeq(p, Len(l) + 1, Len(p))
  ELSE p

Exists(p) == Resolve(p) \in Dirs

\* A ceiling that is taken as it is written, after an empty entry, is written by its
\* real name.  (Otherwise it bars nothing, which is what the empty entry is for.)
RealCeilings ==
  \A w \in Worlds : \A s \in w.given : s[2] = "ceilings" =>
    \A i, j \in DOMAIN s[3] :
      j < i /\ s[3][j] = Empty /\ s[3][i] # Empty /\ s[3][i].abs
        => Resolve(s[3][i].path) = s[3][i].path

\* os.Getwd: PWD, as inherited, while it still names the current directory.
Getwd == IF Resolve(cwd) = Resolve(world.start) THEN world.start ELSE Resolve(cwd)

Abs(p) == AbsFrom(Getwd, p)

\* fileExists: a file is seen through a link to its directory.
IsFile(dir, name) == <<Resolve(dir), name>> \in world.files

-----------------------------------------------------------------------------
(* Settings.                                                               *)

Layer(l) == {<<s[2], s[3]>> : s \in {t \in world.given : t[1] = l}}

IsSet(S, k) == \E s \in S : s[1] = k
Get(S, k) == (CHOOSE s \in S : s[1] = k)[2]

Defaults == [walk |-> "auto", ci |-> FALSE, stdin |-> FALSE,
             noCache |-> FALSE, failOnChange |-> FALSE, workingDir |-> Relative(<<>>),
             treeRoot |-> None, treeRootFile |-> None, treeRootCmd |-> None]

\* FromViper overwrites these in the config file's layer.
CommandLineOnly == {"ci", "noCache", "stdin", "workingDir"}

\* viper: a flag that was given, the environment, the config file, the default.
Setting(k) ==
  IF IsSet(Layer("flag"), k) THEN Get(Layer("flag"), k)
  ELSE IF IsSet(env, k) THEN Get(env, k)
  ELSE IF IsSet(Layer("file"), k) /\ k \notin CommandLineOnly THEN Get(Layer("file"), k)
  ELSE Defaults[k]

Init ==
  /\ world \in Worlds
  /\ at = "env" /\ env = Layer("env") /\ cwd = world.start
  /\ here = <<>> /\ config = None /\ opts = Defaults /\ wd = None /\ root = None
  /\ readers = {} /\ hiccup = FALSE

GoTo(place) == at' = place

\* Mutant: the legacy prefix wins.
LegacyFirst ==
  /\ at = "env" /\ GoTo("chdir")
  /\ env' = {s \in {t \in env : ~IsSet(Layer("legacy"), t[1])} \cup Layer("legacy") : s[1] # "stdin"}
  /\ UNCHANGED <<world, cwd, here, config, opts, wd, root, readers, hiccup>>

\* NewViper: TREELINT_ variables stand in for CONFORMIST_ variables that are not
\* set; --stdin is a flag only.
ReadEnv ==
  /\ at = "env" /\ GoTo("chdir")
  /\ env' = {s \in env \cup {t \in Layer("legacy") : ~IsSet(env, t[1])} : s[1] # "stdin"}
  /\ UNCHANGED <<world, cwd, here, config, opts, wd, root, readers, hiccup>>

\* changeWorkingDir.
ChangeDir ==
  /\ at = "chdir"
  /\ LET dir == Abs(Setting("workingDir")) IN
     \/ Exists(dir) /\ cwd' = dir /\ GoTo("config")
     \/ ~Exists(dir) /\ GoTo("failed") /\ UNCHANGED cwd
  /\ UNCHANGED <<world, env, here, config, opts, wd, root, readers, hiccup>>

-----------------------------------------------------------------------------
(* Searching upward: Find, FindUp and eachDir.                             *)

ConfigNames == <<"conformist.toml", ".conformist.toml", "treelint.toml", ".treelint.toml">>

\* What the provers do not know of string literals.
ASSUME NamesAssumption == \A i \in DOMAIN ConfigNames : ConfigNames[i] \in STRING

\* Find: the first of the names that is a file.
Find(dir, names) ==
  {i \in DOMAIN names : IsFile(dir, names[i]) /\ \A j \in DOMAIN names : j < i => ~IsFile(dir, names[j])}

CeilingList == IF IsSet(env, "ceilings") THEN Get(env, "ceilings") ELSE <<>>

\* configCeilingDirs: links are resolved up to the first empty entry.
Ceilings ==
  {LET p == CeilingList[i].path
       verbatim == \E j \in 1 .. i : CeilingList[j] = Empty
   IN  IF verbatim \/ ~Exists(p) THEN p ELSE Resolve(p) :
     i \in {j \in DOMAIN CeilingList : CeilingList[j] # Empty /\ CeilingList[j].abs}}

\* eachDir: with ceilings the search starts from the real directory.
SearchFrom(dir) == IF Ceilings # {} /\ Exists(dir) THEN Resolve(dir) ELSE dir

\* Mutant: the ceiling itself is still searched.
StopAtCeiling(dir) == dir = <<>> \/ dir \in Ceilings

SearchEnds(dir) == dir = <<>> \/ Front(dir) \in Ceilings

\* loadConfig: the flag, the variable and PRJ_ROOT before the search.
Chosen ==
  IF IsSet(Layer("flag"), "config") THEN Get(Layer("flag"), "config")
  ELSE IF IsSet(env, "config") THEN Get(env, "config")
  ELSE None

InPrjRoot == Chosen = None /\ world.prj # None /\ Find(Abs(world.prj), ConfigNames) # {}

Using(dir, name) == config' = [dir |-> dir, name |-> name]

\* Reading the config file fails when it is not there or does not parse.
Read(dir, name) ==
  LET p == Abs(dir) IN
  IF IsFile(p, name) /\ <<Resolve(p), name>> \notin world.broken
  THEN GoTo("merge") ELSE GoTo("failed")

LoadConfig ==
  /\ at = "config"
  /\ \/ /\ Chosen # None
        /\ Using(Chosen.dir, Chosen.name) /\ Read(Chosen.dir, Chosen.name)
        /\ UNCHANGED here
     \/ /\ InPrjRoot
        /\ \E i \in Find(Abs(world.prj), ConfigNames) :
             Using(world.prj, ConfigNames[i]) /\ Read(world.prj, ConfigNames[i])
        /\ UNCHANGED here
     \/ /\ Chosen = None /\ ~InPrjRoot
        /\ here' = SearchFrom(cwd) /\ GoTo("search")
        /\ UNCHANGED config
  /\ UNCHANGED <<world, env, cwd, opts, wd, root, readers, hiccup>>

\* One directory of FindUp.
SearchConfig ==
  /\ at = "search"
  /\ \/ \E i \in Find(here, ConfigNames) :
          /\ Using(Absolute(here), ConfigNames[i]) /\ Read(Absolute(here), ConfigNames[i])
          /\ UNCHANGED here
     \/ /\ Find(here, ConfigNames) = {}
        /\ IF SearchEnds(here) THEN GoTo("failed") /\ UNCHANGED here
           ELSE here' = Front(here) /\ UNCHANGED at
        /\ UNCHANGED config
  /\ UNCHANGED <<world, env, cwd, opts, wd, root, readers, hiccup>>

-----------------------------------------------------------------------------
(* FromViper and determineTreeRoot.                                        *)

\* The working directory is made absolute once more, from where the process is now.
Merge ==
  /\ at = "merge" /\ GoTo("root")
  /\ LET merged == [k \in DOMAIN Defaults |-> Setting(k)] IN
     opts' = [merged EXCEPT !.walk = IF merged.stdin THEN "stdin" ELSE @,
                            !.noCache = @ \/ merged.ci, !.failOnChange = @ \/ merged.ci]
  /\ wd' = Abs(Setting("workingDir"))
  /\ UNCHANGED <<world, env, cwd, here, config, root, readers, hiccup>>

RootOptions == {k \in {"treeRoot", "treeRootFile", "treeRootCmd"} : opts[k] # None}

\* The options are exclusive; without one, the repositories walk allows are asked.
ChooseRoot ==
  /\ at = "root"
  /\ \/ Cardinality(RootOptions) > 1 /\ GoTo("failed") /\ UNCHANGED <<root, here>>
     \/ /\ RootOptions = {"treeRoot"}
        /\ root' = Abs(opts.treeRoot) /\ GoTo("reader") /\ UNCHANGED here
     \/ /\ RootOptions = {"treeRootFile"}
        /\ here' = SearchFrom(wd) /\ GoTo("rootfile") /\ UNCHANGED root
     \/ /\ RootOptions = {"treeRootCmd"}
        /\ \/ /\ world.printed # None /\ Exists(wd)
              /\ root' = Abs(world.printed) /\ GoTo("reader")
           \/ (world.printed = None \/ ~Exists(wd)) /\ GoTo("failed") /\ UNCHANGED root
        /\ UNCHANGED here
     \/ RootOptions = {} /\ GoTo("git") /\ UNCHANGED <<root, here>>
  /\ UNCHANGED <<world, env, cwd, config, opts, wd, readers, hiccup>>

\* FindUp for tree-root-file.
SearchRootFile ==
  /\ at = "rootfile"
  /\ \/ IsFile(here, opts.treeRootFile) /\ root' = here /\ GoTo("reader") /\ UNCHANGED here
     \/ /\ ~IsFile(here, opts.treeRootFile)
        /\ IF SearchEnds(here) THEN GoTo("failed") /\ UNCHANGED here
           ELSE here' = Front(here) /\ UNCHANGED at
        /\ UNCHANGED root
  /\ UNCHANGED <<world, env, cwd, config, opts, wd, readers, hiccup>>

\* What execTreeRootCmd returns of a repository's tool: the top of the repository,
\* or nothing when dir is in none or is no directory to run a command in.
TopOf(top, dir) == IF top # None /\ Exists(dir) /\ IsPrefix(top, Resolve(dir)) THEN top ELSE None

\* Mutant: a failed probe is never fatal.
NeverFatal == FALSE

GitFatal == opts.walk = "git"

\* execTreeRootCmd with git, killed after two seconds.
ProbeGit ==
  /\ at = "git"
  /\ \/ /\ opts.walk \in {"auto", "git"}
        /\ \E top \in {TopOf(world.git, wd)} \cup (IF "git" \in Slow THEN {None} ELSE {}) :
             /\ root' = top
             /\ hiccup' = (hiccup \/ top # TopOf(world.git, wd))
             /\ GoTo(IF top # None THEN "reader" ELSE IF GitFatal THEN "failed" ELSE "jujutsu")
     \/ /\ opts.walk \notin {"auto", "git"}
        /\ GoTo("jujutsu") /\ UNCHANGED <<root, hiccup>>
  /\ UNCHANGED <<world, env, cwd, here, config, opts, wd, readers>>

\* The same with jujutsu; a failure is never fatal (the code tests for git again).
ProbeJujutsu ==
  /\ at = "jujutsu"
  /\ \/ /\ opts.walk \in {"auto", "jujutsu"}
        /\ \E top \in {TopOf(world.jujutsu, wd)} \cup (IF "jujutsu" \in Slow THEN {None} ELSE {}) :
             /\ root' = top
             /\ hiccup' = (hiccup \/ top # TopOf(world.jujutsu, wd))
             /\ GoTo(IF top # None THEN "reader" ELSE "fallback")
     \/ /\ opts.walk \notin {"auto", "jujutsu"}
        /\ GoTo("fallback") /\ UNCHANGED <<root, hiccup>>
  /\ UNCHANGED <<world, env, cwd, here, config, opts, wd, readers>>

\* Mutant: the tree is never wider than the working directory.
NeverConfigDir(dir) == FALSE

\* Mutant: conformist#2, the config file's directory wherever it is.
AlwaysConfigDir(dir) == TRUE

\* dirContains compares names only, and says no to a relative directory.
ConfigAbove(dir) == config.dir.abs /\ IsPrefix(config.dir.path, dir)

FallbackRoot ==
  /\ at = "fallback"
  /\ root' = IF ConfigAbove(wd) THEN Abs(config.dir) ELSE wd
  /\ GoTo("reader")
  /\ UNCHANGED <<world, env, cwd, here, config, opts, wd, readers, hiccup>>

-----------------------------------------------------------------------------
(* NewCompositeReader and NewReader.                                       *)

Inside(vcs) == TopOf(world[vcs], root) # None

\* The reader for a directory of the tree, or none.
DirReader ==
  CASE opts.walk = "filesystem" -> "filesystem"
    [] opts.walk \in {"git", "jujutsu"} -> IF Inside(opts.walk) THEN opts.walk ELSE None
    [] OTHER -> IF Inside("git") THEN "git" ELSE IF Inside("jujutsu") THEN "jujutsu"
                ELSE "filesystem"

\* A path argument is a directory (no file name) or a file in it.
There(p) == LET d == Resolve(Abs(p.dir)) IN
  d \in Dirs /\ (p.file = None \/ IsFile(d, p.file))

InsideRoot(p) == IsPrefix(Resolve(root), Resolve(Abs(p.dir)))

\* Mutant: the reader is opened on the path as it was given.
ReaderAsGiven(p) ==
  [kind |-> IF p.file = None THEN DirReader ELSE "filesystem", dir |-> Abs(p.dir)]

ReaderFor(p) ==
  [kind |-> IF p.file = None THEN DirReader ELSE "filesystem", dir |-> Resolve(Abs(p.dir))]

OpenReaders ==
  /\ at = "reader"
  /\ \/ /\ Exists(root) /\ opts.walk # "stdin" /\ world.paths = {} /\ DirReader # None
        /\ readers' = {[kind |-> DirReader, dir |-> Resolve(root)]} /\ GoTo("ready")
     \/ /\ Exists(root) /\ opts.walk # "stdin" /\ world.paths # {}
        /\ \A p \in world.paths :
             There(p) /\ InsideRoot(p) /\ (p.file # None \/ DirReader # None)
        /\ readers' = {ReaderFor(p) : p \in world.paths} /\ GoTo("ready")
     \/ /\ Exists(root) /\ opts.walk = "stdin" /\ Cardinality(world.paths) = 1
        /\ readers' = {[kind |-> "stdin", dir |-> Resolve(root)]} /\ GoTo("ready")
     \/ /\ \/ ~Exists(root)
           \/ Exists(root) /\ opts.walk = "stdin" /\ Cardinality(world.paths) # 1
           \/ /\ Exists(root) /\ opts.walk # "stdin"
              /\ \/ world.paths = {} /\ DirReader = None
                 \/ \E p \in world.paths :
                      ~There(p) \/ ~InsideRoot(p) \/ (p.file = None /\ DirReader = None)
        /\ GoTo("failed") /\ UNCHANGED readers
  /\ UNCHANGED <<world, env, cwd, here, config, opts, wd, root, hiccup>>

Next ==
  \/ ReadEnv \/ ChangeDir \/ LoadConfig \/ SearchConfig
  \/ Merge \/ ChooseRoot \/ SearchRootFile \/ ProbeGit \/ ProbeJujutsu \/ FallbackRoot
  \/ OpenReaders

Spec == Init /\ [][Next]_vars

-----------------------------------------------------------------------------
(* Properties.                                                             *)

Places == {"env", "chdir", "config", "search", "merge", "root", "rootfile", "git", "jujutsu",
           "fallback", "reader", "ready", "failed"}

\* Every variable has its type.
TypeOK ==
  /\ DOMAIN world = WorldFields /\ at \in Places
  /\ DOMAIN opts = DOMAIN Defaults
  /\ opts.walk \in {"auto", "git", "jujutsu", "filesystem", "stdin"}
  /\ at = "ready" => root # None /\ readers # {}
  /\ \A r \in readers : r.dir \in Dirs /\ r.kind \in {"git", "jujutsu", "filesystem", "stdin"}
  /\ hiccup \in BOOLEAN

\* The directories an upward search from dir may look into, by the words of
\* conformist.toml.5.scd:138-143.
Searchable(dir) ==
  LET barred == {Resolve(CeilingList[i].path) : i \in
                   {j \in DOMAIN CeilingList : CeilingList[j] # Empty /\ CeilingList[j].abs}}
      from   == IF barred = {} THEN dir ELSE Resolve(dir)
  IN  {d \in {SubSeq(from, 1, n) : n \in 0 .. Len(from)} :
         d = from \/ \A c \in barred : ~(IsPrefix(d, c) /\ IsPrefix(c, from) /\ c # from)}

\* conformist.toml.5.scd:10-19: without flag, variable and PRJ_ROOT the config
\* file in use is in the nearest directory that may be searched and has one, and
\* there it is the first by preference; the search fails only if there is none.
ConfigNearest ==
  LET holders == {d \in Searchable(cwd) : \E i \in DOMAIN ConfigNames : IsFile(d, ConfigNames[i])}
  IN  at \notin {"env", "chdir"} /\ Chosen = None /\ ~InPrjRoot =>
        /\ at = "failed" /\ config = None /\ Exists(AbsFrom(world.start, Setting("workingDir")))
             => holders = {}
        /\ config # None =>
             /\ config.dir.path \in holders
             /\ \A d \in holders : Len(d) <= Len(config.dir.path)
             /\ \A i \in DOMAIN ConfigNames :
                  IsFile(config.dir.path, ConfigNames[i]) =>
                    \E j \in 1 .. i : config.name = ConfigNames[j]

\* conformist#2 (config.go:452-458, a comment of the code): no config file, wherever it
\* is, moves the walk away from the working directory.  Unless a root was asked for,
\* the tree root is the working directory or above it.  The documents say otherwise of
\* a config file elsewhere: "falling back to the config file's directory"
\* (conformist.toml.5.scd:49-51; likewise configure.md:288-289 and the help of
\* --tree-root, config.go:160-162), which the code does not do (config.go:470).
RootCoversWork ==
  at = "ready" /\ RootOptions = {} =>
    IsPrefix(root, cwd) \/ IsPrefix(Resolve(root), Resolve(cwd))

\* configure.md:315: under --walk git nothing but the repository of the working
\* directory is the tree root, however slow git is.
GitRootOrNone ==
  at = "ready" /\ opts.walk = "git" /\ RootOptions = {} => root = TopOf(world.git, cwd)

\* conformist.toml.5.scd:34-36 and 129-132: an option has the value of the first
\* that sets it: flag, CONFORMIST_ variable, TREELINT_ variable, config file;
\* what belongs to the command line is never taken from the file, where it is
\* overridden without a word (scd:33-35 has it rejected).
LayersInOrder ==
  at \in {"root", "ready"} =>
    \A k \in DOMAIN Defaults \ ({"noCache", "failOnChange"} \cup (IF opts.stdin THEN {"walk"} ELSE {})) :
      LET order == <<"flag", "env", "legacy">> \o
                     (IF k \in {"ci", "stdin", "workingDir"} THEN <<>> ELSE <<"file">>)
          sets  == {i \in DOMAIN order : IsSet(Layer(order[i]), k) /\ (k # "stdin" \/ i = 1)}
      IN  opts[k] = IF sets = {} THEN Defaults[k]
                    ELSE Get(Layer(order[CHOOSE i \in sets : \A j \in sets : i <= j]), k)

\* config.go:452-455 "this keeps `conformist` run from a subdirectory walking the
\* whole tree": where no repository and no option decides, the directory of the
\* config file found by searching upward is the tree root, unless the working
\* directory was reached through a link.
WholeTreeFromBelow ==
  /\ at = "ready" /\ RootOptions = {} /\ Chosen = None /\ ~InPrjRoot
  /\ world.git = None /\ world.jujutsu = None /\ Resolve(cwd) = cwd
  => root = config.dir.path

\* The tree root of a process that was started in dir, without options.
RootFrom(dir) ==
  LET git == TopOf(world.git, dir)  jj == TopOf(world.jujutsu, dir)
  IN  IF opts.walk \in {"auto", "git"} /\ git # None THEN git
      ELSE IF opts.walk \in {"auto", "jujutsu"} /\ jj # None THEN jj
      ELSE IF ConfigAbove(dir) THEN config.dir.path ELSE dir

\* config.go:187-189 "Run as if conformist was started in the specified working
\* directory": the tree root is the one of the directory given with -C.
AsIfStartedThere ==
  at = "reader" /\ RootOptions = {} /\ ~hiccup => root = RootFrom(cwd)
=============================================================================
