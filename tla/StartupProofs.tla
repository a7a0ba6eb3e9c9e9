----------------------------- MODULE StartupProofs -----------------------------
(***************************************************************************)
(* Theorems about Startup for any directories, links and situations.        *)
(*                                                                         *)
(* First the lemmas on prefixes and settings, then the types and what has    *)
(* been decided so far, then the two searches, the options and the tree root. *)
(***************************************************************************)
EXTENDS Startup, SequenceTheorems, TLAPS

-----------------------------------------------------------------------------
(* Sequences.                                                              *)

\* A prefix, element by element.
LEMMA Prefix ==
  ASSUME NEW S, NEW s \in Seq(S), NEW t \in Seq(S)
  PROVE  IsPrefix(s, t) <=> Len(s) <= Len(t) /\ \A i \in 1 .. Len(s) : s[i] = t[i]
<1>1. SubSeq(s, 1, Len(s)) = s
  BY SubSeqFull
<1>2. ASSUME Len(s) <= Len(t)
      PROVE  /\ SubSeq(t, 1, Len(s)) \in Seq(S) /\ Len(SubSeq(t, 1, Len(s))) = Len(s)
             /\ \A i \in 1 .. Len(s) : SubSeq(t, 1, Len(s))[i] = t[i]
  <2>1. Len(s) \in Nat /\ Len(t) \in Nat
    OBVIOUS
  <2>2. \A i \in 1 .. Len(s) : t[i] \in S
    BY <1>2, <2>1, ElementOfSeq
  <2> QED
    BY <2>1, <2>2, SubSeqProperties
<1>3. ASSUME Len(s) <= Len(t), \A i \in 1 .. Len(s) : s[i] = t[i]
      PROVE  SubSeq(t, 1, Len(s)) = s
  BY <1>2, <1>3, SeqEqual
<1> QED
  BY <1>1, <1>2, <1>3 DEF IsPrefix

\* Being a prefix is an order.
LEMMA PrefixOrder ==
  ASSUME NEW S
  PROVE  /\ \A s \in Seq(S) : IsPrefix(s, s)
         /\ \A s, t, u \in Seq(S) : IsPrefix(s, t) /\ IsPrefix(t, u) => IsPrefix(s, u)
         /\ \A s, t \in Seq(S) : IsPrefix(s, t) /\ Len(s) >= Len(t) => s = t
<1>1. ASSUME NEW s \in Seq(S)
      PROVE  IsPrefix(s, s)
  BY Prefix
<1>2. ASSUME NEW s \in Seq(S), NEW t \in Seq(S), NEW u \in Seq(S), IsPrefix(s, t), IsPrefix(t, u)
      PROVE  IsPrefix(s, u)
  <2>1. Len(s) <= Len(t) /\ Len(t) <= Len(u) /\ Len(s) \in Nat /\ Len(t) \in Nat /\ Len(u) \in Nat
    BY <1>2, Prefix
  <2>2. \A i \in 1 .. Len(s) : s[i] = t[i] /\ i \in 1 .. Len(t)
    BY <1>2, <2>1, Prefix
  <2>3. \A i \in 1 .. Len(t) : t[i] = u[i]
    BY <1>2, Prefix
  <2> QED
    BY <2>1, <2>2, <2>3, Prefix
<1>3. ASSUME NEW s \in Seq(S), NEW t \in Seq(S), IsPrefix(s, t), Len(s) >= Len(t)
      PROVE  s = t
  <2>1. Len(s) = Len(t) /\ \A i \in 1 .. Len(s) : s[i] = t[i]
    BY <1>3, Prefix
  <2> QED
    BY <2>1, SeqEqual
<1> QED
  BY <1>1, <1>2, <1>3

\* Of two prefixes of a sequence the shorter is a prefix of the longer.
LEMMA PrefixesComparable ==
  ASSUME NEW S, NEW s \in Seq(S), NEW t \in Seq(S), NEW u \in Seq(S),
         IsPrefix(s, u), IsPrefix(t, u), Len(s) <= Len(t)
  PROVE  IsPrefix(s, t)
<1>1. Len(s) \in Nat /\ Len(t) \in Nat
  OBVIOUS
<1>2. \A i \in 1 .. Len(s) : s[i] = u[i] /\ i \in 1 .. Len(t)
  BY <1>1, Prefix
<1>3. \A i \in 1 .. Len(t) : t[i] = u[i]
  BY Prefix
<1> QED
  BY <1>2, <1>3, Prefix

\* The length of a front.
LEMMA OneLess ==
  ASSUME NEW n \in Nat \ {0}
  PROVE  /\ (IF 1 <= n - 1 THEN n - 1 - 1 + 1 ELSE 0) = n - 1
         /\ n - 1 \in Nat
         /\ \A i \in 1 .. n - 1 : i \in 1 .. n - 1 - 1 + 1 /\ 1 + i - 1 = i
  OBVIOUS

\* The directory above one.
LEMMA FrontPrefix ==
  ASSUME NEW S, NEW s \in Seq(S), s # <<>>
  PROVE  /\ Front(s) \in Seq(S) /\ Len(Front(s)) = Len(s) - 1 /\ Len(s) \in Nat \ {0}
         /\ IsPrefix(Front(s), s)
<1>1. Len(s) \in Nat \ {0}
  BY EmptySeq
<1>2. /\ Front(s) \in Seq(S) /\ Len(Front(s)) = Len(s) - 1
      /\ \A i \in 1 .. Len(s) - 1 : Front(s)[i] = s[i]
  <2>1. \A i \in 1 .. Len(s) - 1 : s[i] \in S
    BY <1>1, ElementOfSeq
  <2>2. /\ SubSeq(s, 1, Len(s) - 1) \in Seq(S)
        /\ Len(SubSeq(s, 1, Len(s) - 1)) = IF 1 <= Len(s) - 1 THEN Len(s) - 1 - 1 + 1 ELSE 0
        /\ \A i \in 1 .. Len(s) - 1 - 1 + 1 : SubSeq(s, 1, Len(s) - 1)[i] = s[1 + i - 1]
    <3>1. 1 \in Int /\ Len(s) - 1 \in Int
      BY <1>1
    <3> QED
      BY <2>1, <3>1, SubSeqProperties
  <2>3. \A i \in 1 .. Len(s) - 1 : i \in 1 .. Len(s) - 1 - 1 + 1 /\ 1 + i - 1 = i
    BY <1>1
  <2>4. \A i \in 1 .. Len(s) - 1 : SubSeq(s, 1, Len(s) - 1)[i] = s[i]
    BY <2>2, <2>3
  <2>5. Len(SubSeq(s, 1, Len(s) - 1)) = Len(s) - 1
    BY <1>1, <2>2, OneLess
  <2> QED
    BY <2>2, <2>4, <2>5 DEF Front
<1> QED
  BY <1>1, <1>2, Prefix

\* The prefixes of a sequence are its beginnings.
LEMMA Beginnings ==
  ASSUME NEW S, NEW t \in Seq(S)
  PROVE  /\ \A n \in 0 .. Len(t) : /\ SubSeq(t, 1, n) \in Seq(S) /\ IsPrefix(SubSeq(t, 1, n), t)
                                  /\ Len(SubSeq(t, 1, n)) = n
         /\ \A s \in Seq(S) : IsPrefix(s, t) => Len(s) \in 0 .. Len(t) /\ s = SubSeq(t, 1, Len(s))
<1>1. ASSUME NEW n \in 0 .. Len(t)
      PROVE  /\ SubSeq(t, 1, n) \in Seq(S) /\ IsPrefix(SubSeq(t, 1, n), t)
             /\ Len(SubSeq(t, 1, n)) = n
  <2>1. \A i \in 1 .. n : t[i] \in S
    BY ElementOfSeq
  <2>2. /\ SubSeq(t, 1, n) \in Seq(S) /\ Len(SubSeq(t, 1, n)) = n
        /\ \A i \in 1 .. n : SubSeq(t, 1, n)[i] = t[i]
    BY <2>1, SubSeqProperties
  <2>3. Len(SubSeq(t, 1, n)) <= Len(t)
    BY <2>2
  <2>4. \A i \in 1 .. Len(SubSeq(t, 1, n)) : SubSeq(t, 1, n)[i] = t[i]
    BY <2>2
  <2> QED
    BY <2>2, <2>3, <2>4, Prefix
<1>2. ASSUME NEW s \in Seq(S), IsPrefix(s, t)
      PROVE  Len(s) \in 0 .. Len(t) /\ s = SubSeq(t, 1, Len(s))
  <2>1. SubSeq(s, 1, Len(s)) = s
    BY SubSeqFull
  <2> QED
    BY <1>2, <2>1 DEF IsPrefix
<1> QED
  BY <1>1, <1>2

-----------------------------------------------------------------------------
(* Settings.                                                               *)

\* Get returns a value that was set for the key.
LEMMA GetIsSet ==
  ASSUME NEW S, NEW k, IsSet(S, k)
  PROVE  \E s \in S : s[1] = k /\ Get(S, k) = s[2]
<1>1. \E s \in S : s[1] = k
  BY DEF IsSet
<1>2. (CHOOSE s \in S : s[1] = k) \in S /\ (CHOOSE s \in S : s[1] = k)[1] = k
  BY <1>1
<1> QED
  BY <1>2 DEF Get

\* Where a key has one value, Get returns that.
LEMMA GetUnique ==
  ASSUME NEW S, NEW s \in S, \A t \in S : t[1] = s[1] => t[2] = s[2]
  PROVE  Get(S, s[1]) = s[2]
<1>1. IsSet(S, s[1])
  BY DEF IsSet
<1>2. PICK t \in S : t[1] = s[1] /\ Get(S, s[1]) = t[2]
  BY <1>1, GetIsSet
<1> QED
  BY <1>2

\* The variables as ReadEnv leaves them.
Kept ==
  {s \in Layer("env") \cup {t \in Layer("legacy") : ~IsSet(Layer("env"), t[1])} : s[1] # "stdin"}

EnvInv == world \in Worlds /\ env = IF at = "env" THEN Layer("env") ELSE Kept

\* A layer has one value for a key, and one of its type.
LEMMA LayerTyped ==
  ASSUME world \in Worlds, NEW l \in Layers
  PROVE  /\ \A s \in Layer(l) : s[2] \in Values(s[1])
         /\ \A s, t \in Layer(l) : s[1] = t[1] => s[2] = t[2]
<1>1. ASSUME NEW s \in Layer(l)
      PROVE  \E u \in world.given : u[1] = l /\ s = <<u[2], u[3]>> /\ u[3] \in Values(u[2])
  BY <1>1, WorldsAssumption DEF Layer
<1>2. ASSUME NEW s \in Layer(l)
      PROVE  s[2] \in Values(s[1])
  BY <1>1, <1>2
<1>3. ASSUME NEW s \in Layer(l), NEW t \in Layer(l), s[1] = t[1]
      PROVE  s[2] = t[2]
  <2>1. PICK u \in world.given : u[1] = l /\ s = <<u[2], u[3]>>
    BY <1>1
  <2>2. PICK v \in world.given : v[1] = l /\ t = <<v[2], v[3]>>
    BY <1>1
  <2>3. u[2] = v[2]
    BY <1>3, <2>1, <2>2
  <2>4. u = v
    BY <2>1, <2>2, <2>3, WorldsAssumption
  <2> QED
    BY <2>1, <2>2, <2>4
<1> QED
  BY <1>2, <1>3

\* The same of the variables that are read.
LEMMA EnvTyped ==
  ASSUME EnvInv
  PROVE  \A s \in env : s[2] \in Values(s[1])
<1>1. env \subseteq Layer("env") \cup Layer("legacy")
  BY DEF EnvInv, Kept
<1>2. {"env", "legacy"} \subseteq Layers
  BY DEF Layers
<1> QED
  BY <1>1, <1>2, LayerTyped DEF EnvInv

OptionKeys == {"walk", "ci", "stdin", "noCache", "failOnChange", "workingDir",
               "treeRoot", "treeRootFile", "treeRootCmd"}

LEMMA OptionsAre ==
  /\ DOMAIN Defaults = OptionKeys
  /\ Defaults["walk"] = "auto" /\ Defaults["stdin"] = FALSE
  /\ Defaults["ci"] = FALSE /\ Defaults["noCache"] = FALSE /\ Defaults["failOnChange"] = FALSE
  /\ Defaults["workingDir"] = Relative(<<>>) /\ Defaults["treeRoot"] = None
  BY DEF Defaults, OptionKeys

\* What is set was given.
LEMMA LayerGiven ==
  ASSUME NEW l, NEW s \in Layer(l)
  PROVE  \E u \in world.given : u[2] = s[1] /\ u[3] = s[2]
  BY DEF Layer

LEMMA EnvGiven ==
  ASSUME EnvInv, NEW s \in env
  PROVE  \E u \in world.given : u[2] = s[1] /\ u[3] = s[2]
<1>1. s \in Layer("env") \cup Layer("legacy")
  BY DEF EnvInv, Kept
<1> QED
  BY <1>1, LayerGiven

\* A setting was given or is the default.
LEMMA SettingGiven ==
  ASSUME EnvInv, NEW k
  PROVE  Setting(k) = Defaults[k] \/ \E u \in world.given : u[2] = k /\ u[3] = Setting(k)
<1>1. CASE IsSet(Layer("flag"), k)
  <2>1. PICK s \in Layer("flag") : s[1] = k /\ Get(Layer("flag"), k) = s[2]
    BY <1>1, GetIsSet
  <2>2. Setting(k) = s[2]
    BY <1>1, <2>1 DEF Setting
  <2> QED
    BY <2>1, <2>2, LayerGiven
<1>2. CASE ~IsSet(Layer("flag"), k) /\ IsSet(env, k)
  <2>1. PICK s \in env : s[1] = k /\ Get(env, k) = s[2]
    BY <1>2, GetIsSet
  <2>2. Setting(k) = s[2]
    BY <1>2, <2>1 DEF Setting
  <2> QED
    BY <2>1, <2>2, EnvGiven
<1>3. CASE /\ ~IsSet(Layer("flag"), k) /\ ~IsSet(env, k)
           /\ IsSet(Layer("file"), k) /\ k \notin CommandLineOnly
  <2>1. PICK s \in Layer("file") : s[1] = k /\ Get(Layer("file"), k) = s[2]
    BY <1>3, GetIsSet
  <2>2. Setting(k) = s[2]
    BY <1>3, <2>1 DEF Setting
  <2> QED
    BY <2>1, <2>2, LayerGiven
<1>4. CASE /\ ~IsSet(Layer("flag"), k) /\ ~IsSet(env, k)
           /\ ~(IsSet(Layer("file"), k) /\ k \notin CommandLineOnly)
  BY <1>4 DEF Setting
<1> QED
  BY <1>1, <1>2, <1>3, <1>4

\* A setting has a value of its type or its default.
LEMMA SettingTyped ==
  ASSUME EnvInv, NEW k
  PROVE  Setting(k) \in Values(k) \cup {Defaults[k]}
  BY SettingGiven, WorldsAssumption DEF EnvInv

-----------------------------------------------------------------------------
(* Paths.                                                                  *)

\* The name of a directory with its links followed.
LEMMA ResolveTyped ==
  ASSUME NEW p \in Seq(STRING)
  PROVE  Resolve(p) \in Seq(STRING)
<1>1. CASE \E l \in DOMAIN Links : IsPrefix(l, p)
  <2>1. PICK l \in DOMAIN Links : IsPrefix(l, p) /\ Resolve(p) = Links[l] \o SubSeq(p, Len(l) + 1, Len(p))
    <3>1. LET l == CHOOSE l \in DOMAIN Links : IsPrefix(l, p)
          IN  l \in DOMAIN Links /\ IsPrefix(l, p)
      BY <1>1
    <3> QED
      BY <1>1, <3>1 DEF Resolve
  <2>2. Links[l] \in Seq(STRING) /\ l \in Seq(STRING)
    BY DirsAssumption
  <2>3. SubSeq(p, Len(l) + 1, Len(p)) \in Seq(STRING)
    <3>1. Len(l) + 1 \in Int /\ Len(p) \in Int /\ \A i \in Len(l) + 1 .. Len(p) : i \in 1 .. Len(p)
      BY <2>2
    <3>2. \A i \in Len(l) + 1 .. Len(p) : p[i] \in STRING
      BY <3>1, ElementOfSeq
    <3> QED
      BY <3>1, <3>2, SubSeqProperties
  <2> QED
    BY <2>1, <2>2, <2>3, ConcatProperties
<1>2. CASE ~\E l \in DOMAIN Links : IsPrefix(l, p)
  BY <1>2 DEF Resolve
<1> QED
  BY <1>1, <1>2

\* A directory is its own real name.
LEMMA RealNames ==
  ASSUME NEW d \in Dirs
  PROVE  Resolve(d) = d /\ d \in Seq(STRING) /\ Exists(d)
<1>1. ~\E l \in DOMAIN Links : IsPrefix(l, d)
  BY DirsAssumption
<1> QED
  BY <1>1, DirsAssumption DEF Resolve, Exists

LEMMA AbsTyped ==
  ASSUME world \in Worlds, cwd \in Seq(STRING), NEW p \in PathNames
  PROVE  Getwd \in Seq(STRING) /\ Abs(p) \in Seq(STRING)
<1>1. world.start \in Seq(STRING) /\ Resolve(cwd) \in Seq(STRING)
  BY WorldsAssumption, ResolveTyped
<1>2. Getwd \in Seq(STRING)
  BY <1>1 DEF Getwd
<1>3. p.path \in Seq(STRING)
  BY DEF PathNames
<1> QED
  BY <1>2, <1>3, ConcatProperties DEF Abs, AbsFrom

-----------------------------------------------------------------------------
(* The steps.                                                              *)

AfterMerge == {"root", "rootfile", "git", "jujutsu", "fallback", "reader", "ready"}

\* What a step leaves alone.
LEMMA Frame ==
  ASSUME [Next]_vars
  PROVE  /\ world' = world
         /\ at # "env" => env' = env
         /\ at # "chdir" => cwd' = cwd
         /\ at \notin {"config", "search"} => config' = config
         /\ at # "merge" => opts' = opts /\ wd' = wd
         /\ at' = "env" => at = "env" /\ UNCHANGED vars
         /\ \/ at' = at
            \/ /\ at \notin {"ready", "failed"}
               /\ \/ at' = "failed"
                  \/ <<at, at'>> \in
                       {<<"env", "chdir">>, <<"chdir", "config">>, <<"config", "merge">>,
                        <<"config", "search">>, <<"search", "merge">>, <<"merge", "root">>,
                        <<"root", "reader">>, <<"root", "rootfile">>, <<"root", "git">>,
                        <<"rootfile", "reader">>, <<"git", "reader">>, <<"git", "jujutsu">>,
                        <<"jujutsu", "reader">>, <<"jujutsu", "fallback">>,
                        <<"fallback", "reader">>, <<"reader", "ready">>}
<1>1. CASE UNCHANGED vars
  BY <1>1 DEF vars
<1>2. CASE ReadEnv
  BY <1>2 DEF ReadEnv, GoTo
<1>3. CASE ChangeDir
  BY <1>3 DEF ChangeDir, GoTo
<1>4. CASE LoadConfig
  BY <1>4 DEF LoadConfig, GoTo, Read
<1>5. CASE SearchConfig
  BY <1>5 DEF SearchConfig, GoTo, Read
<1>6. CASE Merge
  BY <1>6 DEF Merge, GoTo
<1>7. CASE ChooseRoot
  BY <1>7 DEF ChooseRoot, GoTo
<1>8. CASE SearchRootFile
  BY <1>8 DEF SearchRootFile, GoTo
<1>9. CASE ProbeGit
  BY <1>9 DEF ProbeGit, GoTo
<1>10. CASE ProbeJujutsu
  BY <1>10 DEF ProbeJujutsu, GoTo
<1>11. CASE FallbackRoot
  BY <1>11 DEF FallbackRoot, GoTo
<1>12. CASE OpenReaders
  BY <1>12 DEF OpenReaders, GoTo
<1> QED
  BY <1>1, <1>2, <1>3, <1>4, <1>5, <1>6, <1>7, <1>8, <1>9, <1>10, <1>11, <1>12 DEF Next

\* The variables are read once.
LEMMA EnvStep ==
  ASSUME EnvInv, [Next]_vars
  PROVE  EnvInv'
<1>1. world' = world /\ world' \in Worlds
  BY Frame DEF EnvInv
<1>2. Kept' = Kept
  BY <1>1 DEF Kept, Layer, IsSet
<1>3. CASE UNCHANGED vars
  BY <1>3, <1>1 DEF vars, EnvInv, Kept, Layer, IsSet
<1>4. CASE at = "env" /\ ~UNCHANGED vars
  <2>1. ReadEnv
    BY <1>4 DEF Next, ChangeDir, LoadConfig, SearchConfig, Merge, ChooseRoot,
                SearchRootFile, ProbeGit, ProbeJujutsu, FallbackRoot, OpenReaders
  <2>2. env = Layer("env") /\ at' = "chdir"
    BY <1>4, <2>1 DEF EnvInv, ReadEnv, GoTo
  <2>3. env' = Kept
    BY <2>1, <2>2 DEF ReadEnv, Kept
  <2> QED
    BY <1>1, <1>2, <2>2, <2>3 DEF EnvInv
<1>5. CASE at # "env"
  <2>1. env' = env /\ at' # "env"
    BY <1>5, Frame
  <2> QED
    BY <1>1, <1>2, <1>5, <2>1 DEF EnvInv
<1> QED
  BY <1>3, <1>4, <1>5

-----------------------------------------------------------------------------
(* Types.                                                                  *)

Kinds == {"git", "jujutsu", "filesystem", "stdin"}

TypeInv ==
  /\ at \in Places /\ cwd \in Seq(STRING) /\ here \in Seq(STRING)
  /\ config \in ConfigFiles \cup {None}
  /\ at \in AfterMerge \cup {"merge"} => config # None
  /\ DOMAIN opts = OptionKeys /\ opts["walk"] \in Values("walk")
  /\ opts["treeRoot"] \in PathNames \cup {None}
  /\ at \in AfterMerge => wd \in Seq(STRING)
  /\ at \in {"reader", "ready"} => root \in Seq(STRING)
  /\ at = "ready" => readers # {}
  /\ \A r \in readers : r.dir \in Dirs /\ r.kind \in Kinds
  /\ hiccup \in BOOLEAN

LEMMA TypeInit ==
  ASSUME Init
  PROVE  EnvInv /\ TypeInv
<1>1. world \in Worlds /\ world.start \in Seq(STRING)
  BY WorldsAssumption DEF Init
<1>2. <<>> \in Seq(STRING)
  OBVIOUS
<1>3. DOMAIN opts = OptionKeys /\ opts["walk"] \in Values("walk")
      /\ opts["treeRoot"] \in PathNames \cup {None}
  BY OptionsAre DEF Init, Values
<1> QED
  BY <1>1, <1>2, <1>3 DEF Init, EnvInv, TypeInv, Places, AfterMerge

\* A config file that was chosen is one.
LEMMA ChosenTyped ==
  ASSUME EnvInv, Chosen # None
  PROVE  Chosen \in ConfigFiles
<1>1. {"flag"} \subseteq Layers /\ world \in Worlds /\ Values("config") = ConfigFiles
  BY DEF Layers, EnvInv, Values
<1>2. CASE IsSet(Layer("flag"), "config")
  <2>1. PICK s \in Layer("flag") : s[1] = "config" /\ Get(Layer("flag"), "config") = s[2]
    BY <1>2, GetIsSet
  <2>2. s[2] \in Values(s[1])
    BY <1>1, LayerTyped
  <2> QED
    BY <1>1, <1>2, <2>1, <2>2 DEF Chosen
<1>3. CASE ~IsSet(Layer("flag"), "config") /\ IsSet(env, "config")
  <2>1. PICK s \in env : s[1] = "config" /\ Get(env, "config") = s[2]
    BY <1>3, GetIsSet
  <2>2. s[2] \in Values(s[1])
    BY EnvTyped
  <2> QED
    BY <1>1, <1>3, <2>1, <2>2 DEF Chosen
<1> QED
  BY <1>2, <1>3 DEF Chosen

\* Where a search starts.
LEMMA SearchFromTyped ==
  ASSUME NEW d \in Seq(STRING)
  PROVE  SearchFrom(d) \in Seq(STRING)
  BY ResolveTyped DEF SearchFrom

\* The options that matter to what follows have their types.
LEMMA MergedTyped ==
  ASSUME EnvInv, TypeInv, Merge
  PROVE  /\ DOMAIN opts' = OptionKeys /\ opts'["walk"] \in Values("walk")
         /\ opts'["treeRoot"] \in PathNames \cup {None} /\ wd' \in Seq(STRING)
<1> DEFINE merged == [k \in DOMAIN Defaults |-> Setting(k)]
<1>1. opts' = [merged EXCEPT !["walk"] = IF merged["stdin"] THEN "stdin" ELSE @,
                             !["noCache"] = @ \/ merged["ci"],
                             !["failOnChange"] = @ \/ merged["ci"]]
  BY DEF Merge
<1>2. DOMAIN merged = OptionKeys /\ \A k \in OptionKeys : merged[k] = Setting(k)
  BY OptionsAre
<1> HIDE DEF merged
<1>3. /\ DOMAIN opts' = OptionKeys
      /\ opts'["walk"] = IF merged["stdin"] THEN "stdin" ELSE merged["walk"]
      /\ opts'["treeRoot"] = merged["treeRoot"]
  BY <1>1, <1>2 DEF OptionKeys
<1>4. merged["walk"] = Setting("walk") /\ merged["treeRoot"] = Setting("treeRoot")
  BY <1>2 DEF OptionKeys
<1>5. Setting("walk") \in Values("walk") /\ "stdin" \in Values("walk")
  BY SettingTyped, OptionsAre DEF Values
<1>6. Setting("treeRoot") \in PathNames \cup {None}
  BY SettingTyped, OptionsAre DEF Values
<1>7. Setting("workingDir") \in PathNames
  <2>1. Relative(<<>>) \in PathNames
    BY DEF Relative, PathNames
  <2> QED
    BY <2>1, SettingTyped, OptionsAre DEF Values
<1>8. wd' \in Seq(STRING)
  BY <1>7, AbsTyped DEF Merge, EnvInv, TypeInv
<1> QED
  BY <1>3, <1>4, <1>5, <1>6, <1>8

LEMMA TypeStep ==
  ASSUME EnvInv, TypeInv, [Next]_vars
  PROVE  TypeInv'
<1>1. world \in Worlds /\ world' = world /\ at \in Places
  BY Frame DEF EnvInv, TypeInv
<1>2. /\ cwd \in Seq(STRING) /\ here \in Seq(STRING) /\ config \in ConfigFiles \cup {None}
      /\ DOMAIN opts = OptionKeys /\ opts["walk"] \in Values("walk")
      /\ opts["treeRoot"] \in PathNames \cup {None}
      /\ (\A r \in readers : r.dir \in Dirs /\ r.kind \in Kinds) /\ hiccup \in BOOLEAN
  BY DEF TypeInv
<1>3. CASE UNCHANGED vars
  BY <1>3 DEF vars, TypeInv
<1>4. CASE ReadEnv
  BY <1>2, <1>4 DEF ReadEnv, GoTo, TypeInv, AfterMerge, Places
<1>5. CASE ChangeDir
  <2>1. Abs(Setting("workingDir")) \in Seq(STRING)
    <3>1. Setting("workingDir") \in PathNames
      <4>1. Relative(<<>>) \in PathNames
        BY DEF Relative, PathNames
      <4> QED
        BY <4>1, SettingTyped, OptionsAre DEF Values
    <3> QED
      BY <1>1, <1>2, <3>1, AbsTyped
  <2>2. cwd' \in Seq(STRING)
    BY <1>2, <1>5, <2>1 DEF ChangeDir
  <2> QED
    BY <1>2, <1>5, <2>2 DEF ChangeDir, GoTo, TypeInv, AfterMerge, Places
<1>6. CASE LoadConfig
  <2>1. /\ at = "config" /\ at' \in {"merge", "failed", "search"}
        /\ UNCHANGED <<cwd, opts, wd, root, readers, hiccup>>
    BY <1>6 DEF LoadConfig, Read, GoTo
  <2>2. CASE Chosen # None /\ Using(Chosen.dir, Chosen.name) /\ UNCHANGED here
    <3>1. config' \in ConfigFiles
      BY <2>2, ChosenTyped DEF Using, ConfigFiles
    <3> QED
      BY <1>2, <2>1, <2>2, <3>1, NoneAssumption DEF TypeInv, AfterMerge, Places
  <2>3. CASE /\ InPrjRoot /\ UNCHANGED here
             /\ \E i \in Find(Abs(world.prj), ConfigNames) : Using(world.prj, ConfigNames[i])
    <3>1. world.prj \in PathNames
      BY <1>1, <2>3, WorldsAssumption DEF InPrjRoot
    <3>2. config' \in ConfigFiles
      BY <2>3, <3>1, NamesAssumption DEF Using, Find, ConfigFiles
    <3> QED
      BY <1>2, <2>1, <2>3, <3>2, NoneAssumption DEF TypeInv, AfterMerge, Places
  <2>4. CASE here' = SearchFrom(cwd) /\ at' = "search" /\ UNCHANGED config
    <3>1. here' \in Seq(STRING)
      BY <1>2, <2>4, SearchFromTyped
    <3> QED
      BY <1>2, <2>1, <2>4, <3>1 DEF TypeInv, AfterMerge, Places
  <2> QED
    BY <1>6, <2>2, <2>3, <2>4 DEF LoadConfig, GoTo
<1>7. CASE SearchConfig
  <2>1. at = "search" /\ UNCHANGED <<cwd, opts, wd, root, readers, hiccup>>
    BY <1>7 DEF SearchConfig
  <2>2. CASE \E i \in Find(here, ConfigNames) :
               /\ Using(Absolute(here), ConfigNames[i]) /\ Read(Absolute(here), ConfigNames[i])
               /\ UNCHANGED here
    <3>1. config' \in ConfigFiles
      BY <1>2, <2>2, NamesAssumption DEF Using, Absolute, Find, ConfigFiles, PathNames
    <3>2. at' \in {"merge", "failed"}
      BY <2>2 DEF Read, GoTo
    <3> QED
      BY <1>2, <2>1, <2>2, <3>1, <3>2, NoneAssumption DEF TypeInv, AfterMerge, Places
  <2>3. CASE /\ config' = config
             /\ \/ at' = "failed" /\ here' = here
                \/ here # <<>> /\ here' = Front(here) /\ at' = at
    <3>1. here' \in Seq(STRING)
      BY <1>2, <2>3, FrontPrefix
    <3> QED
      BY <1>2, <2>1, <2>3, <3>1 DEF TypeInv, AfterMerge, Places
  <2> QED
    BY <1>7, <2>2, <2>3 DEF SearchConfig, SearchEnds, GoTo
<1>8. CASE Merge
  <2>1. /\ DOMAIN opts' = OptionKeys /\ opts'["walk"] \in Values("walk")
        /\ opts'["treeRoot"] \in PathNames \cup {None} /\ wd' \in Seq(STRING)
    BY <1>8, MergedTyped
  <2>2. /\ at = "merge" /\ at' = "root"
        /\ UNCHANGED <<cwd, here, config, root, readers, hiccup>>
    BY <1>8 DEF Merge, GoTo
  <2> QED
    BY <1>2, <2>1, <2>2 DEF TypeInv, AfterMerge, Places
<1>9. CASE ChooseRoot
  <2>1. /\ at = "root" /\ wd \in Seq(STRING) /\ config # None
        /\ at' \in {"failed", "reader", "rootfile", "git"}
        /\ UNCHANGED <<cwd, config, opts, wd, readers, hiccup>>
    BY <1>9 DEF ChooseRoot, GoTo, TypeInv, AfterMerge
  <2>2. here' \in Seq(STRING)
    BY <1>2, <1>9, <2>1, SearchFromTyped DEF ChooseRoot
  <2>3. at' = "reader" => root' \in Seq(STRING)
    <3>1. at' = "reader" => \/ RootOptions = {"treeRoot"} /\ root' = Abs(opts.treeRoot)
                            \/ world.printed # None /\ root' = Abs(world.printed)
      BY <1>9 DEF ChooseRoot, GoTo
    <3>2. RootOptions = {"treeRoot"} => opts["treeRoot"] \in PathNames
      BY <1>2 DEF RootOptions
    <3>3. world.printed # None => world.printed \in PathNames
      BY <1>1, WorldsAssumption
    <3> QED
      BY <1>1, <1>2, <3>1, <3>2, <3>3, AbsTyped
  <2> QED
    BY <1>2, <2>1, <2>2, <2>3 DEF TypeInv, AfterMerge, Places
<1>10. CASE SearchRootFile
  <2>1. /\ at = "rootfile" /\ wd \in Seq(STRING) /\ config # None
        /\ at' \in {"failed", "reader", "rootfile"}
        /\ UNCHANGED <<cwd, config, opts, wd, readers, hiccup>>
    BY <1>10 DEF SearchRootFile, GoTo, TypeInv, AfterMerge
  <2>2. here' \in Seq(STRING)
    BY <1>2, <1>10, FrontPrefix DEF SearchRootFile, SearchEnds
  <2>3. at' = "reader" => root' \in Seq(STRING)
    BY <1>2, <1>10, <2>1 DEF SearchRootFile, GoTo
  <2> QED
    BY <1>2, <2>1, <2>2, <2>3 DEF TypeInv, AfterMerge, Places
<1>11. CASE ProbeGit
  <2>1. /\ at = "git" /\ wd \in Seq(STRING) /\ config # None
        /\ at' \in {"failed", "reader", "jujutsu"}
        /\ UNCHANGED <<cwd, here, config, opts, wd, readers>>
    BY <1>11 DEF ProbeGit, GoTo, TypeInv, AfterMerge
  <2>2. hiccup' \in BOOLEAN
    BY <1>2, <1>11 DEF ProbeGit
  <2>3. at' = "reader" => root' = world.git /\ root' # None
    BY <1>11 DEF ProbeGit, GoTo, TopOf
  <2>4. at' = "reader" => root' \in Seq(STRING)
    BY <1>1, <2>3, WorldsAssumption, DirsAssumption
  <2> QED
    BY <1>2, <2>1, <2>2, <2>4 DEF TypeInv, AfterMerge, Places
<1>12. CASE ProbeJujutsu
  <2>1. /\ at = "jujutsu" /\ wd \in Seq(STRING) /\ config # None
        /\ at' \in {"fallback", "reader"}
        /\ UNCHANGED <<cwd, here, config, opts, wd, readers>>
    BY <1>12 DEF ProbeJujutsu, GoTo, TypeInv, AfterMerge
  <2>2. hiccup' \in BOOLEAN
    BY <1>2, <1>12 DEF ProbeJujutsu
  <2>3. at' = "reader" => root' = world.jujutsu /\ root' # None
    BY <1>12 DEF ProbeJujutsu, GoTo, TopOf
  <2>4. at' = "reader" => root' \in Seq(STRING)
    BY <1>1, <2>3, WorldsAssumption, DirsAssumption
  <2> QED
    BY <1>2, <2>1, <2>2, <2>4 DEF TypeInv, AfterMerge, Places
<1>13. CASE FallbackRoot
  <2>1. /\ at = "fallback" /\ wd \in Seq(STRING) /\ config \in ConfigFiles /\ at' = "reader"
        /\ root' = (IF ConfigAbove(wd) THEN Abs(config.dir) ELSE wd)
        /\ UNCHANGED <<cwd, here, config, opts, wd, readers, hiccup>>
    BY <1>13 DEF FallbackRoot, GoTo, TypeInv, AfterMerge
  <2>2. config.dir \in PathNames
    BY <2>1 DEF ConfigFiles
  <2>3. root' \in Seq(STRING)
    BY <1>1, <1>2, <2>1, <2>2, AbsTyped
  <2> QED
    BY <1>2, <2>1, <2>3, NoneAssumption DEF TypeInv, AfterMerge, Places
<1>14. CASE OpenReaders
  <2>1. /\ at = "reader" /\ wd \in Seq(STRING) /\ config # None /\ root \in Seq(STRING)
        /\ at' \in {"ready", "failed"}
        /\ UNCHANGED <<cwd, here, config, opts, wd, root, hiccup>>
    BY <1>14 DEF OpenReaders, GoTo, TypeInv, AfterMerge
  <2>2. DirReader # None => DirReader \in Kinds
    BY <1>2 DEF DirReader, Kinds, Values
  <2>3. /\ at' = "ready" => readers' # {}
        /\ \A r \in readers' : r.dir \in Dirs /\ r.kind \in Kinds
    <3>1. CASE /\ Exists(root) /\ world.paths = {} /\ DirReader # None
               /\ readers' = {[kind |-> DirReader, dir |-> Resolve(root)]}
      BY <2>2, <3>1 DEF Exists
    <3>2. CASE /\ world.paths # {} /\ readers' = {ReaderFor(p) : p \in world.paths}
               /\ \A p \in world.paths : There(p) /\ (p.file # None \/ DirReader # None)
      <4>1. ASSUME NEW p \in world.paths
            PROVE  ReaderFor(p).dir \in Dirs /\ ReaderFor(p).kind \in Kinds
        <5>1. Resolve(Abs(p.dir)) \in Dirs
          BY <3>2 DEF There
        <5> QED
          BY <2>2, <3>2, <5>1 DEF ReaderFor, Kinds
      <4> QED
        BY <3>2, <4>1
    <3>3. CASE Exists(root) /\ readers' = {[kind |-> "stdin", dir |-> Resolve(root)]}
      BY <3>3 DEF Exists, Kinds
    <3>4. CASE at' = "failed" /\ UNCHANGED readers
      BY <1>2, <3>4
    <3> QED
      BY <1>14, <3>1, <3>2, <3>3, <3>4 DEF OpenReaders, GoTo
  <2> QED
    BY <1>2, <2>1, <2>3 DEF TypeInv, AfterMerge, Places
<1> QED
  BY <1>3, <1>4, <1>5, <1>6, <1>7, <1>8, <1>9, <1>10, <1>11, <1>12, <1>13, <1>14 DEF Next

LEMMA TypeSpec == Spec => [](EnvInv /\ TypeInv)
<1>1. Init => EnvInv /\ TypeInv
  BY TypeInit
<1>2. EnvInv /\ TypeInv /\ [Next]_vars => (EnvInv /\ TypeInv)'
  BY EnvStep, TypeStep
<1> QED
  BY <1>1, <1>2, PTL DEF Spec

\* Every variable of the set-up keeps its type (cmd/root.go, config/config.go and
\* walk/walk.go), in any world.
THEOREM TypeCorrect == Spec => []TypeOK
<1>1. EnvInv /\ TypeInv => TypeOK
  <2> SUFFICES ASSUME EnvInv, TypeInv
               PROVE  TypeOK
    OBVIOUS
  <2>1. DOMAIN world = WorldFields
    BY WorldsAssumption DEF EnvInv
  <2>2. root \in Seq(STRING) => root # None
    BY NoneAssumption
  <2>3. opts.walk \in {"auto", "git", "jujutsu", "filesystem", "stdin"}
    BY DEF TypeInv, Values
  <2> QED
    BY <2>1, <2>2, <2>3, OptionsAre DEF TypeInv, TypeOK, Kinds
<1> QED
  BY <1>1, TypeSpec, PTL

-----------------------------------------------------------------------------
(* What has been decided.                                                  *)

\* The process is in the directory it was asked to work in, as seen from where it
\* was started, and has a config file once it is through with looking for one.
DirInv ==
  /\ at \in {"env", "chdir"} => cwd = world.start
  /\ at \in {"env", "chdir", "config", "search"} => config = None
  /\ at \notin {"env", "chdir", "failed"} =>
       cwd = AbsFrom(world.start, Setting("workingDir")) /\ Exists(cwd)

\* The options, from the settings.
Merging ==
  LET merged == [k \in DOMAIN Defaults |-> Setting(k)] IN
  [merged EXCEPT !.walk = IF merged.stdin THEN "stdin" ELSE @,
                 !.noCache = @ \/ merged.ci, !.failOnChange = @ \/ merged.ci]

MergeInv == at \in AfterMerge => opts = Merging /\ wd = Abs(Setting("workingDir"))

\* A setting is what world and variables make it.
LEMMA SettingKept ==
  ASSUME world' = world, env' = env, NEW k
  PROVE  Setting(k)' = Setting(k)
<1>1. \A l : Layer(l)' = Layer(l)
  BY DEF Layer
<1> QED
  BY <1>1 DEF Setting

LEMMA DirStep ==
  ASSUME EnvInv, DirInv, [Next]_vars
  PROVE  DirInv'
<1>1. world' = world
  BY Frame
<1>2. CASE UNCHANGED vars
  <2>1. Setting("workingDir")' = Setting("workingDir")
    BY <1>2, SettingKept DEF vars
  <2> QED
    BY <1>2, <2>1 DEF vars, DirInv, AbsFrom, Exists, Resolve
<1>3. CASE at = "env" /\ ~UNCHANGED vars
  <2>1. at' \in {"chdir", "failed"} /\ cwd' = cwd /\ config' = config
    BY <1>3, Frame
  <2> QED
    BY <1>1, <1>3, <2>1 DEF DirInv
<1>4. CASE ChangeDir
  <2>1. at = "chdir" /\ env' = env /\ cwd = world.start /\ config' = config /\ config = None
    BY <1>4 DEF ChangeDir, DirInv
  <2>2. Setting("workingDir")' = Setting("workingDir")
    BY <1>1, <2>1, SettingKept
  <2>3. Abs(Setting("workingDir")) = AbsFrom(world.start, Setting("workingDir"))
    BY <2>1 DEF Abs, Getwd
  <2>4. \/ at' = "failed"
        \/ at' = "config" /\ cwd' = Abs(Setting("workingDir")) /\ Exists(Abs(Setting("workingDir")))
    BY <1>4 DEF ChangeDir, GoTo
  <2>5. CASE at' = "failed"
    BY <2>5 DEF DirInv
  <2>6. CASE at' = "config" /\ cwd' = Abs(Setting("workingDir")) /\ Exists(Abs(Setting("workingDir")))
    BY <1>1, <2>1, <2>2, <2>3, <2>6 DEF DirInv, AbsFrom, Exists
  <2> QED
    BY <2>4, <2>5, <2>6
<1>5. CASE at \notin {"env", "chdir"}
  <2>1. env' = env /\ cwd' = cwd
    BY <1>5, Frame
  <2>2. Setting("workingDir")' = Setting("workingDir")
    BY <1>1, <2>1, SettingKept
  <2>3. at' \notin {"env", "chdir"} /\ (at = "failed" => at' = "failed")
    BY <1>5, Frame
  <2>4. at' \in {"config", "search"} => config' = None
    <3>1. CASE at = "search"
      BY <3>1 DEF Next, ReadEnv, ChangeDir, LoadConfig, SearchConfig, Merge, ChooseRoot, DirInv,
                  SearchRootFile, ProbeGit, ProbeJujutsu, FallbackRoot, OpenReaders, GoTo, Read, vars
    <3>2. CASE at = "config"
      BY <3>2 DEF Next, ReadEnv, ChangeDir, LoadConfig, SearchConfig, Merge, ChooseRoot, DirInv,
                  SearchRootFile, ProbeGit, ProbeJujutsu, FallbackRoot, OpenReaders, GoTo, Read, vars
    <3>3. CASE at \notin {"config", "search"}
      BY <1>5, <3>3, Frame
    <3> QED
      BY <3>1, <3>2, <3>3
  <2> QED
    BY <1>1, <1>5, <2>1, <2>2, <2>3, <2>4 DEF DirInv, AbsFrom, Exists
<1>6. at = "chdir" /\ ~UNCHANGED vars => ChangeDir
  BY DEF Next, ReadEnv, ChangeDir, LoadConfig, SearchConfig, Merge, ChooseRoot,
         SearchRootFile, ProbeGit, ProbeJujutsu, FallbackRoot, OpenReaders
<1> QED
  BY <1>2, <1>3, <1>4, <1>5, <1>6

LEMMA MergeStep ==
  ASSUME EnvInv, MergeInv, [Next]_vars
  PROVE  MergeInv'
<1>1. world' = world
  BY Frame
<1> SUFFICES ASSUME at' \in AfterMerge
             PROVE  (opts = Merging /\ wd = Abs(Setting("workingDir")))'
  BY DEF MergeInv
<1>2. at \in AfterMerge \cup {"merge"}
  BY Frame DEF AfterMerge
<1>3. env' = env /\ cwd' = cwd
  BY <1>2, Frame DEF AfterMerge
<1>4. Merging' = Merging
  <2>1. \A k : Setting(k)' = Setting(k)
    BY <1>1, <1>3, SettingKept
  <2> QED
    BY <2>1 DEF Merging
<1>5. Abs(Setting("workingDir"))' = Abs(Setting("workingDir"))
  <2>1. Setting("workingDir")' = Setting("workingDir")
    BY <1>1, <1>3, SettingKept
  <2> QED
    BY <1>1, <1>3, <2>1 DEF Abs, AbsFrom, Getwd
<1>6. CASE at = "merge" /\ ~UNCHANGED vars
  <2>1. Merge
    BY <1>6 DEF Next, ReadEnv, ChangeDir, LoadConfig, SearchConfig, Merge, ChooseRoot,
                SearchRootFile, ProbeGit, ProbeJujutsu, FallbackRoot, OpenReaders
  <2>2. opts' = Merging /\ wd' = Abs(Setting("workingDir"))
    BY <2>1 DEF Merge, Merging
  <2> QED
    BY <1>4, <1>5, <2>2
<1>7. CASE UNCHANGED vars \/ at # "merge"
  <2>1. at \in AfterMerge
    BY <1>2, <1>7 DEF AfterMerge, vars
  <2>2. opts' = opts /\ wd' = wd
    BY <1>7, Frame DEF vars
  <2> QED
    BY <1>4, <1>5, <2>1, <2>2 DEF MergeInv
<1> QED
  BY <1>6, <1>7

Decided == EnvInv /\ TypeInv /\ DirInv /\ MergeInv

LEMMA DecidedSpec == Spec => []Decided
<1>1. Init => DirInv /\ MergeInv
  BY DEF Init, DirInv, MergeInv, AfterMerge
<1>2. EnvInv /\ DirInv /\ MergeInv /\ [Next]_vars => (DirInv /\ MergeInv)'
  BY DirStep, MergeStep
<1> QED
  BY <1>1, <1>2, TypeSpec, PTL DEF Spec, Decided

-----------------------------------------------------------------------------
(* Options.                                                                *)

\* What is set in the variables that were read, and to what.
LEMMA EnvLayers ==
  ASSUME EnvInv, at # "env", NEW k
  PROVE  /\ k = "stdin" => ~IsSet(env, k)
         /\ k # "stdin" =>
              /\ IsSet(env, k) <=> IsSet(Layer("env"), k) \/ IsSet(Layer("legacy"), k)
              /\ IsSet(Layer("env"), k) => Get(env, k) = Get(Layer("env"), k)
              /\ IsSet(Layer("legacy"), k) /\ ~IsSet(Layer("env"), k)
                   => Get(env, k) = Get(Layer("legacy"), k)
<1>1. env = Kept /\ {"env", "legacy"} \subseteq Layers /\ world \in Worlds
  BY DEF EnvInv, Layers
<1>2. k = "stdin" => ~IsSet(env, k)
  BY <1>1 DEF Kept, IsSet
<1>3. ASSUME k # "stdin"
      PROVE  IsSet(env, k) <=> IsSet(Layer("env"), k) \/ IsSet(Layer("legacy"), k)
  BY <1>1, <1>3 DEF Kept, IsSet
<1>4. ASSUME k # "stdin", NEW l \in {"env", "legacy"}, IsSet(Layer(l), k),
             \A s \in env : s[1] = k => s \in Layer(l)
      PROVE  Get(env, k) = Get(Layer(l), k)
  <2>1. IsSet(env, k)
    BY <1>3, <1>4
  <2>2. PICK s \in env : s[1] = k /\ Get(env, k) = s[2]
    BY <2>1, GetIsSet
  <2>3. PICK t \in Layer(l) : t[1] = k /\ Get(Layer(l), k) = t[2]
    BY <1>4, GetIsSet
  <2>4. s \in Layer(l)
    BY <1>4, <2>2
  <2>5. s[2] = t[2]
    BY <1>1, <2>2, <2>3, <2>4, LayerTyped
  <2> QED
    BY <2>2, <2>3, <2>5
<1>5. ASSUME IsSet(Layer("env"), k), NEW s \in env, s[1] = k
      PROVE  s \in Layer("env")
  BY <1>1, <1>5 DEF Kept
<1>6. ASSUME ~IsSet(Layer("env"), k), NEW s \in env, s[1] = k
      PROVE  s \in Layer("legacy")
  BY <1>1, <1>6 DEF Kept, IsSet
<1> QED
  BY <1>2, <1>3, <1>4, <1>5, <1>6

LEMMA LeastChosen ==
  ASSUME NEW S \in SUBSET Int, NEW i \in S, \A j \in S : i <= j
  PROVE  (CHOOSE m \in S : \A j \in S : m <= j) = i
<1>1. \A m \in S : (\A j \in S : m <= j) => m = i
  OBVIOUS
<1> QED
  BY <1>1

\* The layers that may set an option, by precedence, and those that do.
Order(k) ==
  <<"flag", "env", "legacy">> \o (IF k \in {"ci", "stdin", "workingDir"} THEN <<>> ELSE <<"file">>)
Sets(k) == {i \in DOMAIN Order(k) : IsSet(Layer(Order(k)[i]), k) /\ (k # "stdin" \/ i = 1)}

LEMMA OrderIs ==
  ASSUME NEW k
  PROVE  /\ Order(k)[1] = "flag" /\ Order(k)[2] = "env" /\ Order(k)[3] = "legacy"
         /\ k \in {"ci", "stdin", "workingDir"} => DOMAIN Order(k) = 1 .. 3
         /\ k \notin {"ci", "stdin", "workingDir"} => DOMAIN Order(k) = 1 .. 4 /\ Order(k)[4] = "file"
<1>1. CASE k \in {"ci", "stdin", "workingDir"}
  <2>1. Order(k) = <<"flag", "env", "legacy">> \o <<>>
    BY <1>1 DEF Order
  <2>2. <<"flag", "env", "legacy">> \in Seq({"flag", "env", "legacy"})
    OBVIOUS
  <2>3. Order(k) = <<"flag", "env", "legacy">>
    BY <2>1, <2>2, ConcatEmptySeq
  <2> QED
    BY <1>1, <2>3
<1>2. CASE k \notin {"ci", "stdin", "workingDir"}
  <2>1. Order(k) = <<"flag", "env", "legacy">> \o <<"file">>
    BY <1>2 DEF Order
  <2> DEFINE Names == {"flag", "env", "legacy", "file"}
  <2>2. /\ <<"flag", "env", "legacy">> \in Seq(Names) /\ Len(<<"flag", "env", "legacy">>) = 3
        /\ <<"file">> \in Seq(Names) /\ Len(<<"file">>) = 1
    OBVIOUS
  <2>3. /\ Order(k) \in Seq(Names) /\ Len(Order(k)) = 3 + 1
        /\ \A i \in 1 .. 3 + 1 : Order(k)[i] = IF i <= 3 THEN <<"flag", "env", "legacy">>[i]
                                              ELSE <<"file">>[i - 3]
    BY <2>1, <2>2, ConcatProperties
  <2>4. DOMAIN Order(k) = 1 .. 4
    BY <2>3
  <2>5. Order(k)[1] = "flag" /\ Order(k)[2] = "env" /\ Order(k)[3] = "legacy"
    BY <2>3
  <2>6. Order(k)[4] = <<"file">>[4 - 3]
    BY <2>3
  <2> QED
    BY <1>2, <2>4, <2>5, <2>6
<1> QED
  BY <1>1, <1>2

\* A setting comes from the first of its layers that sets it.
LEMMA FirstLayer ==
  ASSUME EnvInv, at # "env", NEW k \in OptionKeys \ {"noCache"}
  PROVE  Setting(k) = IF Sets(k) = {} THEN Defaults[k]
                      ELSE Get(Layer(Order(k)[CHOOSE i \in Sets(k) : \A j \in Sets(k) : i <= j]), k)
<1> DEFINE Via(i) == /\ i \in Sets(k) /\ \A j \in Sets(k) : i <= j
                     /\ Setting(k) = Get(Layer(Order(k)[i]), k)
<1>1. Sets(k) \in SUBSET Int /\ Sets(k) \subseteq 1 .. 4
  BY OrderIs DEF Sets
<1>2. ASSUME NEW i \in Int, Via(i)
      PROVE  Setting(k) = IF Sets(k) = {} THEN Defaults[k]
                          ELSE Get(Layer(Order(k)[CHOOSE m \in Sets(k) : \A j \in Sets(k) : m <= j]), k)
  BY <1>1, <1>2, LeastChosen
<1>3. \A j \in Sets(k) : j = 1 \/ j = 2 \/ j = 3 \/ j = 4
  BY <1>1
<1>4. /\ 1 \in Sets(k) <=> IsSet(Layer("flag"), k)
      /\ 2 \in Sets(k) <=> IsSet(Layer("env"), k) /\ k # "stdin"
      /\ 3 \in Sets(k) <=> IsSet(Layer("legacy"), k) /\ k # "stdin"
      /\ 4 \in Sets(k) <=> IsSet(Layer("file"), k) /\ k \notin CommandLineOnly
  <2>1. k \in {"ci", "stdin", "workingDir"} <=> k \in CommandLineOnly
    BY DEF CommandLineOnly, OptionKeys
  <2>2. 1 \in DOMAIN Order(k) /\ 2 \in DOMAIN Order(k) /\ 3 \in DOMAIN Order(k)
    BY OrderIs
  <2>3. 4 \in DOMAIN Order(k) <=> k \notin {"ci", "stdin", "workingDir"}
    BY OrderIs
  <2>4. 4 \in DOMAIN Order(k) => Order(k)[4] = "file" /\ k # "stdin"
    BY <2>3, OrderIs
  <2>5. 1 \in Sets(k) <=> IsSet(Layer("flag"), k)
    BY <2>2, OrderIs DEF Sets
  <2>6. 2 \in Sets(k) <=> IsSet(Layer("env"), k) /\ k # "stdin"
    BY <2>2, OrderIs DEF Sets
  <2>7. 3 \in Sets(k) <=> IsSet(Layer("legacy"), k) /\ k # "stdin"
    BY <2>2, OrderIs DEF Sets
  <2>8. 4 \in Sets(k) <=> IsSet(Layer("file"), k) /\ k \notin CommandLineOnly
    BY <2>1, <2>3, <2>4 DEF Sets
  <2> QED
    BY <2>5, <2>6, <2>7, <2>8
<1>5. CASE 1 \in Sets(k)
  <2>1. Setting(k) = Get(Layer(Order(k)[1]), k)
    BY <1>4, <1>5, OrderIs DEF Setting
  <2>2. \A j \in Sets(k) : 1 <= j
    BY <1>1
  <2> QED
    BY <1>2, <1>5, <2>1, <2>2
<1>6. CASE 1 \notin Sets(k) /\ 2 \in Sets(k)
  <2>1. Setting(k) = Get(Layer(Order(k)[2]), k)
    <3>1. IsSet(env, k) /\ Get(env, k) = Get(Layer("env"), k)
      BY <1>4, <1>6, EnvLayers
    <3> QED
      BY <1>4, <1>6, <3>1, OrderIs DEF Setting
  <2>2. \A j \in Sets(k) : 2 <= j
    BY <1>3, <1>6
  <2> QED
    BY <1>2, <1>6, <2>1, <2>2
<1>7. CASE 1 \notin Sets(k) /\ 2 \notin Sets(k) /\ 3 \in Sets(k)
  <2>1. Setting(k) = Get(Layer(Order(k)[3]), k)
    <3>1. IsSet(env, k) /\ Get(env, k) = Get(Layer("legacy"), k)
      BY <1>4, <1>7, EnvLayers
    <3> QED
      BY <1>4, <1>7, <3>1, OrderIs DEF Setting
  <2>2. \A j \in Sets(k) : 3 <= j
    BY <1>3, <1>7
  <2> QED
    BY <1>2, <1>7, <2>1, <2>2
<1>8. CASE 1 \notin Sets(k) /\ 2 \notin Sets(k) /\ 3 \notin Sets(k)
  <2>1. ~IsSet(Layer("flag"), k) /\ ~IsSet(env, k)
    BY <1>4, <1>8, EnvLayers
  <2>2. CASE 4 \in Sets(k)
    <3>1. k \notin {"ci", "stdin", "workingDir"}
      BY <1>4, <2>2 DEF CommandLineOnly
    <3>2. Setting(k) = Get(Layer(Order(k)[4]), k)
      BY <1>4, <2>1, <2>2, <3>1, OrderIs DEF Setting
    <3>3. \A j \in Sets(k) : 4 <= j
      BY <1>3, <1>8
    <3> QED
      BY <1>2, <2>2, <3>2, <3>3
  <2>3. CASE 4 \notin Sets(k)
    <3>1. Sets(k) = {}
      BY <1>3, <1>8, <2>3
    <3>2. Setting(k) = Defaults[k]
      BY <1>4, <2>1, <2>3 DEF Setting
    <3> QED
      BY <3>1, <3>2
  <2> QED
    BY <2>2, <2>3
<1> QED
  BY <1>5, <1>6, <1>7, <1>8

\* Flag before CONFORMIST_ variable before TREELINT_ variable before config file
\* before default, and nothing of the command line's from the file (NewViper and
\* FromViper, config.go:200-366), for any settings.
THEOREM LayersCorrect == Spec => []LayersInOrder
<1>1. Decided => LayersInOrder
  <2> SUFFICES ASSUME Decided, at \in {"root", "ready"},
                      NEW k \in DOMAIN Defaults \
                        ({"noCache", "failOnChange"} \cup (IF opts.stdin THEN {"walk"} ELSE {}))
               PROVE  opts[k] = IF Sets(k) = {} THEN Defaults[k]
                                ELSE Get(Layer(Order(k)[CHOOSE i \in Sets(k) :
                                                          \A j \in Sets(k) : i <= j]), k)
    BY DEF LayersInOrder, Sets, Order
  <2>1. EnvInv /\ at # "env" /\ at \in AfterMerge
    BY DEF Decided, AfterMerge
  <2>2. opts = Merging
    BY <2>1 DEF Decided, MergeInv
  <2>3. k \in OptionKeys \ {"noCache", "failOnChange"} /\ (k = "walk" => ~opts["stdin"])
    BY OptionsAre
  <2>4. opts[k] = Setting(k)
    <3> DEFINE merged == [j \in DOMAIN Defaults |-> Setting(j)]
    <3>1. opts = [merged EXCEPT !["walk"] = IF merged["stdin"] THEN "stdin" ELSE @,
                                !["noCache"] = @ \/ merged["ci"],
                                !["failOnChange"] = @ \/ merged["ci"]]
      BY <2>2 DEF Merging
    <3>2. DOMAIN merged = OptionKeys /\ \A j \in OptionKeys : merged[j] = Setting(j)
      BY OptionsAre
    <3> HIDE DEF merged
    <3>3. opts["stdin"] = merged["stdin"]
      BY <3>1, <3>2 DEF OptionKeys
    <3>4. CASE k = "walk"
      <4>1. ~merged["stdin"]
        BY <2>3, <3>3, <3>4
      <4>2. opts["walk"] = IF merged["stdin"] THEN "stdin" ELSE merged["walk"]
        BY <3>1, <3>2 DEF OptionKeys
      <4> QED
        BY <2>3, <3>2, <3>4, <4>1, <4>2
    <3>5. CASE k # "walk"
      BY <2>3, <3>1, <3>2, <3>5
    <3> QED
      BY <3>4, <3>5
  <2> QED
    BY <2>1, <2>3, <2>4, FirstLayer
<1> QED
  BY <1>1, DecidedSpec, PTL

-----------------------------------------------------------------------------
(* The tree root.                                                          *)

\* Where nobody gives a relative name, options and process agree on the working directory.
LEMMA WorkingDirKept ==
  ASSUME NamedAbsolutely(Worlds), Decided, at \in AfterMerge
  PROVE  wd = cwd
<1> DEFINE p == Setting("workingDir")
<1>1. /\ world \in Worlds /\ world.start \in Seq(STRING) /\ EnvInv
      /\ wd = Abs(p) /\ cwd = AbsFrom(world.start, p)
  BY WorldsAssumption DEF Decided, EnvInv, MergeInv, DirInv, AfterMerge
<1>2. p.abs \/ p.path = <<>>
  <2>1. p = Relative(<<>>) \/ \E u \in world.given : u[2] = "workingDir" /\ u[3] = p
    BY <1>1, SettingGiven, OptionsAre
  <2> QED
    BY <1>1, <2>1 DEF NamedAbsolutely, Relative
<1>3. CASE p.abs
  BY <1>1, <1>3 DEF Abs, AbsFrom
<1>4. CASE ~p.abs /\ p.path = <<>>
  <2>1. cwd = world.start
    BY <1>1, <1>4, ConcatEmptySeq DEF AbsFrom
  <2>2. Getwd = world.start
    BY <2>1 DEF Getwd
  <2> QED
    BY <1>1, <1>4, <2>1, <2>2, ConcatEmptySeq DEF Abs, AbsFrom
<1> QED
  BY <1>2, <1>3, <1>4

\* What FallbackRoot settles for.
Beside == IF ConfigAbove(wd) THEN config.dir.path ELSE wd

\* Without an option for it, the tree root comes from a probe that answered or from
\* the config file, and the probes are asked in order.
ProbeInv ==
  /\ at = "rootfile" => RootOptions # {}
  /\ RootOptions = {} =>
       /\ at \in {"jujutsu", "fallback"} =>
            opts.walk # "git" /\ (~hiccup /\ opts.walk = "auto" => TopOf(world.git, wd) = None)
       /\ at = "fallback" /\ ~hiccup /\ opts.walk \in {"auto", "jujutsu"}
            => TopOf(world.jujutsu, wd) = None
       /\ at \in {"reader", "ready"} =>
            /\ \/ opts.walk \in {"auto", "git"} /\ root = TopOf(world.git, wd)
               \/ opts.walk \in {"auto", "jujutsu"} /\ root = TopOf(world.jujutsu, wd)
               \/ opts.walk # "git" /\ root = Beside
            /\ ~hiccup => root = RootFrom(wd)

LEMMA ProbeStep ==
  ASSUME ProbeInv, [Next]_vars
  PROVE  ProbeInv'
<1>1. CASE UNCHANGED vars
  BY <1>1 DEF vars, ProbeInv, RootOptions, TopOf, Exists, Beside, RootFrom, ConfigAbove
<1>2. CASE at' \notin {"rootfile", "jujutsu", "fallback", "reader", "ready"}
  BY <1>2 DEF ProbeInv
<1>3. ASSUME at \in AfterMerge
      PROVE  /\ UNCHANGED <<world, opts, wd, config>> /\ RootOptions' = RootOptions
             /\ TopOf(world.git, wd)' = TopOf(world.git, wd)
             /\ TopOf(world.jujutsu, wd)' = TopOf(world.jujutsu, wd)
             /\ RootFrom(wd)' = RootFrom(wd) /\ Beside' = Beside
  <2>1. UNCHANGED <<world, opts, wd, config>>
    BY <1>3, Frame DEF AfterMerge
  <2> QED
    BY <2>1 DEF RootOptions, TopOf, Exists, RootFrom, ConfigAbove, Beside
<1>4. CASE ChooseRoot
  <2>1. at = "root" /\ RootOptions' = RootOptions
    BY <1>3, <1>4 DEF ChooseRoot, AfterMerge
  <2>2. at' \in {"failed", "git"} \/ RootOptions # {}
    BY <1>4 DEF ChooseRoot, GoTo
  <2>3. at' \in {"failed", "reader", "rootfile", "git"}
    BY <1>4 DEF ChooseRoot, GoTo
  <2> QED
    BY <2>1, <2>2, <2>3 DEF ProbeInv
<1>5. CASE SearchRootFile
  <2>1. at = "rootfile" /\ RootOptions' = RootOptions /\ RootOptions # {}
    BY <1>3, <1>5 DEF SearchRootFile, AfterMerge, ProbeInv
  <2> QED
    BY <2>1 DEF ProbeInv
<1>6. CASE ProbeGit
  <2>1. at = "git" /\ at \in AfterMerge /\ opts' = opts
    BY <1>6 DEF ProbeGit, AfterMerge
  <2>2. CASE opts.walk \notin {"auto", "git"} /\ at' = "jujutsu" /\ hiccup' = hiccup
    BY <1>3, <2>1, <2>2 DEF ProbeInv
  <2>3. CASE /\ opts.walk \in {"auto", "git"}
             /\ \E top \in {TopOf(world.git, wd), None} :
                  /\ root' = top /\ hiccup' = (hiccup \/ top # TopOf(world.git, wd))
                  /\ at' = IF top # None THEN "reader" ELSE IF GitFatal THEN "failed" ELSE "jujutsu"
    <3>1. CASE root' # None
      <4>1. at' = "reader" /\ root' = TopOf(world.git, wd) /\ root' = RootFrom(wd)
        BY <2>3, <3>1 DEF RootFrom
      <4> QED
        BY <1>3, <2>1, <2>3, <4>1 DEF ProbeInv
    <3>2. CASE root' = None
      <4>1. /\ at' \in {"failed", "jujutsu"} /\ (at' = "jujutsu" => opts.walk # "git")
            /\ ~hiccup' => TopOf(world.git, wd) = None
        BY <2>3, <3>2 DEF GitFatal
      <4> QED
        BY <1>3, <2>1, <4>1 DEF ProbeInv
    <3> QED
      BY <3>1, <3>2
  <2> QED
    BY <1>6, <2>2, <2>3 DEF ProbeGit, GoTo
<1>7. CASE ProbeJujutsu
  <2>1. at = "jujutsu" /\ at \in AfterMerge /\ opts' = opts
    BY <1>7 DEF ProbeJujutsu, AfterMerge
  <2>2. RootOptions = {} =>
          opts.walk # "git" /\ (~hiccup /\ opts.walk = "auto" => TopOf(world.git, wd) = None)
    BY <2>1 DEF ProbeInv
  <2>3. CASE opts.walk \notin {"auto", "jujutsu"} /\ at' = "fallback" /\ hiccup' = hiccup
    BY <1>3, <2>1, <2>2, <2>3 DEF ProbeInv
  <2>4. CASE /\ opts.walk \in {"auto", "jujutsu"}
             /\ \E top \in {TopOf(world.jujutsu, wd), None} :
                  /\ root' = top /\ hiccup' = (hiccup \/ top # TopOf(world.jujutsu, wd))
                  /\ at' = IF top # None THEN "reader" ELSE "fallback"
    <3>1. ~hiccup' => ~hiccup
      BY <2>4
    <3>2. CASE root' # None
      <4>1. at' = "reader" /\ root' = TopOf(world.jujutsu, wd)
        BY <2>4, <3>2
      <4>2. RootOptions = {} /\ ~hiccup' => root' = RootFrom(wd)
        BY <2>2, <2>4, <3>1, <3>2, <4>1 DEF RootFrom
      <4> QED
        BY <1>3, <2>1, <2>4, <4>1, <4>2 DEF ProbeInv
    <3>3. CASE root' = None
      <4>1. at' = "fallback" /\ (~hiccup' => TopOf(world.jujutsu, wd) = None)
        BY <2>4, <3>3
      <4> QED
        BY <1>3, <2>1, <2>2, <3>1, <4>1 DEF ProbeInv
    <3> QED
      BY <3>2, <3>3
  <2> QED
    BY <1>7, <2>3, <2>4 DEF ProbeJujutsu, GoTo
<1>8. CASE FallbackRoot
  <2>1. /\ at = "fallback" /\ at \in AfterMerge /\ at' = "reader" /\ UNCHANGED <<opts, hiccup>>
        /\ root' = Beside
    BY <1>8 DEF FallbackRoot, AfterMerge, GoTo, Beside, ConfigAbove, Abs, AbsFrom
  <2>2. RootOptions = {} /\ ~hiccup => Beside = RootFrom(wd)
    BY <2>1 DEF ProbeInv, RootFrom, Beside
  <2> QED
    BY <1>3, <2>1, <2>2 DEF ProbeInv
<1>9. CASE OpenReaders
  <2>1. /\ at = "reader" /\ at \in AfterMerge /\ at' \in {"ready", "failed"}
        /\ UNCHANGED <<opts, root, hiccup>>
    BY <1>9 DEF OpenReaders, AfterMerge, GoTo
  <2> QED
    BY <1>3, <2>1 DEF ProbeInv
<1> QED
  BY <1>1, <1>2, <1>4, <1>5, <1>6, <1>7, <1>8, <1>9 DEF Next, ReadEnv, ChangeDir, LoadConfig,
     SearchConfig, Merge, Read, GoTo

LEMMA ProbeSpec == Spec => [](Decided /\ ProbeInv)
<1>1. Init => ProbeInv
  BY DEF Init, ProbeInv
<1>2. ProbeInv /\ [Next]_vars => ProbeInv'
  BY ProbeStep
<1> QED
  BY <1>1, <1>2, DecidedSpec, PTL DEF Spec

\* A probe answers with a real directory that holds the one it was asked about.
LEMMA TopAbove ==
  ASSUME world \in Worlds, NEW top \in {world.git, world.jujutsu}, NEW dir \in Seq(STRING),
         TopOf(top, dir) # None
  PROVE  TopOf(top, dir) = top /\ top \in Dirs /\ IsPrefix(Resolve(top), Resolve(dir))
<1>1. TopOf(top, dir) = top /\ top # None /\ IsPrefix(top, Resolve(dir))
  BY DEF TopOf
<1>2. top \in Dirs
  BY <1>1, WorldsAssumption
<1> QED
  BY <1>1, <1>2, RealNames

\* Under --walk git the tree root is the top of the repository the process works in,
\* or there is none (determineTreeRoot, config.go:415-428), however slow git is.
THEOREM GitRootCorrect ==
  ASSUME NamedAbsolutely(Worlds)
  PROVE  Spec => []GitRootOrNone
<1>1. Decided /\ ProbeInv => GitRootOrNone
  <2> SUFFICES ASSUME Decided, ProbeInv, at = "ready", opts.walk = "git", RootOptions = {}
               PROVE  root = TopOf(world.git, cwd)
    BY DEF GitRootOrNone
  <2>1. root = TopOf(world.git, wd)
    BY DEF ProbeInv
  <2>2. wd = cwd
    BY WorkingDirKept DEF AfterMerge
  <2> QED
    BY <2>1, <2>2
<1> QED
  BY <1>1, ProbeSpec, PTL

\* The tree root covers the working directory, whatever repositories and config
\* files there are (config.go:446-470): with a config file elsewhere, too, whose
\* directory the documents take for the root (conformist.toml.5.scd:49-51).
THEOREM CoversCorrect ==
  ASSUME NamedAbsolutely(Worlds)
  PROVE  Spec => []RootCoversWork
<1>1. Decided /\ ProbeInv => RootCoversWork
  <2> SUFFICES ASSUME Decided, ProbeInv, at = "ready", RootOptions = {}
               PROVE  IsPrefix(root, cwd) \/ IsPrefix(Resolve(root), Resolve(cwd))
    BY DEF RootCoversWork
  <2>1. wd = cwd
    BY WorkingDirKept DEF AfterMerge
  <2>2. world \in Worlds /\ cwd \in Seq(STRING) /\ root \in Seq(STRING) /\ root # None
    BY NoneAssumption DEF Decided, EnvInv, TypeInv
  <2>3. \/ root = TopOf(world.git, wd)
        \/ root = TopOf(world.jujutsu, wd)
        \/ root = Beside
    BY DEF ProbeInv
  <2>4. CASE root = TopOf(world.git, wd)
    BY <2>1, <2>2, <2>4, TopAbove
  <2>5. CASE root = TopOf(world.jujutsu, wd)
    BY <2>1, <2>2, <2>5, TopAbove
  <2>6. CASE root = Beside
    <3>1. CASE ConfigAbove(wd)
      BY <2>1, <2>6, <3>1 DEF Beside, ConfigAbove
    <3>2. CASE ~ConfigAbove(wd)
      <4>1. root = cwd
        BY <2>1, <2>6, <3>2 DEF Beside
      <4> QED
        BY <2>2, <4>1, PrefixOrder
    <3> QED
      BY <3>1, <3>2
  <2> QED
    BY <2>3, <2>4, <2>5, <2>6
<1> QED
  BY <1>1, ProbeSpec, PTL

\* With -C the tree root is the one of the directory it names (config.go:187-189):
\* but for relative names, as the run startup_relative_dir shows.
THEOREM StartedThereCorrect ==
  ASSUME NamedAbsolutely(Worlds)
  PROVE  Spec => []AsIfStartedThere
<1>1. Decided /\ ProbeInv => AsIfStartedThere
  <2> SUFFICES ASSUME Decided, ProbeInv, at = "reader", RootOptions = {}, ~hiccup
               PROVE  root = RootFrom(cwd)
    BY DEF AsIfStartedThere
  <2>1. root = RootFrom(wd)
    BY DEF ProbeInv
  <2>2. wd = cwd
    BY WorkingDirKept DEF AfterMerge
  <2> QED
    BY <2>1, <2>2
<1> QED
  BY <1>1, ProbeSpec, PTL

-----------------------------------------------------------------------------
(* The search for the config file.                                         *)

\* Nobody says where the config file is.
Searching == Chosen = None /\ ~InPrjRoot

Source == SearchFrom(cwd)

\* The search goes upward from the working directory.
AboveInv ==
  /\ at = "search" => Searching /\ IsPrefix(here, Source)
  /\ at \notin {"env", "chdir"} /\ Searching /\ config # None =>
       config.dir.abs /\ config.dir.path \in Seq(STRING) /\ IsPrefix(config.dir.path, Source)

\* What a search depends on.
LEMMA SearchKept ==
  ASSUME at \notin {"env", "chdir"}, [Next]_vars
  PROVE  /\ UNCHANGED <<world, env, cwd>> /\ at' \notin {"env", "chdir"}
         /\ Chosen' = Chosen /\ InPrjRoot' = InPrjRoot /\ Searching' = Searching
         /\ Source' = Source /\ Ceilings' = Ceilings
         /\ \A d, n : IsFile(d, n)' = IsFile(d, n)
<1>1. UNCHANGED <<world, env, cwd>> /\ at' \notin {"env", "chdir"}
  BY Frame
<1>2. \A l : Layer(l)' = Layer(l)
  BY <1>1 DEF Layer
<1>3. Chosen' = Chosen /\ CeilingList' = CeilingList
  BY <1>1, <1>2 DEF Chosen, CeilingList
<1>4. \A d, n : IsFile(d, n)' = IsFile(d, n)
  BY <1>1 DEF IsFile
<1>5. Ceilings' = Ceilings
  BY <1>3 DEF Ceilings, Exists
<1>6. Source' = Source
  BY <1>1, <1>5 DEF Source, SearchFrom, Exists
<1>7. InPrjRoot' = InPrjRoot
  <2>1. Abs(world.prj)' = Abs(world.prj)
    BY <1>1 DEF Abs, Getwd
  <2>2. Find(Abs(world.prj), ConfigNames)' = Find(Abs(world.prj), ConfigNames)
    BY <1>1, <2>1 DEF Find, IsFile
  <2> QED
    BY <1>1, <1>3, <2>2 DEF InPrjRoot
<1> QED
  BY <1>1, <1>3, <1>4, <1>5, <1>6, <1>7 DEF Searching

LEMMA SourceTyped ==
  ASSUME TypeInv
  PROVE  Source \in Seq(STRING)
  BY SearchFromTyped DEF Source, TypeInv

\* Where the search goes next, and what it finds.
LEMMA SearchCases ==
  ASSUME SearchConfig
  PROVE  /\ at = "search"
         /\ \/ \E i \in Find(here, ConfigNames) :
                 /\ config' = [dir |-> Absolute(here), name |-> ConfigNames[i]]
                 /\ at' \in {"merge", "failed"}
            \/ /\ Find(here, ConfigNames) = {} /\ config' = config
               /\ \/ at' = "failed" /\ SearchEnds(here)
                  \/ at' = "search" /\ ~SearchEnds(here) /\ here' = Front(here)
  BY DEF SearchConfig, Using, Read, GoTo

LEMMA AboveStep ==
  ASSUME TypeInv, DirInv, AboveInv, [Next]_vars
  PROVE  AboveInv'
<1>1. CASE UNCHANGED vars
  <2>1. CASE at \in {"env", "chdir"}
    BY <1>1, <2>1 DEF vars, AboveInv
  <2>2. CASE at \notin {"env", "chdir"}
    BY <1>1, <2>2, SearchKept DEF vars, AboveInv
  <2> QED
    BY <2>1, <2>2
<1>2. CASE at \in {"env", "chdir"} /\ ~UNCHANGED vars
  <2>1. config' = None /\ at' # "search"
    BY <1>2, Frame DEF DirInv
  <2> QED
    BY <2>1 DEF AboveInv
<1>3. CASE LoadConfig
  <2>1. at = "config" /\ at' \in {"merge", "failed", "search"} /\ config = None
    BY <1>3 DEF LoadConfig, Read, GoTo, DirInv
  <2>2. Searching' = Searching /\ Source' = Source
    BY <2>1, SearchKept
  <2>3. CASE Chosen # None \/ InPrjRoot
    <3>1. ~Searching /\ at' # "search"
      BY <1>3, <2>3 DEF LoadConfig, Read, GoTo, Searching, InPrjRoot
    <3> QED
      BY <2>2, <3>1 DEF AboveInv
  <2>4. CASE Chosen = None /\ ~InPrjRoot
    <3>1. here' = Source /\ config' = None /\ Searching
      BY <1>3, <2>1, <2>4 DEF LoadConfig, Source, Searching
    <3>2. IsPrefix(Source, Source)
      BY SourceTyped, PrefixOrder
    <3> QED
      BY <2>2, <3>1, <3>2 DEF AboveInv
  <2> QED
    BY <2>3, <2>4
<1>4. CASE SearchConfig
  <2>1. /\ at = "search" /\ Searching /\ IsPrefix(here, Source) /\ here \in Seq(STRING)
        /\ config = None /\ Source \in Seq(STRING)
    BY <1>4, SourceTyped DEF SearchConfig, AboveInv, TypeInv, DirInv
  <2>2. Searching' = Searching /\ Source' = Source
    BY <2>1, SearchKept
  <2>3. CASE \E i \in Find(here, ConfigNames) :
               /\ config' = [dir |-> Absolute(here), name |-> ConfigNames[i]]
               /\ at' \in {"merge", "failed"}
    <3>1. config'.dir.abs /\ config'.dir.path = here
      BY <2>3 DEF Absolute
    <3> QED
      BY <2>1, <2>2, <2>3, <3>1 DEF AboveInv
  <2>4. CASE config' = config /\ at' = "failed"
    BY <2>1, <2>4 DEF AboveInv
  <2>5. CASE config' = config /\ ~SearchEnds(here) /\ here' = Front(here)
    <3>1. here # <<>>
      BY <2>5 DEF SearchEnds
    <3>2. Front(here) \in Seq(STRING) /\ IsPrefix(Front(here), here)
      BY <2>1, <3>1, FrontPrefix
    <3>3. IsPrefix(Front(here), Source)
      BY <2>1, <3>2, PrefixOrder
    <3> QED
      BY <2>1, <2>2, <2>5, <3>3 DEF AboveInv
  <2> QED
    BY <1>4, <2>3, <2>4, <2>5, SearchCases
<1>5. CASE at \notin {"env", "chdir", "config", "search"}
  <2>1. config' = config /\ at' # "search"
    BY <1>5, Frame
  <2>2. Searching' = Searching /\ Source' = Source
    BY <1>5, SearchKept
  <2> QED
    BY <1>5, <2>1, <2>2 DEF AboveInv
<1>6. at = "config" /\ ~UNCHANGED vars => LoadConfig
  BY DEF Next, ReadEnv, ChangeDir, LoadConfig, SearchConfig, Merge, ChooseRoot,
         SearchRootFile, ProbeGit, ProbeJujutsu, FallbackRoot, OpenReaders
<1>7. at = "search" /\ ~UNCHANGED vars => SearchConfig
  BY DEF Next, ReadEnv, ChangeDir, LoadConfig, SearchConfig, Merge, ChooseRoot,
         SearchRootFile, ProbeGit, ProbeJujutsu, FallbackRoot, OpenReaders
<1> QED
  BY <1>1, <1>2, <1>3, <1>4, <1>5, <1>6, <1>7

LEMMA AboveSpec == Spec => [](Decided /\ ProbeInv /\ AboveInv)
<1>1. Init => AboveInv
  BY DEF Init, AboveInv
<1>2. Decided /\ AboveInv /\ [Next]_vars => AboveInv'
  BY AboveStep DEF Decided
<1> QED
  BY <1>1, <1>2, ProbeSpec, PTL DEF Spec

\* Where no repository and no option decides, a config file found by searching makes
\* its directory the tree root: from a subdirectory the whole tree is walked
\* (config.go:452-455), for any directories, ceilings and config files.
THEOREM WholeTreeCorrect ==
  ASSUME NamedAbsolutely(Worlds)
  PROVE  Spec => []WholeTreeFromBelow
<1>1. Decided /\ ProbeInv /\ AboveInv => WholeTreeFromBelow
  <2> SUFFICES ASSUME Decided, ProbeInv, AboveInv,
                      at = "ready", RootOptions = {}, Chosen = None, ~InPrjRoot,
                      world.git = None, world.jujutsu = None, Resolve(cwd) = cwd
               PROVE  root = config.dir.path
    BY DEF WholeTreeFromBelow
  <2>1. wd = cwd
    BY WorkingDirKept DEF AfterMerge
  <2>2. root \in Seq(STRING) /\ config # None
    BY DEF Decided, TypeInv, AfterMerge
  <2>3. TopOf(world.git, wd) = None /\ TopOf(world.jujutsu, wd) = None
    BY DEF TopOf
  <2>4. root = Beside
    BY <2>2, <2>3, NoneAssumption DEF ProbeInv
  <2>5. Source = cwd
    BY DEF Source, SearchFrom
  <2>6. config.dir.abs /\ IsPrefix(config.dir.path, cwd)
    BY <2>2, <2>5 DEF AboveInv, Searching
  <2> QED
    BY <2>1, <2>4, <2>6 DEF Beside, ConfigAbove
<1> QED
  BY <1>1, AboveSpec, PTL

-----------------------------------------------------------------------------
(* The nearest config file.                                                *)

\* Directory d may be searched from directory from under the ceilings C.
Open(d, from, C) == d = from \/ \A c \in C : ~(IsPrefix(d, c) /\ IsPrefix(c, from) /\ c # from)

\* Among the files fs there is a config file in d.
Holds(d, fs) == \E i \in DOMAIN ConfigNames : <<Resolve(d), ConfigNames[i]>> \in fs

\* There is none between d and from.
NoneBelow(d, from, fs) ==
  \A e \in Seq(STRING) : IsPrefix(e, from) /\ Len(e) > Len(d) => ~Holds(e, fs)

\* The file c is the one preferred in its directory.
Preferred(c, fs) ==
  \E j \in DOMAIN ConfigNames :
    /\ c.name = ConfigNames[j]
    /\ \A i \in DOMAIN ConfigNames : <<Resolve(c.dir.path), ConfigNames[i]>> \in fs => j <= i

\* The search has left nothing out, found the nearest, or failed for good reason.
NearInv ==
  /\ at = "search" => Open(here, Source, Ceilings) /\ NoneBelow(here, Source, world.files)
  /\ at \notin {"env", "chdir"} /\ Searching /\ config # None =>
       /\ Open(config.dir.path, Source, Ceilings) /\ Holds(config.dir.path, world.files)
       /\ NoneBelow(config.dir.path, Source, world.files) /\ Preferred(config, world.files)
       /\ Exists(cwd)
  /\ at = "failed" /\ config = None /\ Searching
       /\ Exists(AbsFrom(world.start, Setting("workingDir"))) =>
       /\ Exists(cwd)
       /\ \A d \in Seq(STRING) :
            IsPrefix(d, Source) /\ Open(d, Source, Ceilings) => ~Holds(d, world.files)

\* Find looks at all the names.
LEMMA FindIs ==
  ASSUME NEW d
  PROVE  /\ Find(d, ConfigNames) = {} => ~Holds(d, world.files)
         /\ \A i \in Find(d, ConfigNames) :
              /\ Holds(d, world.files) /\ i \in DOMAIN ConfigNames
              /\ \A j \in DOMAIN ConfigNames : <<Resolve(d), ConfigNames[j]>> \in world.files => i <= j
<1>1. DOMAIN ConfigNames = 1 .. 4
  BY DEF ConfigNames
<1> DEFINE F(i) == <<Resolve(d), ConfigNames[i]>> \in world.files
<1>2. Find(d, ConfigNames) = {i \in 1 .. 4 : F(i) /\ \A j \in 1 .. 4 : j < i => ~F(j)}
  BY <1>1 DEF Find, IsFile
<1>3. Holds(d, world.files) <=> \E i \in 1 .. 4 : F(i)
  BY <1>1 DEF Holds
<1> HIDE DEF F
<1>4. ASSUME Find(d, ConfigNames) = {}
      PROVE  ~Holds(d, world.files)
  <2>1. \A i \in 1 .. 4 : ~(F(i) /\ \A j \in 1 .. 4 : j < i => ~F(j))
    BY <1>2, <1>4
  <2>2. ~F(1)
    BY <2>1
  <2>3. ~F(2)
    <3>1. \A j \in 1 .. 4 : j < 2 => j = 1
      OBVIOUS
    <3> QED
      BY <2>1, <2>2, <3>1
  <2>4. ~F(3)
    <3>1. \A j \in 1 .. 4 : j < 3 => j = 1 \/ j = 2
      OBVIOUS
    <3> QED
      BY <2>1, <2>2, <2>3, <3>1
  <2>5. ~F(4)
    <3>1. \A j \in 1 .. 4 : j < 4 => j = 1 \/ j = 2 \/ j = 3
      OBVIOUS
    <3> QED
      BY <2>1, <2>2, <2>3, <2>4, <3>1
  <2>6. \A i \in 1 .. 4 : i = 1 \/ i = 2 \/ i = 3 \/ i = 4
    OBVIOUS
  <2> QED
    BY <1>3, <2>2, <2>3, <2>4, <2>5, <2>6
<1>5. ASSUME NEW i \in Find(d, ConfigNames)
      PROVE  /\ Holds(d, world.files) /\ i \in 1 .. 4
             /\ \A j \in 1 .. 4 : F(j) => i <= j
  BY <1>2, <1>3
<1> QED
  BY <1>1, <1>4, <1>5 DEF F

\* The ceilings are directory names.
LEMMA CeilingsTyped ==
  ASSUME EnvInv
  PROVE  /\ CeilingList \in Seq(PathNames \cup {Empty}) /\ Ceilings \in SUBSET Seq(STRING)
         /\ CeilingList # <<>> => \E u \in world.given : u[2] = "ceilings" /\ u[3] = CeilingList
<1>1. CeilingList \in Seq(PathNames \cup {Empty}) => Ceilings \in SUBSET Seq(STRING)
  <2> SUFFICES ASSUME CeilingList \in Seq(PathNames \cup {Empty}), NEW c \in Ceilings
               PROVE  c \in Seq(STRING)
    OBVIOUS
  <2>1. PICK i \in DOMAIN CeilingList :
          /\ CeilingList[i] # Empty
          /\ c = CeilingList[i].path \/ c = Resolve(CeilingList[i].path)
    BY DEF Ceilings
  <2>2. CeilingList[i] \in PathNames
    BY <2>1
  <2>3. CeilingList[i].path \in Seq(STRING)
    BY <2>2 DEF PathNames
  <2> QED
    BY <2>1, <2>3, ResolveTyped
<1>2. CASE IsSet(env, "ceilings")
  <2>1. PICK s \in env : s[1] = "ceilings" /\ Get(env, "ceilings") = s[2]
    BY <1>2, GetIsSet
  <2>2. CeilingList = s[2] /\ Values("ceilings") = Seq(PathNames \cup {Empty})
    BY <1>2, <2>1 DEF CeilingList, Values
  <2>3. CeilingList \in Seq(PathNames \cup {Empty})
    BY <2>1, <2>2, EnvTyped
  <2>4. \E u \in world.given : u[2] = "ceilings" /\ u[3] = CeilingList
    BY <2>1, <2>2, EnvGiven
  <2> QED
    BY <1>1, <2>3, <2>4
<1>3. CASE ~IsSet(env, "ceilings")
  <2>1. CeilingList = <<>>
    BY <1>3 DEF CeilingList
  <2> QED
    BY <1>1, <2>1
<1> QED
  BY <1>2, <1>3

\* One directory up: nothing between it and the one before is left out.
LEMMA OneUp ==
  ASSUME NEW d \in Seq(STRING), d # <<>>, NEW from \in Seq(STRING), IsPrefix(d, from),
         NEW C \in SUBSET Seq(STRING), NEW fs, ~Holds(d, fs), NoneBelow(d, from, fs),
         Open(d, from, C)
  PROVE  /\ Front(d) \notin C => Open(Front(d), from, C) /\ NoneBelow(Front(d), from, fs)
         /\ Front(d) \in C =>
              \A e \in Seq(STRING) : IsPrefix(e, from) /\ Open(e, from, C) => ~Holds(e, fs)
<1> DEFINE f == Front(d)
<1>1. /\ f \in Seq(STRING) /\ Len(f) = Len(d) - 1 /\ Len(d) \in Nat \ {0} /\ IsPrefix(f, d)
      /\ Len(from) \in Nat /\ Len(d) <= Len(from)
  BY FrontPrefix, Prefix
<1> HIDE DEF f
<1>2. IsPrefix(f, from)
  BY <1>1, PrefixOrder
<1>3. ASSUME NEW e \in Seq(STRING), IsPrefix(e, from), Len(e) >= Len(d)
      PROVE  ~Holds(e, fs)
  <2>1. CASE Len(e) > Len(d)
    BY <1>3, <2>1 DEF NoneBelow
  <2>2. CASE Len(e) = Len(d)
    <3>1. IsPrefix(e, d)
      BY <1>1, <1>3, <2>2, PrefixesComparable
    <3>2. e = d
      BY <1>1, <2>2, <3>1, PrefixOrder
    <3> QED
      BY <3>2
  <2>3. Len(e) \in Nat
    OBVIOUS
  <2> QED
    BY <1>1, <1>3, <2>1, <2>2, <2>3
<1>4. ASSUME f \notin C
      PROVE  Open(f, from, C) /\ NoneBelow(f, from, fs)
  <2>1. NoneBelow(f, from, fs)
    <3>1. \A e \in Seq(STRING) : Len(e) > Len(f) => Len(e) >= Len(d)
      BY <1>1
    <3> QED
      BY <1>3, <3>1 DEF NoneBelow
  <2>2. ASSUME NEW c \in C, IsPrefix(f, c), IsPrefix(c, from), c # from
        PROVE  FALSE
    <3>1. c \in Seq(STRING) /\ Len(c) \in Nat
      OBVIOUS
    <3>2. Len(c) > Len(f)
      <4>1. ~(Len(f) >= Len(c))
        BY <1>1, <1>4, <2>2, <3>1, PrefixOrder
      <4> QED
        BY <1>1, <3>1, <4>1
    <3>3. IsPrefix(d, c)
      BY <1>1, <2>2, <3>1, <3>2, PrefixesComparable
    <3>4. d = from
      BY <2>2, <3>3 DEF Open
    <3>5. c = from
      BY <2>2, <3>1, <3>3, <3>4, Prefix, PrefixOrder
    <3> QED
      BY <2>2, <3>5
  <2> QED
    BY <2>1, <2>2 DEF Open
<1>5. ASSUME f \in C, NEW e \in Seq(STRING), IsPrefix(e, from), Open(e, from, C), Holds(e, fs)
      PROVE  FALSE
  <2>1. Len(e) \in Nat /\ Len(e) < Len(d)
    BY <1>1, <1>3, <1>5
  <2>2. Len(e) <= Len(f) /\ Len(f) < Len(from)
    BY <1>1, <2>1
  <2>3. IsPrefix(e, f)
    BY <1>1, <1>2, <1>5, <2>2, PrefixesComparable
  <2>4. f # from /\ e # from
    BY <1>1, <2>1, <2>2
  <2> QED
    BY <1>2, <1>5, <2>3, <2>4 DEF Open
<1> QED
  BY <1>4, <1>5 DEF f

LEMMA NearStep ==
  ASSUME Decided, AboveInv, NearInv, [Next]_vars
  PROVE  NearInv'
<1>1. CASE UNCHANGED vars
  <2>1. CASE at \in {"env", "chdir"}
    BY <1>1, <2>1 DEF vars, NearInv
  <2>2. CASE at \notin {"env", "chdir"}
    <3>1. Setting("workingDir")' = Setting("workingDir")
      BY <1>1, SettingKept DEF vars
    <3>2. Exists(AbsFrom(world.start, Setting("workingDir")))'
            = Exists(AbsFrom(world.start, Setting("workingDir")))
      BY <1>1, <3>1 DEF Exists, AbsFrom, vars
    <3> QED
      BY <1>1, <2>2, <3>2, SearchKept DEF vars, NearInv, Exists
  <2> QED
    BY <2>1, <2>2
<1>2. CASE at \in {"env", "chdir"} /\ ~UNCHANGED vars
  <2>1. config' = None /\ at' # "search"
    BY <1>2, Frame DEF Decided, DirInv
  <2>2. CASE at' # "failed"
    BY <2>1, <2>2 DEF NearInv
  <2>3. CASE at' = "failed"
    <3>1. ChangeDir
      BY <1>2, <2>3 DEF Next, ReadEnv, ChangeDir, LoadConfig, SearchConfig, Merge, ChooseRoot,
         SearchRootFile, ProbeGit, ProbeJujutsu, FallbackRoot, OpenReaders, GoTo
    <3>2. world' = world /\ env' = env /\ cwd = world.start /\ ~Exists(Abs(Setting("workingDir")))
      BY <2>3, <3>1 DEF ChangeDir, GoTo, Decided, DirInv
    <3>3. Abs(Setting("workingDir")) = AbsFrom(world.start, Setting("workingDir"))
      BY <3>2 DEF Abs, Getwd
    <3>4. Setting("workingDir")' = Setting("workingDir")
      BY <3>2, SettingKept
    <3>5. ~Exists(AbsFrom(world.start, Setting("workingDir")))'
      BY <3>2, <3>3, <3>4 DEF Exists, AbsFrom
    <3> QED
      BY <2>1, <2>3, <3>5 DEF NearInv
  <2> QED
    BY <2>2, <2>3
<1>3. ASSUME at \notin {"env", "chdir"}
      PROVE  /\ UNCHANGED <<world, cwd>> /\ Searching' = Searching
             /\ Source' = Source /\ Ceilings' = Ceilings /\ (Exists(cwd))' = Exists(cwd)
  BY <1>3, SearchKept DEF Exists
<1>4. CASE LoadConfig
  <2>1. at = "config" /\ at' \in {"merge", "failed", "search"} /\ config = None
    BY <1>4 DEF LoadConfig, Read, GoTo, Decided, DirInv
  <2>2. CASE Chosen # None \/ InPrjRoot
    <3>1. ~Searching /\ at' # "search"
      BY <1>4, <2>2 DEF LoadConfig, Read, GoTo, Searching, InPrjRoot
    <3> QED
      BY <1>3, <2>1, <3>1 DEF NearInv
  <2>3. CASE Chosen = None /\ ~InPrjRoot
    <3>1. here' = Source /\ config' = None /\ at' = "search"
      BY <1>4, <2>1, <2>3 DEF LoadConfig, Source, GoTo
    <3>2. \A e \in Seq(STRING) : IsPrefix(e, Source) => ~(Len(e) > Len(Source))
      <4>1. Source \in Seq(STRING)
        BY SourceTyped DEF Decided
      <4> QED
        BY <4>1, Prefix
    <3>3. Open(Source, Source, Ceilings) /\ NoneBelow(Source, Source, world.files)
      BY <3>2 DEF Open, NoneBelow
    <3> QED
      BY <1>3, <2>1, <3>1, <3>3 DEF NearInv
  <2> QED
    BY <2>2, <2>3
<1>5. CASE SearchConfig
  <2>1. /\ at = "search" /\ Searching /\ IsPrefix(here, Source) /\ here \in Seq(STRING)
        /\ config = None /\ Source \in Seq(STRING) /\ Exists(cwd)
        /\ Open(here, Source, Ceilings) /\ NoneBelow(here, Source, world.files)
    BY <1>5, SourceTyped DEF SearchConfig, AboveInv, TypeInv, DirInv, Decided, NearInv
  <2>2. CASE \E i \in Find(here, ConfigNames) :
               /\ config' = [dir |-> Absolute(here), name |-> ConfigNames[i]]
               /\ at' \in {"merge", "failed"}
    <3>1. PICK i \in Find(here, ConfigNames) :
            /\ config' = [dir |-> Absolute(here), name |-> ConfigNames[i]]
            /\ at' \in {"merge", "failed"}
      BY <2>2
    <3>2. /\ Holds(here, world.files) /\ i \in DOMAIN ConfigNames
          /\ \A j \in DOMAIN ConfigNames : <<Resolve(here), ConfigNames[j]>> \in world.files => i <= j
      BY <3>1, FindIs
    <3>3. config'.dir.path = here /\ config'.name = ConfigNames[i]
      BY <3>1 DEF Absolute
    <3>4. Preferred(config', world.files)
      BY <3>2, <3>3 DEF Preferred
    <3>5. config' # None
      <4>1. config' \in ConfigFiles
        BY <2>1, <3>1, <3>2, NamesAssumption DEF ConfigFiles, Absolute, PathNames
      <4> QED
        BY <4>1, NoneAssumption
    <3> QED
      BY <1>3, <2>1, <3>1, <3>2, <3>3, <3>4, <3>5 DEF NearInv
  <2>3. CASE Find(here, ConfigNames) = {} /\ config' = config /\ at' = "failed" /\ SearchEnds(here)
    <3>1. ~Holds(here, world.files)
      BY <2>3, FindIs
    <3>2. ASSUME NEW d \in Seq(STRING), IsPrefix(d, Source), Open(d, Source, Ceilings)
          PROVE  ~Holds(d, world.files)
      <4>1. CASE here # <<>>
        <5>1. Front(here) \in Ceilings /\ Ceilings \in SUBSET Seq(STRING)
          BY <2>3, <4>1, CeilingsTyped DEF SearchEnds, Decided
        <5> QED
          BY <2>1, <3>1, <3>2, <4>1, <5>1, OneUp
      <4>2. CASE here = <<>>
        <5>1. CASE Len(d) > Len(here)
          BY <2>1, <3>2, <5>1 DEF NoneBelow
        <5>2. CASE d = here
          BY <3>1, <5>2
        <5>3. d = <<>> \/ Len(d) > 0
          BY EmptySeq
        <5> QED
          BY <4>2, <5>1, <5>2, <5>3
      <4> QED
        BY <4>1, <4>2
    <3> QED
      BY <1>3, <2>1, <2>3, <3>2 DEF NearInv
  <2>4. CASE /\ Find(here, ConfigNames) = {} /\ config' = config /\ at' = "search"
             /\ ~SearchEnds(here) /\ here' = Front(here)
    <3>1. ~Holds(here, world.files) /\ here # <<>> /\ Front(here) \notin Ceilings
      BY <2>4, FindIs DEF SearchEnds
    <3>2. Ceilings \in SUBSET Seq(STRING)
      BY CeilingsTyped DEF Decided
    <3>3. Open(Front(here), Source, Ceilings) /\ NoneBelow(Front(here), Source, world.files)
      BY <2>1, <3>1, <3>2, OneUp
    <3> QED
      BY <1>3, <2>1, <2>4, <3>3 DEF NearInv
  <2> QED
    BY <1>5, <2>2, <2>3, <2>4, SearchCases
<1>6. CASE at \notin {"env", "chdir", "config", "search"} /\ ~UNCHANGED vars
  <2>1. config' = config /\ at' # "search" /\ at # "failed" /\ at \in Places
    BY <1>6, Frame DEF Decided, TypeInv, Next, ReadEnv, ChangeDir, LoadConfig,
       SearchConfig, Merge, ChooseRoot, SearchRootFile, ProbeGit, ProbeJujutsu, FallbackRoot,
       OpenReaders
  <2>2. config # None
    BY <1>6, <2>1 DEF Places, AfterMerge, Decided, TypeInv
  <2> QED
    BY <1>3, <1>6, <2>1, <2>2 DEF NearInv
<1>7. at = "config" /\ ~UNCHANGED vars => LoadConfig
  BY DEF Next, ReadEnv, ChangeDir, LoadConfig, SearchConfig, Merge, ChooseRoot,
         SearchRootFile, ProbeGit, ProbeJujutsu, FallbackRoot, OpenReaders
<1>8. at = "search" /\ ~UNCHANGED vars => SearchConfig
  BY DEF Next, ReadEnv, ChangeDir, LoadConfig, SearchConfig, Merge, ChooseRoot,
         SearchRootFile, ProbeGit, ProbeJujutsu, FallbackRoot, OpenReaders
<1> QED
  BY <1>1, <1>2, <1>4, <1>5, <1>6, <1>7, <1>8

\* The ceilings with their links followed.
Listed == {j \in DOMAIN CeilingList : CeilingList[j] # Empty /\ CeilingList[j].abs}
Barred == {Resolve(CeilingList[i].path) : i \in Listed}

\* What is above a directory is one.
LEMMA AboveDirs ==
  ASSUME NEW d \in Dirs, NEW s \in Seq(STRING), IsPrefix(s, d)
  PROVE  s \in Dirs
<1>1. d \in Seq(STRING)
  BY RealNames
<1>2. Len(s) \in 0 .. Len(d) /\ s = SubSeq(d, 1, Len(s))
  BY <1>1, Beginnings
<1> QED
  BY <1>2, DirsAssumption

\* Above a directory, the ceilings are those with their links followed.
LEMMA CeilingsReal ==
  ASSUME RealCeilings, EnvInv, NEW d \in Dirs, NEW c \in Seq(STRING), IsPrefix(c, d)
  PROVE  c \in Ceilings <=> c \in Barred
<1> DEFINE Path(i) == CeilingList[i].path
           Verbatim(i) == \E j \in 1 .. i : CeilingList[j] = Empty
           Ceiling(i) == IF Verbatim(i) \/ ~Exists(Path(i)) THEN Path(i) ELSE Resolve(Path(i))
<1>1. Ceilings = {Ceiling(i) : i \in Listed} /\ Barred = {Resolve(Path(i)) : i \in Listed}
  BY DEF Ceilings, Barred, Listed
<1>2. c \in Dirs
  BY AboveDirs
<1>3. ASSUME NEW i \in Listed, Verbatim(i)
      PROVE  Resolve(Path(i)) = Path(i)
  <2>1. i \in DOMAIN CeilingList /\ CeilingList[i] # Empty /\ CeilingList[i].abs
    BY DEF Listed
  <2>2. CeilingList \in Seq(PathNames \cup {Empty}) /\ CeilingList # <<>>
    BY <2>1, CeilingsTyped
  <2>3. PICK j \in 1 .. i : CeilingList[j] = Empty
    BY <1>3
  <2>4. j \in DOMAIN CeilingList /\ j < i
    BY <2>1, <2>2, <2>3
  <2>5. PICK u \in world.given : u[2] = "ceilings" /\ u[3] = CeilingList
    BY <2>2, CeilingsTyped
  <2> QED
    BY <2>1, <2>3, <2>4, <2>5 DEF RealCeilings, EnvInv
<1>4. ASSUME NEW i \in Listed, Ceiling(i) = c
      PROVE  Resolve(Path(i)) = c
  <2>1. CASE Ceiling(i) = Path(i)
    BY <1>2, <1>4, <2>1, RealNames
  <2>2. CASE Ceiling(i) = Resolve(Path(i))
    BY <1>4, <2>2
  <2> QED
    BY <2>1, <2>2
<1>5. ASSUME NEW i \in Listed, Resolve(Path(i)) = c
      PROVE  Ceiling(i) = c
  <2>1. Exists(Path(i))
    BY <1>2, <1>5 DEF Exists
  <2> QED
    BY <1>3, <1>5, <2>1
<1> HIDE DEF Path, Verbatim, Ceiling
<1> QED
  BY <1>1, <1>4, <1>5

\* What may be searched is what the search may look at.
LEMMA SearchableIs ==
  ASSUME RealCeilings, EnvInv, TypeInv, Exists(cwd), NEW d
  PROVE  d \in Searchable(cwd) <=>
           d \in Seq(STRING) /\ IsPrefix(d, Source) /\ Open(d, Source, Ceilings)
<1> DEFINE from == IF Barred = {} THEN cwd ELSE Resolve(cwd)
<1>1. Barred = {} <=> Ceilings = {}
  BY DEF Barred, Listed, Ceilings
<1>2. from = Source
  BY <1>1 DEF Source, SearchFrom
<1>3. Source \in Seq(STRING)
  BY SourceTyped
<1>4. d \in Searchable(cwd) <=>
        /\ \E n \in 0 .. Len(Source) : d = SubSeq(Source, 1, n)
        /\ d = Source \/ \A c \in Barred : ~(IsPrefix(d, c) /\ IsPrefix(c, Source) /\ c # Source)
  BY <1>2 DEF Searchable, Barred, Listed
<1>5. (\E n \in 0 .. Len(Source) : d = SubSeq(Source, 1, n))
        <=> d \in Seq(STRING) /\ IsPrefix(d, Source)
  <2>1. ASSUME NEW n \in 0 .. Len(Source), d = SubSeq(Source, 1, n)
        PROVE  d \in Seq(STRING) /\ IsPrefix(d, Source)
    BY <1>3, <2>1, Beginnings
  <2>2. ASSUME d \in Seq(STRING), IsPrefix(d, Source)
        PROVE  \E n \in 0 .. Len(Source) : d = SubSeq(Source, 1, n)
    BY <1>3, <2>2, Beginnings
  <2> QED
    BY <2>1, <2>2
<1>6. Barred # {} => Source \in Dirs
  BY <1>2 DEF Exists
<1>7. \A c \in Ceilings \cup Barred : c \in Seq(STRING)
  <2>1. \A c \in Ceilings : c \in Seq(STRING)
    BY CeilingsTyped
  <2>2. ASSUME NEW i \in Listed
        PROVE  Resolve(CeilingList[i].path) \in Seq(STRING)
    <3>1. CeilingList[i] \in PathNames
      BY CeilingsTyped DEF Listed
    <3>2. CeilingList[i].path \in Seq(STRING)
      BY <3>1 DEF PathNames
    <3> QED
      BY <3>2, ResolveTyped
  <2> QED
    BY <2>1, <2>2 DEF Barred
<1>8. ASSUME NEW c \in Ceilings \cup Barred, IsPrefix(c, Source)
      PROVE  c \in Ceilings <=> c \in Barred
  <2>1. Source \in Dirs
    BY <1>1, <1>6
  <2> QED
    BY <1>7, <1>8, <2>1, CeilingsReal
<1>9. (\A c \in Barred : ~(IsPrefix(d, c) /\ IsPrefix(c, Source) /\ c # Source))
        <=> (\A c \in Ceilings : ~(IsPrefix(d, c) /\ IsPrefix(c, Source) /\ c # Source))
  BY <1>8
<1> QED
  BY <1>4, <1>5, <1>9 DEF Open

LEMMA NearSpec == Spec => [](Decided /\ AboveInv /\ NearInv)
<1>1. Init => NearInv
  BY DEF Init, NearInv
<1>2. Decided /\ AboveInv /\ NearInv /\ [Next]_vars => NearInv'
  BY NearStep
<1> QED
  BY <1>1, <1>2, AboveSpec, PTL DEF Spec

\* Nobody having said where the config file is, it is the nearest one that the
\* ceilings leave in sight, the preferred one of its directory, and the search fails
\* only if there is none (Find, FindUp and eachDir, config.go:583-703), for any directories,
\* links, ceilings and files.
THEOREM NearestCorrect ==
  ASSUME RealCeilings
  PROVE  Spec => []ConfigNearest
<1>1. Decided /\ AboveInv /\ NearInv => ConfigNearest
  <2> SUFFICES ASSUME Decided, AboveInv, NearInv, at \notin {"env", "chdir"}, Searching
               PROVE  LET holders == {d \in Searchable(cwd) :
                                        \E i \in DOMAIN ConfigNames : IsFile(d, ConfigNames[i])}
                      IN  /\ at = "failed" /\ config = None
                               /\ Exists(AbsFrom(world.start, Setting("workingDir")))
                             => holders = {}
                          /\ config # None =>
                               /\ config.dir.path \in holders
                               /\ \A d \in holders : Len(d) <= Len(config.dir.path)
                               /\ \A i \in DOMAIN ConfigNames :
                                    IsFile(config.dir.path, ConfigNames[i]) =>
                                      \E j \in 1 .. i : config.name = ConfigNames[j]
    BY DEF ConfigNearest, Searching
  <2> DEFINE holders == {d \in Searchable(cwd) :
                           \E i \in DOMAIN ConfigNames : IsFile(d, ConfigNames[i])}
  <2>1. ASSUME Exists(cwd), NEW d
        PROVE  d \in holders <=> /\ d \in Seq(STRING) /\ IsPrefix(d, Source)
                                 /\ Open(d, Source, Ceilings) /\ Holds(d, world.files)
    BY <2>1, SearchableIs DEF Decided, Holds, IsFile
  <2> HIDE DEF holders
  <2>2. ASSUME at = "failed", config = None,
               Exists(AbsFrom(world.start, Setting("workingDir")))
        PROVE  holders = {}
    BY <2>1, <2>2 DEF NearInv
  <2>3. ASSUME config # None
        PROVE  /\ config.dir.path \in holders
               /\ \A d \in holders : Len(d) <= Len(config.dir.path)
               /\ \A i \in DOMAIN ConfigNames :
                    IsFile(config.dir.path, ConfigNames[i]) =>
                      \E j \in 1 .. i : config.name = ConfigNames[j]
    <3>1. /\ config.dir.path \in Seq(STRING) /\ IsPrefix(config.dir.path, Source)
          /\ Open(config.dir.path, Source, Ceilings) /\ Holds(config.dir.path, world.files)
          /\ NoneBelow(config.dir.path, Source, world.files) /\ Preferred(config, world.files)
          /\ Exists(cwd)
      BY <2>3 DEF AboveInv, NearInv
    <3>2. config.dir.path \in holders
      BY <2>1, <3>1
    <3>3. ASSUME NEW d \in holders
          PROVE  Len(d) <= Len(config.dir.path)
      <4>1. d \in Seq(STRING) /\ IsPrefix(d, Source) /\ Holds(d, world.files)
        BY <2>1, <3>1, <3>3
      <4>2. ~(Len(d) > Len(config.dir.path))
        BY <3>1, <4>1 DEF NoneBelow
      <4> QED
        BY <3>1, <4>1, <4>2
    <3>4. ASSUME NEW i \in DOMAIN ConfigNames, IsFile(config.dir.path, ConfigNames[i])
          PROVE  \E j \in 1 .. i : config.name = ConfigNames[j]
      <4>1. DOMAIN ConfigNames = 1 .. 4
        BY DEF ConfigNames
      <4>2. PICK j \in DOMAIN ConfigNames : config.name = ConfigNames[j] /\ j <= i
        BY <3>1, <3>4 DEF Preferred, IsFile
      <4>3. j \in 1 .. i
        BY <4>1, <4>2
      <4> QED
        BY <4>2, <4>3
    <3> QED
      BY <3>2, <3>3, <3>4
  <2> QED
    BY <2>2, <2>3 DEF holders
<1> QED
  BY <1>1, NearSpec, PTL

=============================================================================
