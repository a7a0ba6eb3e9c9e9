---------------------------- MODULE MCFormatCache ----------------------------
(* Values for model checking FormatCache: two formatters in two configurations *)
(* that differ in an option of one.                                            *)
EXTENDS FormatCache, Signatures

CONSTANTS p1, p2

Fmt(name, rank, options, priority, mtime) ==
  [name |-> <<name>>, rank |-> rank, options |-> options, priority |-> priority, size |-> 7,
   mtime |-> mtime]

Old      == {Fmt("b", 2, << <<"w">>, <<"4">> >>, 1, 0), Fmt("a", 1, << >>, 2, 0)}
Wider    == {Fmt("b", 2, << <<"w">>, <<"8">> >>, 1, 0), Fmt("a", 1, << >>, 2, 0)}

MCConfigs == {Old, Wider}

MCSigOf == [c \in Configs |-> SignatureOf(c)]

Interchangeable == Permutations({p1, p2})

MCFlags == {[ci |-> FALSE, clear |-> FALSE], [ci |-> TRUE, clear |-> FALSE],
            [ci |-> FALSE, clear |-> TRUE]}
=============================================================================
