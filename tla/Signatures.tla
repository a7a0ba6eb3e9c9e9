----------------------------- MODULE Signatures -----------------------------
(***************************************************************************)
(* The signature of a sequence of formatters (format/formatter.go Hash,    *)
(* format/scheduler.go formattersSignature): what is written to the hash,  *)
(* one part after the other and without separators.  A text is a sequence  *)
(* of characters; the hash itself is taken to be injective.                *)
(***************************************************************************)
EXTENDS Integers, Sequences, SequencesExt, FiniteSets

\* A formatter here has a name and options (texts), its position among the names,
\* a priority, and the size and modification time of its executable.

\* strings.Join(options, " ").
Joined(options) ==
  FlattenSeq([i \in 1 .. Len(options) |-> IF i = 1 THEN options[i] ELSE <<" ">> \o options[i]])

\* Mutant: the options are left out.
HashNoOptions(f) == f.name \o <<f.priority>> \o <<f.size, " ", f.mtime>>

\* Formatter.Hash.
Hash(f) == f.name \o Joined(f.options) \o <<f.priority>> \o <<f.size, " ", f.mtime>>

\* formatterSortFunc.
Sorted(fs) ==
  SetToSortSeq(fs, LAMBDA f, g : f.priority < g.priority
                                 \/ (f.priority = g.priority /\ f.rank < g.rank))

\* formattersSignature.
SignatureOf(fs) == FlattenSeq([i \in 1 .. Cardinality(fs) |-> Hash(Sorted(fs)[i])])
=============================================================================
