---------------------------- MODULE MCRecursion ----------------------------
(***************************************************************************)
(* Instances of Recursion for TLC: the root and one more content may be    *)
(* any archive with up to two members, the third is a leaf, an archive     *)
(* that holds the root, or one that holds itself.                          *)
(***************************************************************************)
EXTENDS Recursion, TLC

MCContents == {"a", "b", "c"}

Simple(kind) == [kind |-> kind, members |-> << >>, truncated |-> FALSE]
ZipOf(members) == [kind |-> "zip", members |-> members, truncated |-> FALSE]
Has(c) == [status |-> "extracted", content |-> c]
Lost(status) == [status |-> status, content |-> "none"]

MCMembers == {Has(c) : c \in MCContents} \cup {Lost("encrypted"), Lost("directory")}
Archives == {ZipOf(m) : m \in {<<>>} \cup {<<x>> : x \in MCMembers}
                            \cup {<<x, y>> : x, y \in MCMembers}}

Kinds ==
  [a |-> Archives \cup {Simple("ole"), Simple("office"), Simple("tar"),
                        [ZipOf(<<Has("b")>>) EXCEPT !.truncated = TRUE]},
   b |-> Archives \cup {Simple("office")},
   c |-> {Simple("plain"), Simple("ole"), ZipOf(<<Has("a")>>), ZipOf(<<Has("c"), Has("b")>>)}]

MCUniverses == {u \in [MCContents -> UNION {Kinds[x] : x \in MCContents}] :
                  \A x \in MCContents : u[x] \in Kinds[x]}

\* One archive that holds two copies of the same plain file.
TwoCopies == {[a |-> ZipOf(<<Has("b"), Has("b")>>), b |-> Simple("plain"), c |-> Simple("plain")]}
\* Archives nested three deep.
Nested == {[a |-> ZipOf(<<Has("b")>>), b |-> ZipOf(<<Has("c"), Lost("encrypted")>>),
            c |-> ZipOf(<<Lost("malformed"), Lost("directory")>>)]}
=============================================================================
