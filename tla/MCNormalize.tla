------------------------------ MODULE MCNormalize ------------------------------
(* Every archive of up to three entries from the pool, as a ZIP and as a RAR. *)
EXTENDS Normalize

Plainly(s) == [stem |-> s, marks |-> <<>>]
Twice(s) == [stem |-> s, marks |-> <<2>>]
Page(dir, base, size) ==
    [dir |-> dir, base |-> base, ext |-> "jpg", of |-> NoArchive, size |-> size]
Arc(dir, stem, ext, a) ==
    [dir |-> dir, base |-> Plainly(stem), ext |-> ext, of |-> a, size |-> 1]

A == <<Plainly("A")>>

\* vol: one page; box and crate: nothing but an archive; duo: two empty ones;
\* quine: itself; bad: damaged.
MCContained ==
    [vol   |-> <<Page(<<>>, Plainly("p"), 1)>>,
     box   |-> <<Arc(<<Plainly("a")>>, "v", "rar", "vol")>>,
     crate |-> <<Arc(<<>>, "v", "zip", "box")>>,
     duo   |-> <<Arc(<<>>, "p", "zip", "empty"), Arc(<<>>, "v", "rar", "empty")>>,
     empty |-> <<>>,
     quine |-> <<Arc(<<>>, "q", "zip", "quine"), Page(<<>>, Plainly("p"), 1)>>,
     bad   |-> <<>>]
MCBroken == {"bad"}
MCLower == [s \in {"A", "a", "p", "q", "v"} |-> IF s = "A" THEN "a" ELSE s]

Pool == {Page(<<>>, Plainly("p"), 1), Page(A, Plainly("p"), 2), Page(A, Twice("p"), 1),
         Page(A \o <<Plainly("v")>>, Plainly("p"), 1), Page(<<Plainly("a")>>, Plainly("p"), 1),
         Arc(<<>>, "v", "zip", "vol"), Arc(A, "v", "zip", "vol"), Arc(<<>>, "q", "zip", "box"),
         Arc(<<>>, "q", "rar", "crate"), Arc(<<>>, "q", "zip", "duo"),
         Arc(A, "q", "zip", "quine"), Arc(A, "v", "rar", "bad"), Arc(<<>>, "v", "7z", NoArchive)}
MCSources == [kind : {"zip", "rar"}, entries : UNION {[1..n -> Pool] : n \in 1..3}]
=============================================================================
