----------------------------- MODULE Containers -----------------------------
(***************************************************************************)
(* Python's containers.  Nested dicts are functions from the paths of      *)
(* their leaves to the leaves: no path is a prefix of another, and empty   *)
(* dicts are left out.  Lists and ordered dicts are sequences.  Stores     *)
(* takes these operators into ten of its parts, and the provers read them  *)
(* ten times: the module holds what those use, and extends nothing larger. *)
(***************************************************************************)
EXTENDS Integers, Sequences, FiniteSets

\* A list as a stack, as a collection, and as the beginning of another.
Top(s) == s[Len(s)]
Popped(s) == SubSeq(s, 1, Len(s) - 1)
Elements(s) == {s[i] : i \in DOMAIN s}
Begins(p, q) == Len(p) <= Len(q) /\ SubSeq(p, 1, Len(p)) = SubSeq(q, 1, Len(p))

Lowest(S) == CHOOSE n \in S : \A m \in S : n <= m

\* p and q cannot both be paths of one tree.
Conflict(p, q) == Begins(p, q) \/ Begins(q, p)

IsTree(t) == \A p, q \in DOMAIN t : Conflict(p, q) => p = q

NoTree == [p \in {} |-> p]

\* Merging dict by dict: what the overlay holds replaces what is in its way.
Overlay(base, overlay) ==
  LET kept == {p \in DOMAIN base : \A q \in DOMAIN overlay : ~Conflict(p, q)}
  IN  [p \in kept \union DOMAIN overlay |-> IF p \in DOMAIN overlay THEN overlay[p] ELSE base[p]]

\* One leaf, and the dicts on the way to it.
SetLeaf(base, path, leaf) == Overlay(base, [p \in {path} |-> leaf])

\* The elements of s at the positions I, in their order.
Kept(s, I) ==
  LET place(i) == Cardinality({k \in I : k <= i})
  IN  [n \in 1..Cardinality(I) |-> s[CHOOSE i \in I : place(i) = n]]
=============================================================================
