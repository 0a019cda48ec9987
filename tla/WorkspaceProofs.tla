-------------------------- MODULE WorkspaceProofs --------------------------
(***************************************************************************)
(* Proofs about Workspace, for every set of names and contents, all limits *)
(* and any number of editors, capabilities and committers: first the       *)
(* lemmas on paths and trees, then the inductive invariant IInv, then what *)
(* follows from it.  The bytes of a tree are only ever measured, by Fits,  *)
(* so no proof has to compute a sum, the empty one of Init apart.          *)
(***************************************************************************)
EXTENDS Workspace, SequenceTheorems, FiniteSetTheorems, TLAPS

-----------------------------------------------------------------------------
(* Paths: prefixes, ancestors, and what a transfer does to a path.         *)

(* Paths are the sequences of names within the path limit.                 *)
LEMMA PathIsSeq ==
    \A p : p \in Paths <=> p \in Seq(Names) /\ Len(p) <= MaxDepth
  BY LimitsAssumption DEF Paths

(* IsPrefix, read element by element.                                      *)
LEMMA PrefixIff ==
    ASSUME NEW p \in Seq(Names), NEW q \in Seq(Names)
    PROVE  IsPrefix(p, q) <=> Len(p) <= Len(q) /\ \A i \in 1..Len(p) : p[i] = q[i]
  <1>1. ASSUME Len(p) <= Len(q)
        PROVE  /\ SubSeq(q, 1, Len(p)) \in Seq(Names)
               /\ Len(SubSeq(q, 1, Len(p))) = Len(p)
               /\ \A i \in 1..Len(p) : SubSeq(q, 1, Len(p))[i] = q[i]
    BY <1>1
  <1>2. SubSeq(p, 1, Len(p)) = p
    BY SubSeqFull
  <1>3. ASSUME Len(p) <= Len(q), \A i \in 1..Len(p) : p[i] = q[i]
        PROVE  p = SubSeq(q, 1, Len(p))
    BY <1>1, <1>3, SeqEqual
  <1> QED
    BY <1>1, <1>2, <1>3 DEF IsPrefix

(* The ancestors of a path are its proper prefixes.                        *)
LEMMA AncestorIff ==
    ASSUME NEW p \in Seq(Names), NEW r
    PROVE  r \in Ancestors(p) <=> r \in Seq(Names) /\ IsPrefix(r, p) /\ r # p
  <1>1. ASSUME NEW n \in 0..(Len(p) - 1), r = SubSeq(p, 1, n)
        PROVE  /\ r \in Seq(Names) /\ Len(r) = n
               /\ \A i \in 1..n : r[i] = p[i]
    BY <1>1
  <1>2. ASSUME r \in Ancestors(p) PROVE r \in Seq(Names) /\ IsPrefix(r, p) /\ r # p
    BY <1>1, <1>2, PrefixIff DEF Ancestors
  <1>3. ASSUME r \in Seq(Names), IsPrefix(r, p), r # p
        PROVE  r \in Ancestors(p)
    <2>1. Len(r) <= Len(p) /\ \A i \in 1..Len(r) : r[i] = p[i]
      BY <1>3, PrefixIff
    <2>2. Len(r) # Len(p)
      BY <1>3, <2>1, SeqEqual
    <2>3. r = SubSeq(p, 1, Len(r))
      BY <1>3, <2>1, SubSeqFull DEF IsPrefix
    <2>4. Len(r) \in 0..(Len(p) - 1)
      BY <1>3, <2>1, <2>2
    <2> QED
      BY <2>3, <2>4 DEF Ancestors
  <1> QED
    BY <1>2, <1>3

(* Prefixes of paths are a partial order with the root below everything,   *)
(* in which the prefixes of one path are linearly ordered.                 *)
LEMMA PrefixOrder ==
    ASSUME NEW p \in Seq(Names), NEW q \in Seq(Names), NEW r \in Seq(Names)
    PROVE  /\ IsPrefix(p, p) /\ IsPrefix(Root, p)
           /\ IsPrefix(p, q) /\ IsPrefix(q, r) => IsPrefix(p, r)
           /\ IsPrefix(p, q) /\ IsPrefix(q, p) => p = q
           /\ IsPrefix(p, r) /\ IsPrefix(q, r) => IsPrefix(p, q) \/ IsPrefix(q, p)
  <1>1. IsPrefix(p, p) /\ IsPrefix(Root, p)
    <2>1. Root \in Seq(Names) /\ Len(Root) = 0
      BY DEF Root
    <2>2. IsPrefix(Root, p)
      <3>1. Len(Root) <= Len(p) /\ \A i \in 1..Len(Root) : Root[i] = p[i]
        BY <2>1
      <3> QED
        BY <2>1, <3>1, PrefixIff
    <2> QED
      BY <2>2, PrefixIff
  <1>2. IsPrefix(p, q) /\ IsPrefix(q, r) => IsPrefix(p, r)
    BY PrefixIff
  <1>3. IsPrefix(p, q) /\ IsPrefix(q, p) => p = q
    BY PrefixIff, SeqEqual
  <1>4. IsPrefix(p, r) /\ IsPrefix(q, r) => IsPrefix(p, q) \/ IsPrefix(q, p)
    BY PrefixIff
  <1> QED
    BY <1>1, <1>2, <1>3, <1>4

(* What remains of q below p.                                              *)
LEMMA RestIs ==
    ASSUME NEW p \in Seq(Names), NEW q \in Seq(Names), IsPrefix(p, q)
    PROVE  /\ Rest(p, q) \in Seq(Names)
           /\ Len(Rest(p, q)) = Len(q) - Len(p)
           /\ \A i \in 1..(Len(q) - Len(p)) : Rest(p, q)[i] = q[Len(p) + i]
  <1>1. Len(p) \in Nat /\ Len(q) \in Nat /\ Len(p) <= Len(q)
    BY PrefixIff
  <1>2. \A i \in (Len(p) + 1)..Len(q) : q[i] \in Names
    BY <1>1
  <1> QED
    BY <1>1, <1>2, SubSeqProperties DEF Rest

(* The path that q, below s, has once s has become d, name by name.        *)
LEMMA RebasedIs ==
    ASSUME NEW s \in Seq(Names), NEW d \in Seq(Names), NEW q \in Seq(Names), IsPrefix(s, q)
    PROVE  /\ d \o Rest(s, q) \in Seq(Names)
           /\ Len(d \o Rest(s, q)) = Len(d) + (Len(q) - Len(s))
           /\ \A i \in 1..Len(d) : (d \o Rest(s, q))[i] = d[i]
           /\ \A i \in 1..(Len(q) - Len(s)) : (d \o Rest(s, q))[Len(d) + i] = q[Len(s) + i]
  <1> DEFINE t == Rest(s, q)
  <1>1. Len(s) \in Nat /\ Len(d) \in Nat /\ Len(q) \in Nat /\ Len(s) <= Len(q)
    BY PrefixIff
  <1>2. /\ t \in Seq(Names)
        /\ Len(t) = Len(q) - Len(s)
        /\ \A i \in 1..(Len(q) - Len(s)) : t[i] = q[Len(s) + i]
    BY RestIs
  <1> HIDE DEF t
  <1>3. /\ d \o t \in Seq(Names)
        /\ Len(d \o t) = Len(d) + Len(t)
        /\ \A i \in 1..(Len(d) + Len(t)) : (d \o t)[i] = IF i <= Len(d) THEN d[i] ELSE t[i - Len(d)]
    BY <1>2, ConcatProperties
  <1>4. \A i \in 1..Len(d) : (d \o t)[i] = d[i]
    BY <1>1, <1>2, <1>3
  <1>5. ASSUME NEW i \in 1..(Len(q) - Len(s))
        PROVE  (d \o t)[Len(d) + i] = q[Len(s) + i]
    <2>1. Len(d) + i \in 1..(Len(d) + Len(t)) /\ ~(Len(d) + i <= Len(d)) /\ (Len(d) + i) - Len(d) = i
      BY <1>1, <1>2
    <2> QED
      BY <2>1, <1>2, <1>3
  <1> QED
    BY <1>1, <1>2, <1>3, <1>4, <1>5 DEF t

(* Rebasing from s to d can be undone.                                     *)
LEMMA Rebase ==
    ASSUME NEW s \in Seq(Names), NEW d \in Seq(Names), NEW q \in Seq(Names), IsPrefix(s, q)
    PROVE  /\ d \o Rest(s, q) \in Seq(Names)
           /\ IsPrefix(d, d \o Rest(s, q))
           /\ s \o Rest(d, d \o Rest(s, q)) = q
  <1> DEFINE x == d \o Rest(s, q)
  <1>0. Len(s) \in Nat /\ Len(d) \in Nat /\ Len(q) \in Nat /\ Len(s) <= Len(q)
        /\ \A i \in 1..Len(s) : s[i] = q[i]
    BY PrefixIff
  <1>1. /\ x \in Seq(Names)
        /\ Len(x) = Len(d) + (Len(q) - Len(s))
        /\ \A i \in 1..Len(d) : x[i] = d[i]
        /\ \A i \in 1..(Len(q) - Len(s)) : x[Len(d) + i] = q[Len(s) + i]
    BY RebasedIs
  <1> HIDE DEF x
  <1>2. IsPrefix(d, x)
    BY <1>0, <1>1, PrefixIff
  <1> DEFINE y == s \o Rest(d, x)
  <1>3. /\ y \in Seq(Names)
        /\ Len(y) = Len(s) + (Len(x) - Len(d))
        /\ \A i \in 1..Len(s) : y[i] = s[i]
        /\ \A i \in 1..(Len(x) - Len(d)) : y[Len(s) + i] = x[Len(d) + i]
    BY <1>1, <1>2, RebasedIs
  <1> HIDE DEF y
  <1>4. ASSUME NEW i \in 1..Len(q) PROVE y[i] = q[i]
    <2>1. CASE i <= Len(s)
      BY <2>1, <1>0, <1>3
    <2>2. CASE ~(i <= Len(s))
      <3> DEFINE j == i - Len(s)
      <3>1. j \in 1..(Len(x) - Len(d)) /\ j \in 1..(Len(q) - Len(s)) /\ Len(s) + j = i
        BY <2>2, <1>0, <1>1
      <3> HIDE DEF j
      <3>2. y[Len(s) + j] = q[Len(s) + j]
        BY <3>1, <1>1, <1>3
      <3> QED
        BY <3>1, <3>2
    <2> QED
      BY <2>1, <2>2
  <1>5. Len(y) = Len(q)
    BY <1>0, <1>1, <1>3
  <1>6. y = q
    BY <1>3, <1>4, <1>5, SeqEqual
  <1> QED
    BY <1>1, <1>2, <1>6 DEF x, y

(* Rebasing keeps the order of prefixes.                                   *)
LEMMA RebaseMonotone ==
    ASSUME NEW s \in Seq(Names), NEW d \in Seq(Names), NEW q \in Seq(Names), NEW r \in Seq(Names),
           IsPrefix(s, q), IsPrefix(q, r)
    PROVE  IsPrefix(d \o Rest(s, q), d \o Rest(s, r))
  <1> DEFINE x == d \o Rest(s, q)
             y == d \o Rest(s, r)
  <1>1. IsPrefix(s, r)
    BY PrefixOrder
  <1>2. /\ x \in Seq(Names)
        /\ Len(x) = Len(d) + (Len(q) - Len(s))
        /\ \A i \in 1..Len(d) : x[i] = d[i]
        /\ \A i \in 1..(Len(q) - Len(s)) : x[Len(d) + i] = q[Len(s) + i]
    BY RebasedIs
  <1>3. /\ y \in Seq(Names)
        /\ Len(y) = Len(d) + (Len(r) - Len(s))
        /\ \A i \in 1..Len(d) : y[i] = d[i]
        /\ \A i \in 1..(Len(r) - Len(s)) : y[Len(d) + i] = r[Len(s) + i]
    BY <1>1, RebasedIs
  <1> HIDE DEF x, y
  <1>4. /\ Len(s) \in Nat /\ Len(d) \in Nat /\ Len(q) \in Nat /\ Len(r) \in Nat
        /\ Len(s) <= Len(q) /\ Len(q) <= Len(r) /\ \A i \in 1..Len(q) : q[i] = r[i]
    BY PrefixIff
  <1>5. ASSUME NEW i \in 1..Len(x) PROVE x[i] = y[i]
    <2>1. CASE i <= Len(d)
      BY <2>1, <1>2, <1>3, <1>4
    <2>2. CASE ~(i <= Len(d))
      <3> DEFINE j == i - Len(d)
      <3>1. /\ j \in 1..(Len(q) - Len(s)) /\ j \in 1..(Len(r) - Len(s))
            /\ Len(s) + j \in 1..Len(q) /\ Len(d) + j = i
        BY <2>2, <1>2, <1>4
      <3> HIDE DEF j
      <3>2. x[Len(d) + j] = y[Len(d) + j]
        BY <3>1, <1>2, <1>3, <1>4
      <3> QED
        BY <3>1, <3>2
    <2> QED
      BY <2>1, <2>2
  <1>6. Len(x) <= Len(y)
    BY <1>2, <1>3, <1>4
  <1>7. IsPrefix(x, y)
    BY <1>2, <1>3, <1>5, <1>6, PrefixIff
  <1> QED
    BY <1>7 DEF x, y

-----------------------------------------------------------------------------
(* A tree of names whose nodes are nested in directories.                  *)
Shaped(t) ==
    /\ DOMAIN t \subseteq Seq(Names)
    /\ \A p \in DOMAIN t : t[p] = Dir \/ t[p] \in Seq(Bytes)
    /\ WellFormed(t)

(* WellFormed in terms of prefixes.                                        *)
LEMMA ShapedIff ==
    ASSUME NEW t, DOMAIN t \subseteq Seq(Names)
    PROVE  WellFormed(t) <=>
             /\ IsDir(t, Root)
             /\ \A p \in DOMAIN t : \A q \in Seq(Names) : IsPrefix(q, p) /\ q # p => IsDir(t, q)
  BY AncestorIff DEF WellFormed

(* _ensure_parent leaves a tree in which the whole way to p is made of     *)
(* directories, and nothing else is touched.                               *)
LEMMA WithParentsShaped ==
    ASSUME NEW t, Shaped(t), NEW p \in Seq(Names), NEW create, HasParent(t, p, create)
    PROVE  /\ Shaped(WithParents(t, p))
           /\ \A q \in Ancestors(p) : IsDir(WithParents(t, p), q)
           /\ \A q : q \in DOMAIN WithParents(t, p) <=> q \in DOMAIN t \/ q \in Ancestors(p)
           /\ \A q \in DOMAIN t : WithParents(t, p)[q] = t[q]
           /\ \A q \in DOMAIN WithParents(t, p) \ DOMAIN t : WithParents(t, p)[q] = Dir
  <1> DEFINE u == WithParents(t, p)
  <1>1. DOMAIN u = DOMAIN t \cup Ancestors(p)
    BY DEF WithParents
  <1>2. /\ \A q \in DOMAIN t : u[q] = t[q]
        /\ \A q \in DOMAIN u \ DOMAIN t : u[q] = Dir
    BY DEF WithParents
  <1> HIDE DEF u
  <1>3. \A q \in Ancestors(p) : IsDir(u, q)
    BY <1>1, <1>2 DEF HasParent, IsDir
  <1>4. DOMAIN u \subseteq Seq(Names)
    BY <1>1, AncestorIff DEF Shaped
  <1>5. IsDir(u, Root)
    BY <1>1, <1>2 DEF Shaped, WellFormed, IsDir
  <1>6. ASSUME NEW q \in DOMAIN u, NEW r \in Seq(Names), IsPrefix(r, q), r # q
        PROVE  IsDir(u, r)
    <2>1. CASE q \in DOMAIN t
      <3>1. IsDir(t, r)
        BY <2>1, <1>6, ShapedIff DEF Shaped
      <3> QED
        BY <3>1, <1>1, <1>2 DEF IsDir
    <2>2. CASE q \in Ancestors(p)
      <3>1. q \in Seq(Names) /\ IsPrefix(q, p)
        BY <2>2, AncestorIff
      <3>2. IsPrefix(r, p) /\ r # p
        BY <3>1, <1>6, PrefixOrder
      <3>3. r \in Ancestors(p)
        BY <3>2, AncestorIff
      <3> QED
        BY <3>3, <1>3
    <2> QED
      BY <2>1, <2>2, <1>1
  <1>7. WellFormed(u)
    BY <1>4, <1>5, <1>6, ShapedIff
  <1>8. \A q \in DOMAIN u : u[q] = Dir \/ u[q] \in Seq(Bytes)
    BY <1>2 DEF Shaped
  <1> QED
    BY <1>1, <1>2, <1>3, <1>4, <1>7, <1>8 DEF u, Shaped

(* Placing a node below directories keeps the shape, unless a directory is *)
(* replaced by a file.                                                     *)
LEMMA PutShaped ==
    ASSUME NEW t, Shaped(t), NEW p \in Seq(Names), p # Root, \A q \in Ancestors(p) : IsDir(t, q),
           NEW node, node = Dir \/ node \in Seq(Bytes), node = Dir \/ ~IsDir(t, p)
    PROVE  Shaped(Put(t, p, node))
  <1> DEFINE u == Put(t, p, node)
  <1>1. /\ DOMAIN u = DOMAIN t \cup {p}
        /\ u[p] = node
        /\ \A q \in DOMAIN t : q # p => u[q] = t[q]
    BY DEF Put
  <1> HIDE DEF u
  <1>2. DOMAIN u \subseteq Seq(Names)
    BY <1>1 DEF Shaped
  <1>3. IsDir(u, Root)
    BY <1>1 DEF Shaped, WellFormed, IsDir
  <1>4. ASSUME NEW q \in DOMAIN u, NEW r \in Seq(Names), IsPrefix(r, q), r # q
        PROVE  IsDir(u, r)
    <2>1. IsDir(t, r)
      <3>1. CASE q = p
        BY <3>1, <1>4, AncestorIff
      <3>2. CASE q \in DOMAIN t
        BY <3>2, <1>4, ShapedIff DEF Shaped
      <3> QED
        BY <3>1, <3>2, <1>1
    <2> QED
      BY <2>1, <1>1 DEF IsDir
  <1>5. \A q \in DOMAIN u : u[q] = Dir \/ u[q] \in Seq(Bytes)
    BY <1>1 DEF Shaped
  <1> QED
    BY <1>2, <1>3, <1>4, <1>5, ShapedIff DEF u, Shaped

(* Prune takes away exactly what is below p.                               *)
LEMMA PruneIs ==
    ASSUME NEW t, NEW p
    PROVE  /\ \A q : q \in DOMAIN Prune(t, p) <=> q \in DOMAIN t /\ ~IsPrefix(p, q)
           /\ \A q \in DOMAIN Prune(t, p) : Prune(t, p)[q] = t[q]
  BY DEF Prune, Subtree

(* Removing a whole subtree keeps the shape.                               *)
LEMMA PruneShaped ==
    ASSUME NEW t, Shaped(t), NEW p \in Seq(Names), p # Root
    PROVE  Shaped(Prune(t, p))
  <1> DEFINE u == Prune(t, p)
  <1>1. /\ \A q : q \in DOMAIN u <=> q \in DOMAIN t /\ ~IsPrefix(p, q)
        /\ \A q \in DOMAIN u : u[q] = t[q]
    BY PruneIs
  <1> HIDE DEF u
  <1>2. DOMAIN u \subseteq Seq(Names)
    BY <1>1 DEF Shaped
  <1>3. IsDir(u, Root)
    <2>1. Root \in Seq(Names)
      BY DEF Root
    <2>2. ~IsPrefix(p, Root)
      BY <2>1, PrefixOrder
    <2> QED
      BY <1>1, <2>2 DEF Shaped, WellFormed, IsDir
  <1>4. ASSUME NEW q \in DOMAIN u, NEW r \in Seq(Names), IsPrefix(r, q), r # q
        PROVE  IsDir(u, r)
    <2>1. IsDir(t, r)
      BY <1>1, <1>4, ShapedIff DEF Shaped
    <2>2. ~IsPrefix(p, r)
      BY <1>1, <1>2, <1>4, PrefixOrder
    <2> QED
      BY <2>1, <2>2, <1>1 DEF IsDir
  <1>5. \A q \in DOMAIN u : u[q] = Dir \/ u[q] \in Seq(Bytes)
    BY <1>1 DEF Shaped
  <1> QED
    BY <1>2, <1>3, <1>4, <1>5, ShapedIff DEF u, Shaped

(* u is t with the subtree at s of the tree `from` in the place of what t  *)
(* has at d and below.                                                     *)
Grafted(u, t, d, from, s) ==
    /\ DOMAIN u \subseteq Seq(Names)
    /\ \A q \in Seq(Names) :
         /\ IsPrefix(d, q) => /\ q \in DOMAIN u <=> s \o Rest(d, q) \in DOMAIN from
                              /\ q \in DOMAIN u => u[q] = from[s \o Rest(d, q)]
         /\ ~IsPrefix(d, q) => /\ q \in DOMAIN u <=> q \in DOMAIN t
                               /\ q \in DOMAIN t => u[q] = t[q]

(* Graft puts at d and below exactly what is at s and below in the other   *)
(* tree.                                                                   *)
LEMMA GraftIs ==
    ASSUME NEW t, Shaped(t), NEW from, Shaped(from), NEW d \in Seq(Names), NEW s \in Seq(Names)
    PROVE  Grafted(Graft(t, d, from, s), t, d, from, s)
  <1>d. DOMAIN t \subseteq Seq(Names) /\ DOMAIN from \subseteq Seq(Names)
    BY DEF Shaped
  <1> DEFINE new == {d \o Rest(s, r) : r \in Subtree(from, s)}
             base == Prune(t, d)
             u == Graft(t, d, from, s)
  <1>1. /\ DOMAIN u = DOMAIN base \cup new
        /\ \A r \in new : u[r] = from[s \o Rest(d, r)]
        /\ \A r \in DOMAIN base \ new : u[r] = base[r]
    BY DEF Graft
  <1>2. /\ \A r : r \in DOMAIN base <=> r \in DOMAIN t /\ ~IsPrefix(d, r)
        /\ \A r \in DOMAIN base : base[r] = t[r]
    BY PruneIs
  <1>3. ASSUME NEW q \in Seq(Names)
        PROVE  q \in new <=> IsPrefix(d, q) /\ s \o Rest(d, q) \in DOMAIN from
    <2>1. ASSUME NEW r \in DOMAIN from, IsPrefix(s, r), q = d \o Rest(s, r)
          PROVE  IsPrefix(d, q) /\ s \o Rest(d, q) \in DOMAIN from
      BY <1>d, <2>1, Rebase
    <2>2. ASSUME IsPrefix(d, q), s \o Rest(d, q) \in DOMAIN from
          PROVE  q \in new
      <3> DEFINE r == s \o Rest(d, q)
      <3>1. r \in Seq(Names) /\ IsPrefix(s, r) /\ d \o Rest(s, r) = q
        BY <2>2, Rebase
      <3> QED
        BY <2>2, <3>1 DEF Subtree
    <2> QED
      BY <2>1, <2>2 DEF Subtree
  <1>4. \A q \in Subtree(from, s) : d \o Rest(s, q) \in Seq(Names)
    BY <1>d, Rebase DEF Subtree
  <1>5. DOMAIN u \subseteq Seq(Names)
    BY <1>d, <1>1, <1>2, <1>4
  <1> HIDE DEF new, base, u
  <1>6. ASSUME NEW q \in Seq(Names)
        PROVE  /\ IsPrefix(d, q) => /\ q \in DOMAIN u <=> s \o Rest(d, q) \in DOMAIN from
                                    /\ q \in DOMAIN u => u[q] = from[s \o Rest(d, q)]
               /\ ~IsPrefix(d, q) => /\ q \in DOMAIN u <=> q \in DOMAIN t
                                     /\ q \in DOMAIN t => u[q] = t[q]
    BY <1>1, <1>2, <1>3
  <1>7. Grafted(u, t, d, from, s)
    BY <1>5, <1>6 DEF Grafted
  <1> QED
    BY <1>7 DEF u

(* Grafting below directories keeps the shape.                             *)
LEMMA GraftShaped ==
    ASSUME NEW t, Shaped(t), NEW from, Shaped(from), NEW d \in Seq(Names), d # Root,
           NEW s \in Seq(Names), \A q \in Ancestors(d) : IsDir(t, q)
    PROVE  Shaped(Graft(t, d, from, s))
  <1> DEFINE u == Graft(t, d, from, s)
  <1>g. Grafted(u, t, d, from, s)
    BY GraftIs
  <1> HIDE DEF u
  <1>0. DOMAIN u \subseteq Seq(Names)
    BY <1>g DEF Grafted
  <1>1. ASSUME NEW q \in Seq(Names), IsPrefix(d, q)
        PROVE  /\ q \in DOMAIN u <=> s \o Rest(d, q) \in DOMAIN from
               /\ q \in DOMAIN u => u[q] = from[s \o Rest(d, q)]
    BY <1>g, <1>1 DEF Grafted
  <1>2. ASSUME NEW q \in Seq(Names), ~IsPrefix(d, q)
        PROVE  /\ q \in DOMAIN u <=> q \in DOMAIN t
               /\ q \in DOMAIN t => u[q] = t[q]
    BY <1>g, <1>2 DEF Grafted
  <1>3. IsDir(u, Root)
    <2>1. Root \in Seq(Names)
      BY DEF Root
    <2>2. ~IsPrefix(d, Root)
      BY <2>1, PrefixOrder
    <2> QED
      BY <1>2, <2>1, <2>2 DEF Shaped, WellFormed, IsDir
  <1>4. ASSUME NEW q \in DOMAIN u, NEW r \in Seq(Names), IsPrefix(r, q), r # q
        PROVE  IsDir(u, r)
    <2>0. q \in Seq(Names)
      BY <1>0
    <2>1. CASE ~IsPrefix(d, r)
      <3>1. IsDir(t, r)
        <4>1. CASE IsPrefix(d, q)
          <5>1. IsPrefix(r, d) /\ r # d
            BY <1>4, <2>0, <2>1, <4>1, PrefixOrder
          <5> QED
            BY <5>1, AncestorIff
        <4>2. CASE ~IsPrefix(d, q)
          <5>1. q \in DOMAIN t
            BY <1>2, <2>0, <4>2
          <5> QED
            BY <5>1, <1>4, ShapedIff DEF Shaped
        <4> QED
          BY <4>1, <4>2
      <3> QED
        BY <2>1, <3>1, <1>2 DEF IsDir
    <2>2. CASE IsPrefix(d, r)
      <3> DEFINE x == s \o Rest(d, q)
                 y == s \o Rest(d, r)
      <3>1. IsPrefix(d, q)
        BY <1>4, <2>0, <2>2, PrefixOrder
      <3>2. x \in Seq(Names) /\ y \in Seq(Names) /\ x # y
        <4>1. x \in Seq(Names) /\ d \o Rest(s, x) = q
          BY <2>0, <3>1, Rebase
        <4>2. y \in Seq(Names) /\ d \o Rest(s, y) = r
          BY <2>2, Rebase
        <4> HIDE DEF x, y
        <4> QED
          BY <1>4, <4>1, <4>2
      <3>3. IsPrefix(y, x)
        BY <1>4, <2>0, <2>2, RebaseMonotone
      <3>4. x \in DOMAIN from
        BY <1>1, <2>0, <3>1
      <3> HIDE DEF x, y
      <3>5. IsDir(from, y)
        BY <3>2, <3>3, <3>4, ShapedIff DEF Shaped
      <3> QED
        BY <3>5, <1>1, <2>2 DEF IsDir, y
    <2> QED
      BY <2>1, <2>2
  <1>5. \A q \in DOMAIN u : u[q] = Dir \/ u[q] \in Seq(Bytes)
    BY <1>0, <1>1, <1>2 DEF Shaped
  <1> QED
    BY <1>0, <1>3, <1>4, <1>5, ShapedIff DEF u, Shaped

(* A sum over nothing is 0: the fold's recursive function is unfolded on   *)
(* the only subset of the empty set.                                       *)
LEMMA EmptySum ==
    ASSUME NEW f, DOMAIN f = {}
    PROVE  SumFunction(f) = 0
  <1> DEFINE step(g, s) == IF s = {} THEN 0
                           ELSE f[CHOOSE x \in s : TRUE] + g[s \ {CHOOSE x \in s : TRUE}]
             iter == CHOOSE g : g = [s \in SUBSET DOMAIN f |-> step(g, s)]
  <1>1. SumFunction(f) = iter[DOMAIN f]
    BY DEF SumFunction, SumFunctionOnSet, FoldFunctionOnSet, MapThenFoldSet
  <1>2. \E g : g = [s \in SUBSET DOMAIN f |-> step(g, s)]
    <2> DEFINE g == [s \in {{}} |-> 0]
    <2>1. SUBSET DOMAIN f = {{}}
      OBVIOUS
    <2>2. g = [s \in SUBSET DOMAIN f |-> step(g, s)]
      BY <2>1
    <2> QED
      BY <2>2
  <1>3. iter = [s \in SUBSET DOMAIN f |-> step(iter, s)]
    BY <1>2
  <1>4. iter[DOMAIN f] = 0
    BY <1>3
  <1> QED
    BY <1>1, <1>4

-----------------------------------------------------------------------------
(* What _commit and _prepare_restore_candidate let through.                *)
Sound(t) == Shaped(t) /\ Fits(t)

SoundVersion(v) ==
    /\ v = [tree |-> v.tree, rev |-> v.rev]
    /\ v.rev \in Nat
    /\ Sound(v.tree)

(* The live tree, and the export that a restore may start from.            *)
LiveInv ==
    /\ Sound(tree)
    /\ rev \in Nat
    /\ exported # Nothing => SoundVersion(exported)

(* What a capability stands for is sound, and was issued.                  *)
RestoreInv ==
    /\ used \subseteq Candidates
    /\ candidate = [c \in Candidates |-> candidate[c]]
    /\ holds = [m \in Committers |-> holds[m]]
    /\ \A c \in Candidates : candidate[c] # Nothing => c \in used /\ SoundVersion(candidate[c])
    /\ \A m \in Committers : holds[m] # Nothing => /\ holds[m].cap \in used
                                                   /\ SoundVersion(holds[m].version)

(* What an editor keeps of its read.                                       *)
EditorInv ==
    /\ seen = [e \in Editors |-> seen[e]]
    /\ \A e \in Editors : seen[e] # Nothing => seen[e] \in [path : Paths, content : Seq(Bytes)]

(* RestoreOnce is inductive only with RestoreInv, which says that a        *)
(* capability in somebody's hands was issued and so is not issued again;   *)
(* TreeSound only with the shape of everything a later step may publish:   *)
(* exports, candidates and what was popped.                                *)
IInv == LiveInv /\ RestoreInv /\ RestoreOnce /\ EditorInv

-----------------------------------------------------------------------------
(* The empty workspace of MemoryWorkspace.__init__ is sound.               *)
LEMMA InitInv == Init => IInv
  <1> SUFFICES ASSUME Init PROVE IInv
    OBVIOUS
  <1> USE DEF Init
  <1>1. DOMAIN tree = {Root} /\ tree[Root] = Dir
    OBVIOUS
  <1>2. Root \in Seq(Names) /\ Len(Root) = 0
    BY DEF Root
  <1>3. Shaped(tree)
    BY <1>1, <1>2 DEF Shaped, WellFormed, IsDir, Ancestors
  <1>4. Fits(tree)
    <2>1. TotalBytes(tree) = 0
      BY <1>1, EmptySum DEF TotalBytes
    <2>2. Cardinality(DOMAIN tree) = 1
      BY <1>1, FS_Singleton
    <2> QED
      BY <1>1, <1>2, <2>1, <2>2, LimitsAssumption DEF Fits
  <1>5. LiveInv
    BY <1>3, <1>4 DEF LiveInv, Sound
  <1>6. RestoreInv /\ RestoreOnce
    BY DEF RestoreInv, RestoreOnce
  <1>7. EditorInv
    BY DEF EditorInv
  <1> QED
    BY <1>5, <1>6, <1>7 DEF IInv

(* Steps that leave the restore protocol alone.                            *)
LEMMA QuietRestore ==
    ASSUME IInv, UNCHANGED <<candidate, used, holds>>
    PROVE  RestoreInv' /\ RestoreOnce'
  BY DEF IInv, RestoreInv, RestoreOnce

(* _commit publishes any tree of the right shape: the limits are what it   *)
(* measures itself.                                                        *)
LEMMA CommitKeeps ==
    ASSUME IInv, NEW t, Shaped(t), Commit(t), UNCHANGED restoring
    PROVE  LiveInv' /\ RestoreInv' /\ RestoreOnce'
  <1>1. RestoreInv' /\ RestoreOnce'
    BY QuietRestore DEF restoring
  <1>2. Sound(tree')
    BY DEF Commit, Sound
  <1>3. rev' \in Nat /\ exported' = exported
    BY DEF Commit, restoring, IInv, LiveInv
  <1> QED
    BY <1>1, <1>2, <1>3 DEF IInv, LiveInv

(* Steps that leave the editors alone.                                     *)
LEMMA QuietEditor ==
    ASSUME IInv, UNCHANGED seen
    PROVE  EditorInv'
  BY DEF IInv, EditorInv

(* An editor that is done with what it read.                               *)
LEMMA ForgetKeeps ==
    ASSUME IInv, NEW e \in Editors, Forget(e)
    PROVE  EditorInv'
  BY DEF IInv, EditorInv, Forget

(* A write never turns a directory into a file.                            *)
LEMMA WrittenShaped ==
    ASSUME IInv, NEW p \in Paths, NEW content \in Seq(Bytes), NEW pre, NEW create,
           WriteFile(p, content, pre, create)
    PROVE  Shaped(Put(WithParents(tree, p), p, content))
  <1> DEFINE u == WithParents(tree, p)
  <1>0. p \in Seq(Names) /\ p # Root /\ Shaped(tree) /\ HasParent(tree, p, create) /\ ~IsDir(tree, p)
    BY PathIsSeq DEF WriteFile, Admits, IInv, LiveInv, Sound
  <1>1. Shaped(u) /\ \A q \in Ancestors(p) : IsDir(u, q)
    BY <1>0, WithParentsShaped
  <1>2. ~IsDir(u, p)
    <2>1. p \notin Ancestors(p)
      BY <1>0, AncestorIff
    <2> QED
      BY <1>0, <2>1 DEF WithParents, IsDir
  <1> HIDE DEF u
  <1>3. Shaped(Put(u, p, content))
    BY <1>0, <1>1, <1>2, PutShaped
  <1> QED
    BY <1>3 DEF u

(* What write, append and an editor's write share.                         *)
LEMMA WriteKeeps ==
    ASSUME IInv, NEW p \in Paths, NEW content \in Seq(Bytes), NEW pre, NEW create,
           WriteFile(p, content, pre, create), UNCHANGED restoring
    PROVE  LiveInv' /\ RestoreInv' /\ RestoreOnce'
  <1>1. Shaped(Put(WithParents(tree, p), p, content))
    BY WrittenShaped
  <1>2. Commit(Put(WithParents(tree, p), p, content))
    BY DEF WriteFile
  <1> QED
    BY <1>1, <1>2, CommitKeeps

(* mkdir.                                                                  *)
LEMMA MkdirKeeps ==
    ASSUME IInv, NEW p \in Paths, NEW create, Mkdir(p, create)
    PROVE  IInv'
  <1> DEFINE u == WithParents(tree, p)
  <1>0. p \in Seq(Names) /\ Shaped(tree) /\ HasParent(tree, p, create) /\ p \notin DOMAIN tree
    BY PathIsSeq DEF Mkdir, IInv, LiveInv, Sound
  <1>1. p # Root
    BY <1>0 DEF Shaped, WellFormed, IsDir
  <1>2. Shaped(u) /\ \A q \in Ancestors(p) : IsDir(u, q)
    BY <1>0, WithParentsShaped
  <1>3. Commit(Put(u, p, Dir)) /\ UNCHANGED <<restoring, seen>>
    BY DEF Mkdir
  <1> HIDE DEF u
  <1>4. Shaped(Put(u, p, Dir))
    BY <1>0, <1>1, <1>2, PutShaped
  <1> QED
    BY <1>3, <1>4, CommitKeeps, QuietEditor DEF IInv

(* remove.                                                                 *)
LEMMA RemoveKeeps ==
    ASSUME IInv, NEW p \in Paths, NEW recursive, RemovePath(p, recursive)
    PROVE  IInv'
  <1>1. p \in Seq(Names) /\ p # Root /\ Shaped(tree)
    BY PathIsSeq DEF RemovePath, IInv, LiveInv, Sound
  <1>2. Shaped(Prune(tree, p))
    BY <1>1, PruneShaped
  <1>3. Commit(Prune(tree, p)) /\ UNCHANGED <<restoring, seen>>
    BY DEF RemovePath
  <1> QED
    BY <1>2, <1>3, CommitKeeps, QuietEditor DEF IInv

(* What copy and move graft onto: the ways to the destination survive,     *)
(* even when the source of a move is taken away, because neither path is   *)
(* above the other.                                                        *)
LEMMA TransferBase ==
    ASSUME IInv, NEW s \in Paths, NEW d \in Paths, NEW create, NEW overwrite,
           Transferable(s, d, create, overwrite)
    PROVE  /\ s \in Seq(Names) /\ d \in Seq(Names) /\ s # Root /\ d # Root
           /\ Shaped(tree) /\ Shaped(WithParents(tree, d)) /\ Shaped(Prune(WithParents(tree, d), s))
           /\ \A q \in Ancestors(d) : /\ IsDir(WithParents(tree, d), q)
                                      /\ IsDir(Prune(WithParents(tree, d), s), q)
  <1> DEFINE u == WithParents(tree, d)
  <1>1. /\ s \in Seq(Names) /\ d \in Seq(Names) /\ s # Root /\ d # Root
        /\ Shaped(tree) /\ HasParent(tree, d, create) /\ ~IsPrefix(s, d)
    BY PathIsSeq DEF Transferable, IInv, LiveInv, Sound
  <1>2. Shaped(u) /\ \A q \in Ancestors(d) : IsDir(u, q)
    BY <1>1, WithParentsShaped
  <1> HIDE DEF u
  <1>3. Shaped(Prune(u, s))
    BY <1>1, <1>2, PruneShaped
  <1>4. ASSUME NEW q \in Ancestors(d) PROVE IsDir(Prune(u, s), q)
    <2>1. q \in Seq(Names) /\ IsPrefix(q, d)
      BY <1>1, AncestorIff
    <2>2. ~IsPrefix(s, q)
      BY <1>1, <2>1, PrefixOrder
    <2> QED
      BY <1>2, <2>2, PruneIs DEF IsDir
  <1> QED
    BY <1>1, <1>2, <1>3, <1>4 DEF u

(* copy.                                                                   *)
LEMMA CopyKeeps ==
    ASSUME IInv, NEW s \in Paths, NEW d \in Paths, NEW create, NEW overwrite,
           Copy(s, d, create, overwrite)
    PROVE  IInv'
  <1>1. Transferable(s, d, create, overwrite)
    BY DEF Copy
  <1>2. Shaped(Graft(WithParents(tree, d), d, tree, s))
    BY <1>1, TransferBase, GraftShaped
  <1>3. Commit(Graft(WithParents(tree, d), d, tree, s)) /\ UNCHANGED <<restoring, seen>>
    BY DEF Copy
  <1> QED
    BY <1>2, <1>3, CommitKeeps, QuietEditor DEF IInv

(* move.                                                                   *)
LEMMA MoveKeeps ==
    ASSUME IInv, NEW s \in Paths, NEW d \in Paths, NEW create, NEW overwrite,
           Move(s, d, create, overwrite)
    PROVE  IInv'
  <1> DEFINE u == Prune(WithParents(tree, d), s)
  <1>1. Transferable(s, d, create, overwrite)
    BY DEF Move
  <1>2. Shaped(Graft(u, d, tree, s))
    BY <1>1, TransferBase, GraftShaped
  <1>3. Commit(Graft(u, d, tree, s)) /\ UNCHANGED <<restoring, seen>>
    BY DEF Move
  <1> HIDE DEF u
  <1> QED
    BY <1>2, <1>3, CommitKeeps, QuietEditor DEF IInv

(* A patch replaces files by files.                                        *)
LEMMA PatchShaped ==
    ASSUME Shaped(tree), NEW update, PatchFiles(update),
           \A p \in DOMAIN update : update[p] \in Seq(Bytes)
    PROVE  Shaped([p \in DOMAIN tree |-> IF p \in DOMAIN update THEN update[p] ELSE tree[p]])
  <1> DEFINE u == [p \in DOMAIN tree |-> IF p \in DOMAIN update THEN update[p] ELSE tree[p]]
  <1>1. /\ DOMAIN u = DOMAIN tree
        /\ \A p \in DOMAIN tree : u[p] = IF p \in DOMAIN update THEN update[p] ELSE tree[p]
    OBVIOUS
  <1>2. \A p \in DOMAIN update : p \in DOMAIN tree /\ tree[p] # Dir
    BY DEF PatchFiles, IsFile
  <1> HIDE DEF u
  <1>3. \A p : IsDir(tree, p) => IsDir(u, p)
    BY <1>1, <1>2 DEF IsDir
  <1>4. WellFormed(u)
    BY <1>1, <1>3 DEF Shaped, WellFormed
  <1>5. Shaped(u)
    BY <1>1, <1>4 DEF Shaped
  <1> QED
    BY <1>5 DEF u

(* What both forms of apply_patch share.                                   *)
LEMMA PatchKeeps ==
    ASSUME IInv, NEW update, PatchFiles(update), UNCHANGED restoring,
           \A p \in DOMAIN update : update[p] \in Seq(Bytes)
    PROVE  LiveInv' /\ RestoreInv' /\ RestoreOnce'
  <1> DEFINE u == [p \in DOMAIN tree |-> IF p \in DOMAIN update THEN update[p] ELSE tree[p]]
  <1>1. Shaped(tree)
    BY DEF IInv, LiveInv, Sound
  <1>2. Shaped(u)
    BY <1>1, PatchShaped
  <1>3. Commit(u)
    BY DEF PatchFiles
  <1> HIDE DEF u
  <1> QED
    BY <1>2, <1>3, CommitKeeps

(* What an editor has read is a path and a content.                        *)
LEMMA SeenIs ==
    ASSUME IInv, NEW e \in Editors, seen[e] # Nothing
    PROVE  seen[e].path \in Paths /\ seen[e].content \in Seq(Bytes)
  BY DEF IInv, EditorInv

(* A write under the hash that was read.                                   *)
LEMMA EditKeeps ==
    ASSUME IInv, NEW e \in Editors, NEW byte \in Bytes, Edit(e, byte)
    PROVE  IInv'
  <1>1. seen[e].path \in Paths /\ Append(seen[e].content, byte) \in Seq(Bytes)
    BY SeenIs, AppendProperties DEF Edit
  <1>2. LiveInv' /\ RestoreInv' /\ RestoreOnce'
    BY <1>1, WriteKeeps DEF Edit
  <1>3. EditorInv'
    BY ForgetKeeps DEF Edit
  <1> QED
    BY <1>2, <1>3 DEF IInv

(* A patch under the hash that was read.                                   *)
LEMMA PatchExpectingKeeps ==
    ASSUME IInv, NEW e \in Editors, NEW p \in Paths, NEW byte \in Bytes, NEW other \in Inputs,
           PatchExpecting(e, p, byte, other)
    PROVE  IInv'
  <1> DEFINE update == [q \in {seen[e].path, p} |->
                          IF q = p THEN other ELSE Append(seen[e].content, byte)]
  <1>1. Append(seen[e].content, byte) \in Seq(Bytes) /\ other \in Seq(Bytes)
    BY SeenIs, AppendProperties, InputsAssumption DEF PatchExpecting
  <1>2. \A q \in DOMAIN update : update[q] \in Seq(Bytes)
    BY <1>1
  <1>3. PatchFiles(update) /\ Forget(e) /\ UNCHANGED restoring
    BY DEF PatchExpecting
  <1> HIDE DEF update
  <1>4. LiveInv' /\ RestoreInv' /\ RestoreOnce'
    BY <1>2, <1>3, PatchKeeps
  <1>5. EditorInv'
    BY <1>3, ForgetKeeps
  <1> QED
    BY <1>4, <1>5 DEF IInv

(* A read.                                                                 *)
LEMMA ReadKeeps ==
    ASSUME IInv, NEW e \in Editors, NEW p \in Paths, Read(e, p)
    PROVE  IInv'
  <1>1. tree[p] \in Seq(Bytes)
    BY DEF Read, IsFile, IInv, LiveInv, Sound, Shaped
  <1>2. EditorInv'
    BY <1>1 DEF Read, IInv, EditorInv
  <1>3. LiveInv'
    BY DEF Read, restoring, IInv, LiveInv
  <1>4. RestoreInv' /\ RestoreOnce'
    BY QuietRestore DEF Read, restoring
  <1> QED
    BY <1>2, <1>3, <1>4 DEF IInv

(* export.                                                                 *)
LEMMA ExportKeeps ==
    ASSUME IInv, Export
    PROVE  IInv'
  <1>1. LiveInv'
    BY DEF Export, IInv, LiveInv, SoundVersion
  <1> QED
    BY <1>1, QuietRestore, QuietEditor DEF Export, IInv

(* _prepare_restore_candidate: what it accepts is sound, and its           *)
(* capability is new.                                                      *)
LEMMA PrepareKeeps ==
    ASSUME IInv, NEW c \in Candidates, NEW v \in Versions, NEW required, Prepare(c, v, required)
    PROVE  IInv'
  <1>1. SoundVersion(v)
    <2>1. CASE v \in Foreign
      BY <2>1, ForeignAssumption DEF Prepare, SoundVersion, Sound, Shaped
    <2>2. CASE v = exported /\ exported # Nothing
      BY <2>2 DEF IInv, LiveInv
    <2> QED
      BY <2>1, <2>2 DEF Versions
  <1>2. RestoreInv'
    BY <1>1 DEF Prepare, IInv, RestoreInv
  <1>3. RestoreOnce'
    BY DEF Prepare, IInv, RestoreInv, RestoreOnce
  <1>4. LiveInv' /\ EditorInv'
    BY QuietEditor DEF Prepare, IInv, LiveInv
  <1> QED
    BY <1>2, <1>3, <1>4 DEF IInv

(* The capability is popped: whoever holds one is alone.                   *)
LEMMA TakeKeeps ==
    ASSUME IInv, NEW m \in Committers, NEW c \in Candidates, TakeCandidate(m, c)
    PROVE  IInv'
  <1>1. RestoreInv'
    BY DEF TakeCandidate, IInv, RestoreInv
  <1>2. RestoreOnce'
    BY DEF TakeCandidate, IInv, RestoreInv, RestoreOnce
  <1>3. LiveInv' /\ EditorInv'
    BY QuietEditor DEF TakeCandidate, IInv, LiveInv
  <1> QED
    BY <1>1, <1>2, <1>3 DEF IInv

(* A commit_restore that is cancelled gives up what it popped.             *)
LEMMA CommitCancelledKeeps ==
    ASSUME IInv, NEW m \in Committers, CommitCancelled(m)
    PROVE  IInv'
  <1>1. RestoreInv'
    BY DEF CommitCancelled, IInv, RestoreInv
  <1>2. RestoreOnce'
    BY DEF CommitCancelled, IInv, RestoreInv, RestoreOnce
  <1>3. LiveInv' /\ EditorInv'
    BY QuietEditor DEF CommitCancelled, IInv, LiveInv
  <1> QED
    BY <1>1, <1>2, <1>3 DEF IInv

(* A publication makes a sound version the live one.                       *)
LEMMA PublishKeeps ==
    ASSUME IInv, NEW m \in Committers, Publish(m)
    PROVE  IInv'
  <1>1. RestoreInv'
    BY DEF Publish, IInv, RestoreInv
  <1>2. RestoreOnce'
    BY DEF Publish, IInv, RestoreInv, RestoreOnce
  <1>3. LiveInv'
    BY DEF Publish, IInv, LiveInv, RestoreInv, SoundVersion
  <1> QED
    BY <1>1, <1>2, <1>3, QuietEditor DEF Publish, IInv

(* Every step keeps the invariant.                                         *)
LEMMA NextKeeps == IInv /\ [Next]_vars => IInv'
  <1> SUFFICES ASSUME IInv, [Next]_vars PROVE IInv'
    OBVIOUS
  <1>1. ASSUME NEW p \in Paths, NEW create \in BOOLEAN,
               Mkdir(p, create) \/ RemovePath(p, create)
        PROVE  IInv'
    BY <1>1, MkdirKeeps, RemoveKeeps
  <1>2. ASSUME NEW p \in Paths, NEW create \in BOOLEAN, NEW content \in Inputs,
               NEW pre \in Preconditions,
               Write(p, content, pre, create) \/ AppendTo(p, content, pre, create)
        PROVE  IInv'
    <2>1. content \in Seq(Bytes)
      BY InputsAssumption
    <2>2. Current(p) \o content \in Seq(Bytes)
      <3>1. Current(p) \in Seq(Bytes)
        BY DEF Current, IsFile, IInv, LiveInv, Sound, Shaped
      <3> QED
        BY <2>1, <3>1, ConcatProperties
    <2>3. LiveInv' /\ RestoreInv' /\ RestoreOnce'
      <3>1. CASE Write(p, content, pre, create)
        BY <3>1, <2>1, WriteKeeps DEF Write
      <3>2. CASE AppendTo(p, content, pre, create)
        BY <3>2, <2>2, WriteKeeps DEF AppendTo
      <3> QED
        BY <1>2, <3>1, <3>2
    <2>4. EditorInv'
      BY <1>2, QuietEditor DEF Write, AppendTo
    <2> QED
      BY <2>3, <2>4 DEF IInv
  <1>3. ASSUME NEW p \in Paths, NEW d \in Paths, NEW create \in BOOLEAN, NEW overwrite \in BOOLEAN,
               Copy(p, d, create, overwrite) \/ Move(p, d, create, overwrite)
        PROVE  IInv'
    BY <1>3, CopyKeeps, MoveKeeps
  <1>4. ASSUME NEW p \in Paths, NEW q \in Paths, NEW content \in Inputs, NEW other \in Inputs,
               Patch([x \in {p, q} |-> IF x = p THEN content ELSE other])
        PROVE  IInv'
    <2> DEFINE update == [x \in {p, q} |-> IF x = p THEN content ELSE other]
    <2>1. \A x \in DOMAIN update : update[x] \in Seq(Bytes)
      BY InputsAssumption
    <2>2. PatchFiles(update) /\ UNCHANGED <<restoring, seen>>
      BY <1>4 DEF Patch
    <2> HIDE DEF update
    <2> QED
      BY <2>1, <2>2, PatchKeeps, QuietEditor DEF IInv
  <1>5. ASSUME NEW e \in Editors, NEW p \in Paths, Read(e, p) PROVE IInv'
    BY <1>5, ReadKeeps
  <1>6. ASSUME NEW e \in Editors, NEW byte \in Bytes, Edit(e, byte) PROVE IInv'
    BY <1>6, EditKeeps
  <1>7. ASSUME NEW e \in Editors, NEW p \in Paths, NEW byte \in Bytes, NEW other \in Inputs,
               PatchExpecting(e, p, byte, other)
        PROVE  IInv'
    BY <1>7, PatchExpectingKeeps
  <1>8. CASE Export
    BY <1>8, ExportKeeps
  <1>9. ASSUME NEW c \in Candidates, NEW v \in Versions, NEW p \in Paths, Prepare(c, v, p)
        PROVE  IInv'
    BY <1>9, PrepareKeeps
  <1>10. ASSUME NEW m \in Committers, NEW c \in Candidates, TakeCandidate(m, c) PROVE IInv'
    BY <1>10, TakeKeeps
  <1>11. ASSUME NEW m \in Committers, CommitCancelled(m) \/ Publish(m) PROVE IInv'
    BY <1>11, CommitCancelledKeeps, PublishKeeps
  <1>12. CASE UNCHANGED vars
    <2>1. LiveInv'
      BY <1>12 DEF vars, IInv, LiveInv
    <2> QED
      BY <1>12, <2>1, QuietRestore, QuietEditor DEF vars, IInv
  <1> QED
    BY <1>1, <1>2, <1>3, <1>4, <1>5, <1>6, <1>7, <1>8, <1>9, <1>10, <1>11, <1>12 DEF Next

(* The inductive invariant holds throughout, for all trees, limits,        *)
(* contents and numbers of callers.                                        *)
THEOREM WorkspaceInvariant == Spec => []IInv
  BY InitInv, NextKeeps, PTL DEF Spec

(* What the invariant says of a tree is what TypeOK and TreeSound ask of   *)
(* it.                                                                     *)
LEMMA SoundIsLimited ==
    ASSUME NEW t, Sound(t)
    PROVE  IsTree(t) /\ WellFormed(t) /\ Limited(t)
  <1>1. DOMAIN t \subseteq Paths
    BY PathIsSeq DEF Sound, Shaped, Fits
  <1> QED
    BY <1>1 DEF Sound, Shaped, Fits, IsTree, Limited, IsFile

(* Every variable of MemoryWorkspace keeps its type.                       *)
THEOREM TypeCorrect == Spec => []TypeOK
  <1>1. IInv => TypeOK
    <2> SUFFICES ASSUME IInv PROVE TypeOK
      OBVIOUS
    <2>1. \A v : SoundVersion(v) => IsVersion(v)
      BY SoundIsLimited DEF SoundVersion, IsVersion
    <2>2. IsTree(tree) /\ rev \in Nat /\ (exported # Nothing => IsVersion(exported))
      BY <2>1, SoundIsLimited DEF IInv, LiveInv
    <2>3. /\ used \subseteq Candidates
          /\ \A c \in Candidates : candidate[c] # Nothing => IsVersion(candidate[c])
          /\ \A m \in Committers : holds[m] # Nothing => /\ holds[m].cap \in Candidates
                                                         /\ IsVersion(holds[m].version)
      BY <2>1 DEF IInv, RestoreInv
    <2>4. \A e \in Editors : seen[e] # Nothing => /\ seen[e].path \in Paths
                                                  /\ seen[e].content \in Seq(Bytes)
      BY SeenIs
    <2> QED
      BY <2>2, <2>3, <2>4 DEF TypeOK
  <1> QED
    BY <1>1, WorkspaceInvariant, PTL

(* After any history of mutations and restores the live tree, and every    *)
(* tree about to be published by commit_restore, is well-formed and within *)
(* every limit.                                                            *)
THEOREM TreesSound == Spec => []TreeSound
  <1>1. IInv => TreeSound
    <2> SUFFICES ASSUME IInv PROVE TreeSound
      OBVIOUS
    <2>1. WellFormed(tree) /\ Limited(tree)
      BY SoundIsLimited DEF IInv, LiveInv
    <2>2. \A m \in Committers : holds[m] # Nothing =>
             WellFormed(holds[m].version.tree) /\ Limited(holds[m].version.tree)
      BY SoundIsLimited DEF IInv, RestoreInv, SoundVersion
    <2> QED
      BY <2>1, <2>2 DEF TreeSound
  <1> QED
    BY <1>1, WorkspaceInvariant, PTL

(* A prepared restore is published at most once, however many calls of     *)
(* commit_restore race for it.                                             *)
THEOREM RestoredOnce == Spec => []RestoreOnce
  <1>1. IInv => RestoreOnce
    BY DEF IInv
  <1> QED
    BY <1>1, WorkspaceInvariant, PTL

(* The tree of _state changes only with its revision: by one, or as the    *)
(* pair that a restore publishes.                                          *)
THEOREM RevisionsDisciplined == Spec => RevisionDiscipline
  <1> DEFINE Disciplined ==
        \/ tree' = tree /\ rev' = rev
        \/ rev' = rev + 1 /\ holds' = holds
        \/ \E m \in Committers : /\ holds[m] # Nothing
                                 /\ holds'[m] = Nothing
                                 /\ [tree |-> tree', rev |-> rev'] = holds[m].version
  <1>1. IInv /\ [Next]_vars => [Disciplined]_vars
    <2> SUFFICES ASSUME IInv, Next PROVE Disciplined
      OBVIOUS
    <2>1. ASSUME NEW t, Commit(t), UNCHANGED restoring PROVE Disciplined
      BY <2>1 DEF Commit, restoring
    <2>2. ASSUME UNCHANGED <<tree, rev>> PROVE Disciplined
      BY <2>2
    <2>3. ASSUME NEW m \in Committers, Publish(m) PROVE Disciplined
      <3>1. holds[m].version = [tree |-> tree', rev |-> rev']
        BY <2>3 DEF Publish, IInv, RestoreInv, SoundVersion
      <3>2. holds'[m] = Nothing
        BY <2>3 DEF Publish, IInv, RestoreInv
      <3> QED
        BY <2>3, <3>1, <3>2 DEF Publish
    <2> HIDE DEF Disciplined
    <2>4. ASSUME NEW p, NEW create,
                 \/ Mkdir(p, create) \/ RemovePath(p, create)
                 \/ \E content, pre : Write(p, content, pre, create) \/ AppendTo(p, content, pre, create)
                 \/ \E d, overwrite : Copy(p, d, create, overwrite) \/ Move(p, d, create, overwrite)
          PROVE  Disciplined
      BY <2>1, <2>4 DEF Mkdir, RemovePath, Write, AppendTo, WriteFile, Copy, Move
    <2>5. ASSUME NEW update, Patch(update) PROVE Disciplined
      BY <2>1, <2>5 DEF Patch, PatchFiles
    <2>6. ASSUME NEW e, \/ \E p : Read(e, p)
                        \/ \E byte : Edit(e, byte)
                        \/ \E p, byte, other : PatchExpecting(e, p, byte, other)
          PROVE  Disciplined
      BY <2>1, <2>2, <2>6 DEF Read, Edit, WriteFile, PatchExpecting, PatchFiles
    <2>7. ASSUME \/ Export
                 \/ \E c, v, p : Prepare(c, v, p)
                 \/ \E m, c : TakeCandidate(m, c)
                 \/ \E m : CommitCancelled(m)
          PROVE  Disciplined
      BY <2>2, <2>7 DEF Export, Prepare, TakeCandidate, CommitCancelled
    <2> QED
      BY <2>3, <2>4, <2>5, <2>6, <2>7 DEF Next
  <1> QED
    BY <1>1, WorkspaceInvariant, PTL DEF Spec, RevisionDiscipline

(* A write or patch under a content hash extends exactly the content that  *)
(* was read, whatever happened in between.                                 *)
THEOREM EditsCurrent == Spec => NoStaleEdit
  <1> DEFINE Extended(e) ==
        /\ IsFile(tree, seen[e].path)
        /\ \E byte \in Bytes : tree'[seen[e].path] = Append(tree[seen[e].path], byte)
      Fresh(e) == seen[e] # Nothing /\ seen'[e] = Nothing => Extended(e)
  <1>1. IInv /\ [Next]_vars => [\A e \in Editors : Fresh(e)]_vars
    <2> SUFFICES ASSUME IInv, Next, NEW e \in Editors, seen[e] # Nothing, seen'[e] = Nothing
                 PROVE  Extended(e)
      OBVIOUS
    <2>0. /\ seen[e].path \in Paths /\ seen[e].content \in Seq(Bytes)
          /\ seen = [f \in Editors |-> seen[f]]
      BY SeenIs DEF IInv, EditorInv
    <2>1. ASSUME NEW f \in Editors, Forget(f) PROVE f = e
      BY <2>0, <2>1 DEF Forget
    <2>2. ASSUME NEW f \in Editors, NEW byte \in Bytes, Edit(f, byte)
          PROVE  Extended(e)
      <3> DEFINE p == seen[e].path
                 content == seen[e].content
      <3>1. f = e
        BY <2>1, <2>2 DEF Edit
      <3>2. IsFile(tree, p) /\ tree[p] = content
        BY <2>0, <2>2, <3>1, DirAssumption DEF Edit, WriteFile, Admits, IsFile, IsDir
      <3>3. tree'[p] = Append(content, byte)
        BY <2>2, <3>1 DEF Edit, WriteFile, Commit, Put
      <3> QED
        BY <3>2, <3>3
    <2>3. ASSUME NEW f \in Editors, NEW q \in Paths, NEW byte \in Bytes, NEW other \in Inputs,
                 PatchExpecting(f, q, byte, other)
          PROVE  Extended(e)
      <3> DEFINE p == seen[e].path
                 content == seen[e].content
      <3>1. f = e
        BY <2>1, <2>3 DEF PatchExpecting
      <3>2. IsFile(tree, p) /\ tree[p] = content
        BY <2>0, <2>3, <3>1, DirAssumption DEF PatchExpecting, Admits, IsFile, IsDir
      <3>3. tree'[p] = Append(content, byte)
        BY <2>3, <3>1, <3>2 DEF PatchExpecting, PatchFiles, Commit, IsFile
      <3> QED
        BY <3>2, <3>3
    <2>4. ASSUME NEW f \in Editors, NEW p \in Paths, Read(f, p) PROVE FALSE
      <3>1. [path |-> p, content |-> tree[p]] \in [path : Paths, content : Seq(Bytes)]
        BY <2>4 DEF Read, IsFile, IInv, LiveInv, Sound, Shaped
      <3> QED
        BY <2>0, <2>4, <3>1, NothingAssumption DEF Read
    <2>5. ASSUME UNCHANGED seen PROVE FALSE
      BY <2>5
    <2> HIDE DEF Extended
    <2> QED
      BY <2>2, <2>3, <2>4, <2>5 DEF Next, Mkdir, RemovePath, Write, AppendTo, Copy, Move, Patch,
         Export, Prepare, TakeCandidate, CommitCancelled, Publish
  <1> QED
    BY <1>1, WorkspaceInvariant, PTL DEF Spec, NoStaleEdit

(* What a graft onto the parents of d, with or without what is below s,    *)
(* amounts to path by path.                                                *)
LEMMA TransferredIs ==
    ASSUME NEW s \in Seq(Names), NEW d \in Seq(Names), ~IsPrefix(s, d), ~IsPrefix(d, s),
           Shaped(tree), HasParent(tree, d, TRUE), NEW moved \in BOOLEAN,
           Grafted(tree', IF moved THEN Prune(WithParents(tree, d), s) ELSE WithParents(tree, d),
                   d, tree, s)
    PROVE  Transferred(s, d, moved)
  <1> DEFINE Old(p) == IF p \in DOMAIN tree THEN <<tree[p]>> ELSE <<>>
             New(p) == IF p \in DOMAIN tree' THEN <<tree'[p]>> ELSE <<>>
             u == WithParents(tree, d)
             w == IF moved THEN Prune(u, s) ELSE u
  <1>1. /\ \A q : q \in DOMAIN u <=> q \in DOMAIN tree \/ q \in Ancestors(d)
        /\ \A q \in DOMAIN tree : u[q] = tree[q]
        /\ \A q \in DOMAIN u \ DOMAIN tree : u[q] = Dir
    BY WithParentsShaped
  <1> HIDE DEF u
  <1>2. /\ \A q : q \in DOMAIN w <=> q \in DOMAIN u /\ ~(moved /\ IsPrefix(s, q))
        /\ \A q \in DOMAIN w : w[q] = u[q]
    BY PruneIs
  <1>3. Grafted(tree', w, d, tree, s)
    BY DEF u
  <1> HIDE DEF w
  <1> SUFFICES ASSUME NEW p \in Paths
               PROVE  CASE IsPrefix(d, p) -> New(p) = Old(s \o Rest(d, p))
                        [] IsPrefix(s, p) -> New(p) = IF moved THEN <<>> ELSE Old(p)
                        [] OTHER -> New(p) = Old(p) \/ (p \in Ancestors(d) /\ New(p) = <<Dir>>)
    BY DEF Transferred
  <1>4. p \in Seq(Names)
    BY PathIsSeq
  <1>5. CASE IsPrefix(d, p)
    <2>1. ~IsPrefix(s, p)
      BY <1>4, <1>5, PrefixOrder
    <2>2. New(p) = Old(s \o Rest(d, p))
      BY <1>3, <1>4, <1>5 DEF Grafted
    <2> QED
      BY <1>5, <2>1, <2>2
  <1>6. CASE ~IsPrefix(d, p) /\ IsPrefix(s, p)
    <2>1. p \notin Ancestors(d)
      BY <1>4, <1>6, AncestorIff, PrefixOrder
    <2>2. /\ p \in DOMAIN tree' <=> p \in DOMAIN w
          /\ p \in DOMAIN w => tree'[p] = w[p]
      BY <1>3, <1>4, <1>6 DEF Grafted
    <2>3. New(p) = IF moved THEN <<>> ELSE Old(p)
      BY <1>1, <1>2, <1>6, <2>1, <2>2
    <2> QED
      BY <1>6, <2>3
  <1>7. CASE ~IsPrefix(d, p) /\ ~IsPrefix(s, p)
    <2>1. /\ p \in DOMAIN tree' <=> p \in DOMAIN w
          /\ p \in DOMAIN w => tree'[p] = w[p]
      BY <1>3, <1>4, <1>7 DEF Grafted
    <2>2. New(p) = Old(p) \/ (p \in Ancestors(d) /\ New(p) = <<Dir>>)
      BY <1>1, <1>2, <1>7, <2>1
    <2> QED
      BY <1>7, <2>2
  <1> QED
    BY <1>5, <1>6, <1>7

(* copy and move put the whole source and nothing else below the           *)
(* destination, and leave the rest of the tree as it was but for the       *)
(* directories created on the way.                                         *)
THEOREM TransfersExact == Spec => TransferExact
  <1> DEFINE Exact == \A s \in DOMAIN tree, d \in DOMAIN tree' :
                        /\ Copy(s, d, TRUE, TRUE) => Transferred(s, d, FALSE)
                        /\ Move(s, d, TRUE, TRUE) => Transferred(s, d, TRUE)
  <1>1. IInv /\ IInv' /\ [Next]_vars => [Exact]_vars
    <2> SUFFICES ASSUME IInv, IInv', NEW s \in DOMAIN tree, NEW d \in DOMAIN tree'
                 PROVE  /\ Copy(s, d, TRUE, TRUE) => Transferred(s, d, FALSE)
                        /\ Move(s, d, TRUE, TRUE) => Transferred(s, d, TRUE)
      OBVIOUS
    <2>1. s \in Paths /\ d \in Paths /\ Shaped(tree)
      BY SoundIsLimited DEF IInv, LiveInv, Sound, Limited
    <2>2. ASSUME Transferable(s, d, TRUE, TRUE)
          PROVE  /\ s \in Seq(Names) /\ d \in Seq(Names) /\ HasParent(tree, d, TRUE)
                 /\ ~IsPrefix(s, d) /\ ~IsPrefix(d, s)
                 /\ Shaped(WithParents(tree, d)) /\ Shaped(Prune(WithParents(tree, d), s))
      BY <2>1, <2>2, TransferBase DEF Transferable
    <2>3. ASSUME Copy(s, d, TRUE, TRUE) PROVE Transferred(s, d, FALSE)
      <3>1. Transferable(s, d, TRUE, TRUE) /\ tree' = Graft(WithParents(tree, d), d, tree, s)
        BY <2>3 DEF Copy, Commit
      <3>2. Grafted(tree', WithParents(tree, d), d, tree, s)
        BY <2>1, <2>2, <3>1, GraftIs
      <3> QED
        BY <2>1, <2>2, <3>1, <3>2, TransferredIs
    <2>4. ASSUME Move(s, d, TRUE, TRUE) PROVE Transferred(s, d, TRUE)
      <3>1. Transferable(s, d, TRUE, TRUE)
            /\ tree' = Graft(Prune(WithParents(tree, d), s), d, tree, s)
        BY <2>4 DEF Move, Commit
      <3>2. Grafted(tree', Prune(WithParents(tree, d), s), d, tree, s)
        BY <2>1, <2>2, <3>1, GraftIs
      <3> QED
        BY <2>1, <2>2, <3>1, <3>2, TransferredIs
    <2> QED
      BY <2>3, <2>4
  <1> QED
    BY <1>1, WorkspaceInvariant, PTL DEF Spec, TransferExact
=============================================================================
